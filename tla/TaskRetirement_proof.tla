------------------------ MODULE TaskRetirement_proof ------------------------
(***************************************************************************)
(* What TLAPS proves of the registry for every number of slots, services,  *)
(* clients and TCB addresses, in two layers.  The first invariant, Inv,    *)
(* ties each live worker to the one record made for it and each reaper to  *)
(* the one record it claimed; it never speaks of reference counts, which   *)
(* no step on a live worker's record depends on.  The second, Layer, stands *)
(* on it: every record is counted by exactly the tickets that name it.     *)
(***************************************************************************)
EXTENDS TaskRetirement, TLAPS, WellFoundedInduction, FiniteSetTheorems

\* Where a caller stands in each operation, and that Start is one service-mutex section.
StagesOK ==
    \A c \in Callers :
        /\ call[c].op \in {"start", "stop", "destroy"} => call[c].service \in Services
        /\ call[c].op = "none" => call[c].at \in {"idle", "destroyed"}
        /\ call[c].op = "start" =>
              /\ call[c].at \in {"ensure", "allocate", "admit", "create", "publish",
                                 "leave", "cancel", "restore"}
              /\ mutex[call[c].service] = c
        /\ call[c].op = "stop" => call[c].at \in {"copy", "reap", "delete", "mark", "joined"}
        /\ call[c].op = "destroy" =>
              call[c].at \in {"copy", "reap", "delete", "mark", "joined", "drain", "drained"}
        /\ call[c].op = "pump" => call[c].at \in {"reap", "delete", "mark", "joined"}

\* A Start between its reservation and its publication: the member ticket names
\* its Reserved record, and the created worker waits for it.
StartsOK ==
    \A c \in Callers : call[c].at \in {"create", "publish", "cancel"} =>
        LET s == call[c].service  t == member[s]  h == call[c].handle IN
        /\ RecordOf(t).state = "Reserved"
        /\ RecordOf(t).generation = t.generation
        /\ RecordOf(t).owner = s
        /\ call[c].at = "publish" =>
              /\ h \in Handles
              /\ task[h].state = "waiting"
              /\ task[h].slot = t.slot

\* Each live worker has a record of its own, made for it.
WorkersOK ==
    \A h \in Handles : task[h].state # "none" =>
        /\ OwnRecord(h).generation = task[h].generation
        /\ OwnRecord(h).owner = task[h].owner
        /\ task[h].state = "waiting" =>
              \/ OwnRecord(h).state = "Published" /\ OwnRecord(h).handle = h
              \/ /\ OwnRecord(h).state = "Reserved"
                 /\ \E c \in Callers : /\ call[c].at = "publish"
                                       /\ call[c].handle = h
                                       /\ member[call[c].service].slot = task[h].slot
        /\ task[h].state \in {"business", "tail"} =>
              OwnRecord(h).state = "Published" /\ OwnRecord(h).handle = h
        /\ task[h].state = "parked" =>
              OwnRecord(h).state \in {"Finished", "Reaping"} /\ OwnRecord(h).handle = h

\* A Finished record names the worker parked on it.
FinishedOK ==
    \A i \in Slots : records[i].state = "Finished" =>
        LET h == records[i].handle IN
        h \in Handles /\ task[h].state = "parked" /\ task[h].slot = i

\* A record is claimed by one reaper, which holds the handle of its worker.
ClaimsOK ==
    \A c \in Callers : call[c].at \in {"delete", "mark"} =>
        LET t == call[c].target  h == call[c].handle IN
        /\ RecordOf(t).state = "Reaping"
        /\ RecordOf(t).generation = t.generation
        /\ call[c].at = "delete" =>
              /\ h \in Handles
              /\ RecordOf(t).handle = h
              /\ task[h].state = "parked"
              /\ task[h].slot = t.slot
        /\ call[c].at = "mark" =>
              \A g \in Handles : task[g].state = "none" \/ task[g].slot # t.slot
        /\ \A d \in Callers \ {c} :
              call[d].at \in {"delete", "mark"} => call[d].target.slot # t.slot

Inv == TypeOK /\ StagesOK /\ StartsOK /\ WorkersOK /\ FinishedOK /\ ClaimsOK

Stages == {"idle", "ensure", "allocate", "admit", "create", "publish", "leave", "cancel",
           "restore", "copy", "reap", "delete", "mark", "joined", "drain", "drained", "destroyed"}

\* Caller c, and no other, goes to stage a of operation op on the same service.
Moved(c, op, a) ==
    /\ call' \in [Callers -> Calls]
    /\ call'[c].op = op /\ call'[c].at = a /\ call'[c].service = call[c].service
    /\ \A d \in Callers \ {c} : call'[d] = call[d]

Live(r) == r.state \in {"Reserved", "Published", "Finished", "Reaping"}

\* No record of a live worker changes but in its count, and none appears.
SameLive(old, new) ==
    /\ new \in [Slots -> Records]
    /\ \A i \in Slots :
          /\ Live(new[i]) <=> Live(old[i])
          /\ Live(old[i]) => /\ new[i].state = old[i].state
                             /\ new[i].handle = old[i].handle
                             /\ new[i].generation = old[i].generation
                             /\ new[i].owner = old[i].owner

(***************************************************************************)
(* Lemmas about the operators of the model.                                *)
(***************************************************************************)
\* The least element of a set of slots exists: CHOOSE picks a member.
LEMMA LeastOf ==
    ASSUME NEW S \in SUBSET Slots, S # {}
    PROVE  (CHOOSE i \in S : \A j \in S : i <= j) \in S
<1>1. S \subseteq Nat
  BY RetirementAssumption DEF Slots
<1>2. PICK m \in S : \A j \in S : <<j, m>> \notin OpToRel(<, Nat)
  BY <1>1, WFMin, NatLessThanWellFounded
<1>3. ASSUME NEW j \in S PROVE m <= j
  <2>1. m \in Nat /\ j \in Nat /\ <<j, m>> \in Nat \X Nat
    BY <1>1
  <2>2. ~(j < m)
    BY <1>2, <2>1 DEF OpToRel
  <2> QED
    BY <2>1, <2>2
<1> QED
  BY <1>2, <1>3

\* The initial values are of their types.
LEMMA ConstantTypes ==
    /\ Slots \subseteq Nat
    /\ None \notin Handles /\ None \notin Callers /\ None \notin Services
    /\ NoTicket \in Tickets /\ Cleared \in Records /\ NoTask \in Workers /\ Idle \in Calls
<1>1. Slots \subseteq Nat /\ 1 \in Slots /\ 0 \in 0..MaxGeneration
  BY RetirementAssumption DEF Slots
<1>2. NoTicket \in Tickets
  BY <1>1 DEF NoTicket, Tickets
<1>3. Cleared \in Records /\ NoTask \in Workers
  BY <1>1 DEF Cleared, Records, NoTask, Workers
<1>4. Idle \in Calls
  BY <1>2 DEF Idle, Calls
<1> QED
  BY <1>1, <1>2, <1>3, <1>4, RetirementAssumption DEF Callers

\* Counting a reference disturbs no live record.
LEMMA RetainedSameLive ==
    ASSUME NEW recs \in [Slots -> Records], NEW t \in Tickets
    PROVE  SameLive(recs, Retained(recs, t))
<1> DEFINE r == [recs[t.slot] EXCEPT !.references = @ + 1]
<1>1. t.slot \in Slots
  BY DEF Tickets
<1>2. /\ r \in Records /\ r.state = recs[t.slot].state /\ r.handle = recs[t.slot].handle
      /\ r.generation = recs[t.slot].generation /\ r.owner = recs[t.slot].owner
  BY <1>1 DEF Records
<1>3. CASE t.generation = 0
  BY <1>3 DEF Retained, SameLive
<1>4. CASE t.generation # 0
  <2>1. Retained(recs, t) = [recs EXCEPT ![t.slot] = r]
    BY <1>4 DEF Retained
  <2> HIDE DEF r
  <2> QED
    BY <1>1, <1>2, <2>1 DEF SameLive, Live
<1> QED
  BY <1>3, <1>4

\* Releasing one recycles at most a Reaped record.
LEMMA ReleasedSameLive ==
    ASSUME NEW recs \in [Slots -> Records], NEW t \in Tickets
    PROVE  SameLive(recs, Released(recs, t))
<1> DEFINE r == [recs[t.slot] EXCEPT !.references = @ - 1]
<1>1. t.slot \in Slots
  BY DEF Tickets
<1>2. /\ r \in Records /\ r.state = recs[t.slot].state /\ r.handle = recs[t.slot].handle
      /\ r.generation = recs[t.slot].generation /\ r.owner = recs[t.slot].owner
  BY <1>1 DEF Records
<1>3. CASE t.generation = 0
  BY <1>3 DEF Released, SameLive
<1>4. CASE t.generation # 0 /\ recs[t.slot].references = 1 /\ recs[t.slot].state = "Reaped"
  <2>1. Released(recs, t) = [recs EXCEPT ![t.slot] = Cleared]
    BY <1>4 DEF Released
  <2>2. Cleared \in Records /\ ~Live(Cleared)
    BY ConstantTypes DEF Live, Cleared
  <2> QED
    BY <1>1, <1>4, <2>1, <2>2 DEF SameLive, Live
<1>5. CASE t.generation # 0 /\ ~(recs[t.slot].references = 1 /\ recs[t.slot].state = "Reaped")
  <2>1. Released(recs, t) = [recs EXCEPT ![t.slot] = r]
    BY <1>5 DEF Released
  <2> HIDE DEF r
  <2> QED
    BY <1>1, <1>2, <2>1 DEF SameLive, Live
<1> QED
  BY <1>3, <1>4, <1>5

\* A step that only moves a caller along its operation.
LEMMA MoveTo ==
    ASSUME TypeOK, NEW c \in Callers, NEW a \in Stages, call' = [call EXCEPT ![c].at = a]
    PROVE  Moved(c, call[c].op, a)
<1> DEFINE r == [call[c] EXCEPT !.at = a]
<1>1. call[c] \in Calls /\ call \in [Callers -> Calls]
  BY DEF TypeOK
<1>2. r \in Calls /\ r.op = call[c].op /\ r.at = a /\ r.service = call[c].service
  BY <1>1 DEF Calls, Stages
<1> HIDE DEF r
<1>3. call' = [call EXCEPT ![c] = r]
  BY <1>1 DEF r
<1> QED
  BY <1>1, <1>2, <1>3 DEF Moved

\* A step that ends an operation.
LEMMA MoveToIdle ==
    ASSUME TypeOK, NEW c \in Callers, call' = [call EXCEPT ![c] = Idle]
    PROVE  /\ call' \in [Callers -> Calls]
           /\ call'[c].op = "none" /\ call'[c].at = "idle"
           /\ \A d \in Callers \ {c} : call'[d] = call[d]
<1>1. call \in [Callers -> Calls] /\ Idle \in Calls
  BY ConstantTypes DEF TypeOK
<1>2. Idle.op = "none" /\ Idle.at = "idle"
  BY DEF Idle
<1> QED
  BY <1>1, <1>2

(***************************************************************************)
(* Quiet steps: of the steps of a caller, those that touch no live record, *)
(* no worker, and no member ticket of a Start in flight.                   *)
(***************************************************************************)
Busy == {"create", "publish", "cancel", "delete", "mark"}

Quiet(c) ==
    /\ SameLive(records, records')
    /\ task' = task
    /\ \A d \in Callers \ {c} : call'[d] = call[d]
    /\ call[c].at \notin Busy /\ call'[c].at \notin Busy
    /\ \A d \in Callers \ {c} : call[d].at \in {"create", "publish", "cancel"} =>
          member'[call[d].service] = member[call[d].service]

\* A quiet step keeps the four parts of the invariant that speak of records and workers.
LEMMA QuietKeeps ==
    ASSUME Inv, NEW c \in Callers, Quiet(c)
    PROVE  StartsOK' /\ WorkersOK' /\ FinishedOK' /\ ClaimsOK'
<1>1. /\ records \in [Slots -> Records] /\ task \in [Handles -> Workers]
      /\ call \in [Callers -> Calls] /\ member \in [Services -> Tickets]
  BY DEF Inv, TypeOK
<1>2. \A h \in Handles : task[h].slot \in Slots
  BY <1>1 DEF Workers
<1>3. \A d \in Callers : call[d].target.slot \in Slots
  BY <1>1 DEF Calls, Tickets
<1>4. \A d \in Callers : call[d].at \in Busy => call'[d] = call[d] /\ d # c
  BY DEF Quiet
<1>5. \A d \in Callers : call'[d].at \in Busy => call'[d] = call[d] /\ d # c
  BY DEF Quiet
<1>6. \A d \in Callers : call[d].at \in {"create", "publish", "cancel"} =>
          /\ call[d].service \in Services
          /\ member'[call[d].service] = member[call[d].service]
          /\ member[call[d].service].slot \in Slots
  <2>1. ASSUME NEW d \in Callers, call[d].at \in {"create", "publish", "cancel"}
        PROVE  call[d].service \in Services
    <3>1. call[d].op \in {"none", "start", "stop", "destroy", "pump"}
      BY <1>1 DEF Calls
    <3> QED
      BY <2>1, <3>1 DEF Inv, StagesOK
  <2> QED
    BY <1>1, <1>4, <2>1 DEF Quiet, Busy, Tickets
<1>7. StartsOK'
  BY <1>1, <1>5, <1>6 DEF Inv, StartsOK, Quiet, SameLive, Live, Busy, RecordOf
<1>8. WorkersOK'
  <2> SUFFICES ASSUME NEW h \in Handles, task[h].state # "none"
               PROVE  WorkersOK!(h)'
    BY DEF WorkersOK, Quiet
  <2>1. WorkersOK!(h) /\ Live(OwnRecord(h))
    BY <1>1 DEF Inv, WorkersOK, Workers, Live
  <2>2. /\ OwnRecord(h)'.state = OwnRecord(h).state
        /\ OwnRecord(h)'.handle = OwnRecord(h).handle
        /\ OwnRecord(h)'.generation = OwnRecord(h).generation
        /\ OwnRecord(h)'.owner = OwnRecord(h).owner
    BY <1>2, <2>1 DEF Quiet, SameLive, OwnRecord
  <2>3. task'[h] = task[h]
    BY DEF Quiet
  <2>4. ASSUME NEW d \in Callers, call[d].at = "publish"
        PROVE  call'[d] = call[d] /\ member'[call[d].service] = member[call[d].service]
    BY <1>4, <1>6, <2>4 DEF Busy
  <2> QED
    BY <2>1, <2>2, <2>3, <2>4
<1>9. FinishedOK'
  BY <1>1 DEF Inv, FinishedOK, Quiet, SameLive, Live
<1>10. ClaimsOK'
  BY <1>1, <1>3, <1>5 DEF Inv, ClaimsOK, Quiet, SameLive, Live, Busy, RecordOf
<1> QED
  BY <1>7, <1>8, <1>9, <1>10

\* One caller's step leaves the others at their stages.
LEMMA StagesStep ==
    ASSUME Inv, NEW c \in Callers, StagesOK!(c)',
           \A d \in Callers \ {c} : call'[d] = call[d],
           \A s \in Services : mutex'[s] = mutex[s] \/ mutex[s] \in {None, c}
    PROVE  StagesOK'
<1>1. ASSUME NEW d \in Callers \ {c} PROVE StagesOK!(d)'
  <2>1. StagesOK!(d) /\ call'[d] = call[d]
    BY DEF Inv, StagesOK
  <2>2. d # None /\ d # c
    BY ConstantTypes
  <2> QED
    BY <2>1, <2>2
<1> QED
  BY <1>1 DEF StagesOK

\* Start enters the service mutex.
LEMMA StartBeginStep ==
    ASSUME Inv, NEW c \in Callers, NEW s \in Services, StartBegin(c, s)
    PROVE  Inv'
<1> DEFINE r == [Idle EXCEPT !.op = "start", !.at = "ensure", !.service = s]
<1>1. TypeOK /\ call[c] = Idle /\ mutex[s] = None
  BY DEF Inv, StartBegin, MayCall
<1>2. r \in Calls /\ r.op = "start" /\ r.at = "ensure" /\ r.service = s
  BY ConstantTypes DEF Idle, Calls
<1>3. call' \in [Callers -> Calls] /\ call'[c] = r /\ \A d \in Callers \ {c} : call'[d] = call[d]
  BY <1>1, <1>2 DEF StartBegin, TypeOK
<1> HIDE DEF r
<1>4. TypeOK'
  BY <1>1, <1>3 DEF StartBegin, TypeOK
<1>5. StagesOK'
  BY <1>1, <1>2, <1>3, StagesStep DEF StartBegin, TypeOK
<1>6. SameLive(records, records')
  BY <1>1 DEF StartBegin, SameLive, TypeOK
<1>7. Quiet(c)
  BY <1>1, <1>2, <1>3, <1>6 DEF Quiet, Busy, Idle, StartBegin
<1> QED
  BY <1>4, <1>5, <1>7, QuietKeeps DEF Inv

\* Stop is called.
LEMMA StopBeginStep ==
    ASSUME Inv, NEW c \in Callers, NEW s \in Services, StopBegin(c, s)
    PROVE  Inv'
<1> DEFINE r == [Idle EXCEPT !.op = "stop", !.at = "copy", !.service = s]
<1>1. TypeOK /\ call[c] = Idle
  BY DEF Inv, StopBegin, MayCall
<1>2. r \in Calls /\ r.op = "stop" /\ r.at = "copy" /\ r.service = s
  BY ConstantTypes DEF Idle, Calls
<1>3. call' \in [Callers -> Calls] /\ call'[c] = r /\ \A d \in Callers \ {c} : call'[d] = call[d]
  BY <1>1, <1>2 DEF StopBegin, TypeOK
<1> HIDE DEF r
<1>4. TypeOK'
  BY <1>1, <1>3 DEF StopBegin, TypeOK, serviceVars
<1>5. StagesOK'
  BY <1>1, <1>2, <1>3, StagesStep DEF StopBegin, serviceVars
<1>6. SameLive(records, records')
  BY <1>1 DEF StopBegin, SameLive, TypeOK
<1>7. Quiet(c)
  BY <1>1, <1>2, <1>3, <1>6 DEF Quiet, Busy, Idle, StopBegin, serviceVars
<1> QED
  BY <1>4, <1>5, <1>7, QuietKeeps DEF Inv

\* A destructor closes its owner.
LEMMA DestroyBeginStep ==
    ASSUME Inv, NEW c \in Callers, NEW s \in Services, DestroyBegin(c, s)
    PROVE  Inv'
<1>1. TypeOK /\ call[c] = Idle
  BY DEF Inv, DestroyBegin, MayCall
<1>2. PICK at \in {"copy", "drain"} :
          call' = [call EXCEPT ![c] = [Idle EXCEPT !.op = "destroy", !.at = at, !.service = s]]
  BY DEF DestroyBegin
<1> DEFINE r == [Idle EXCEPT !.op = "destroy", !.at = at, !.service = s]
<1>3. r \in Calls /\ r.op = "destroy" /\ r.at = at /\ r.service = s
  BY ConstantTypes DEF Idle, Calls
<1>4. call' \in [Callers -> Calls] /\ call'[c] = r /\ \A d \in Callers \ {c} : call'[d] = call[d]
  BY <1>1, <1>2, <1>3 DEF TypeOK
<1> HIDE DEF r
<1>5. TypeOK'
  BY <1>1, <1>4 DEF DestroyBegin, TypeOK
<1>6. StagesOK'
  BY <1>1, <1>3, <1>4, StagesStep DEF DestroyBegin
<1>7. SameLive(records, records')
  BY <1>1 DEF DestroyBegin, SameLive, TypeOK
<1>8. Quiet(c)
  BY <1>1, <1>3, <1>4, <1>7 DEF Quiet, Busy, Idle, DestroyBegin
<1> QED
  BY <1>5, <1>6, <1>8, QuietKeeps DEF Inv

\* Start waits for the record table, or is the first to allocate it.
LEMMA EnsureRecordsStep ==
    ASSUME Inv, NEW c \in Callers, EnsureRecords(c)
    PROVE  Inv'
<1>1. TypeOK /\ call[c].op = "start" /\ call[c].at = "ensure"
  BY DEF Inv, EnsureRecords, At
<1>2. PICK a \in {"admit", "allocate"} : call' = [call EXCEPT ![c].at = a]
  BY DEF EnsureRecords
<1>3. Moved(c, "start", a)
  BY <1>1, <1>2, MoveTo DEF Stages
<1>4. TypeOK'
  BY <1>1, <1>3 DEF EnsureRecords, TypeOK, serviceVars, Moved
<1>5. StagesOK'
  BY <1>1, <1>3, StagesStep DEF EnsureRecords, serviceVars, Moved, Inv, StagesOK
<1>6. SameLive(records, records')
  BY <1>1 DEF EnsureRecords, SameLive, TypeOK
<1>7. Quiet(c)
  BY <1>1, <1>3, <1>6 DEF Quiet, Busy, Moved, EnsureRecords, serviceVars
<1> QED
  BY <1>4, <1>5, <1>7, QuietKeeps DEF Inv

\* The table is allocated, or Start gives up and frees the mutex.
LEMMA AllocatePoolStep ==
    ASSUME Inv, NEW c \in Callers, AllocatePool(c)
    PROVE  Inv'
<1>1. TypeOK /\ call[c].op = "start" /\ call[c].at = "allocate" /\ call[c].service \in Services
  BY DEF Inv, AllocatePool, At, StagesOK
<1>2. mutex[call[c].service] = c
  BY <1>1 DEF Inv, StagesOK
<1>3. SameLive(records, records')
  BY <1>1 DEF AllocatePool, SameLive, TypeOK
<1>4. CASE call' = [call EXCEPT ![c].at = "admit"] /\ UNCHANGED mutex
  <2>1. Moved(c, "start", "admit")
    BY <1>1, <1>4, MoveTo DEF Stages
  <2>2. TypeOK'
    BY <1>1, <1>4, <2>1 DEF AllocatePool, TypeOK, Moved
  <2>3. StagesOK'
    BY <1>1, <1>2, <1>4, <2>1, StagesStep DEF Moved
  <2>4. Quiet(c)
    BY <1>1, <1>3, <2>1 DEF Quiet, Busy, Moved, AllocatePool
  <2> QED
    BY <2>2, <2>3, <2>4, QuietKeeps DEF Inv
<1>5. CASE call' = [call EXCEPT ![c] = Idle] /\ mutex' = [mutex EXCEPT ![call[c].service] = None]
  <2>1. /\ call' \in [Callers -> Calls] /\ call'[c].op = "none" /\ call'[c].at = "idle"
        /\ \A d \in Callers \ {c} : call'[d] = call[d]
    BY <1>1, <1>5, MoveToIdle
  <2>2. TypeOK'
    BY <1>1, <1>5, <2>1 DEF AllocatePool, TypeOK
  <2>3. StagesOK'
    BY <1>1, <1>2, <1>5, <2>1, StagesStep DEF TypeOK
  <2>4. Quiet(c)
    BY <1>1, <1>3, <2>1 DEF Quiet, Busy, AllocatePool
  <2> QED
    BY <2>2, <2>3, <2>4, QuietKeeps DEF Inv
<1> QED
  BY <1>4, <1>5 DEF AllocatePool

\* Start drops the previous ticket and frees the mutex.
LEMMA StartReturnStep ==
    ASSUME Inv, NEW c \in Callers, StartReturn(c)
    PROVE  Inv'
<1>1. /\ TypeOK /\ call[c].op = "start" /\ call[c].at = "leave"
      /\ call[c].service \in Services /\ mutex[call[c].service] = c
  BY DEF Inv, StartReturn, At, StagesOK
<1>2. /\ call' \in [Callers -> Calls] /\ call'[c].op = "none" /\ call'[c].at = "idle"
      /\ \A d \in Callers \ {c} : call'[d] = call[d]
  BY <1>1, MoveToIdle DEF StartReturn
<1>3. SameLive(records, records')
  <2>1. call[c].previous \in Tickets /\ records \in [Slots -> Records]
    BY <1>1 DEF TypeOK, Calls
  <2> QED
    BY <2>1, ReleasedSameLive DEF StartReturn
<1>4. TypeOK'
  BY <1>1, <1>2, <1>3 DEF StartReturn, TypeOK, SameLive
<1>5. StagesOK'
  BY <1>1, <1>2, StagesStep DEF StartReturn, TypeOK
<1>6. Quiet(c)
  BY <1>1, <1>2, <1>3 DEF Quiet, Busy, StartReturn
<1> QED
  BY <1>4, <1>5, <1>6, QuietKeeps DEF Inv

\* A Start whose task could not be created puts the previous ticket back.
LEMMA RestorePreviousStep ==
    ASSUME Inv, NEW c \in Callers, RestorePrevious(c)
    PROVE  Inv'
<1>1. /\ TypeOK /\ call[c].op = "start" /\ call[c].at = "restore"
      /\ call[c].service \in Services /\ mutex[call[c].service] = c
  BY DEF Inv, RestorePrevious, At, StagesOK
<1>2. /\ call' \in [Callers -> Calls] /\ call'[c].op = "none" /\ call'[c].at = "idle"
      /\ \A d \in Callers \ {c} : call'[d] = call[d]
  BY <1>1, MoveToIdle DEF RestorePrevious
<1>3. call[c].previous \in Tickets /\ member[call[c].service] \in Tickets
  BY <1>1 DEF TypeOK, Calls
<1>4. SameLive(records, records')
  BY <1>1, <1>3, ReleasedSameLive DEF RestorePrevious, TypeOK
<1>5. TypeOK'
  BY <1>1, <1>2, <1>3, <1>4 DEF RestorePrevious, TypeOK, SameLive
<1>6. StagesOK'
  BY <1>1, <1>2, StagesStep DEF RestorePrevious, TypeOK
<1>7. ASSUME NEW d \in Callers \ {c}, call[d].at \in {"create", "publish", "cancel"}
      PROVE  member'[call[d].service] = member[call[d].service]
  \* Two Starts of one service would both hold its mutex.
  <2>1. call[d] \in Calls
    BY <1>1 DEF TypeOK
  <2>2. call[d].service \in Services /\ mutex[call[d].service] = d
    BY <1>7, <2>1 DEF Inv, StagesOK, Calls
  <2> QED
    BY <1>1, <2>2 DEF RestorePrevious, TypeOK
<1>8. Quiet(c)
  BY <1>1, <1>2, <1>4, <1>7 DEF Quiet, Busy, RestorePrevious
<1> QED
  BY <1>5, <1>6, <1>8, QuietKeeps DEF Inv

\* Stop copies the member ticket under the service mutex.
LEMMA CopyTicketStep ==
    ASSUME Inv, NEW c \in Callers, CopyTicket(c)
    PROVE  Inv'
<1>1. TypeOK /\ call[c] \in Calls /\ call[c].at = "copy"
  BY DEF Inv, CopyTicket, TypeOK
<1>2. call[c].op \in {"stop", "destroy"} /\ call[c].service \in Services
  BY <1>1 DEF Inv, StagesOK, Calls
<1> DEFINE t == member[call[c].service]
<1>3. t \in Tickets
  BY <1>1, <1>2 DEF TypeOK
<1>4. PICK a \in {"joined", "reap"} :
          call' = [call EXCEPT ![c] = [@ EXCEPT !.ticket = t, !.target = t, !.at = a]]
  BY DEF CopyTicket
<1> DEFINE r == [call[c] EXCEPT !.ticket = t, !.target = t, !.at = a]
<1>5. r \in Calls /\ r.op = call[c].op /\ r.at = a /\ r.service = call[c].service
  BY <1>1, <1>3 DEF Calls
<1>6. call' = [call EXCEPT ![c] = r]
  BY <1>1, <1>4 DEF TypeOK
<1> HIDE DEF r, t
<1>7. Moved(c, call[c].op, a)
  BY <1>1, <1>5, <1>6 DEF TypeOK, Moved
<1>8. SameLive(records, records')
  BY <1>1, <1>3, RetainedSameLive DEF CopyTicket, TypeOK, t
<1>9. TypeOK'
  BY <1>1, <1>2, <1>7, <1>8 DEF CopyTicket, TypeOK, SameLive, Moved
<1>10. StagesOK'
  BY <1>1, <1>2, <1>7, StagesStep DEF CopyTicket, Moved
<1>11. Quiet(c)
  BY <1>1, <1>7, <1>8 DEF Quiet, Busy, Moved, CopyTicket
<1> QED
  BY <1>9, <1>10, <1>11, QuietKeeps DEF Inv

\* Stop drops its copy.
LEMMA StopReturnStep ==
    ASSUME Inv, NEW c \in Callers, StopReturn(c)
    PROVE  Inv'
<1>1. TypeOK /\ call[c].op = "stop" /\ call[c].at = "joined"
  BY DEF Inv, StopReturn, At
<1>2. /\ call' \in [Callers -> Calls] /\ call'[c].op = "none" /\ call'[c].at = "idle"
      /\ \A d \in Callers \ {c} : call'[d] = call[d]
  BY <1>1, MoveToIdle DEF StopReturn
<1>3. SameLive(records, records')
  <2>1. call[c].ticket \in Tickets /\ records \in [Slots -> Records]
    BY <1>1 DEF TypeOK, Calls
  <2> QED
    BY <2>1, ReleasedSameLive DEF StopReturn
<1>4. TypeOK'
  BY <1>1, <1>2, <1>3 DEF StopReturn, TypeOK, SameLive, serviceVars
<1>5. StagesOK'
  BY <1>1, <1>2, StagesStep DEF StopReturn, serviceVars
<1>6. Quiet(c)
  BY <1>1, <1>2, <1>3 DEF Quiet, Busy, StopReturn, serviceVars
<1> QED
  BY <1>4, <1>5, <1>6, QuietKeeps DEF Inv

\* The destructor drops the ticket it joined and drains on.
LEMMA DestroyJoinedStep ==
    ASSUME Inv, NEW c \in Callers, DestroyJoined(c)
    PROVE  Inv'
<1>1. /\ TypeOK /\ call[c] \in Calls /\ call[c].op = "destroy" /\ call[c].at = "joined"
      /\ call[c].service \in Services
  BY DEF Inv, DestroyJoined, At, TypeOK, StagesOK
<1> DEFINE r == [call[c] EXCEPT !.at = "drain", !.ticket = NoTicket, !.target = NoTicket]
<1>2. r \in Calls /\ r.op = "destroy" /\ r.at = "drain" /\ r.service = call[c].service
  BY <1>1, ConstantTypes DEF Calls
<1>3. call' = [call EXCEPT ![c] = r]
  BY <1>1 DEF TypeOK, DestroyJoined
<1> HIDE DEF r
<1>4. Moved(c, "destroy", "drain")
  BY <1>1, <1>2, <1>3 DEF TypeOK, Moved
<1>5. SameLive(records, records')
  <2>1. call[c].ticket \in Tickets
    BY <1>1 DEF Calls
  <2> QED
    BY <1>1, <2>1, ReleasedSameLive DEF DestroyJoined, TypeOK
<1>6. TypeOK'
  BY <1>1, <1>4, <1>5 DEF DestroyJoined, TypeOK, SameLive, Moved, serviceVars
<1>7. StagesOK'
  BY <1>1, <1>4, StagesStep DEF DestroyJoined, Moved, serviceVars
<1>8. Quiet(c)
  BY <1>1, <1>4, <1>5 DEF Quiet, Busy, Moved, DestroyJoined, serviceVars
<1> QED
  BY <1>6, <1>7, <1>8, QuietKeeps DEF Inv

\* Drain takes a ticket of the next record of its owner.
LEMMA DrainNextStep ==
    ASSUME Inv, NEW c \in Callers, DrainNext(c)
    PROVE  Inv'
<1>1. /\ TypeOK /\ call[c] \in Calls /\ call[c].op = "destroy" /\ call[c].at = "drain"
      /\ call[c].service \in Services
  BY DEF Inv, DrainNext, At, TypeOK, StagesOK
<1> DEFINE i == FirstOwned(call[c].service)
           t == [slot |-> i, generation |-> records[i].generation]
           r == [call[c] EXCEPT !.at = "reap", !.ticket = t, !.target = t]
<1>2. i \in Slots
  BY LeastOf DEF DrainNext, FirstOwned, Owned
<1>3. t \in Tickets
  BY <1>1, <1>2 DEF TypeOK, Tickets, Records
<1>4. r \in Calls /\ r.op = "destroy" /\ r.at = "reap" /\ r.service = call[c].service
  BY <1>1, <1>3 DEF Calls
<1>5. call' = [call EXCEPT ![c] = r] /\ records' = Retained(records, t)
  BY <1>1 DEF TypeOK, DrainNext
<1> HIDE DEF r, t, i
<1>6. Moved(c, "destroy", "reap")
  BY <1>1, <1>4, <1>5 DEF TypeOK, Moved
<1>7. SameLive(records, records')
  BY <1>1, <1>3, <1>5, RetainedSameLive DEF TypeOK
<1>8. TypeOK'
  BY <1>1, <1>6, <1>7 DEF DrainNext, TypeOK, SameLive, Moved, serviceVars
<1>9. StagesOK'
  BY <1>1, <1>6, StagesStep DEF DrainNext, Moved, serviceVars
<1>10. Quiet(c)
  BY <1>1, <1>6, <1>7 DEF Quiet, Busy, Moved, DrainNext, serviceVars
<1> QED
  BY <1>8, <1>9, <1>10, QuietKeeps DEF Inv

\* Drain finds no record left.
LEMMA DrainReturnStep ==
    ASSUME Inv, NEW c \in Callers, DrainReturn(c)
    PROVE  Inv'
<1>1. TypeOK /\ call[c].op = "destroy" /\ call[c].at = "drain" /\ call[c].service \in Services
  BY DEF Inv, DrainReturn, At, StagesOK
<1>2. Moved(c, "destroy", "drained")
  BY <1>1, MoveTo DEF DrainReturn, Stages
<1>3. TypeOK'
  BY <1>1, <1>2 DEF DrainReturn, TypeOK, Moved, serviceVars
<1>4. StagesOK'
  BY <1>1, <1>2, StagesStep DEF DrainReturn, Moved, serviceVars
<1>5. SameLive(records, records')
  BY <1>1 DEF DrainReturn, SameLive, TypeOK
<1>6. Quiet(c)
  BY <1>1, <1>2, <1>5 DEF Quiet, Busy, Moved, DrainReturn, serviceVars
<1> QED
  BY <1>3, <1>4, <1>6, QuietKeeps DEF Inv

\* The service's members are destroyed.
LEMMA DestroyReturnStep ==
    ASSUME Inv, NEW c \in Callers, DestroyReturn(c)
    PROVE  Inv'
<1> DEFINE s == call[c].service
           r == [Idle EXCEPT !.at = "destroyed", !.service = s]
<1>1. /\ TypeOK /\ call[c].op = "destroy" /\ call[c].at = "drained"
      /\ s \in Services /\ mutex[s] = None
  BY DEF Inv, DestroyReturn, At, StagesOK
<1>2. r \in Calls /\ r.op = "none" /\ r.at = "destroyed"
  BY <1>1, ConstantTypes DEF Calls, Idle
<1>3. call' = [call EXCEPT ![c] = r]
  BY DEF DestroyReturn
<1> HIDE DEF r
<1>4. call' \in [Callers -> Calls] /\ call'[c] = r /\ \A d \in Callers \ {c} : call'[d] = call[d]
  BY <1>1, <1>2, <1>3 DEF TypeOK
<1>5. SameLive(records, records')
  BY <1>1, ReleasedSameLive DEF DestroyReturn, TypeOK
<1>6. TypeOK'
  BY <1>1, <1>4, <1>5, ConstantTypes DEF DestroyReturn, TypeOK, SameLive
<1>7. StagesOK'
  BY <1>1, <1>2, <1>4, StagesStep DEF DestroyReturn
<1>8. ASSUME NEW d \in Callers \ {c}, call[d].at \in {"create", "publish", "cancel"}
      PROVE  member'[call[d].service] = member[call[d].service]
  \* A Start in flight would hold the mutex that the destructor found free.
  <2>1. call[d] \in Calls
    BY <1>1 DEF TypeOK
  <2>2. call[d].service \in Services /\ mutex[call[d].service] = d
    BY <1>8, <2>1 DEF Inv, StagesOK, Calls
  <2>3. call[d].service # s
    BY <1>1, <2>2, ConstantTypes
  <2> QED
    BY <1>1, <2>2, <2>3 DEF DestroyReturn, TypeOK
<1>9. Quiet(c)
  BY <1>1, <1>2, <1>4, <1>5, <1>8 DEF Quiet, Busy, DestroyReturn
<1> QED
  BY <1>6, <1>7, <1>9, QuietKeeps DEF Inv

\* The pump picks a Finished record.
LEMMA PumpSlotStep ==
    ASSUME Inv, NEW i \in Slots, PumpSlot(i)
    PROVE  Inv'
<1> DEFINE t == [slot |-> i, generation |-> records[i].generation]
           r == [Idle EXCEPT !.op = "pump", !.at = "reap", !.target = t]
<1>1. TypeOK /\ Main \in Callers /\ call[Main] = Idle
  BY DEF Inv, PumpSlot, Callers
<1>2. t \in Tickets
  BY <1>1 DEF TypeOK, Tickets, Records
<1>3. r \in Calls /\ r.op = "pump" /\ r.at = "reap"
  BY <1>2, ConstantTypes DEF Calls, Idle
<1>4. call' = [call EXCEPT ![Main] = r]
  BY DEF PumpSlot
<1> HIDE DEF r, t
<1>5. /\ call' \in [Callers -> Calls] /\ call'[Main] = r
      /\ \A d \in Callers \ {Main} : call'[d] = call[d]
  BY <1>1, <1>3, <1>4 DEF TypeOK
<1>6. TypeOK'
  BY <1>1, <1>5 DEF PumpSlot, TypeOK, serviceVars
<1>7. StagesOK'
  BY <1>1, <1>3, <1>5, StagesStep DEF PumpSlot, serviceVars
<1>8. SameLive(records, records')
  BY <1>1 DEF PumpSlot, SameLive, TypeOK
<1>9. Quiet(Main)
  BY <1>1, <1>3, <1>5, <1>8 DEF Quiet, Busy, Idle, PumpSlot, serviceVars
<1> QED
  BY <1>1, <1>6, <1>7, <1>9, QuietKeeps DEF Inv

\* The pump is done with a slot.
LEMMA PumpNextStep ==
    ASSUME Inv, PumpNext
    PROVE  Inv'
<1>1. TypeOK /\ Main \in Callers /\ call[Main].at = "joined"
  BY DEF Inv, PumpNext, At, Callers
<1>2. /\ call' \in [Callers -> Calls] /\ call'[Main].op = "none" /\ call'[Main].at = "idle"
      /\ \A d \in Callers \ {Main} : call'[d] = call[d]
  BY <1>1, MoveToIdle DEF PumpNext
<1>3. TypeOK'
  BY <1>1, <1>2 DEF PumpNext, TypeOK, serviceVars
<1>4. StagesOK'
  BY <1>1, <1>2, StagesStep DEF PumpNext, serviceVars
<1>5. SameLive(records, records')
  BY <1>1 DEF PumpNext, SameLive, TypeOK
<1>6. Quiet(Main)
  BY <1>1, <1>2, <1>5 DEF Quiet, Busy, PumpNext, serviceVars
<1> QED
  BY <1>1, <1>3, <1>4, <1>6, QuietKeeps DEF Inv

(***************************************************************************)
(* The steps on live records and workers.                                  *)
(***************************************************************************)
\* A Start between reservation and publication is inside its service mutex.
LEMMA InFlight ==
    ASSUME TypeOK, StagesOK, NEW c \in Callers, call[c].at \in {"create", "publish", "cancel"}
    PROVE  /\ call[c] \in Calls /\ call[c].op = "start"
           /\ call[c].service \in Services /\ mutex[call[c].service] = c
           /\ member[call[c].service] \in Tickets /\ member[call[c].service].slot \in Slots
<1>1. call[c] \in Calls
  BY DEF TypeOK
<1>2. call[c].op = "start"
  BY <1>1 DEF StagesOK, Calls
<1> QED
  BY <1>1, <1>2 DEF TypeOK, StagesOK, Tickets

\* Starts in flight are of different services and hold different records.
LEMMA InFlightApart ==
    ASSUME Inv, NEW c \in Callers, NEW d \in Callers \ {c},
           call[c].at \in {"create", "publish", "cancel"},
           call[d].at \in {"create", "publish", "cancel"}
    PROVE  /\ call[c].service # call[d].service
           /\ member[call[c].service].slot # member[call[d].service].slot
<1>1. mutex[call[c].service] = c /\ mutex[call[d].service] = d
  BY InFlight DEF Inv
<1>2. /\ RecordOf(member[call[c].service]).owner = call[c].service
      /\ RecordOf(member[call[d].service]).owner = call[d].service
  BY DEF Inv, StartsOK
<1> QED
  BY <1>1, <1>2 DEF RecordOf

\* Start reserves a free record, or is refused.
LEMMA AdmitStep ==
    ASSUME Inv, NEW c \in Callers, Admit(c)
    PROVE  Inv'
<1> DEFINE s == call[c].service
           t == [slot |-> FirstFree, generation |-> nextGeneration]
           n == [state |-> "Reserved", handle |-> None, generation |-> nextGeneration,
                 owner |-> s, references |-> 1]
<1>1. /\ TypeOK /\ call[c] \in Calls /\ call[c].op = "start" /\ call[c].at = "admit"
      /\ s \in Services /\ mutex[s] = c
  BY DEF Inv, Admit, At, StagesOK, TypeOK
<1>2. CASE MayAdmit(s)
  <2> DEFINE r == [call[c] EXCEPT !.at = "create", !.previous = member[s]]
  <2>1. t.slot \in Slots /\ records[t.slot].state = "Empty"
    BY <1>2, LeastOf DEF MayAdmit, FirstFree, FreeSlots
  <2>2. nextGeneration < MaxGeneration /\ nextGeneration \in Nat /\ nextGeneration + 1 \in 1..MaxGeneration
    BY <1>1, <1>2, RetirementAssumption DEF MayAdmit, TypeOK
  <2>3. t \in Tickets
    BY <1>1, <2>1, <2>2, RetirementAssumption DEF Tickets, TypeOK
  <2>4. n \in Records
    BY <1>1, <2>2, RetirementAssumption DEF Records, TypeOK
  <2>5. /\ records' = [records EXCEPT ![t.slot] = n] /\ member' = [member EXCEPT ![s] = t]
        /\ nextGeneration' = nextGeneration + 1 /\ mutex' = mutex /\ task' = task
    BY <1>2 DEF Admit
  <2>6. r \in Calls /\ r.op = "start" /\ r.at = "create" /\ r.service = s
    BY <1>1 DEF Calls, TypeOK
  <2>7. call' = [call EXCEPT ![c] = r]
    BY <1>1, <1>2 DEF Admit, TypeOK
  <2>8. n.state = "Reserved" /\ n.generation = t.generation /\ n.owner = s
    OBVIOUS
  <2> HIDE DEF r, n, t
  <2>9. Moved(c, "start", "create")
    BY <1>1, <2>6, <2>7 DEF TypeOK, Moved
  <2>10. /\ records'[t.slot] = n /\ \A i \in Slots \ {t.slot} : records'[i] = records[i]
         /\ member'[s] = t /\ \A x \in Services \ {s} : member'[x] = member[x]
    BY <1>1, <2>1, <2>5 DEF TypeOK
  <2>11. TypeOK'
    BY <1>1, <2>2, <2>3, <2>4, <2>5, <2>9 DEF TypeOK, Admit, Moved
  <2>12. StagesOK'
    BY <1>1, <2>5, <2>9, StagesStep DEF Moved
  <2>13. StartsOK'
    <3> SUFFICES ASSUME NEW d \in Callers, call'[d].at \in {"create", "publish", "cancel"}
                 PROVE  StartsOK!(d)'
      BY DEF StartsOK
    <3>1. CASE d = c
      BY <1>1, <2>8, <2>9, <2>10, <3>1 DEF Moved, RecordOf
    <3>2. CASE d # c
      <4>1. call'[d] = call[d] /\ call[d].at \in {"create", "publish", "cancel"}
        BY <2>9, <3>2 DEF Moved
      <4>2. call[d].service \in Services \ {s} /\ member[call[d].service].slot \in Slots
        BY <1>1, <3>2, <4>1, InFlight DEF Inv
      <4>3. StartsOK!(d) /\ RecordOf(member[call[d].service]).state = "Reserved"
        BY <4>1 DEF Inv, StartsOK
      <4>4. RecordOf(member[call[d].service])' = RecordOf(member[call[d].service])
        BY <2>1, <2>10, <4>1, <4>2, <4>3 DEF RecordOf
      <4> QED
        BY <2>5, <2>10, <4>1, <4>2, <4>3, <4>4
    <3> QED
      BY <3>1, <3>2
  <2>14. WorkersOK'
    <3> SUFFICES ASSUME NEW h \in Handles, task[h].state # "none"
                 PROVE  WorkersOK!(h)'
      BY <2>5 DEF WorkersOK
    <3>1. WorkersOK!(h) /\ OwnRecord(h).state # "Empty" /\ task[h].slot \in Slots
      BY <1>1 DEF Inv, WorkersOK, TypeOK, Workers
    <3>2. OwnRecord(h)' = OwnRecord(h)
      BY <2>1, <2>5, <2>10, <3>1 DEF OwnRecord
    <3>3. ASSUME NEW d \in Callers, call[d].at = "publish"
          PROVE  call'[d] = call[d] /\ member'[call[d].service] = member[call[d].service]
      <4>1. d # c /\ call[d].service \in Services /\ mutex[call[d].service] = d
        BY <1>1, <3>3, InFlight DEF Inv
      <4> QED
        BY <1>1, <2>9, <2>10, <4>1 DEF Moved
    <3> QED
      BY <2>5, <3>1, <3>2, <3>3
  <2>15. FinishedOK'
    BY <2>1, <2>5, <2>8, <2>10 DEF Inv, FinishedOK
  <2>16. ClaimsOK'
    <3> SUFFICES ASSUME NEW d \in Callers, call'[d].at \in {"delete", "mark"}
                 PROVE  ClaimsOK!(d)'
      BY DEF ClaimsOK
    <3>1. d # c /\ call'[d] = call[d] /\ ClaimsOK!(d)
      BY <2>9 DEF Moved, Inv, ClaimsOK
    <3>2. call[d].target.slot \in Slots
      BY <1>1 DEF TypeOK, Calls, Tickets
    <3>3. RecordOf(call[d].target)' = RecordOf(call[d].target)
      BY <2>1, <2>10, <3>1, <3>2 DEF RecordOf
    <3>4. \A e \in Callers : call'[e].at \in {"delete", "mark"} => call'[e] = call[e]
      BY <2>9 DEF Moved
    <3> QED
      BY <2>5, <3>1, <3>3, <3>4
  <2> QED
    BY <2>11, <2>12, <2>13, <2>14, <2>15, <2>16 DEF Inv
<1>3. CASE ~MayAdmit(s)
  <2>1. /\ call' = [call EXCEPT ![c] = Idle] /\ mutex' = [mutex EXCEPT ![s] = None]
        /\ UNCHANGED <<records, nextGeneration, member, pool, closed, active, stopRequested, task>>
    BY <1>3 DEF Admit
  <2>2. /\ call' \in [Callers -> Calls] /\ call'[c].op = "none" /\ call'[c].at = "idle"
        /\ \A d \in Callers \ {c} : call'[d] = call[d]
    BY <1>1, <2>1, MoveToIdle
  <2>3. TypeOK'
    BY <1>1, <2>1, <2>2 DEF TypeOK
  <2>4. StagesOK'
    BY <1>1, <2>1, <2>2, StagesStep DEF TypeOK
  <2>5. SameLive(records, records')
    BY <1>1, <2>1 DEF SameLive, TypeOK
  <2>6. Quiet(c)
    BY <1>1, <2>1, <2>2, <2>5 DEF Quiet, Busy
  <2> QED
    BY <2>3, <2>4, <2>6, QuietKeeps DEF Inv
<1> QED
  BY <1>2, <1>3

\* Start creates the worker, or there is no memory for it.
LEMMA CreateTaskStep ==
    ASSUME Inv, NEW c \in Callers, CreateTask(c)
    PROVE  Inv'
<1> DEFINE s == call[c].service
           i == member[s].slot
<1>1. /\ TypeOK /\ call[c].op = "start" /\ call[c].at = "create" /\ call[c] \in Calls
      /\ s \in Services /\ mutex[s] = c /\ i \in Slots /\ member[s] \in Tickets
  BY InFlight DEF Inv, CreateTask, At
<1>2. /\ records[i].state = "Reserved" /\ records[i].generation = member[s].generation
      /\ records[i].owner = s
  BY <1>1 DEF Inv, StartsOK, RecordOf
<1>3. UNCHANGED <<pool, records, nextGeneration, closed, member, mutex, active, stopRequested>>
  BY DEF CreateTask, serviceVars
<1>4. \A d \in Callers : call[d].at \in {"publish", "delete", "mark"} => d # c
  BY <1>1
<1>5. CASE \E h \in Handles :
             /\ task[h].state = "none"
             /\ task' = [task EXCEPT ![h] = [state |-> "waiting", slot |-> i,
                             generation |-> member[s].generation, owner |-> s]]
             /\ call' = [call EXCEPT ![c] = [@ EXCEPT !.at = "publish", !.handle = h]]
  <2>1. PICK h \in Handles :
             /\ task[h].state = "none"
             /\ task' = [task EXCEPT ![h] = [state |-> "waiting", slot |-> i,
                             generation |-> member[s].generation, owner |-> s]]
             /\ call' = [call EXCEPT ![c] = [@ EXCEPT !.at = "publish", !.handle = h]]
    BY <1>5
  <2> DEFINE w == [state |-> "waiting", slot |-> i, generation |-> member[s].generation, owner |-> s]
             r == [call[c] EXCEPT !.at = "publish", !.handle = h]
  <2>2. /\ w \in Workers /\ w.state = "waiting" /\ w.slot = i
        /\ w.generation = member[s].generation /\ w.owner = s
    BY <1>1 DEF Workers, Tickets
  <2>3. r \in Calls /\ r.op = "start" /\ r.at = "publish" /\ r.service = s /\ r.handle = h
    BY <1>1 DEF Calls
  <2>4. call' = [call EXCEPT ![c] = r] /\ task' = [task EXCEPT ![h] = w]
    BY <1>1, <2>1 DEF TypeOK
  <2> HIDE DEF w, r
  <2>5. Moved(c, "start", "publish") /\ call'[c] = r
    BY <1>1, <2>3, <2>4 DEF TypeOK, Moved
  <2>6. /\ task' \in [Handles -> Workers] /\ task'[h] = w
        /\ \A g \in Handles \ {h} : task'[g] = task[g]
    BY <1>1, <2>2, <2>4 DEF TypeOK
  <2>7. TypeOK'
    BY <1>1, <1>3, <2>5, <2>6 DEF TypeOK, Moved
  <2>8. StagesOK'
    BY <1>1, <1>3, <2>5, StagesStep DEF Moved
  <2>9. StartsOK'
    <3> SUFFICES ASSUME NEW d \in Callers, call'[d].at \in {"create", "publish", "cancel"}
                 PROVE  StartsOK!(d)'
      BY DEF StartsOK
    <3>1. CASE d = c
      BY <1>2, <1>3, <2>2, <2>3, <2>5, <2>6, <3>1 DEF RecordOf
    <3>2. CASE d # c
      <4>1. call'[d] = call[d] /\ StartsOK!(d)
        BY <2>5, <3>2 DEF Moved, Inv, StartsOK
      <4>2. call[d].at = "publish" => call[d].handle # h
        BY <2>1, <4>1
      <4> QED
        BY <1>3, <2>6, <4>1, <4>2 DEF RecordOf
    <3> QED
      BY <3>1, <3>2
  <2>10. WorkersOK'
    <3> SUFFICES ASSUME NEW g \in Handles, task'[g].state # "none"
                 PROVE  WorkersOK!(g)'
      BY DEF WorkersOK
    <3>1. CASE g = h
      BY <1>2, <1>3, <2>2, <2>3, <2>5, <2>6, <3>1 DEF OwnRecord
    <3>2. CASE g # h
      <4>1. task'[g] = task[g] /\ WorkersOK!(g)
        BY <2>6, <3>2 DEF Inv, WorkersOK
      <4>2. \A d \in Callers : call[d].at = "publish" => call'[d] = call[d]
        BY <1>4, <2>5 DEF Moved
      <4> QED
        BY <1>3, <4>1, <4>2 DEF OwnRecord
    <3> QED
      BY <3>1, <3>2
  <2>11. FinishedOK'
    BY <1>3, <2>1, <2>6 DEF Inv, FinishedOK
  <2>12. ClaimsOK'
    <3> SUFFICES ASSUME NEW d \in Callers, call'[d].at \in {"delete", "mark"}
                 PROVE  ClaimsOK!(d)'
      BY DEF ClaimsOK
    <3>1. call'[d] = call[d] /\ ClaimsOK!(d)
      BY <2>3, <2>5 DEF Moved, Inv, ClaimsOK
    <3>2. \A e \in Callers : call'[e].at \in {"delete", "mark"} => call'[e] = call[e]
      BY <2>3, <2>5 DEF Moved
    <3>3. call[d].target.slot # i
      BY <1>2, <3>1 DEF RecordOf
    <3>4. call[d].at = "delete" => call[d].handle # h
      BY <2>1, <3>1
    <3> QED
      BY <1>3, <2>2, <2>6, <3>1, <3>2, <3>3, <3>4 DEF RecordOf
  <2> QED
    BY <2>7, <2>8, <2>9, <2>10, <2>11, <2>12 DEF Inv
<1>6. CASE call' = [call EXCEPT ![c].at = "cancel"] /\ UNCHANGED task
  <2>1. Moved(c, "start", "cancel")
    BY <1>1, <1>6, MoveTo DEF Stages
  <2>2. TypeOK'
    BY <1>1, <1>3, <1>6, <2>1 DEF TypeOK, Moved
  <2>3. StagesOK'
    BY <1>1, <1>3, <2>1, StagesStep DEF Moved
  <2>4. StartsOK'
    BY <1>1, <1>2, <1>3, <1>6, <2>1 DEF Inv, StartsOK, Moved, RecordOf
  <2>5. WorkersOK'
    <3> SUFFICES ASSUME NEW g \in Handles, task[g].state # "none"
                 PROVE  WorkersOK!(g)'
      BY <1>6 DEF WorkersOK
    <3>1. \A d \in Callers : call[d].at = "publish" => call'[d] = call[d]
      BY <1>4, <2>1 DEF Moved
    <3>2. WorkersOK!(g) /\ OwnRecord(g)' = OwnRecord(g)
      BY <1>3, <1>6 DEF Inv, WorkersOK, OwnRecord
    <3> QED
      BY <1>3, <1>6, <3>1, <3>2
  <2>6. FinishedOK'
    BY <1>3, <1>6 DEF Inv, FinishedOK
  <2>7. ClaimsOK'
    <3>1. \A e \in Callers : call'[e].at \in {"delete", "mark"} => call'[e] = call[e]
      BY <2>1 DEF Moved
    <3> QED
      BY <1>3, <1>6, <3>1 DEF Inv, ClaimsOK, RecordOf
  <2> QED
    BY <2>2, <2>3, <2>4, <2>5, <2>6, <2>7 DEF Inv
<1> QED
  BY <1>5, <1>6 DEF CreateTask

\* The record a Start in flight holds: no parked worker, no claim is on it, and
\* a worker waits for it only if this Start is about to publish it.
LEMMA ReservedApart ==
    ASSUME Inv, NEW c \in Callers, call[c].at \in {"create", "publish", "cancel"}
    PROVE  /\ \A h \in Handles :
                 (task[h].state # "none" /\ task[h].slot = member[call[c].service].slot) =>
                     /\ task[h].state = "waiting"
                     /\ call[c].at = "publish" /\ call[c].handle = h
           /\ \A d \in Callers : call[d].at \in {"delete", "mark"} =>
                 call[d].target.slot # member[call[c].service].slot
<1>1. RecordOf(member[call[c].service]).state = "Reserved"
  BY DEF Inv, StartsOK
<1>2. ASSUME NEW h \in Handles, task[h].state # "none",
             task[h].slot = member[call[c].service].slot
      PROVE  task[h].state = "waiting" /\ call[c].at = "publish" /\ call[c].handle = h
  <2>1. OwnRecord(h).state = "Reserved"
    BY <1>1, <1>2 DEF RecordOf, OwnRecord
  <2>2. task[h].state = "waiting"
    BY <1>2, <2>1 DEF Inv, TypeOK, Workers, WorkersOK
  <2>3. PICK d \in Callers : /\ call[d].at = "publish" /\ call[d].handle = h
                             /\ member[call[d].service].slot = task[h].slot
    BY <1>2, <2>1, <2>2 DEF Inv, WorkersOK
  <2>4. d = c
    BY <1>2, <2>3, InFlightApart
  <2> QED
    BY <2>2, <2>3, <2>4
<1>3. ASSUME NEW d \in Callers, call[d].at \in {"delete", "mark"}
      PROVE  call[d].target.slot # member[call[c].service].slot
  BY <1>1, <1>3 DEF Inv, ClaimsOK, RecordOf
<1> QED
  BY <1>2, <1>3

\* The created worker's handle is published in its record.
LEMMA PublishTaskRetirementStep ==
    ASSUME Inv, NEW c \in Callers, PublishTaskRetirement(c)
    PROVE  Inv'
<1> DEFINE s == call[c].service
           i == member[s].slot
           h == call[c].handle
           n == [records[i] EXCEPT !.state = "Published", !.handle = h]
<1>1. /\ TypeOK /\ call[c].op = "start" /\ call[c].at = "publish" /\ call[c] \in Calls
      /\ s \in Services /\ mutex[s] = c /\ i \in Slots
  BY InFlight DEF Inv, PublishTaskRetirement, At
<1>2. /\ records[i].state = "Reserved" /\ records[i].generation = member[s].generation
      /\ records[i].owner = s /\ h \in Handles /\ task[h].state = "waiting" /\ task[h].slot = i
  BY <1>1 DEF Inv, StartsOK, RecordOf
<1>3. /\ n \in Records /\ n.state = "Published" /\ n.handle = h
      /\ n.generation = records[i].generation /\ n.owner = records[i].owner
  BY <1>1, <1>2 DEF TypeOK, Records
<1>4. records' = [records EXCEPT ![i] = n]
  BY <1>1 DEF TypeOK, PublishTaskRetirement
<1> HIDE DEF n
<1>5. /\ records' \in [Slots -> Records] /\ records'[i] = n
      /\ \A j \in Slots \ {i} : records'[j] = records[j]
  BY <1>1, <1>3, <1>4 DEF TypeOK
<1>6. Moved(c, "start", "leave")
  BY <1>1, MoveTo DEF PublishTaskRetirement, Stages
<1>7. UNCHANGED <<pool, nextGeneration, closed, member, mutex, task>>
  BY DEF PublishTaskRetirement
<1>8. TypeOK'
  BY <1>1, <1>2, <1>5, <1>6, <1>7 DEF TypeOK, PublishTaskRetirement, Moved
<1>9. StagesOK'
  BY <1>1, <1>6, <1>7, StagesStep DEF Moved
<1>10. StartsOK'
  <2> SUFFICES ASSUME NEW d \in Callers, call'[d].at \in {"create", "publish", "cancel"}
               PROVE  StartsOK!(d)'
    BY DEF StartsOK
  <2>1. d # c /\ call'[d] = call[d] /\ StartsOK!(d)
    BY <1>6 DEF Moved, Inv, StartsOK
  <2>2. member[call[d].service].slot \in Slots \ {i}
    BY <1>1, <2>1, InFlight, InFlightApart DEF Inv
  <2> QED
    BY <1>5, <1>7, <2>1, <2>2 DEF RecordOf
<1>11. WorkersOK'
  <2> SUFFICES ASSUME NEW g \in Handles, task[g].state # "none"
               PROVE  WorkersOK!(g)'
    BY <1>7 DEF WorkersOK
  <2>1. WorkersOK!(g) /\ task[g].slot \in Slots
    BY <1>1 DEF Inv, WorkersOK, TypeOK, Workers
  <2>2. CASE task[g].slot = i
    <3>1. g = h /\ task[g].state = "waiting"
      BY <1>1, <2>2, ReservedApart
    <3> QED
      BY <1>2, <1>3, <1>5, <1>7, <2>1, <3>1 DEF OwnRecord
  <2>3. CASE task[g].slot # i
    <3>1. OwnRecord(g)' = OwnRecord(g)
      BY <1>5, <1>7, <2>1, <2>3 DEF OwnRecord
    <3>2. ASSUME NEW d \in Callers, call[d].at = "publish",
                 member[call[d].service].slot = task[g].slot
          PROVE  call'[d] = call[d]
      BY <1>6, <2>3, <3>2 DEF Moved
    <3> QED
      BY <1>7, <2>1, <3>1, <3>2
  <2> QED
    BY <2>2, <2>3
<1>12. FinishedOK'
  BY <1>3, <1>5, <1>7 DEF Inv, FinishedOK
<1>13. ClaimsOK'
  <2> SUFFICES ASSUME NEW d \in Callers, call'[d].at \in {"delete", "mark"}
               PROVE  ClaimsOK!(d)'
    BY DEF ClaimsOK
  <2>1. call'[d] = call[d] /\ ClaimsOK!(d) /\ call[d].target.slot \in Slots \ {i}
    BY <1>1, <1>6, ReservedApart DEF Moved, Inv, ClaimsOK, TypeOK, Calls, Tickets
  <2>2. \A e \in Callers : call'[e].at \in {"delete", "mark"} => call'[e] = call[e]
    BY <1>6 DEF Moved
  <2> QED
    BY <1>5, <1>7, <2>1, <2>2 DEF RecordOf
<1> QED
  BY <1>8, <1>9, <1>10, <1>11, <1>12, <1>13 DEF Inv

\* The record of a worker that was never created is given up.
LEMMA CancelTaskRetirementStep ==
    ASSUME Inv, NEW c \in Callers, CancelTaskRetirement(c)
    PROVE  Inv'
<1> DEFINE s == call[c].service
           i == member[s].slot
           n == [records[i] EXCEPT !.state = "Reaped"]
<1>1. /\ TypeOK /\ call[c].op = "start" /\ call[c].at = "cancel" /\ call[c] \in Calls
      /\ s \in Services /\ mutex[s] = c /\ i \in Slots
  BY InFlight DEF Inv, CancelTaskRetirement, At
<1>2. n \in Records /\ n.state = "Reaped"
  BY <1>1 DEF TypeOK, Records
<1>3. records' = [records EXCEPT ![i] = n]
  BY <1>1 DEF TypeOK, CancelTaskRetirement
<1> HIDE DEF n
<1>4. /\ records' \in [Slots -> Records] /\ records'[i] = n
      /\ \A j \in Slots \ {i} : records'[j] = records[j]
  BY <1>1, <1>2, <1>3 DEF TypeOK
<1>5. Moved(c, "start", "restore")
  BY <1>1, MoveTo DEF CancelTaskRetirement, Stages
<1>6. UNCHANGED <<pool, nextGeneration, closed, member, mutex, active, stopRequested, task>>
  BY DEF CancelTaskRetirement, serviceVars
<1>7. TypeOK'
  BY <1>1, <1>4, <1>5, <1>6 DEF TypeOK, Moved
<1>8. StagesOK'
  BY <1>1, <1>5, <1>6, StagesStep DEF Moved
<1>9. StartsOK'
  <2> SUFFICES ASSUME NEW d \in Callers, call'[d].at \in {"create", "publish", "cancel"}
               PROVE  StartsOK!(d)'
    BY DEF StartsOK
  <2>1. d # c /\ call'[d] = call[d] /\ StartsOK!(d)
    BY <1>5 DEF Moved, Inv, StartsOK
  <2>2. member[call[d].service].slot \in Slots \ {i}
    BY <1>1, <2>1, InFlight, InFlightApart DEF Inv
  <2> QED
    BY <1>4, <1>6, <2>1, <2>2 DEF RecordOf
<1>10. WorkersOK'
  <2> SUFFICES ASSUME NEW g \in Handles, task[g].state # "none"
               PROVE  WorkersOK!(g)'
    BY <1>6 DEF WorkersOK
  <2>1. WorkersOK!(g) /\ task[g].slot \in Slots \ {i}
    BY <1>1, ReservedApart DEF Inv, WorkersOK, TypeOK, Workers
  <2>2. OwnRecord(g)' = OwnRecord(g)
    BY <1>4, <1>6, <2>1 DEF OwnRecord
  <2>3. \A d \in Callers : call[d].at = "publish" => call'[d] = call[d]
    BY <1>1, <1>5 DEF Moved
  <2> QED
    BY <1>6, <2>1, <2>2, <2>3
<1>11. FinishedOK'
  BY <1>2, <1>4, <1>6 DEF Inv, FinishedOK
<1>12. ClaimsOK'
  <2> SUFFICES ASSUME NEW d \in Callers, call'[d].at \in {"delete", "mark"}
               PROVE  ClaimsOK!(d)'
    BY DEF ClaimsOK
  <2>1. call'[d] = call[d] /\ ClaimsOK!(d) /\ call[d].target.slot \in Slots \ {i}
    BY <1>1, <1>5, ReservedApart DEF Moved, Inv, ClaimsOK, TypeOK, Calls, Tickets
  <2>2. \A e \in Callers : call'[e].at \in {"delete", "mark"} => call'[e] = call[e]
    BY <1>5 DEF Moved
  <2> QED
    BY <1>4, <1>6, <2>1, <2>2 DEF RecordOf
<1> QED
  BY <1>7, <1>8, <1>9, <1>10, <1>11, <1>12 DEF Inv

\* A published worker enters its body: no Start waits for it, no reaper claims it.
LEMMA EnterBodyStep ==
    ASSUME Inv, NEW h \in Handles, EnterBody(h)
    PROVE  Inv'
<1> DEFINE w == [task[h] EXCEPT !.state = "business"]
<1>1. TypeOK /\ task[h].state = "waiting" /\ OwnRecord(h).state = "Published"
  BY DEF Inv, EnterBody, MayEnterBody
<1>2. OwnRecord(h).handle = h
  BY <1>1 DEF Inv, WorkersOK
<1>3. /\ w \in Workers /\ w.state = "business" /\ w.slot = task[h].slot
      /\ w.generation = task[h].generation /\ w.owner = task[h].owner
  BY <1>1 DEF TypeOK, Workers
<1>4. task' = [task EXCEPT ![h] = w]
  BY <1>1 DEF TypeOK, EnterBody
<1> HIDE DEF w
<1>5. /\ task' \in [Handles -> Workers] /\ task'[h] = w
      /\ \A g \in Handles \ {h} : task'[g] = task[g]
  BY <1>1, <1>3, <1>4 DEF TypeOK
<1>6. UNCHANGED <<pool, records, nextGeneration, closed, member, mutex, active, stopRequested, call>>
  BY DEF EnterBody, serviceVars
<1>7. TypeOK' /\ StagesOK'
  BY <1>1, <1>5, <1>6 DEF TypeOK, Inv, StagesOK
<1>8. StartsOK'
  <2> SUFFICES ASSUME NEW d \in Callers, call[d].at \in {"create", "publish", "cancel"}
               PROVE  StartsOK!(d)'
    BY <1>6 DEF StartsOK
  <2>1. StartsOK!(d)
    BY DEF Inv, StartsOK
  <2>2. call[d].at = "publish" => call[d].handle # h
    BY <1>1, <2>1 DEF RecordOf, OwnRecord
  <2> QED
    BY <1>5, <1>6, <2>1, <2>2 DEF RecordOf
<1>9. WorkersOK'
  <2> SUFFICES ASSUME NEW g \in Handles, task'[g].state # "none"
               PROVE  WorkersOK!(g)'
    BY DEF WorkersOK
  <2>1. CASE g = h
    BY <1>1, <1>2, <1>3, <1>5, <1>6, <2>1 DEF Inv, WorkersOK, OwnRecord
  <2>2. CASE g # h
    <3>1. task'[g] = task[g] /\ WorkersOK!(g)
      BY <1>5, <2>2 DEF Inv, WorkersOK
    <3> QED
      BY <1>6, <3>1 DEF OwnRecord
  <2> QED
    BY <2>1, <2>2
<1>10. FinishedOK'
  BY <1>1, <1>5, <1>6 DEF Inv, FinishedOK
<1>11. ClaimsOK'
  <2> SUFFICES ASSUME NEW d \in Callers, call[d].at \in {"delete", "mark"}
               PROVE  ClaimsOK!(d)'
    BY <1>6 DEF ClaimsOK
  <2>1. ClaimsOK!(d)
    BY DEF Inv, ClaimsOK
  <2> QED
    BY <1>1, <1>3, <1>5, <1>6, <2>1 DEF RecordOf
<1> QED
  BY <1>7, <1>8, <1>9, <1>10, <1>11 DEF Inv

\* The body has cleared the service's active handle.
LEMMA FinishBusinessStep ==
    ASSUME Inv, NEW h \in Handles, FinishBusiness(h)
    PROVE  Inv'
<1> DEFINE w == [task[h] EXCEPT !.state = "tail"]
<1>1. TypeOK /\ task[h].state = "business"
  BY DEF Inv, FinishBusiness
<1>2. OwnRecord(h).state = "Published" /\ OwnRecord(h).handle = h
  BY <1>1 DEF Inv, WorkersOK
<1>3. /\ w \in Workers /\ w.state = "tail" /\ w.slot = task[h].slot
      /\ w.generation = task[h].generation /\ w.owner = task[h].owner
  BY <1>1 DEF TypeOK, Workers
<1>4. task' = [task EXCEPT ![h] = w]
  BY <1>1 DEF TypeOK, FinishBusiness
<1> HIDE DEF w
<1>5. /\ task' \in [Handles -> Workers] /\ task'[h] = w
      /\ \A g \in Handles \ {h} : task'[g] = task[g]
  BY <1>1, <1>3, <1>4 DEF TypeOK
<1>6. UNCHANGED <<pool, records, nextGeneration, closed, member, mutex, stopRequested, call>>
  BY DEF FinishBusiness
<1>7. TypeOK' /\ StagesOK'
  BY <1>1, <1>5, <1>6 DEF TypeOK, Inv, StagesOK, FinishBusiness
<1>8. StartsOK'
  BY <1>1, <1>5, <1>6 DEF Inv, StartsOK, RecordOf
<1>9. WorkersOK'
  <2> SUFFICES ASSUME NEW g \in Handles, task'[g].state # "none"
               PROVE  WorkersOK!(g)'
    BY DEF WorkersOK
  <2>1. CASE g = h
    BY <1>1, <1>2, <1>3, <1>5, <1>6, <2>1 DEF Inv, WorkersOK, OwnRecord
  <2>2. CASE g # h
    <3>1. task'[g] = task[g] /\ WorkersOK!(g)
      BY <1>5, <2>2 DEF Inv, WorkersOK
    <3> QED
      BY <1>6, <3>1 DEF OwnRecord
  <2> QED
    BY <2>1, <2>2
<1>10. FinishedOK'
  BY <1>1, <1>5, <1>6 DEF Inv, FinishedOK
<1>11. ClaimsOK'
  <2> SUFFICES ASSUME NEW d \in Callers, call[d].at \in {"delete", "mark"}
               PROVE  ClaimsOK!(d)'
    BY <1>6 DEF ClaimsOK
  <2>1. ClaimsOK!(d)
    BY DEF Inv, ClaimsOK
  <2> QED
    BY <1>1, <1>3, <1>5, <1>6, <2>1 DEF RecordOf
<1> QED
  BY <1>7, <1>8, <1>9, <1>10, <1>11 DEF Inv

\* The body returns: the record is Finished and the worker parks.
LEMMA ReturnFromBodyStep ==
    ASSUME Inv, NEW h \in Handles, ReturnFromBody(h)
    PROVE  Inv'
<1> DEFINE w == [task[h] EXCEPT !.state = "parked"]
           i == task[h].slot
           n == [records[i] EXCEPT !.state = "Finished"]
<1>1. TypeOK /\ task[h].state = "tail" /\ i \in Slots
  BY DEF Inv, ReturnFromBody, TypeOK, Workers
<1>2. /\ records[i].state = "Published" /\ records[i].handle = h
      /\ records[i].generation = task[h].generation /\ records[i].owner = task[h].owner
  BY <1>1 DEF Inv, WorkersOK, OwnRecord
<1>3. /\ w \in Workers /\ w.state = "parked" /\ w.slot = i
      /\ w.generation = task[h].generation /\ w.owner = task[h].owner
  BY <1>1 DEF TypeOK, Workers
<1>4. /\ n \in Records /\ n.state = "Finished" /\ n.handle = h
      /\ n.generation = task[h].generation /\ n.owner = task[h].owner
  BY <1>1, <1>2 DEF TypeOK, Records
<1>5. task' = [task EXCEPT ![h] = w] /\ records' = [records EXCEPT ![i] = n]
  BY <1>1 DEF TypeOK, ReturnFromBody
<1> HIDE DEF w, n
<1>6. /\ task' \in [Handles -> Workers] /\ task'[h] = w
      /\ \A g \in Handles \ {h} : task'[g] = task[g]
      /\ records' \in [Slots -> Records] /\ records'[i] = n
      /\ \A j \in Slots \ {i} : records'[j] = records[j]
  BY <1>1, <1>3, <1>4, <1>5 DEF TypeOK
<1>7. UNCHANGED <<pool, nextGeneration, closed, member, mutex, active, stopRequested, call>>
  BY DEF ReturnFromBody, serviceVars
<1>8. TypeOK' /\ StagesOK'
  BY <1>1, <1>6, <1>7 DEF TypeOK, Inv, StagesOK
<1>9. StartsOK'
  <2> SUFFICES ASSUME NEW d \in Callers, call[d].at \in {"create", "publish", "cancel"}
               PROVE  StartsOK!(d)'
    BY <1>7 DEF StartsOK
  <2>1. StartsOK!(d) /\ member[call[d].service].slot \in Slots \ {i}
    BY <1>1, <1>2, InFlight DEF Inv, StartsOK, RecordOf
  <2> QED
    BY <1>1, <1>6, <1>7, <2>1 DEF RecordOf
<1>10. WorkersOK'
  <2> SUFFICES ASSUME NEW g \in Handles, task'[g].state # "none"
               PROVE  WorkersOK!(g)'
    BY DEF WorkersOK
  <2>1. CASE g = h
    BY <1>3, <1>4, <1>6, <2>1 DEF OwnRecord
  <2>2. CASE g # h
    <3>1. task'[g] = task[g] /\ WorkersOK!(g) /\ task[g].slot \in Slots
      BY <1>1, <1>6, <2>2 DEF Inv, WorkersOK, TypeOK, Workers
    <3>2. task[g].slot # i
      BY <1>1, <1>2, <2>2, <3>1 DEF Inv, TypeOK, Workers, OwnRecord
    <3> QED
      BY <1>6, <1>7, <3>1, <3>2 DEF OwnRecord
  <2> QED
    BY <2>1, <2>2
<1>11. FinishedOK'
  <2> SUFFICES ASSUME NEW j \in Slots, records'[j].state = "Finished"
               PROVE  FinishedOK!(j)'
    BY DEF FinishedOK
  <2>1. CASE j = i
    BY <1>3, <1>4, <1>6, <2>1
  <2>2. CASE j # i
    BY <1>1, <1>6, <2>2 DEF Inv, FinishedOK
  <2> QED
    BY <2>1, <2>2
<1>12. ClaimsOK'
  <2> SUFFICES ASSUME NEW d \in Callers, call[d].at \in {"delete", "mark"}
               PROVE  ClaimsOK!(d)'
    BY <1>7 DEF ClaimsOK
  <2>1. ClaimsOK!(d) /\ call[d].target.slot \in Slots \ {i}
    BY <1>1, <1>2 DEF Inv, ClaimsOK, RecordOf, TypeOK, Calls, Tickets
  <2> QED
    BY <1>1, <1>3, <1>6, <1>7, <2>1 DEF RecordOf
<1> QED
  BY <1>8, <1>9, <1>10, <1>11, <1>12 DEF Inv

\* A reaper finds the worker gone, claims it, or leaves it to a later pass.
LEMMA TryReapStep ==
    ASSUME Inv, NEW c \in Callers, TryReap(c)
    PROVE  Inv'
<1> DEFINE t == call[c].target
           i == t.slot
<1>1. /\ TypeOK /\ call[c] \in Calls /\ call[c].at = "reap" /\ t \in Tickets /\ i \in Slots
      /\ call[c].op \in {"stop", "destroy", "pump"}
  BY DEF Inv, TryReap, TypeOK, StagesOK, Calls, Tickets
<1>2. UNCHANGED <<pool, nextGeneration, closed, member, mutex, active, stopRequested, task>>
  BY DEF TryReap, serviceVars
<1>3. CASE call' = [call EXCEPT ![c].at = "joined"] /\ UNCHANGED records
  <2>1. Moved(c, call[c].op, "joined")
    BY <1>1, <1>3, MoveTo DEF Stages
  <2>2. TypeOK'
    BY <1>1, <1>2, <1>3, <2>1 DEF TypeOK, Moved
  <2>3. StagesOK'
    BY <1>1, <1>2, <2>1, StagesStep DEF Moved, Inv, StagesOK
  <2>4. SameLive(records, records')
    BY <1>1, <1>3 DEF SameLive, TypeOK
  <2>5. Quiet(c)
    BY <1>1, <1>2, <2>1, <2>4 DEF Quiet, Busy, Moved
  <2> QED
    BY <2>2, <2>3, <2>5, QuietKeeps DEF Inv
<1>4. CASE /\ ~Gone(t) /\ MayClaim(c, t)
           /\ records' = [records EXCEPT ![t.slot].state = "Reaping"]
           /\ call' = [call EXCEPT ![c] = [@ EXCEPT !.at = "delete", !.handle = RecordOf(t).handle]]
  <2> DEFINE h == records[i].handle
             n == [records[i] EXCEPT !.state = "Reaping"]
             r == [call[c] EXCEPT !.at = "delete", !.handle = h]
  <2>1. records[i].state = "Finished" /\ records[i].generation = t.generation
    BY <1>4 DEF Gone, MayClaim, RecordOf
  <2>2. h \in Handles /\ task[h].state = "parked" /\ task[h].slot = i
    BY <1>1, <2>1 DEF Inv, FinishedOK
  <2>3. /\ n \in Records /\ n.state = "Reaping" /\ n.handle = h
        /\ n.generation = t.generation /\ n.owner = records[i].owner
    BY <1>1, <2>1 DEF TypeOK, Records
  <2>4. /\ r \in Calls /\ r.op = call[c].op /\ r.at = "delete" /\ r.service = call[c].service
        /\ r.handle = h /\ r.target = t
    BY <1>1, <2>2 DEF Calls
  <2>5. call' = [call EXCEPT ![c] = r] /\ records' = [records EXCEPT ![i] = n]
    BY <1>1, <1>4 DEF TypeOK, RecordOf
  <2> HIDE DEF n, r
  <2>6. Moved(c, call[c].op, "delete") /\ call'[c] = r
    BY <1>1, <2>4, <2>5 DEF TypeOK, Moved
  <2>7. /\ records' \in [Slots -> Records] /\ records'[i] = n
        /\ \A j \in Slots \ {i} : records'[j] = records[j]
    BY <1>1, <2>3, <2>5 DEF TypeOK
  <2>8. TypeOK'
    BY <1>1, <1>2, <2>6, <2>7 DEF TypeOK, Moved
  <2>9. StagesOK'
    BY <1>1, <1>2, <2>6, StagesStep DEF Moved, Inv, StagesOK
  <2>10. StartsOK'
    <3> SUFFICES ASSUME NEW d \in Callers, call'[d].at \in {"create", "publish", "cancel"}
                 PROVE  StartsOK!(d)'
      BY DEF StartsOK
    <3>1. call'[d] = call[d] /\ StartsOK!(d) /\ member[call[d].service].slot \in Slots \ {i}
      BY <1>1, <2>1, <2>4, <2>6, InFlight DEF Moved, Inv, StartsOK, RecordOf
    <3> QED
      BY <1>2, <2>7, <3>1 DEF RecordOf
  <2>11. WorkersOK'
    <3> SUFFICES ASSUME NEW g \in Handles, task[g].state # "none"
                 PROVE  WorkersOK!(g)'
      BY <1>2 DEF WorkersOK
    <3>1. WorkersOK!(g) /\ task[g].slot \in Slots /\ task[g] \in Workers
      BY <1>1 DEF Inv, WorkersOK, TypeOK, Workers
    <3>2. CASE task[g].slot = i
      <4>1. task[g].state = "parked"
        BY <2>1, <3>1, <3>2 DEF OwnRecord, Workers
      <4> QED
        BY <1>2, <2>1, <2>3, <2>7, <3>1, <3>2, <4>1 DEF OwnRecord
    <3>3. CASE task[g].slot # i
      <4>1. OwnRecord(g)' = OwnRecord(g)
        BY <1>2, <2>7, <3>1, <3>3 DEF OwnRecord
      <4>2. \A d \in Callers : call[d].at = "publish" => call'[d] = call[d]
        BY <1>1, <2>6 DEF Moved
      <4> QED
        BY <1>2, <3>1, <4>1, <4>2
    <3> QED
      BY <3>2, <3>3
  <2>12. FinishedOK'
    BY <1>2, <2>3, <2>7 DEF Inv, FinishedOK
  <2>13. ClaimsOK'
    <3>1. ASSUME NEW d \in Callers, call[d].at \in {"delete", "mark"}
          PROVE  d # c /\ call'[d] = call[d] /\ ClaimsOK!(d) /\ call[d].target.slot \in Slots \ {i}
      BY <1>1, <2>1, <2>6, <3>1 DEF Moved, Inv, ClaimsOK, RecordOf, TypeOK, Calls, Tickets
    <3>2. ASSUME NEW d \in Callers \ {c}, call'[d].at \in {"delete", "mark"}
          PROVE  call[d].at \in {"delete", "mark"}
      BY <2>6, <3>2 DEF Moved
    <3> SUFFICES ASSUME NEW d \in Callers, call'[d].at \in {"delete", "mark"}
                 PROVE  ClaimsOK!(d)'
      BY DEF ClaimsOK
    <3>3. CASE d = c
      <4>1. /\ call'[c].target = t /\ call'[c].handle = h /\ call'[c].at = "delete"
            /\ records'[i].state = "Reaping" /\ records'[i].generation = t.generation
            /\ records'[i].handle = h /\ h \in Handles
            /\ task'[h].state = "parked" /\ task'[h].slot = i
        BY <1>2, <2>2, <2>3, <2>4, <2>6, <2>7
      <4>2. \A e \in Callers \ {c} : call'[e].at \in {"delete", "mark"} => call'[e].target.slot # i
        BY <3>1, <3>2
      <4> QED
        BY <3>3, <4>1, <4>2 DEF RecordOf
    <3>4. CASE d # c
      BY <1>2, <2>4, <2>6, <2>7, <3>1, <3>2, <3>4 DEF RecordOf
    <3> QED
      BY <3>3, <3>4
  <2> QED
    BY <2>8, <2>9, <2>10, <2>11, <2>12, <2>13 DEF Inv
<1> QED
  BY <1>3, <1>4 DEF TryReap

\* The claimed worker is deleted: no other lives on its record.
LEMMA DeleteTaskStep ==
    ASSUME Inv, NEW c \in Callers, DeleteTask(c)
    PROVE  Inv'
<1> DEFINE h == call[c].handle
           i == call[c].target.slot
<1>1. /\ TypeOK /\ call[c] \in Calls /\ call[c].at = "delete" /\ i \in Slots
      /\ call[c].op \in {"stop", "destroy", "pump"}
  BY DEF Inv, DeleteTask, TypeOK, StagesOK, Calls, Tickets
<1>2. /\ records[i].state = "Reaping" /\ records[i].handle = h /\ h \in Handles
      /\ task[h].state = "parked" /\ task[h].slot = i
  BY <1>1 DEF Inv, ClaimsOK, RecordOf
<1>3. Moved(c, call[c].op, "mark")
  BY <1>1, MoveTo DEF DeleteTask, Stages
<1>4. call'[c].target = call[c].target
  BY <1>1 DEF DeleteTask, TypeOK, Calls
<1>5. /\ task' \in [Handles -> Workers] /\ task'[h] = NoTask /\ NoTask.state = "none"
      /\ \A g \in Handles \ {h} : task'[g] = task[g]
  BY <1>1, <1>2, ConstantTypes DEF TypeOK, DeleteTask, NoTask
<1>6. UNCHANGED <<pool, records, nextGeneration, closed, member, mutex, active, stopRequested>>
  BY DEF DeleteTask, serviceVars
<1>7. TypeOK'
  BY <1>1, <1>3, <1>5, <1>6 DEF TypeOK, Moved
<1>8. StagesOK'
  BY <1>1, <1>3, <1>6, StagesStep DEF Moved, Inv, StagesOK
<1>9. StartsOK'
  <2> SUFFICES ASSUME NEW d \in Callers, call'[d].at \in {"create", "publish", "cancel"}
               PROVE  StartsOK!(d)'
    BY DEF StartsOK
  <2>1. call'[d] = call[d] /\ StartsOK!(d)
    BY <1>3 DEF Moved, Inv, StartsOK
  <2> QED
    BY <1>2, <1>5, <1>6, <2>1 DEF RecordOf
<1>10. WorkersOK'
  <2> SUFFICES ASSUME NEW g \in Handles, task'[g].state # "none"
               PROVE  WorkersOK!(g)'
    BY DEF WorkersOK
  <2>1. task'[g] = task[g] /\ WorkersOK!(g)
    BY <1>5 DEF Inv, WorkersOK
  <2>2. \A d \in Callers : call[d].at = "publish" => call'[d] = call[d]
    BY <1>1, <1>3 DEF Moved
  <2> QED
    BY <1>6, <2>1, <2>2 DEF OwnRecord
<1>11. FinishedOK'
  BY <1>2, <1>5, <1>6 DEF Inv, FinishedOK
<1>12. ClaimsOK'
  <2>1. \A d \in Callers : /\ call'[d].at \in {"delete", "mark"} <=> call[d].at \in {"delete", "mark"}
                           /\ call'[d].target = call[d].target
    BY <1>1, <1>3, <1>4 DEF Moved
  <2> SUFFICES ASSUME NEW d \in Callers, call'[d].at \in {"delete", "mark"}
               PROVE  ClaimsOK!(d)'
    BY DEF ClaimsOK
  <2>2. ClaimsOK!(d)
    BY <2>1 DEF Inv, ClaimsOK
  <2>3. CASE d = c
    \* The record names one worker, which is gone: no other can be parked on it.
    <3>1. ASSUME NEW g \in Handles \ {h}, task[g].state # "none" PROVE task[g].slot # i
      BY <1>1, <1>2, <3>1 DEF Inv, TypeOK, Workers, WorkersOK, OwnRecord
    <3> QED
      BY <1>2, <1>3, <1>4, <1>5, <1>6, <2>1, <2>2, <2>3, <3>1 DEF RecordOf, Moved
  <2>4. CASE d # c
    <3>1. call'[d] = call[d] /\ call[d].target.slot # i
      BY <1>1, <1>3, <2>1, <2>4 DEF Moved, Inv, ClaimsOK
    <3>2. call[d].at = "delete" => call[d].handle # h
      BY <1>2, <2>1, <2>2, <3>1
    <3> QED
      BY <1>5, <1>6, <2>1, <2>2, <3>1, <3>2 DEF RecordOf
  <2> QED
    BY <2>3, <2>4
<1> QED
  BY <1>7, <1>8, <1>9, <1>10, <1>11, <1>12 DEF Inv

\* The reaper gives its claim up: the record is Reaped or recycled.
LEMMA MarkReapedStep ==
    ASSUME Inv, NEW c \in Callers, MarkReaped(c)
    PROVE  Inv'
<1> DEFINE i == call[c].target.slot
           n == IF records[i].references = 0 THEN Cleared
                ELSE [records[i] EXCEPT !.state = "Reaped", !.handle = None]
           r == [call[c] EXCEPT !.at = "joined", !.handle = None]
<1>1. /\ TypeOK /\ call[c] \in Calls /\ call[c].at = "mark" /\ i \in Slots
      /\ call[c].op \in {"stop", "destroy", "pump"}
  BY DEF Inv, MarkReaped, TypeOK, StagesOK, Calls, Tickets
<1>2. /\ records[i].state = "Reaping"
      /\ \A g \in Handles : task[g].state = "none" \/ task[g].slot # i
      /\ \A d \in Callers \ {c} : call[d].at \in {"delete", "mark"} => call[d].target.slot # i
  BY <1>1 DEF Inv, ClaimsOK, RecordOf
<1>3. n \in Records /\ n.state \in {"Empty", "Reaped"}
  <2>1. Cleared \in Records /\ Cleared.state = "Empty"
    BY ConstantTypes DEF Cleared
  <2>2. /\ [records[i] EXCEPT !.state = "Reaped", !.handle = None] \in Records
        /\ [records[i] EXCEPT !.state = "Reaped", !.handle = None].state = "Reaped"
    BY <1>1 DEF TypeOK, Records
  <2> QED
    BY <2>1, <2>2
<1>4. r \in Calls /\ r.op = call[c].op /\ r.at = "joined" /\ r.service = call[c].service
  BY <1>1 DEF Calls
<1>5. call' = [call EXCEPT ![c] = r] /\ records' = [records EXCEPT ![i] = n]
  BY <1>1 DEF TypeOK, MarkReaped
<1> HIDE DEF n, r
<1>6. Moved(c, call[c].op, "joined")
  BY <1>1, <1>4, <1>5 DEF TypeOK, Moved
<1>7. /\ records' \in [Slots -> Records] /\ records'[i] = n
      /\ \A j \in Slots \ {i} : records'[j] = records[j]
  BY <1>1, <1>3, <1>5 DEF TypeOK
<1>8. UNCHANGED <<pool, nextGeneration, closed, member, mutex, active, stopRequested, task>>
  BY DEF MarkReaped, serviceVars
<1>9. TypeOK'
  BY <1>1, <1>6, <1>7, <1>8 DEF TypeOK, Moved
<1>10. StagesOK'
  BY <1>1, <1>6, <1>8, StagesStep DEF Moved, Inv, StagesOK
<1>11. StartsOK'
  <2> SUFFICES ASSUME NEW d \in Callers, call'[d].at \in {"create", "publish", "cancel"}
               PROVE  StartsOK!(d)'
    BY DEF StartsOK
  <2>1. call'[d] = call[d] /\ StartsOK!(d) /\ member[call[d].service].slot \in Slots \ {i}
    BY <1>1, <1>2, <1>6, InFlight DEF Moved, Inv, StartsOK, RecordOf
  <2> QED
    BY <1>7, <1>8, <2>1 DEF RecordOf
<1>12. WorkersOK'
  <2> SUFFICES ASSUME NEW g \in Handles, task[g].state # "none"
               PROVE  WorkersOK!(g)'
    BY <1>8 DEF WorkersOK
  <2>1. WorkersOK!(g) /\ task[g].slot \in Slots \ {i}
    BY <1>1, <1>2 DEF Inv, WorkersOK, TypeOK, Workers
  <2>2. OwnRecord(g)' = OwnRecord(g)
    BY <1>7, <1>8, <2>1 DEF OwnRecord
  <2>3. \A d \in Callers : call[d].at = "publish" => call'[d] = call[d]
    BY <1>1, <1>6 DEF Moved
  <2> QED
    BY <1>8, <2>1, <2>2, <2>3
<1>13. FinishedOK'
  BY <1>3, <1>7, <1>8 DEF Inv, FinishedOK
<1>14. ClaimsOK'
  <2> SUFFICES ASSUME NEW d \in Callers, call'[d].at \in {"delete", "mark"}
               PROVE  ClaimsOK!(d)'
    BY DEF ClaimsOK
  <2>1. d # c /\ call'[d] = call[d]
    BY <1>6 DEF Moved
  <2>2. ClaimsOK!(d) /\ call[d].target.slot \in Slots \ {i}
    BY <1>1, <1>2, <2>1 DEF Inv, ClaimsOK, TypeOK, Calls, Tickets
  <2>3. \A e \in Callers : call'[e].at \in {"delete", "mark"} => call'[e] = call[e]
    BY <1>6 DEF Moved
  <2> QED
    BY <1>7, <1>8, <2>1, <2>2, <2>3 DEF RecordOf
<1> QED
  BY <1>9, <1>10, <1>11, <1>12, <1>13, <1>14 DEF Inv

(***************************************************************************)
(* The theorems.                                                           *)
(***************************************************************************)
\* The invariant holds when the registry is created.
LEMMA InitInv == Init => Inv
<1> SUFFICES ASSUME Init PROVE Inv
  OBVIOUS
<1>1. TypeOK
  BY ConstantTypes, RetirementAssumption DEF Init, TypeOK
<1>2. StagesOK /\ StartsOK /\ ClaimsOK
  BY DEF Init, StagesOK, StartsOK, ClaimsOK, Idle
<1>3. WorkersOK /\ FinishedOK
  BY DEF Init, WorkersOK, FinishedOK, NoTask, Cleared
<1> QED
  BY <1>1, <1>2, <1>3 DEF Inv

\* Every step preserves the invariant.
LEMMA NextInv == Inv /\ [Next]_vars => Inv'
<1> SUFFICES ASSUME Inv, [Next]_vars PROVE Inv'
  OBVIOUS
<1>1. ASSUME NEW c \in Callers, NEW s \in Services,
             StartBegin(c, s) \/ StopBegin(c, s) \/ DestroyBegin(c, s)
      PROVE  Inv'
  BY <1>1, StartBeginStep, StopBeginStep, DestroyBeginStep
<1>2. ASSUME NEW c \in Callers, StartSteps(c) PROVE Inv'
  BY <1>2, EnsureRecordsStep, AllocatePoolStep, AdmitStep, CreateTaskStep,
     PublishTaskRetirementStep, StartReturnStep, CancelTaskRetirementStep, RestorePreviousStep
     DEF StartSteps
<1>3. ASSUME NEW c \in Callers, CopyTicket(c) \/ ReapSteps(c) PROVE Inv'
  BY <1>3, CopyTicketStep, TryReapStep, DeleteTaskStep, MarkReapedStep DEF ReapSteps
<1>4. ASSUME NEW c \in Callers, StopSteps(c) PROVE Inv'
  BY <1>4, StopReturnStep, DestroyJoinedStep, DrainNextStep, DrainReturnStep, DestroyReturnStep
     DEF StopSteps
<1>5. ASSUME NEW h \in Handles, WorkerSteps(h) PROVE Inv'
  BY <1>5, EnterBodyStep, FinishBusinessStep, ReturnFromBodyStep DEF WorkerSteps
<1>6. ASSUME (\E i \in Slots : PumpSlot(i)) \/ PumpNext PROVE Inv'
  BY <1>6, PumpSlotStep, PumpNextStep
<1>7. CASE UNCHANGED vars
  <2>1. TypeOK'
    BY <1>7 DEF Inv, TypeOK, vars
  <2>2. StagesOK' /\ StartsOK'
    BY <1>7 DEF Inv, StagesOK, StartsOK, RecordOf, vars
  <2>3. WorkersOK' /\ FinishedOK' /\ ClaimsOK'
    BY <1>7 DEF Inv, WorkersOK, FinishedOK, ClaimsOK, RecordOf, OwnRecord, vars
  <2> QED
    BY <2>1, <2>2, <2>3 DEF Inv
<1> QED
  BY <1>1, <1>2, <1>3, <1>4, <1>5, <1>6, <1>7 DEF Next

\* The inductive invariant holds in every reachable state.
THEOREM Invariance == Spec => []Inv
  BY InitInv, NextInv, PTL DEF Spec

\* Every variable keeps its type for any number of slots, services, clients and
\* TCB addresses: tickets name slots of the table and generations never pass
\* the maximum at which admission stops.
THEOREM TypeCorrect == Spec => []TypeOK
<1>1. Inv => TypeOK
  BY DEF Inv
<1> QED
  BY <1>1, Invariance, PTL

\* The registry deletes a worker only after its body returned, through the one
\* reaper that claimed its record, whatever callers, services and addresses
\* there are and however often an address is reused (TryReap).
THEOREM OnlyParkedWorkersDeleted == Spec => []OnlyParkedDeleted
<1>1. Inv => OnlyParkedDeleted
  <2> SUFFICES ASSUME Inv, NEW c \in Callers, call[c].at = "delete"
               PROVE  OnlyParkedDeleted!(c)
    BY DEF OnlyParkedDeleted
  <2> DEFINE t == call[c].target
             h == call[c].handle
  <2>1. /\ RecordOf(t).state = "Reaping" /\ RecordOf(t).generation = t.generation
        /\ h \in Handles /\ task[h].state = "parked" /\ task[h].slot = t.slot
    BY DEF Inv, ClaimsOK
  <2>2. task[h].generation = t.generation
    BY <2>1 DEF Inv, WorkersOK, OwnRecord, RecordOf
  <2>3. ASSUME NEW d \in Callers \ {c}, call[d].at = "delete" PROVE call[d].handle # h
    <3>1. call[d].target.slot # t.slot /\ task[call[d].handle].slot = call[d].target.slot
      BY <2>3 DEF Inv, ClaimsOK
    <3> QED
      BY <2>1, <3>1
  <2> QED
    BY <2>1, <2>2, <2>3
<1> QED
  BY <1>1, Invariance, PTL

(***************************************************************************)
(* The second layer: who counts a record.  Each place that can hold a      *)
(* ticket is a key, so that a step of the registry is a change of one or   *)
(* two keys together with the count of one record.                         *)
(***************************************************************************)
MemberKey(s)   == <<"member", s>>
TicketKey(c)   == <<"ticket", c>>
PreviousKey(c) == <<"previous", c>>
Keys == {MemberKey(s) : s \in Services} \cup {TicketKey(c) : c \in Callers}
        \cup {PreviousKey(c) : c \in Callers}
HeldIn(m, r) == [k \in Keys |-> IF k[1] = "member" THEN m[k[2]]
                                ELSE IF k[1] = "ticket" THEN r[k[2]].ticket
                                ELSE r[k[2]].previous]
Held == HeldIn(member, call)

Id(recs, i)     == [slot |-> i, generation |-> recs[i].generation]
Holders(T, x)   == {k \in Keys : T[k] = x}

\* A used record counts its holders, a ticket names a record of its generation,
\* and a record is empty exactly when it has no generation.
Counted(recs, T, i) ==
    recs[i].generation # 0 =>
        /\ IsFiniteSet(Holders(T, Id(recs, i)))
        /\ recs[i].references = Cardinality(Holders(T, Id(recs, i)))
Tidy(recs, T) ==
    /\ \A i \in Slots : Counted(recs, T, i)
    /\ \A k \in Keys : T[k].generation # 0 => recs[T[k].slot].generation = T[k].generation
    /\ \A i \in Slots : recs[i].generation = 0 <=> recs[i].state = "Empty"

\* Key k names the same record before and after, or none.
SameHeld(T, U, k) == U[k] = T[k] \/ (U[k].generation = 0 /\ T[k].generation = 0)

\* The ticket of key k is replaced by t; no other key changes.
Rekeyed(T, U, k, t) ==
    /\ T \in [Keys -> Tickets] /\ U \in [Keys -> Tickets]
    /\ k \in Keys /\ U[k] = t
    /\ \A l \in Keys \ {k} : SameHeld(T, U, l)

\* Two tickets are equal when they agree on slot and generation.
LEMMA SameTicket ==
    ASSUME NEW t \in Tickets, NEW recs \in [Slots -> Records], NEW i \in Slots
    PROVE  t = Id(recs, i) <=> t.slot = i /\ t.generation = recs[i].generation
  BY DEF Tickets, Id

\* A held ticket's record is in use and counted at least once.
LEMMA HeldIsCounted ==
    ASSUME NEW recs \in [Slots -> Records], NEW T \in [Keys -> Tickets], Tidy(recs, T),
           NEW k \in Keys, T[k].generation # 0
    PROVE  /\ recs[T[k].slot].generation = T[k].generation
           /\ recs[T[k].slot].state # "Empty"
           /\ recs[T[k].slot].references > 0
<1> DEFINE i == T[k].slot
           H == Holders(T, Id(recs, i))
<1>1. T[k] \in Tickets /\ i \in Slots /\ recs[i].generation = T[k].generation
  BY DEF Tidy, Tickets
<1>2. k \in H
  BY <1>1, SameTicket DEF Holders
<1>3. IsFiniteSet(H) /\ recs[i].references = Cardinality(H)
  BY <1>1 DEF Tidy, Counted
<1>4. Cardinality(H) # 0 /\ Cardinality(H) \in Nat
  BY <1>2, <1>3, FS_EmptySet, FS_CardinalityType
<1>5. recs[i].state # "Empty"
  BY <1>1 DEF Tidy
<1> QED
  BY <1>1, <1>3, <1>4, <1>5

\* Copying a ticket to a free key counts one more holder of its record.
LEMMA RetainTidy ==
    ASSUME NEW recs \in [Slots -> Records], NEW T, NEW U, NEW k, NEW t \in Tickets,
           Tidy(recs, T), Rekeyed(T, U, k, t), T[k].generation = 0,
           t.generation # 0 => recs[t.slot].generation = t.generation
    PROVE  Tidy(Retained(recs, t), U)
<1> DEFINE new == Retained(recs, t)
           r == [recs[t.slot] EXCEPT !.references = @ + 1]
<1>1. t.slot \in Slots /\ T[k] \in Tickets
  BY DEF Tickets, Rekeyed
<1>0. new = Retained(recs, t)
  OBVIOUS
<1>2. CASE t.generation = 0
  <2>1. new = recs
    BY <1>2 DEF Retained
  <2>2. ASSUME NEW i \in Slots, recs[i].generation # 0
        PROVE  Holders(U, Id(recs, i)) = Holders(T, Id(recs, i))
    BY <1>1, <1>2, <2>2 DEF Holders, Id, Rekeyed, SameHeld
  <2> HIDE DEF new
  <2> QED
    BY <1>0, <1>2, <2>1, <2>2 DEF Tidy, Counted, Rekeyed, SameHeld
<1>3. CASE t.generation # 0
  <2>1. new = [recs EXCEPT ![t.slot] = r]
    BY <1>3 DEF Retained
  <2>2. /\ r.generation = recs[t.slot].generation /\ r.state = recs[t.slot].state
        /\ r.references = recs[t.slot].references + 1
    BY <1>1 DEF Records
  <2> HIDE DEF r, new
  <2>3. /\ new[t.slot] = r /\ \A i \in Slots \ {t.slot} : new[i] = recs[i]
    BY <1>1, <2>1
  <2>4. \A i \in Slots : /\ new[i].generation = recs[i].generation
                         /\ new[i].state = recs[i].state /\ Id(new, i) = Id(recs, i)
    BY <2>2, <2>3 DEF Id
  <2>5. t = Id(recs, t.slot)
    BY <1>1, <1>3, SameTicket
  <2>6. ASSUME NEW i \in Slots, recs[i].generation # 0 PROVE Counted(new, U, i)
    <3>1. Counted(recs, T, i)
      BY DEF Tidy
    <3>2. CASE i = t.slot
      <4> DEFINE H == Holders(T, Id(recs, i))
      <4>1. IsFiniteSet(H) /\ Cardinality(H) = recs[i].references /\ k \notin H
        BY <1>1, <2>6, <3>1 DEF Counted, Holders, Id
      <4>2. Holders(U, Id(recs, i)) = H \cup {k}
        <5>1. Id(recs, i).generation # 0
          BY <2>6 DEF Id
        <5> QED
          BY <2>5, <3>2, <5>1 DEF Holders, Rekeyed, SameHeld
      <4> HIDE DEF H
      <4>3. IsFiniteSet(H \cup {k}) /\ Cardinality(H \cup {k}) = Cardinality(H) + 1
        BY <4>1, FS_AddElement
      <4> QED
        BY <2>2, <2>3, <2>4, <3>2, <4>1, <4>2, <4>3 DEF Counted
    <3>3. CASE i # t.slot
      <4>1. Holders(U, Id(recs, i)) = Holders(T, Id(recs, i))
        BY <1>1, <2>6, <3>3 DEF Holders, Id, Rekeyed, SameHeld
      <4> QED
        BY <2>3, <2>4, <3>1, <3>3, <4>1 DEF Counted
    <3> QED
      BY <3>2, <3>3
  <2>7. \A i \in Slots : Counted(new, U, i)
    BY <2>4, <2>6 DEF Counted
  <2>8. ASSUME NEW l \in Keys, U[l].generation # 0
        PROVE  new[U[l].slot].generation = U[l].generation
    <3>1. recs[U[l].slot].generation = U[l].generation /\ U[l].slot \in Slots
      BY <2>8 DEF Rekeyed, SameHeld, Tidy, Tickets
    <3> QED
      BY <2>4, <3>1
  <2> QED
    BY <1>0, <2>4, <2>7, <2>8 DEF Tidy
<1> QED
  BY <1>2, <1>3

\* Resetting a ticket counts one holder less, and recycles a Reaped record with its last.
LEMMA ReleaseTidy ==
    ASSUME NEW recs \in [Slots -> Records], NEW T, NEW U, NEW k, NEW z,
           Tidy(recs, T), Rekeyed(T, U, k, z), z.generation = 0
    PROVE  Tidy(Released(recs, T[k]), U)
<1> DEFINE t == T[k]
           new == Released(recs, t)
           r == [recs[t.slot] EXCEPT !.references = @ - 1]
           H(i) == Holders(T, Id(recs, i))
<1>1. t \in Tickets /\ t.slot \in Slots
  BY DEF Tickets, Rekeyed
<1>2. ASSUME NEW i \in Slots, recs[i].generation # 0
      PROVE  Holders(U, Id(recs, i)) = H(i) \ {k}
  <2>1. z # Id(recs, i) /\ Id(recs, i).generation # 0
    BY <1>2 DEF Id
  <2> QED
    BY <1>1, <2>1 DEF Holders, Rekeyed, SameHeld
<1>3. ASSUME NEW i \in Slots, recs[i].generation # 0, t # Id(recs, i)
      PROVE  Holders(U, Id(recs, i)) = H(i)
  BY <1>2, <1>3 DEF Holders
<1>0. new = Released(recs, T[k])
  OBVIOUS
<1>4. CASE t.generation = 0
  <2>1. new = recs
    BY <1>4 DEF Released
  <2>2. \A i \in Slots : recs[i].generation # 0 => t # Id(recs, i)
    BY <1>4 DEF Id
  <2> HIDE DEF new
  <2> QED
    BY <1>0, <1>3, <2>1, <2>2 DEF Tidy, Counted, Rekeyed, SameHeld
<1>5. CASE t.generation # 0
  <2>1. recs[t.slot].generation = t.generation /\ t = Id(recs, t.slot)
    BY <1>1, <1>5, SameTicket DEF Tidy, Rekeyed
  <2>2. IsFiniteSet(H(t.slot)) /\ recs[t.slot].references = Cardinality(H(t.slot)) /\ k \in H(t.slot)
    BY <1>1, <1>5, <2>1 DEF Tidy, Counted, Holders, Rekeyed, SameHeld
  <2>3. /\ IsFiniteSet(H(t.slot) \ {k})
        /\ Cardinality(H(t.slot) \ {k}) = recs[t.slot].references - 1
    BY <2>2, FS_RemoveElement
  <2>4. ASSUME NEW i \in Slots \ {t.slot}, recs[i].generation # 0
        PROVE  /\ Holders(U, Id(recs, i)) = H(i) /\ Counted(recs, T, i)
    <3>1. t # Id(recs, i)
      BY <2>1, <2>4 DEF Id
    <3> QED
      BY <1>3, <2>4, <3>1 DEF Tidy
  <2>5. CASE recs[t.slot].references = 1 /\ recs[t.slot].state = "Reaped"
    <3>1. new = [recs EXCEPT ![t.slot] = Cleared]
      BY <1>5, <2>5 DEF Released
    <3> HIDE DEF new
    <3>2. /\ new[t.slot] = Cleared /\ \A i \in Slots \ {t.slot} : new[i] = recs[i]
          /\ Cleared.generation = 0 /\ Cleared.state = "Empty"
      BY <1>1, <3>1 DEF Cleared
    <3>3. H(t.slot) \ {k} = {}
      BY <2>3, <2>5, FS_EmptySet
    <3>4. ASSUME NEW i \in Slots PROVE Counted(new, U, i)
      BY <2>4, <3>2 DEF Counted, Id
    <3>5. ASSUME NEW l \in Keys, U[l].generation # 0
          PROVE  new[U[l].slot].generation = U[l].generation
      <4>1. l # k /\ U[l] = T[l] /\ T[l] \in Tickets /\ recs[U[l].slot].generation = U[l].generation
        BY <3>5 DEF Rekeyed, SameHeld, Tidy
      <4>2. U[l].slot # t.slot
        <5>1. ASSUME U[l].slot = t.slot PROVE FALSE
          <6>1. T[l] = Id(recs, t.slot)
            BY <1>1, <4>1, <5>1, SameTicket
          <6> QED
            BY <3>3, <4>1, <6>1 DEF Holders
        <5> QED
          BY <5>1
      <4> QED
        BY <3>2, <4>1, <4>2 DEF Tickets
    <3>6. \A i \in Slots : new[i].generation = 0 <=> new[i].state = "Empty"
      BY <3>2 DEF Tidy
    <3> QED
      BY <1>0, <3>4, <3>5, <3>6 DEF Tidy
  <2>6. CASE ~(recs[t.slot].references = 1 /\ recs[t.slot].state = "Reaped")
    <3>1. new = [recs EXCEPT ![t.slot] = r]
      BY <1>5, <2>6 DEF Released
    <3>2. /\ r.generation = recs[t.slot].generation /\ r.state = recs[t.slot].state
          /\ r.references = recs[t.slot].references - 1
      BY <1>1 DEF Records
    <3> HIDE DEF r, new
    <3>3. /\ new[t.slot] = r /\ \A i \in Slots \ {t.slot} : new[i] = recs[i]
      BY <1>1, <3>1
    <3>4. \A i \in Slots : /\ new[i].generation = recs[i].generation
                           /\ new[i].state = recs[i].state /\ Id(new, i) = Id(recs, i)
      BY <3>2, <3>3 DEF Id
    <3>5. Counted(new, U, t.slot)
      BY <1>1, <1>2, <2>3, <3>2, <3>3, <3>4 DEF Counted
    <3>6. ASSUME NEW i \in Slots PROVE Counted(new, U, i)
      BY <2>4, <3>3, <3>4, <3>5 DEF Counted
    <3>7. ASSUME NEW l \in Keys, U[l].generation # 0
          PROVE  new[U[l].slot].generation = U[l].generation
      <4>1. recs[U[l].slot].generation = U[l].generation /\ U[l].slot \in Slots
        BY <3>7 DEF Rekeyed, SameHeld, Tidy, Tickets
      <4> QED
        BY <3>4, <4>1
    <3> QED
      BY <1>0, <3>4, <3>6, <3>7 DEF Tidy
  <2> QED
    BY <2>5, <2>6
<1> QED
  BY <1>4, <1>5

\* Moving a ticket from one key to a free one changes no count.
LEMMA MoveTidy ==
    ASSUME NEW recs \in [Slots -> Records], NEW T \in [Keys -> Tickets], NEW U \in [Keys -> Tickets],
           NEW k \in Keys, NEW l \in Keys \ {k}, Tidy(recs, T), T[l].generation = 0,
           U[l] = T[k], U[k].generation = 0, \A j \in Keys \ {k, l} : SameHeld(T, U, j)
    PROVE  Tidy(recs, U)
<1> DEFINE H(i) == Holders(T, Id(recs, i))
<1>1. ASSUME NEW i \in Slots, recs[i].generation # 0 PROVE Counted(recs, U, i)
  <2>1. IsFiniteSet(H(i)) /\ recs[i].references = Cardinality(H(i)) /\ l \notin H(i)
    BY <1>1 DEF Tidy, Counted, Holders, Id
  <2>2. k \notin Holders(U, Id(recs, i))
    BY <1>1 DEF Holders, Id
  <2>3. CASE k \in H(i)
    <3>1. Holders(U, Id(recs, i)) = (H(i) \ {k}) \cup {l}
      BY <1>1, <2>1, <2>2, <2>3 DEF Holders, SameHeld, Id
    <3>2. IsFiniteSet(H(i) \ {k}) /\ Cardinality(H(i) \ {k}) = Cardinality(H(i)) - 1
      BY <2>1, <2>3, FS_RemoveElement
    <3>3. /\ IsFiniteSet((H(i) \ {k}) \cup {l})
          /\ Cardinality((H(i) \ {k}) \cup {l}) = Cardinality(H(i) \ {k}) + 1
      BY <2>1, <3>2, FS_AddElement
    <3>4. Cardinality(H(i)) \in Nat
      BY <2>1, FS_CardinalityType
    <3> QED
      BY <2>1, <3>1, <3>2, <3>3, <3>4 DEF Counted
  <2>4. CASE k \notin H(i)
    <3>1. Holders(U, Id(recs, i)) = H(i)
      BY <1>1, <2>1, <2>2, <2>4 DEF Holders, SameHeld, Id
    <3> QED
      BY <2>1, <3>1 DEF Counted
  <2> QED
    BY <2>3, <2>4
<1>2. \A i \in Slots : Counted(recs, U, i)
  BY <1>1 DEF Counted
<1>3. ASSUME NEW j \in Keys, U[j].generation # 0
      PROVE  recs[U[j].slot].generation = U[j].generation
  BY <1>3 DEF Tidy, SameHeld
<1> QED
  BY <1>2, <1>3 DEF Tidy

\* A record admitted into an empty slot with a generation of its own has one holder.
LEMMA AdmitTidy ==
    ASSUME NEW recs \in [Slots -> Records], NEW new \in [Slots -> Records], NEW T, NEW U, NEW k,
           NEW i \in Slots, Tidy(recs, T), Rekeyed(T, U, k, Id(new, i)), T[k].generation = 0,
           recs[i].state = "Empty", new[i].state # "Empty", new[i].generation # 0,
           new[i].references = 1, \A j \in Slots \ {i} : new[j] = recs[j]
    PROVE  Tidy(new, U)
<1>1. recs[i].generation = 0 /\ \A l \in Keys : T[l].generation # 0 => T[l].slot # i
  BY DEF Tidy
<1>2. Holders(U, Id(new, i)) = {k}
  BY <1>1 DEF Holders, Rekeyed, SameHeld, Id
<1>3. Counted(new, U, i)
  BY <1>2, FS_Singleton DEF Counted
<1>4. ASSUME NEW j \in Slots \ {i}, recs[j].generation # 0 PROVE Counted(new, U, j)
  <2>1. Id(new, j) = Id(recs, j) /\ Counted(recs, T, j) /\ new[j] = recs[j]
    BY DEF Id, Tidy
  <2>2. Holders(U, Id(recs, j)) = Holders(T, Id(recs, j))
    BY <1>4 DEF Holders, Rekeyed, SameHeld, Id
  <2> QED
    BY <2>1, <2>2 DEF Counted
<1>5. \A j \in Slots : Counted(new, U, j)
  BY <1>3, <1>4 DEF Counted
<1>6. ASSUME NEW l \in Keys, U[l].generation # 0
      PROVE  new[U[l].slot].generation = U[l].generation
  <2>1. CASE l = k
    BY <2>1 DEF Rekeyed, SameHeld, Id
  <2>2. CASE l # k
    <3>1. U[l] = T[l] /\ U[l].slot \in Slots \ {i} /\ recs[U[l].slot].generation = U[l].generation
      BY <1>1, <1>6, <2>2 DEF Rekeyed, SameHeld, Tickets, Tidy
    <3> QED
      BY <3>1
  <2> QED
    BY <2>1, <2>2
<1>7. \A j \in Slots : new[j].generation = 0 <=> new[j].state = "Empty"
  BY DEF Tidy
<1> QED
  BY <1>5, <1>6, <1>7 DEF Tidy

\* A used record changes its state, its handle or its owner only.
LEMMA StateTidy ==
    ASSUME NEW recs, NEW new, NEW T, NEW i \in Slots, Tidy(recs, T),
           T \in [Keys -> Tickets], recs[i].state # "Empty", new[i].state # "Empty",
           new[i].generation = recs[i].generation, new[i].references = recs[i].references,
           \A j \in Slots \ {i} : new[j] = recs[j]
    PROVE  Tidy(new, T)
<1>1. \A j \in Slots : /\ new[j].generation = recs[j].generation
                       /\ new[j].references = recs[j].references /\ Id(new, j) = Id(recs, j)
  BY DEF Id
<1>2. \A j \in Slots : Counted(new, T, j)
  BY <1>1 DEF Tidy, Counted
<1>3. \A k \in Keys : T[k].slot \in Slots
  BY DEF Tickets
<1>4. \A j \in Slots : new[j].generation = 0 <=> new[j].state = "Empty"
  BY <1>1 DEF Tidy
<1>5. \A k \in Keys : T[k].generation # 0 => new[T[k].slot].generation = T[k].generation
  BY <1>1, <1>3 DEF Tidy
<1> QED
  BY <1>2, <1>4, <1>5 DEF Tidy

\* A record that nobody counts is recycled.
LEMMA ClearTidy ==
    ASSUME NEW recs \in [Slots -> Records], NEW new, NEW T \in [Keys -> Tickets],
           NEW i \in Slots, Tidy(recs, T),
           recs[i].references = 0, new[i] = Cleared, \A j \in Slots \ {i} : new[j] = recs[j]
    PROVE  Tidy(new, T)
<1>1. Cleared.generation = 0 /\ Cleared.state = "Empty"
  BY DEF Cleared
<1>2. \A k \in Keys : T[k].generation # 0 => T[k].slot # i
  BY HeldIsCounted
<1>3. \A j \in Slots : Counted(new, T, j)
  BY <1>1 DEF Tidy, Counted, Id
<1>4. \A k \in Keys : T[k].generation # 0 => new[T[k].slot].generation = T[k].generation
  BY <1>2 DEF Tidy, Tickets
<1>5. \A j \in Slots : new[j].generation = 0 <=> new[j].state = "Empty"
  BY <1>1 DEF Tidy
<1> QED
  BY <1>3, <1>4, <1>5 DEF Tidy

(***************************************************************************)
(* The invariant of the second layer.                                      *)
(***************************************************************************)
\* No generation is used twice.
UniqueOK ==
    /\ \A i \in Slots : records[i].generation < nextGeneration
    /\ \A i, j \in Slots : records[i].generation = records[j].generation /\ records[i].generation # 0
                               => i = j

\* When a caller holds tickets of its own, and what it reaps.
TicketsOK ==
    \A c \in Callers :
        /\ call[c].ticket.generation # 0 =>
              call[c].op \in {"stop", "destroy"} /\ call[c].at \in {"reap", "delete", "mark", "joined"}
        /\ call[c].previous.generation # 0 =>
              call[c].op = "start" /\ call[c].at \in {"create", "publish", "leave", "cancel", "restore"}
        /\ call[c].op \in {"stop", "destroy"} /\ call[c].at \in {"reap", "delete", "mark"} =>
              call[c].target = call[c].ticket /\ call[c].ticket.generation # 0

\* What a Join that returned has seen: the worker is gone, or it is the caller itself.
JoinedOK ==
    \A c \in Callers :
        call[c].at = "joined" /\ call[c].op \in {"stop", "destroy"} /\ call[c].ticket.generation # 0 =>
            \/ RecordOf(call[c].ticket).state = "Reaped"
            \/ /\ RecordOf(call[c].ticket).state \in {"Published", "Finished", "Reaping"}
               /\ RecordOf(call[c].ticket).handle = c

\* A destructor is a client's, its owner is closed, and what it drained stays drained.
DrainOK ==
    \A c \in Callers :
        /\ call[c].op = "destroy" => c \in Clients
        /\ call[c].op = "destroy" \/ call[c].at \in {"drained", "destroyed"} =>
              call[c].service \in Services /\ closed[call[c].service]
        /\ call[c].at \in {"drained", "destroyed"} =>
              \A i \in Slots : Live(records[i]) => records[i].owner # call[c].service

NoneOK == \A h \in Handles : task[h].state = "none" => task[h].generation = 0

Layer == Tidy(records, Held) /\ UniqueOK /\ TicketsOK /\ JoinedOK /\ DrainOK /\ NoneOK

(***************************************************************************)
(* How a step moves the tickets and the records.                           *)
(***************************************************************************)
\* What each key holds.
LEMMA HeldAt ==
    ASSUME NEW m \in [Services -> Tickets], NEW r \in [Callers -> Calls]
    PROVE  /\ HeldIn(m, r) \in [Keys -> Tickets]
           /\ \A s \in Services : MemberKey(s) \in Keys /\ HeldIn(m, r)[MemberKey(s)] = m[s]
           /\ \A c \in Callers : /\ TicketKey(c) \in Keys /\ PreviousKey(c) \in Keys
                                 /\ HeldIn(m, r)[TicketKey(c)] = r[c].ticket
                                 /\ HeldIn(m, r)[PreviousKey(c)] = r[c].previous
<1>1. \A s \in Services : /\ MemberKey(s) \in Keys /\ MemberKey(s)[1] = "member"
                          /\ MemberKey(s)[2] = s
  BY DEF Keys, MemberKey
<1>2. \A c \in Callers : /\ TicketKey(c) \in Keys /\ TicketKey(c)[1] = "ticket" /\ TicketKey(c)[2] = c
                         /\ PreviousKey(c) \in Keys /\ PreviousKey(c)[1] = "previous"
                         /\ PreviousKey(c)[2] = c
  BY DEF Keys, TicketKey, PreviousKey
<1>3. \A c \in Callers : r[c].ticket \in Tickets /\ r[c].previous \in Tickets
  BY DEF Calls
<1>4. ASSUME NEW k \in Keys PROVE HeldIn(m, r)[k] \in Tickets
  <2>1. \/ \E s \in Services : k = MemberKey(s)
        \/ \E c \in Callers : k = TicketKey(c) \/ k = PreviousKey(c)
    BY DEF Keys
  <2> QED
    BY <1>1, <1>2, <1>3, <2>1 DEF HeldIn
<1>5. HeldIn(m, r) = [k \in Keys |-> HeldIn(m, r)[k]]
  BY DEF HeldIn
<1>6. HeldIn(m, r) \in [Keys -> Tickets]
  BY <1>4, <1>5
<1> QED
  BY <1>1, <1>2, <1>6 DEF HeldIn

\* The places that hold a ticket are all different.
LEMMA KeysApart ==
    /\ \A s, x : MemberKey(s) = MemberKey(x) => s = x
    /\ \A c, x : TicketKey(c) = TicketKey(x) => c = x
    /\ \A c, x : PreviousKey(c) = PreviousKey(x) => c = x
    /\ \A x, y : /\ MemberKey(x) # TicketKey(y) /\ MemberKey(x) # PreviousKey(y)
                 /\ TicketKey(x) # PreviousKey(y)
  BY DEF MemberKey, TicketKey, PreviousKey

\* A caller's step moves tickets only at its own keys and at those members it changes.
LEMMA HeldStep ==
    ASSUME TypeOK, TypeOK', NEW c \in Callers, \A d \in Callers \ {c} : call'[d] = call[d],
           NEW k \in Keys, k # TicketKey(c), k # PreviousKey(c),
           \A s \in Services : k = MemberKey(s) => member'[s] = member[s]
    PROVE  SameHeld(Held, Held', k)
<1>1. /\ member \in [Services -> Tickets] /\ member' \in [Services -> Tickets]
      /\ call \in [Callers -> Calls] /\ call' \in [Callers -> Calls]
  BY DEF TypeOK
<1>2. \/ \E s \in Services : k = MemberKey(s)
      \/ \E d \in Callers : k = TicketKey(d) \/ k = PreviousKey(d)
  BY DEF Keys
<1>3. HeldIn(member', call')[k] = HeldIn(member, call)[k]
  BY <1>1, <1>2, HeldAt
<1> QED
  BY <1>3 DEF Held, SameHeld

\* Tickets without a generation count nowhere.
LEMMA ZeroTidy ==
    ASSUME NEW recs \in [Slots -> Records], NEW T \in [Keys -> Tickets], NEW U \in [Keys -> Tickets],
           Tidy(recs, T), \A k \in Keys : SameHeld(T, U, k)
    PROVE  Tidy(recs, U)
<1>1. ASSUME NEW i \in Slots, recs[i].generation # 0
      PROVE  Holders(U, Id(recs, i)) = Holders(T, Id(recs, i))
  <2>1. Id(recs, i).generation # 0
    BY <1>1 DEF Id
  <2> QED
    BY <2>1 DEF Holders, SameHeld
<1> QED
  BY <1>1 DEF Tidy, Counted, SameHeld

(***************************************************************************)
(* The steps that keep the second layer.                                   *)
(***************************************************************************)
UnderWay == {"Published", "Finished", "Reaping"}

\* What a step may do to the record of slot i.
Onward(i) ==
    \/ records'[i] = Cleared
    \/ /\ records[i].state = "Empty" /\ records'[i].owner \in Services
       /\ ~closed[records'[i].owner]
    \/ /\ records'[i].owner = records[i].owner
       /\ Live(records'[i]) => Live(records[i])
       /\ records[i].state = "Reaped" => records'[i].state = "Reaped"
       /\ records[i].state \in UnderWay =>
             \/ records'[i].state = "Reaped"
             \/ records'[i].state \in UnderWay /\ records'[i].handle = records[i].handle

\* A caller's step that takes every record onward keeps the layer if the caller itself does.
LEMMA LayerStep ==
    ASSUME TypeOK, TypeOK', Layer, NEW c \in Callers,
           \A d \in Callers \ {c} : call'[d] = call[d],
           \A s \in Services : closed[s] => closed'[s],
           \A i \in Slots : Onward(i),
           Tidy(records, Held)', UniqueOK', NoneOK',
           TicketsOK!(c)', JoinedOK!(c)', DrainOK!(c)'
    PROVE  Layer'
<1>1. TicketsOK'
  BY DEF Layer, TicketsOK
<1>2. DrainOK'
  <2> SUFFICES ASSUME NEW d \in Callers \ {c} PROVE DrainOK!(d)'
    BY DEF DrainOK
  <2>1. DrainOK!(d) /\ call'[d] = call[d]
    BY DEF Layer, DrainOK
  <2>2. \A i \in Slots : Live(records'[i]) =>
            \/ Live(records[i]) /\ records'[i].owner = records[i].owner
            \/ ~closed[records'[i].owner]
    BY DEF Onward, Live, Cleared
  <2> QED
    BY <2>1, <2>2
<1>3. JoinedOK'
  <2> SUFFICES ASSUME NEW d \in Callers \ {c} PROVE JoinedOK!(d)'
    BY DEF JoinedOK
  <2> DEFINE t == call[d].ticket
  <2>1. JoinedOK!(d) /\ call'[d] = call[d]
    BY DEF Layer, JoinedOK
  <2>2. t \in Tickets /\ t.slot \in Slots /\ Onward(t.slot)
    BY DEF TypeOK, Calls, Tickets
  <2>3. ASSUME t.generation # 0 PROVE records'[t.slot] # Cleared
    <3>1. /\ member' \in [Services -> Tickets] /\ call' \in [Callers -> Calls]
          /\ records' \in [Slots -> Records]
      BY DEF TypeOK
    <3>2. /\ Held' \in [Keys -> Tickets] /\ TicketKey(d) \in Keys /\ Held'[TicketKey(d)] = t
      BY <2>1, <3>1, HeldAt DEF Held
    <3>3. records'[t.slot].state # "Empty"
      <4> HIDE DEF t
      <4> DEFINE H == Held'
      <4>1. Tidy(records', H) /\ H \in [Keys -> Tickets] /\ H[TicketKey(d)] = t
        BY <3>2
      <4> HIDE DEF H
      <4> QED
        BY <2>3, <3>1, <3>2, <4>1, HeldIsCounted
    <3> QED
      BY <3>3 DEF Cleared
  <2> QED
    BY <2>1, <2>2, <2>3 DEF Onward, RecordOf, UnderWay
<1> QED
  BY <1>1, <1>2, <1>3 DEF Layer

\* Records whose counts alone change, but for those that are recycled.
Recounted(old, new) ==
    \A i \in Slots :
        \/ new[i] = Cleared
        \/ /\ new[i].state = old[i].state /\ new[i].handle = old[i].handle
           /\ new[i].generation = old[i].generation /\ new[i].owner = old[i].owner

LEMMA RetainedRecounts ==
    ASSUME NEW recs \in [Slots -> Records], NEW t \in Tickets
    PROVE  /\ Recounted(recs, Retained(recs, t))
           /\ \A i \in Slots : /\ Retained(recs, t)[i].state = recs[i].state
                              /\ Retained(recs, t)[i].handle = recs[i].handle
<1> DEFINE r == [recs[t.slot] EXCEPT !.references = @ + 1]
<1>1. /\ r.state = recs[t.slot].state /\ r.handle = recs[t.slot].handle
      /\ r.generation = recs[t.slot].generation /\ r.owner = recs[t.slot].owner
  BY DEF Records, Tickets
<1>2. Retained(recs, t) = recs \/ Retained(recs, t) = [recs EXCEPT ![t.slot] = r]
  BY DEF Retained
<1> HIDE DEF r
<1> QED
  BY <1>1, <1>2 DEF Recounted, Tickets

LEMMA ReleasedRecounts ==
    ASSUME NEW recs \in [Slots -> Records], NEW t \in Tickets
    PROVE  Recounted(recs, Released(recs, t))
<1> DEFINE r == [recs[t.slot] EXCEPT !.references = @ - 1]
<1>1. /\ r.state = recs[t.slot].state /\ r.handle = recs[t.slot].handle
      /\ r.generation = recs[t.slot].generation /\ r.owner = recs[t.slot].owner
  BY DEF Records, Tickets
<1>2. \/ Released(recs, t) = recs \/ Released(recs, t) = [recs EXCEPT ![t.slot] = r]
      \/ Released(recs, t) = [recs EXCEPT ![t.slot] = Cleared]
  BY DEF Released
<1> HIDE DEF r
<1> QED
  BY <1>1, <1>2 DEF Recounted, Tickets

\* Generations stay unique while no record gets a new one.
LEMMA UniqueKept ==
    ASSUME TypeOK, UniqueOK, nextGeneration' = nextGeneration,
           \A i \in Slots : records'[i].generation \in {0, records[i].generation}
    PROVE  UniqueOK'
<1>1. nextGeneration \in Nat /\ nextGeneration > 0
  BY RetirementAssumption DEF TypeOK
<1> QED
  BY <1>1 DEF UniqueOK

\* A caller's step that only counts and recycles.
LEMMA RecountStep ==
    ASSUME TypeOK, TypeOK', Layer, NEW c \in Callers,
           \A d \in Callers \ {c} : call'[d] = call[d],
           nextGeneration' = nextGeneration, task' = task,
           \A s \in Services : closed[s] => closed'[s],
           Recounted(records, records'), Tidy(records, Held)',
           TicketsOK!(c)', JoinedOK!(c)', DrainOK!(c)'
    PROVE  Layer'
<1>1. \A i \in Slots : Onward(i)
  BY DEF Recounted, Onward, Live, UnderWay
<1>2. UniqueOK'
  <2>1. \A i \in Slots : records'[i].generation \in {0, records[i].generation}
    BY DEF Recounted, Cleared
  <2> QED
    BY <2>1, UniqueKept DEF Layer
<1>3. NoneOK'
  BY DEF Layer, NoneOK
<1> QED
  BY <1>1, <1>2, <1>3, LayerStep

\* A step that moves no ticket leaves the counts right.
LEMMA StillHeld ==
    ASSUME TypeOK, TypeOK', Layer, NEW c \in Callers,
           \A d \in Callers \ {c} : call'[d] = call[d], member' = member,
           \/ call'[c].ticket = call[c].ticket
           \/ call'[c].ticket.generation = 0 /\ call[c].ticket.generation = 0,
           \/ call'[c].previous = call[c].previous
           \/ call'[c].previous.generation = 0 /\ call[c].previous.generation = 0
    PROVE  Tidy(records, Held') /\ Held' \in [Keys -> Tickets]
<1>1. /\ member \in [Services -> Tickets] /\ member' \in [Services -> Tickets]
      /\ call \in [Callers -> Calls] /\ call' \in [Callers -> Calls]
      /\ records \in [Slots -> Records]
  BY DEF TypeOK
<1>2. Held \in [Keys -> Tickets] /\ Held' \in [Keys -> Tickets]
  BY <1>1, HeldAt DEF Held
<1>3. \A k \in Keys : SameHeld(Held, Held', k)
  <2> SUFFICES ASSUME NEW k \in Keys PROVE SameHeld(Held, Held', k)
    OBVIOUS
  <2>1. CASE k \notin {TicketKey(c), PreviousKey(c)}
    BY <2>1, HeldStep
  <2>2. CASE k = TicketKey(c)
    BY <1>1, <2>2, HeldAt DEF Held, SameHeld
  <2>3. CASE k = PreviousKey(c)
    BY <1>1, <2>3, HeldAt DEF Held, SameHeld
  <2> QED
    BY <2>1, <2>2, <2>3
<1> DEFINE H == Held
           G == Held'
<1>4. Tidy(records, H) /\ H \in [Keys -> Tickets] /\ G \in [Keys -> Tickets]
      /\ \A k \in Keys : SameHeld(H, G, k)
  BY <1>2, <1>3 DEF Layer
<1>5. Tidy(records, G)
  <2> HIDE DEF H, G
  <2> QED
    BY <1>1, <1>4, ZeroTidy
<1> QED
  BY <1>4, <1>5

\* A caller's step that touches no record and no ticket.
LEMMA StillStep ==
    ASSUME TypeOK, TypeOK', Layer, NEW c \in Callers,
           \A d \in Callers \ {c} : call'[d] = call[d],
           UNCHANGED <<records, nextGeneration, member>>,
           \A s \in Services : closed[s] => closed'[s],
           \/ call'[c].ticket = call[c].ticket
           \/ call'[c].ticket.generation = 0 /\ call[c].ticket.generation = 0,
           \/ call'[c].previous = call[c].previous
           \/ call'[c].previous.generation = 0 /\ call[c].previous.generation = 0,
           NoneOK', TicketsOK!(c)', JoinedOK!(c)', DrainOK!(c)'
    PROVE  Layer'
<1>1. Tidy(records, Held)'
  BY StillHeld
<1>2. \A i \in Slots : Onward(i)
  BY DEF Onward, UnderWay
<1>3. UniqueOK'
  BY DEF Layer, UniqueOK
<1> QED
  BY <1>1, <1>2, <1>3, LayerStep

\* A caller's step that changes the state of one used record and moves no ticket.
LEMMA RecordStep ==
    ASSUME TypeOK, TypeOK', Layer, NEW c \in Callers,
           \A d \in Callers \ {c} : call'[d] = call[d],
           UNCHANGED <<nextGeneration, member, closed>>,
           \/ call'[c].ticket = call[c].ticket
           \/ call'[c].ticket.generation = 0 /\ call[c].ticket.generation = 0,
           \/ call'[c].previous = call[c].previous
           \/ call'[c].previous.generation = 0 /\ call[c].previous.generation = 0,
           NEW i \in Slots, \A j \in Slots \ {i} : records'[j] = records[j],
           records[i].state # "Empty", records'[i].state # "Empty",
           records'[i].generation = records[i].generation,
           records'[i].references = records[i].references, Onward(i),
           NoneOK', TicketsOK!(c)', JoinedOK!(c)', DrainOK!(c)'
    PROVE  Layer'
<1> DEFINE G == Held'
           old == records
           new == records'
<1>1. Tidy(old, G) /\ G \in [Keys -> Tickets]
  BY StillHeld
<1>2. Tidy(new, G)
  <2>1. /\ old[i].state # "Empty" /\ new[i].state # "Empty"
        /\ new[i].generation = old[i].generation /\ new[i].references = old[i].references
        /\ \A j \in Slots \ {i} : new[j] = old[j]
    OBVIOUS
  <2> HIDE DEF G, old, new
  <2> QED
    BY <1>1, <2>1, StateTidy
<1>3. Tidy(records, Held)'
  BY <1>2
<1>4. \A j \in Slots : Onward(j)
  BY DEF Onward, UnderWay
<1>5. UniqueOK'
  <2>1. \A j \in Slots : records'[j].generation \in {0, records[j].generation}
    OBVIOUS
  <2> QED
    BY <2>1, UniqueKept DEF Layer
<1> QED
  BY <1>3, <1>4, <1>5, LayerStep

\* The fields of a caller that only moves along.
LEMMA MoveKeeps ==
    ASSUME TypeOK, NEW c \in Callers, NEW a \in Stages, call' = [call EXCEPT ![c].at = a]
    PROVE  /\ call'[c].op = call[c].op /\ call'[c].at = a /\ call'[c].service = call[c].service
           /\ call'[c].ticket = call[c].ticket /\ call'[c].previous = call[c].previous
           /\ call'[c].target = call[c].target
           /\ \A d \in Callers \ {c} : call'[d] = call[d]
<1> DEFINE r == [call[c] EXCEPT !.at = a]
<1>1. /\ r.op = call[c].op /\ r.at = a /\ r.service = call[c].service
      /\ r.ticket = call[c].ticket /\ r.previous = call[c].previous /\ r.target = call[c].target
  BY DEF TypeOK, Calls
<1>2. call' = [call EXCEPT ![c] = r]
  BY DEF TypeOK
<1> HIDE DEF r
<1> QED
  BY <1>1, <1>2 DEF TypeOK

\* The fields of a caller that returned.
LEMMA IdleKeeps ==
    ASSUME TypeOK, NEW c \in Callers, call' = [call EXCEPT ![c] = Idle]
    PROVE  /\ call'[c].op = "none" /\ call'[c].at = "idle"
           /\ call'[c].ticket.generation = 0 /\ call'[c].previous.generation = 0
           /\ \A d \in Callers \ {c} : call'[d] = call[d]
  BY DEF TypeOK, Idle, NoTicket

\* An operation begins: the caller was idle and holds no ticket.
LEMMA BeginLayer ==
    ASSUME Inv, Inv', Layer, NEW c \in Callers, NEW s \in Services,
           StartBegin(c, s) \/ StopBegin(c, s) \/ DestroyBegin(c, s)
    PROVE  Layer'
<1>1. TypeOK /\ TypeOK' /\ call[c] = Idle
  BY DEF Inv, StartBegin, StopBegin, DestroyBegin, MayCall
<1>2. PICK op \in {"start", "stop", "destroy"}, at \in {"ensure", "copy", "drain"} :
          /\ call' = [call EXCEPT ![c] = [Idle EXCEPT !.op = op, !.at = at, !.service = s]]
          /\ op = "destroy" => c \in Clients /\ closed' = [closed EXCEPT ![s] = TRUE]
          /\ op # "destroy" => closed' = closed
  BY DEF StartBegin, StopBegin, DestroyBegin, serviceVars
<1> DEFINE r == [Idle EXCEPT !.op = op, !.at = at, !.service = s]
<1>3. /\ r.op = op /\ r.at = at /\ r.service = s /\ r.ticket = NoTicket /\ r.previous = NoTicket
      /\ Idle.ticket = NoTicket /\ Idle.previous = NoTicket /\ NoTicket.generation = 0
  BY DEF Idle, NoTicket
<1>4. call' = [call EXCEPT ![c] = r]
  BY <1>2
<1> HIDE DEF r
<1>5. call'[c] = r /\ \A d \in Callers \ {c} : call'[d] = call[d]
  BY <1>1, <1>4 DEF TypeOK
<1>6. UNCHANGED <<records, nextGeneration, member, task>>
  BY DEF StartBegin, StopBegin, DestroyBegin, serviceVars
<1>7. \A x \in Services : closed[x] => closed'[x]
  BY <1>1, <1>2 DEF TypeOK
<1>8. op = "destroy" => closed'[s] = TRUE
  BY <1>1, <1>2 DEF TypeOK
<1>9. TicketsOK!(c)' /\ JoinedOK!(c)'
  BY <1>2, <1>3, <1>5
<1>10. DrainOK!(c)'
  BY <1>2, <1>3, <1>5, <1>8
<1>11. NoneOK'
  BY <1>6 DEF Layer, NoneOK
<1> QED
  BY <1>1, <1>3, <1>5, <1>6, <1>7, <1>9, <1>10, <1>11, StillStep

\* Start before it reserves, and the worker it creates: no ticket moves.
LEMMA EarlyStartLayer ==
    ASSUME Inv, Inv', Layer, NEW c \in Callers,
           EnsureRecords(c) \/ AllocatePool(c)
    PROVE  Layer'
<1>1. /\ TypeOK /\ TypeOK' /\ call[c].op = "start" /\ call[c].at \in {"ensure", "allocate"}
      /\ UNCHANGED <<records, nextGeneration, member, task, closed>>
  BY DEF Inv, EnsureRecords, AllocatePool, At, serviceVars
<1>2. call[c].ticket.generation = 0 /\ call[c].previous.generation = 0
  BY <1>1 DEF Layer, TicketsOK
<1>3. NoneOK'
  BY <1>1 DEF Layer, NoneOK
<1>4. CASE \E a \in {"admit", "allocate"} : call' = [call EXCEPT ![c].at = a]
  <2>1. PICK a \in {"admit", "allocate"} : call' = [call EXCEPT ![c].at = a]
    BY <1>4
  <2>2. /\ call'[c].op = "start" /\ call'[c].at = a
        /\ call'[c].ticket = call[c].ticket /\ call'[c].previous = call[c].previous
        /\ \A d \in Callers \ {c} : call'[d] = call[d]
    BY <1>1, <2>1, MoveKeeps DEF Stages
  <2> QED
    BY <1>1, <1>2, <1>3, <2>2, StillStep
<1>5. CASE call' = [call EXCEPT ![c] = Idle]
  <2>1. /\ call'[c].op = "none" /\ call'[c].at = "idle"
        /\ call'[c].ticket.generation = 0 /\ call'[c].previous.generation = 0
        /\ \A d \in Callers \ {c} : call'[d] = call[d]
    BY <1>1, <1>5, IdleKeeps
  <2> QED
    BY <1>1, <1>2, <1>3, <2>1, StillStep
<1> QED
  BY <1>4, <1>5 DEF EnsureRecords, AllocatePool

\* A worker is created, or there is no memory for it.
LEMMA CreateTaskLayer ==
    ASSUME Inv, Inv', Layer, NEW c \in Callers, CreateTask(c)
    PROVE  Layer'
<1>1. /\ TypeOK /\ TypeOK' /\ call[c].op = "start" /\ call[c].at = "create"
      /\ UNCHANGED <<records, nextGeneration, member, closed>>
  BY DEF Inv, CreateTask, At, serviceVars
<1>2. call[c].ticket.generation = 0
  BY <1>1 DEF Layer, TicketsOK
<1>3. CASE task' = task /\ call' = [call EXCEPT ![c].at = "cancel"]
  <2>1. /\ call'[c].op = "start" /\ call'[c].at = "cancel"
        /\ call'[c].ticket = call[c].ticket /\ call'[c].previous = call[c].previous
        /\ \A d \in Callers \ {c} : call'[d] = call[d]
    BY <1>1, <1>3, MoveKeeps DEF Stages
  <2>2. NoneOK'
    BY <1>3 DEF Layer, NoneOK
  <2> QED
    BY <1>1, <1>2, <2>1, <2>2, StillStep
<1>4. ASSUME NEW h \in Handles, NEW w, w.state = "waiting", task' = [task EXCEPT ![h] = w],
             call' = [call EXCEPT ![c] = [@ EXCEPT !.at = "publish", !.handle = h]]
      PROVE  Layer'
  <2> DEFINE r == [call[c] EXCEPT !.at = "publish", !.handle = h]
  <2>1. r.op = "start" /\ r.at = "publish" /\ r.ticket = call[c].ticket /\ r.previous = call[c].previous
    BY <1>1 DEF TypeOK, Calls
  <2>2. call' = [call EXCEPT ![c] = r]
    BY <1>4
  <2> HIDE DEF r
  <2>3. call'[c] = r /\ \A d \in Callers \ {c} : call'[d] = call[d]
    BY <1>1, <2>2 DEF TypeOK
  <2>4. NoneOK'
    BY <1>1, <1>4 DEF Layer, NoneOK, TypeOK
  <2> QED
    BY <1>1, <1>2, <2>1, <2>3, <2>4, StillStep
<1>5. CASE \E h \in Handles :
             /\ task' = [task EXCEPT ![h] = [state |-> "waiting", slot |-> member[call[c].service].slot,
                             generation |-> member[call[c].service].generation, owner |-> call[c].service]]
             /\ call' = [call EXCEPT ![c] = [@ EXCEPT !.at = "publish", !.handle = h]]
  BY <1>4, <1>5
<1> QED
  BY <1>3, <1>5 DEF CreateTask

\* Drain found nothing left of its owner; a pass of the pump begins and ends.
LEMMA DrainReturnLayer ==
    ASSUME Inv, Inv', Layer, NEW c \in Callers, DrainReturn(c)
    PROVE  Layer'
<1>1. /\ TypeOK /\ TypeOK' /\ call[c].op = "destroy" /\ call[c].at = "drain"
      /\ Owned(call[c].service) = {}
      /\ UNCHANGED <<records, nextGeneration, member, closed, task>>
  BY DEF Inv, DrainReturn, At, serviceVars
<1>2. /\ call'[c].op = "destroy" /\ call'[c].at = "drained" /\ call'[c].service = call[c].service
      /\ call'[c].ticket = call[c].ticket /\ call'[c].previous = call[c].previous
      /\ \A d \in Callers \ {c} : call'[d] = call[d]
  BY <1>1, MoveKeeps DEF Stages, DrainReturn
<1>3. TicketsOK!(c)' /\ JoinedOK!(c)' /\ NoneOK'
  BY <1>1, <1>2 DEF Layer, TicketsOK, NoneOK
<1>4. \A i \in Slots : Live(records[i]) => records[i].owner # call[c].service
  BY <1>1 DEF Owned, Live
<1>5. DrainOK!(c)'
  BY <1>1, <1>2, <1>4 DEF Layer, DrainOK
<1> QED
  BY <1>1, <1>2, <1>3, <1>5, StillStep

LEMMA PumpLayer ==
    ASSUME Inv, Inv', Layer, (\E i \in Slots : PumpSlot(i)) \/ PumpNext
    PROVE  Layer'
<1>1. /\ TypeOK /\ TypeOK' /\ Main \in Callers
      /\ UNCHANGED <<records, nextGeneration, member, closed, task>>
  BY DEF Inv, PumpSlot, PumpNext, serviceVars, Callers
<1>2. NoneOK'
  BY <1>1 DEF Layer, NoneOK
<1>3. CASE PumpNext
  <2>1. call[Main].ticket.generation = 0 /\ call[Main].previous.generation = 0
    BY <1>1, <1>3 DEF Layer, TicketsOK, PumpNext, At
  <2>2. /\ call'[Main].op = "none" /\ call'[Main].at = "idle"
        /\ call'[Main].ticket.generation = 0 /\ call'[Main].previous.generation = 0
        /\ \A d \in Callers \ {Main} : call'[d] = call[d]
    BY <1>1, <1>3, IdleKeeps DEF PumpNext
  <2> QED
    BY <1>1, <1>2, <2>1, <2>2, StillStep
<1>4. ASSUME NEW t, call[Main] = Idle,
             call' = [call EXCEPT ![Main] = [Idle EXCEPT !.op = "pump", !.at = "reap", !.target = t]]
      PROVE  Layer'
  <2> DEFINE r == [Idle EXCEPT !.op = "pump", !.at = "reap", !.target = t]
  <2>1. /\ r.op = "pump" /\ r.at = "reap" /\ r.ticket = NoTicket /\ r.previous = NoTicket
        /\ Idle.ticket = NoTicket /\ Idle.previous = NoTicket /\ NoTicket.generation = 0
    BY DEF Idle, NoTicket
  <2>2. call' = [call EXCEPT ![Main] = r]
    BY <1>4
  <2> HIDE DEF r
  <2>3. call'[Main] = r /\ \A d \in Callers \ {Main} : call'[d] = call[d]
    BY <1>1, <2>2 DEF TypeOK
  <2> QED
    BY <1>1, <1>2, <1>4, <2>1, <2>3, StillStep
<1> QED
  BY <1>3, <1>4 DEF PumpSlot

\* The worker exists: its record is Published.
LEMMA PublishLayer ==
    ASSUME Inv, Inv', Layer, NEW c \in Callers, PublishTaskRetirement(c)
    PROVE  Layer'
<1> DEFINE i == member[call[c].service].slot
           r == [records[i] EXCEPT !.state = "Published", !.handle = call[c].handle]
<1>1. /\ TypeOK /\ TypeOK' /\ call[c].op = "start" /\ call[c].at = "publish"
      /\ call[c].service \in Services /\ UNCHANGED <<nextGeneration, member, closed, task>>
  BY DEF Inv, StagesOK, PublishTaskRetirement, At
<1>2. i \in Slots /\ records[i] \in Records /\ records[i].state = "Reserved"
  BY <1>1 DEF Inv, TypeOK, StartsOK, Tickets, RecordOf
<1>3. /\ r.state = "Published" /\ r.generation = records[i].generation
      /\ r.references = records[i].references /\ r.owner = records[i].owner
  BY <1>2 DEF Records
<1>4. records' = [records EXCEPT ![i] = r]
  BY DEF PublishTaskRetirement
<1> HIDE DEF r
<1>5. records'[i] = r /\ \A j \in Slots \ {i} : records'[j] = records[j]
  BY <1>1, <1>2, <1>4 DEF TypeOK
<1>6. /\ call'[c].op = "start" /\ call'[c].at = "leave"
      /\ call'[c].ticket = call[c].ticket /\ call'[c].previous = call[c].previous
      /\ \A d \in Callers \ {c} : call'[d] = call[d]
  BY <1>1, MoveKeeps DEF Stages, PublishTaskRetirement
<1>7. TicketsOK!(c)' /\ NoneOK' /\ JoinedOK!(c)' /\ DrainOK!(c)'
  BY <1>1, <1>6 DEF Layer, TicketsOK, NoneOK
<1>8. Onward(i)
  BY <1>2, <1>3, <1>5 DEF Onward, Live, UnderWay
<1> QED
  BY <1>1, <1>2, <1>3, <1>5, <1>6, <1>7, <1>8, RecordStep

\* The worker could not be created: its record is Reaped.
LEMMA CancelLayer ==
    ASSUME Inv, Inv', Layer, NEW c \in Callers, CancelTaskRetirement(c)
    PROVE  Layer'
<1> DEFINE i == member[call[c].service].slot
           r == [records[i] EXCEPT !.state = "Reaped"]
<1>1. /\ TypeOK /\ TypeOK' /\ call[c].op = "start" /\ call[c].at = "cancel"
      /\ call[c].service \in Services /\ UNCHANGED <<nextGeneration, member, closed, task>>
  BY DEF Inv, StagesOK, CancelTaskRetirement, At, serviceVars
<1>2. i \in Slots /\ records[i] \in Records /\ records[i].state = "Reserved"
  BY <1>1 DEF Inv, TypeOK, StartsOK, Tickets, RecordOf
<1>3. /\ r.state = "Reaped" /\ r.generation = records[i].generation
      /\ r.references = records[i].references /\ r.owner = records[i].owner
  BY <1>2 DEF Records
<1>4. records' = [records EXCEPT ![i] = r]
  BY <1>1, <1>2 DEF CancelTaskRetirement, TypeOK
<1> HIDE DEF r
<1>5. records'[i] = r /\ \A j \in Slots \ {i} : records'[j] = records[j]
  BY <1>1, <1>2, <1>4 DEF TypeOK
<1>6. /\ call'[c].op = "start" /\ call'[c].at = "restore"
      /\ call'[c].ticket = call[c].ticket /\ call'[c].previous = call[c].previous
      /\ \A d \in Callers \ {c} : call'[d] = call[d]
  BY <1>1, MoveKeeps DEF Stages, CancelTaskRetirement
<1>7. TicketsOK!(c)' /\ NoneOK' /\ JoinedOK!(c)' /\ DrainOK!(c)'
  BY <1>1, <1>6 DEF Layer, TicketsOK, NoneOK
<1>8. Onward(i)
  BY <1>2, <1>3, <1>5 DEF Onward, Live, UnderWay
<1> QED
  BY <1>1, <1>2, <1>3, <1>5, <1>6, <1>7, <1>8, RecordStep

\* A worker's own steps.
LEMMA WorkerLayer ==
    ASSUME Inv, Inv', Layer, NEW h \in Handles, WorkerSteps(h)
    PROVE  Layer'
<1>1. /\ TypeOK /\ TypeOK' /\ h \in Callers /\ call' = call
      /\ UNCHANGED <<nextGeneration, member, closed>>
  BY DEF Inv, Callers, WorkerSteps, EnterBody, FinishBusiness, ReturnFromBody, serviceVars
<1>2. NoneOK'
  BY <1>1 DEF Layer, NoneOK, WorkerSteps, EnterBody, FinishBusiness, ReturnFromBody, TypeOK, Workers
<1>3. TicketsOK!(h)'
  BY <1>1 DEF Layer, TicketsOK
<1>4. CASE EnterBody(h) \/ FinishBusiness(h)
  <2>1. records' = records
    BY <1>4 DEF EnterBody, FinishBusiness
  <2>2. JoinedOK!(h)' /\ DrainOK!(h)'
    BY <1>1, <2>1 DEF Layer, JoinedOK, DrainOK, RecordOf
  <2> QED
    BY <1>1, <1>2, <1>3, <2>1, <2>2, StillStep
<1>5. CASE ReturnFromBody(h)
  <2> DEFINE i == task[h].slot
             r == [records[i] EXCEPT !.state = "Finished"]
  <2>1. i \in Slots /\ records[i] \in Records /\ call[h] = Idle /\ task[h].state = "tail"
    BY <1>1, <1>5 DEF ReturnFromBody, TypeOK, Workers
  <2>2. records[i].state = "Published"
    BY <2>1 DEF Inv, WorkersOK, OwnRecord
  <2>3. /\ r.state = "Finished" /\ r.generation = records[i].generation
        /\ r.references = records[i].references /\ r.owner = records[i].owner
        /\ r.handle = records[i].handle
    BY <2>1 DEF Records
  <2>4. records' = [records EXCEPT ![i] = r]
    BY <1>1, <1>5, <2>1 DEF ReturnFromBody, TypeOK
  <2> HIDE DEF r
  <2>5. records'[i] = r /\ \A j \in Slots \ {i} : records'[j] = records[j]
    BY <1>1, <2>1, <2>4 DEF TypeOK
  <2>6. JoinedOK!(h)' /\ DrainOK!(h)'
    BY <1>1, <2>1 DEF Idle
  <2>7. Onward(i)
    BY <2>2, <2>3, <2>5 DEF Onward, Live, UnderWay
  <2> QED
    BY <1>1, <1>2, <1>3, <2>1, <2>2, <2>3, <2>5, <2>6, <2>7, RecordStep
<1> QED
  BY <1>4, <1>5 DEF WorkerSteps

\* TryReap sees the worker gone, claims it, or lets the pump go on.
LEMMA TryReapLayer ==
    ASSUME Inv, Inv', Layer, NEW c \in Callers, TryReap(c)
    PROVE  Layer'
<1> DEFINE t == call[c].target
           i == t.slot
<1>1. /\ TypeOK /\ TypeOK' /\ call[c] \in Calls /\ call[c].at = "reap"
      /\ call[c].op \in {"stop", "destroy", "pump"}
      /\ i \in Slots /\ records[i] \in Records
      /\ UNCHANGED <<nextGeneration, member, closed, task>>
  BY DEF Inv, TryReap, TypeOK, StagesOK, Calls, Tickets, serviceVars
<1>2. NoneOK'
  BY <1>1 DEF Layer, NoneOK
<1>3. call[c].op # "pump" => call[c].ticket = t /\ t.generation # 0
  BY <1>1 DEF Layer, TicketsOK
<1>4. call[c].op # "pump" => records[i].generation = t.generation /\ records[i].state # "Empty"
  <2> DEFINE H == Held
  <2>1. /\ TicketKey(c) \in Keys /\ H[TicketKey(c)] = call[c].ticket /\ H \in [Keys -> Tickets]
        /\ Tidy(records, H) /\ records \in [Slots -> Records]
    BY <1>1, HeldAt DEF TypeOK, Held, Layer
  <2> HIDE DEF H
  <2> QED
    BY <1>3, <2>1, HeldIsCounted
<1>5. CASE /\ call' = [call EXCEPT ![c].at = "joined"] /\ UNCHANGED records
           /\ Gone(t) \/ call[c].op = "pump"
  <2>1. /\ call'[c].op = call[c].op /\ call'[c].at = "joined" /\ call'[c].service = call[c].service
        /\ call'[c].ticket = call[c].ticket /\ call'[c].previous = call[c].previous
        /\ \A d \in Callers \ {c} : call'[d] = call[d]
    BY <1>1, <1>5, MoveKeeps DEF Stages
  <2>2. TicketsOK!(c)'
    BY <1>1, <2>1 DEF Layer, TicketsOK
  <2>3. DrainOK!(c)'
    BY <1>1, <2>1 DEF Layer, DrainOK
  <2>4. JoinedOK!(c)'
    BY <1>1, <1>3, <1>4, <1>5, <2>1 DEF Gone, RecordOf
  <2> QED
    BY <1>1, <1>2, <1>5, <2>1, <2>2, <2>3, <2>4, StillStep
<1>6. CASE /\ MayClaim(c, t) /\ records' = [records EXCEPT ![i].state = "Reaping"]
           /\ call' = [call EXCEPT ![c] = [@ EXCEPT !.at = "delete", !.handle = RecordOf(t).handle]]
  <2> DEFINE n == [records[i] EXCEPT !.state = "Reaping"]
             r == [call[c] EXCEPT !.at = "delete", !.handle = RecordOf(t).handle]
  <2>1. records[i].state = "Finished"
    BY <1>6 DEF MayClaim, RecordOf
  <2>2. /\ n.state = "Reaping" /\ n.handle = records[i].handle /\ n.owner = records[i].owner
        /\ n.generation = records[i].generation /\ n.references = records[i].references
    BY <1>1 DEF Records
  <2>3. /\ r.op = call[c].op /\ r.at = "delete" /\ r.service = call[c].service
        /\ r.ticket = call[c].ticket /\ r.previous = call[c].previous /\ r.target = t
    BY <1>1 DEF Calls
  <2>4. call' = [call EXCEPT ![c] = r] /\ records' = [records EXCEPT ![i] = n]
    BY <1>1, <1>6 DEF TypeOK
  <2> HIDE DEF n, r
  <2>5. /\ call'[c] = r /\ \A d \in Callers \ {c} : call'[d] = call[d]
        /\ records'[i] = n /\ \A j \in Slots \ {i} : records'[j] = records[j]
    BY <1>1, <2>4 DEF TypeOK
  <2>6. TicketsOK!(c)'
    BY <1>1, <2>3, <2>5 DEF Layer, TicketsOK
  <2>7. DrainOK!(c)' /\ JoinedOK!(c)'
    BY <1>1, <2>3, <2>5 DEF Layer, DrainOK
  <2>8. Onward(i)
    BY <2>1, <2>2, <2>5 DEF Onward, Live, UnderWay
  <2> QED
    BY <1>1, <1>2, <2>1, <2>2, <2>3, <2>5, <2>6, <2>7, <2>8, RecordStep
<1> QED
  BY <1>5, <1>6 DEF TryReap

\* The worker is deleted: its handle has no generation any more.
LEMMA DeleteTaskLayer ==
    ASSUME Inv, Inv', Layer, NEW c \in Callers, DeleteTask(c)
    PROVE  Layer'
<1>1. /\ TypeOK /\ TypeOK' /\ call[c].at = "delete" /\ call[c].op \in {"stop", "destroy", "pump"}
      /\ UNCHANGED <<records, nextGeneration, member, closed>>
  BY DEF Inv, DeleteTask, TypeOK, StagesOK, Calls, serviceVars
<1>2. /\ call'[c].op = call[c].op /\ call'[c].at = "mark" /\ call'[c].service = call[c].service
      /\ call'[c].ticket = call[c].ticket /\ call'[c].previous = call[c].previous
      /\ call'[c].target = call[c].target
      /\ \A d \in Callers \ {c} : call'[d] = call[d]
  BY <1>1, MoveKeeps DEF Stages, DeleteTask
<1>3. NoneOK'
  BY <1>1 DEF Layer, NoneOK, DeleteTask, TypeOK, NoTask
<1>4. TicketsOK!(c)'
  BY <1>1, <1>2 DEF Layer, TicketsOK
<1>5. DrainOK!(c)' /\ JoinedOK!(c)'
  BY <1>1, <1>2 DEF Layer, DrainOK
<1> QED
  BY <1>1, <1>2, <1>3, <1>4, <1>5, StillStep

\* The reaper marks its record: Reaped for those who hold it, recycled when nobody does.
LEMMA MarkReapedLayer ==
    ASSUME Inv, Inv', Layer, NEW c \in Callers, MarkReaped(c)
    PROVE  Layer'
<1> DEFINE t == call[c].target
           i == t.slot
           n == [records[i] EXCEPT !.state = "Reaped", !.handle = None]
           r == [call[c] EXCEPT !.at = "joined", !.handle = None]
<1>1. /\ TypeOK /\ TypeOK' /\ call[c] \in Calls /\ call[c].at = "mark"
      /\ call[c].op \in {"stop", "destroy", "pump"}
      /\ i \in Slots /\ records[i] \in Records
      /\ UNCHANGED <<nextGeneration, member, closed, task>>
  BY DEF Inv, MarkReaped, TypeOK, StagesOK, Calls, Tickets, serviceVars
<1>2. records[i].state = "Reaping" /\ records[i].generation = t.generation
  BY <1>1 DEF Inv, ClaimsOK, RecordOf
<1>3. /\ r.op = call[c].op /\ r.at = "joined" /\ r.service = call[c].service
      /\ r.ticket = call[c].ticket /\ r.previous = call[c].previous
  BY <1>1 DEF Calls
<1>4. call' = [call EXCEPT ![c] = r]
  BY <1>1 DEF MarkReaped, TypeOK
<1> HIDE DEF r
<1>5. call'[c] = r /\ \A d \in Callers \ {c} : call'[d] = call[d]
  BY <1>1, <1>4 DEF TypeOK
<1>6. NoneOK' /\ TicketsOK!(c)'
  BY <1>1, <1>3, <1>5 DEF Layer, NoneOK, TicketsOK
<1>7. DrainOK!(c)'
  BY <1>1, <1>3, <1>5 DEF Layer, DrainOK
<1>8. call[c].op # "pump" => call[c].ticket = t /\ t.generation # 0
  BY <1>1 DEF Layer, TicketsOK
<1>9. call[c].op # "pump" => records[i].references # 0
  <2> DEFINE H == Held
  <2>1. /\ TicketKey(c) \in Keys /\ H[TicketKey(c)] = call[c].ticket /\ H \in [Keys -> Tickets]
        /\ Tidy(records, H) /\ records \in [Slots -> Records]
    BY <1>1, HeldAt DEF TypeOK, Held, Layer
  <2> HIDE DEF H
  <2>2. call[c].op # "pump" => records[i].references > 0
    BY <1>8, <2>1, HeldIsCounted
  <2> QED
    BY <1>1, <2>2 DEF Records
<1>10. CASE records[i].references = 0
  <2>1. records' = [records EXCEPT ![i] = Cleared]
    BY <1>1, <1>10 DEF MarkReaped, TypeOK
  <2>2. records'[i] = Cleared /\ \A j \in Slots \ {i} : records'[j] = records[j]
    BY <1>1, <2>1 DEF TypeOK
  <2> DEFINE G == Held'
             old == records
             new == records'
  <2>3. Tidy(old, G) /\ G \in [Keys -> Tickets]
    BY <1>1, <1>3, <1>5, StillHeld
  <2>4. old \in [Slots -> Records]
    BY <1>1 DEF TypeOK
  <2>5. Tidy(new, G)
    <3>1. old[i].references = 0 /\ new[i] = Cleared /\ \A j \in Slots \ {i} : new[j] = old[j]
      BY <1>10, <2>2
    <3> HIDE DEF G, old, new
    <3> QED
      BY <1>1, <2>3, <2>4, <3>1, ClearTidy
  <2>6. Tidy(records, Held)' /\ Recounted(records, records')
    BY <2>2, <2>5 DEF Recounted
  <2>7. JoinedOK!(c)'
    BY <1>1, <1>3, <1>5, <1>9, <1>10
  <2> QED
    BY <1>1, <1>5, <1>6, <1>7, <2>6, <2>7, RecountStep
<1>11. CASE records[i].references # 0
  <2>1. /\ n.state = "Reaped" /\ n.owner = records[i].owner
        /\ n.generation = records[i].generation /\ n.references = records[i].references
    BY <1>1 DEF Records
  <2>2. records' = [records EXCEPT ![i] = n]
    BY <1>1, <1>11 DEF MarkReaped, TypeOK
  <2> HIDE DEF n
  <2>3. records'[i] = n /\ \A j \in Slots \ {i} : records'[j] = records[j]
    BY <1>1, <2>2 DEF TypeOK
  <2>4. JoinedOK!(c)'
    BY <1>1, <1>3, <1>5, <1>8, <2>1, <2>3 DEF RecordOf
  <2>5. Onward(i)
    BY <1>2, <2>1, <2>3 DEF Onward, Live, UnderWay
  <2> QED
    BY <1>1, <1>2, <1>3, <1>5, <1>6, <1>7, <2>1, <2>3, <2>4, <2>5, RecordStep
<1> QED
  BY <1>10, <1>11

\* A caller takes a copy of a ticket.
LEMMA RetainHeld ==
    ASSUME TypeOK, TypeOK', Layer, NEW c \in Callers,
           \A d \in Callers \ {c} : call'[d] = call[d], member' = member,
           NEW t \in Tickets, call[c].ticket.generation = 0, call'[c].ticket = t,
           call'[c].previous = call[c].previous,
           t.generation # 0 => records[t.slot].generation = t.generation,
           records' = Retained(records, t)
    PROVE  Tidy(records, Held)' /\ Recounted(records, records')
<1> DEFINE T == Held
           U == Held'
           old == records
           k == TicketKey(c)
<1>1. /\ member \in [Services -> Tickets] /\ call \in [Callers -> Calls]
      /\ call' \in [Callers -> Calls] /\ member' \in [Services -> Tickets]
      /\ old \in [Slots -> Records]
  BY DEF TypeOK
<1>2. /\ T \in [Keys -> Tickets] /\ U \in [Keys -> Tickets] /\ k \in Keys
      /\ T[k] = call[c].ticket /\ U[k] = t
  BY <1>1, HeldAt DEF Held
<1>3. \A l \in Keys \ {k} : SameHeld(T, U, l)
  <2> SUFFICES ASSUME NEW l \in Keys \ {k} PROVE SameHeld(T, U, l)
    OBVIOUS
  <2>1. CASE l # PreviousKey(c)
    BY <2>1, HeldStep
  <2>2. CASE l = PreviousKey(c)
    BY <1>1, <2>2, HeldAt DEF Held, SameHeld
  <2> QED
    BY <2>1, <2>2
<1>4. Rekeyed(T, U, k, t) /\ T[k].generation = 0 /\ Tidy(old, T)
  BY <1>2, <1>3 DEF Rekeyed, Layer
<1>5. t.generation # 0 => old[t.slot].generation = t.generation
  OBVIOUS
<1>6. Tidy(Retained(old, t), U)
  <2> HIDE DEF T, U, old, k
  <2> QED
    BY <1>1, <1>4, <1>5, RetainTidy
<1>7. Recounted(old, Retained(old, t))
  BY <1>1, RetainedRecounts
<1> QED
  BY <1>6, <1>7

\* Key k gives its ticket up.
LEMMA ReleaseHeld ==
    ASSUME TypeOK, TypeOK', Layer, NEW k \in Keys, Held'[k].generation = 0,
           \A l \in Keys \ {k} : SameHeld(Held, Held', l),
           records' = Released(records, Held[k])
    PROVE  Tidy(records, Held)' /\ Recounted(records, records')
<1> DEFINE T == Held
           U == Held'
           old == records
<1>1. /\ member \in [Services -> Tickets] /\ call \in [Callers -> Calls]
      /\ call' \in [Callers -> Calls] /\ member' \in [Services -> Tickets]
      /\ old \in [Slots -> Records]
  BY DEF TypeOK
<1>2. /\ T \in [Keys -> Tickets] /\ U \in [Keys -> Tickets]
  BY <1>1, HeldAt DEF Held
<1>3. Rekeyed(T, U, k, U[k]) /\ U[k].generation = 0 /\ Tidy(old, T)
  BY <1>2 DEF Rekeyed, Layer
<1>4. Tidy(Released(old, T[k]), U) /\ T[k] \in Tickets
  <2> HIDE DEF T, U, old
  <2> QED
    BY <1>1, <1>2, <1>3, ReleaseTidy
<1>5. Recounted(old, Released(old, T[k]))
  BY <1>1, <1>4, ReleasedRecounts
<1> QED
  BY <1>4, <1>5

\* A caller gives up its copy or its previous ticket, and holds no other.
LEMMA ReleaseOwn ==
    ASSUME TypeOK, TypeOK', Layer, NEW c \in Callers,
           \A d \in Callers \ {c} : call'[d] = call[d], member' = member,
           call'[c].ticket.generation = 0, call'[c].previous.generation = 0,
           NEW t, records' = Released(records, t),
           \/ t = call[c].ticket /\ call[c].previous.generation = 0
           \/ t = call[c].previous /\ call[c].ticket.generation = 0
    PROVE  Tidy(records, Held)' /\ Recounted(records, records')
<1>1. /\ member \in [Services -> Tickets] /\ call \in [Callers -> Calls]
      /\ call' \in [Callers -> Calls] /\ member' \in [Services -> Tickets]
  BY DEF TypeOK
<1>2. /\ TicketKey(c) \in Keys /\ PreviousKey(c) \in Keys
      /\ Held[TicketKey(c)] = call[c].ticket /\ Held'[TicketKey(c)] = call'[c].ticket
      /\ Held[PreviousKey(c)] = call[c].previous /\ Held'[PreviousKey(c)] = call'[c].previous
  BY <1>1, HeldAt DEF Held
<1>3. PICK k \in {TicketKey(c), PreviousKey(c)} :
          t = Held[k] /\ \A l \in {TicketKey(c), PreviousKey(c)} \ {k} : Held[l].generation = 0
  <2>1. TicketKey(c) # PreviousKey(c)
    BY KeysApart
  <2>2. CASE t = call[c].ticket /\ call[c].previous.generation = 0
    BY <1>2, <2>1, <2>2
  <2>3. CASE t = call[c].previous /\ call[c].ticket.generation = 0
    BY <1>2, <2>1, <2>3
  <2> QED
    BY <2>2, <2>3
<1>4. \A l \in Keys \ {k} : SameHeld(Held, Held', l)
  <2> SUFFICES ASSUME NEW l \in Keys \ {k} PROVE SameHeld(Held, Held', l)
    OBVIOUS
  <2>1. CASE l \notin {TicketKey(c), PreviousKey(c)}
    BY <2>1, HeldStep
  <2>2. CASE l \in {TicketKey(c), PreviousKey(c)}
    BY <1>2, <1>3, <2>2 DEF SameHeld
  <2> QED
    BY <2>1, <2>2
<1>5. k \in Keys /\ Held'[k].generation = 0 /\ records' = Released(records, Held[k])
  BY <1>2, <1>3
<1> QED
  BY <1>4, <1>5, ReleaseHeld

\* A member ticket and a caller's own name a record of their generation.
LEMMA NamedHolds ==
    ASSUME TypeOK, Layer
    PROVE  /\ \A s \in Services : member[s].generation # 0 =>
                 /\ RecordOf(member[s]).generation = member[s].generation
                 /\ RecordOf(member[s]).state # "Empty"
                 /\ RecordOf(member[s]).references > 0
           /\ \A c \in Callers : \A t \in {call[c].ticket, call[c].previous} : t.generation # 0 =>
                 /\ RecordOf(t).generation = t.generation
                 /\ RecordOf(t).state # "Empty"
                 /\ RecordOf(t).references > 0
<1> DEFINE H == Held
<1>1. /\ member \in [Services -> Tickets] /\ call \in [Callers -> Calls]
      /\ records \in [Slots -> Records] /\ Tidy(records, H)
  BY DEF TypeOK, Layer
<1>2. /\ H \in [Keys -> Tickets]
      /\ \A s \in Services : MemberKey(s) \in Keys /\ H[MemberKey(s)] = member[s]
      /\ \A c \in Callers : /\ TicketKey(c) \in Keys /\ PreviousKey(c) \in Keys
                            /\ H[TicketKey(c)] = call[c].ticket
                            /\ H[PreviousKey(c)] = call[c].previous
  BY <1>1, HeldAt DEF Held
<1> HIDE DEF H
<1>3. \A k \in Keys : H[k].generation # 0 =>
          /\ records[H[k].slot].generation = H[k].generation
          /\ records[H[k].slot].state # "Empty" /\ records[H[k].slot].references > 0
  BY <1>1, <1>2, HeldIsCounted
<1> QED
  BY <1>2, <1>3 DEF RecordOf

\* Stop and the destructor copy the member ticket.
LEMMA CopyTicketLayer ==
    ASSUME Inv, Inv', Layer, NEW c \in Callers, CopyTicket(c)
    PROVE  Layer'
<1> DEFINE s == call[c].service
           t == member[s]
           a == IF t.generation = 0 \/ IsCurrentTask(c, t) THEN "joined" ELSE "reap"
           r == [call[c] EXCEPT !.ticket = t, !.target = t, !.at = a]
<1>1. /\ TypeOK /\ TypeOK' /\ call[c] \in Calls /\ call[c].at = "copy"
      /\ call[c].op \in {"stop", "destroy"} /\ s \in Services
      /\ UNCHANGED <<nextGeneration, member, closed, task>>
  <2>1. call[c].op \in {"none", "start", "stop", "destroy", "pump"}
    BY DEF Inv, TypeOK, Calls
  <2> QED
    BY <2>1 DEF Inv, CopyTicket, TypeOK, StagesOK, Calls
<1>2. t \in Tickets /\ t.slot \in Slots
  BY <1>1 DEF TypeOK, Tickets
<1>3. call[c].ticket.generation = 0
  BY <1>1 DEF Layer, TicketsOK
<1>4. t.generation # 0 => records[t.slot].generation = t.generation
  BY <1>1, NamedHolds DEF RecordOf
<1>5. /\ r.op = call[c].op /\ r.at = a /\ r.service = call[c].service
      /\ r.ticket = t /\ r.previous = call[c].previous /\ r.target = t
  BY <1>1 DEF Calls
<1>6. call' = [call EXCEPT ![c] = r] /\ records' = Retained(records, t)
  BY <1>1 DEF CopyTicket, TypeOK
<1> HIDE DEF r
<1>7. call'[c] = r /\ \A d \in Callers \ {c} : call'[d] = call[d]
  BY <1>1, <1>6 DEF TypeOK
<1>8. Tidy(records, Held)' /\ Recounted(records, records')
  BY <1>1, <1>2, <1>3, <1>4, <1>5, <1>6, <1>7, RetainHeld
<1>9. /\ records'[t.slot].state = records[t.slot].state
      /\ records'[t.slot].handle = records[t.slot].handle
  BY <1>1, <1>2, <1>6, RetainedRecounts DEF TypeOK
<1>10. TicketsOK!(c)' /\ DrainOK!(c)'
  BY <1>1, <1>5, <1>7 DEF Layer, TicketsOK, DrainOK
<1>11. JoinedOK!(c)'
  BY <1>1, <1>5, <1>7, <1>9 DEF IsCurrentTask, RecordOf
<1> QED
  BY <1>1, <1>7, <1>8, <1>10, <1>11, RecountStep

\* Drain takes a ticket of the next record of its owner.
LEMMA DrainNextLayer ==
    ASSUME Inv, Inv', Layer, NEW c \in Callers, DrainNext(c)
    PROVE  Layer'
<1> DEFINE s == call[c].service
           i == FirstOwned(s)
           t == [slot |-> i, generation |-> records[i].generation]
           r == [call[c] EXCEPT !.at = "reap", !.ticket = t, !.target = t]
<1>1. /\ TypeOK /\ TypeOK' /\ call[c] \in Calls /\ call[c].at = "drain"
      /\ call[c].op = "destroy" /\ UNCHANGED <<nextGeneration, member, closed, task>>
  BY DEF Inv, DrainNext, At, TypeOK, serviceVars
<1>2. i \in Owned(s) /\ i \in Slots
  <2>1. Owned(s) # {} /\ Owned(s) \in SUBSET Slots
    BY DEF DrainNext, Owned
  <2> QED
    BY <2>1, LeastOf DEF FirstOwned
<1>3. records[i] \in Records /\ records[i].generation # 0
  BY <1>1, <1>2 DEF Owned, Layer, Tidy, TypeOK
<1>4. t \in Tickets /\ t.slot = i /\ t.generation = records[i].generation
  BY <1>2, <1>3 DEF Tickets, Records
<1>5. /\ call' = [call EXCEPT ![c] = r] /\ records' = Retained(records, t)
  BY <1>1 DEF DrainNext, TypeOK
<1>6. /\ r.op = call[c].op /\ r.at = "reap" /\ r.service = s
      /\ r.ticket = t /\ r.previous = call[c].previous /\ r.target = t
  BY <1>1 DEF Calls
<1> HIDE DEF r, t
<1>7. call'[c] = r /\ \A d \in Callers \ {c} : call'[d] = call[d]
  BY <1>1, <1>5 DEF TypeOK
<1>8. call[c].ticket.generation = 0
  BY <1>1 DEF Layer, TicketsOK
<1>9. Tidy(records, Held)' /\ Recounted(records, records')
  BY <1>1, <1>4, <1>5, <1>6, <1>7, <1>8, RetainHeld
<1>10. TicketsOK!(c)' /\ DrainOK!(c)' /\ JoinedOK!(c)'
  BY <1>1, <1>3, <1>4, <1>6, <1>7 DEF Layer, TicketsOK, DrainOK
<1> QED
  BY <1>1, <1>7, <1>9, <1>10, RecountStep

\* Start and Stop return: the caller's ticket is released.
LEMMA ReturnLayer ==
    ASSUME Inv, Inv', Layer, NEW c \in Callers, StartReturn(c) \/ StopReturn(c)
    PROVE  Layer'
<1>1. /\ TypeOK /\ TypeOK' /\ call' = [call EXCEPT ![c] = Idle]
      /\ UNCHANGED <<nextGeneration, member, closed, task>>
  BY DEF Inv, StartReturn, StopReturn, serviceVars
<1>2. /\ call'[c].op = "none" /\ call'[c].at = "idle"
      /\ call'[c].ticket.generation = 0 /\ call'[c].previous.generation = 0
      /\ \A d \in Callers \ {c} : call'[d] = call[d]
  BY <1>1, IdleKeeps
<1>3. CASE StartReturn(c)
  <2>1. call[c].ticket.generation = 0 /\ records' = Released(records, call[c].previous)
    BY <1>3 DEF Layer, TicketsOK, StartReturn, At
  <2>2. Tidy(records, Held)' /\ Recounted(records, records')
    BY <1>1, <1>2, <2>1, ReleaseOwn
  <2> QED
    BY <1>1, <1>2, <2>2, RecountStep
<1>4. CASE StopReturn(c)
  <2>1. call[c].previous.generation = 0 /\ records' = Released(records, call[c].ticket)
    BY <1>4 DEF Layer, TicketsOK, StopReturn, At
  <2>2. Tidy(records, Held)' /\ Recounted(records, records')
    BY <1>1, <1>2, <2>1, ReleaseOwn
  <2> QED
    BY <1>1, <1>2, <2>2, RecountStep
<1> QED
  BY <1>3, <1>4

\* A destructor has joined one worker and drains the rest.
LEMMA DestroyJoinedLayer ==
    ASSUME Inv, Inv', Layer, NEW c \in Callers, DestroyJoined(c)
    PROVE  Layer'
<1> DEFINE r == [call[c] EXCEPT !.at = "drain", !.ticket = NoTicket, !.target = NoTicket]
<1>1. /\ TypeOK /\ TypeOK' /\ call[c].op = "destroy" /\ call[c].at = "joined"
      /\ call' = [call EXCEPT ![c] = r] /\ records' = Released(records, call[c].ticket)
      /\ UNCHANGED <<nextGeneration, member, closed, task>>
  BY DEF Inv, DestroyJoined, At, TypeOK, serviceVars
<1>2. /\ r.op = call[c].op /\ r.at = "drain" /\ r.service = call[c].service
      /\ r.ticket = NoTicket /\ r.previous = call[c].previous /\ NoTicket.generation = 0
  BY <1>1 DEF TypeOK, Calls, NoTicket
<1> HIDE DEF r
<1>3. call'[c] = r /\ \A d \in Callers \ {c} : call'[d] = call[d]
  BY <1>1 DEF TypeOK
<1>4. call[c].previous.generation = 0
  BY <1>1 DEF Layer, TicketsOK
<1>5. Tidy(records, Held)' /\ Recounted(records, records')
  BY <1>1, <1>2, <1>3, <1>4, ReleaseOwn
<1>6. TicketsOK!(c)' /\ JoinedOK!(c)' /\ DrainOK!(c)'
  BY <1>1, <1>2, <1>3, <1>4 DEF Layer, DrainOK
<1> QED
  BY <1>1, <1>3, <1>5, <1>6, RecountStep

\* The members are destroyed with the member ticket.
LEMMA DestroyReturnLayer ==
    ASSUME Inv, Inv', Layer, NEW c \in Callers, DestroyReturn(c)
    PROVE  Layer'
<1> DEFINE s == call[c].service
           r == [Idle EXCEPT !.at = "destroyed", !.service = s]
<1>1. /\ TypeOK /\ TypeOK' /\ call[c].op = "destroy" /\ call[c].at = "drained"
      /\ s \in Services
      /\ call' = [call EXCEPT ![c] = r] /\ records' = Released(records, member[s])
      /\ member' = [member EXCEPT ![s] = NoTicket]
      /\ UNCHANGED <<nextGeneration, closed, task>>
  BY DEF Inv, DestroyReturn, At, StagesOK
<1>2. /\ r.op = "none" /\ r.at = "destroyed" /\ r.service = s /\ r.ticket = NoTicket
      /\ r.previous = NoTicket /\ NoTicket.generation = 0
  BY DEF Idle, NoTicket
<1> HIDE DEF r
<1>3. call'[c] = r /\ \A d \in Callers \ {c} : call'[d] = call[d]
  BY <1>1 DEF TypeOK
<1>4. call[c].ticket.generation = 0 /\ call[c].previous.generation = 0
  BY <1>1 DEF Layer, TicketsOK
<1>5. /\ member \in [Services -> Tickets] /\ call \in [Callers -> Calls]
      /\ member' \in [Services -> Tickets] /\ call' \in [Callers -> Calls]
      /\ member'[s] = NoTicket /\ \A x \in Services \ {s} : member'[x] = member[x]
  BY <1>1 DEF TypeOK
<1>6. /\ MemberKey(s) \in Keys /\ Held[MemberKey(s)] = member[s] /\ Held'[MemberKey(s)] = NoTicket
  <2> HIDE DEF s
  <2>1. MemberKey(s) \in Keys /\ HeldIn(member, call)[MemberKey(s)] = member[s]
    BY <1>1, <1>5, HeldAt
  <2>2. HeldIn(member', call')[MemberKey(s)] = member'[s]
    BY <1>1, <1>5, HeldAt
  <2> QED
    BY <1>5, <2>1, <2>2 DEF Held
<1>7. \A l \in Keys \ {MemberKey(s)} : SameHeld(Held, Held', l)
  <2> SUFFICES ASSUME NEW l \in Keys \ {MemberKey(s)} PROVE SameHeld(Held, Held', l)
    OBVIOUS
  <2>1. CASE l \notin {TicketKey(c), PreviousKey(c)}
    <3>1. \A x \in Services : l = MemberKey(x) => member'[x] = member[x]
      BY <1>5
    <3> QED
      BY <1>1, <1>3, <2>1, <3>1, HeldStep
  <2>2. CASE l \in {TicketKey(c), PreviousKey(c)}
    BY <1>2, <1>3, <1>4, <1>5, <2>2, HeldAt DEF SameHeld, Held
  <2> QED
    BY <2>1, <2>2
<1>8. Tidy(records, Held)' /\ Recounted(records, records')
  BY <1>1, <1>2, <1>6, <1>7, ReleaseHeld
<1>9. \A i \in Slots : Live(records'[i]) => records'[i].owner # s
  BY <1>1, <1>8 DEF Recounted, Live, Cleared, Layer, DrainOK
<1>10. TicketsOK!(c)' /\ JoinedOK!(c)' /\ DrainOK!(c)'
  BY <1>1, <1>2, <1>3, <1>9 DEF Layer, DrainOK
<1> QED
  BY <1>1, <1>3, <1>8, <1>10, RecountStep

\* Start reserves: the member ticket becomes the previous one, a new one takes its place.
LEMMA AdmitLayer ==
    ASSUME Inv, Inv', Layer, NEW c \in Callers, Admit(c)
    PROVE  Layer'
<1> DEFINE s == call[c].service
           i == FirstFree
           n == [state |-> "Reserved", handle |-> None, generation |-> nextGeneration,
                 owner |-> s, references |-> 1]
           t == [slot |-> i, generation |-> nextGeneration]
           r == [call[c] EXCEPT !.at = "create", !.previous = member[s]]
<1>1. /\ TypeOK /\ TypeOK' /\ call[c] \in Calls /\ call[c].op = "start" /\ call[c].at = "admit"
      /\ s \in Services /\ UNCHANGED <<closed, task>>
  BY DEF Inv, StagesOK, Admit, At, TypeOK
<1>2. call[c].ticket.generation = 0 /\ call[c].previous.generation = 0
  BY <1>1 DEF Layer, TicketsOK
<1>3. NoneOK'
  BY <1>1 DEF Layer, NoneOK
<1>4. CASE ~MayAdmit(s)
  <2>1. call' = [call EXCEPT ![c] = Idle] /\ UNCHANGED <<records, nextGeneration, member>>
    BY <1>4 DEF Admit
  <2>2. /\ call'[c].op = "none" /\ call'[c].at = "idle"
        /\ call'[c].ticket.generation = 0 /\ call'[c].previous.generation = 0
        /\ \A d \in Callers \ {c} : call'[d] = call[d]
    BY <1>1, <2>1, IdleKeeps
  <2> QED
    BY <1>1, <1>2, <1>3, <2>1, <2>2, StillStep
<1>5. CASE MayAdmit(s)
  <2>1. /\ records' = [records EXCEPT ![i] = n] /\ nextGeneration' = nextGeneration + 1
        /\ member' = [member EXCEPT ![s] = t] /\ call' = [call EXCEPT ![c] = r]
    BY <1>1, <1>5 DEF Admit, TypeOK
  <2>2. i \in Slots /\ records[i].state = "Empty" /\ ~closed[s]
    <3>1. FreeSlots # {} /\ FreeSlots \in SUBSET Slots /\ ~closed[s]
      BY <1>5 DEF MayAdmit, FreeSlots
    <3>2. i \in FreeSlots
      BY <3>1, LeastOf DEF FirstFree
    <3> QED
      BY <3>1, <3>2 DEF FreeSlots
  <2>3. nextGeneration \in Nat /\ nextGeneration # 0
    BY <1>1, RetirementAssumption DEF TypeOK
  <2>4. /\ n.state = "Reserved" /\ n.generation = nextGeneration /\ n.references = 1 /\ n.owner = s
        /\ t.slot = i /\ t.generation = nextGeneration
        /\ r.op = "start" /\ r.at = "create" /\ r.ticket = call[c].ticket /\ r.previous = member[s]
    BY <1>1 DEF Calls
  <2>5. t = [slot |-> i, generation |-> n.generation]
    BY <2>4
  <2> HIDE DEF n, t, r, i
  <2>6. /\ records \in [Slots -> Records] /\ records' \in [Slots -> Records]
        /\ records'[i] = n /\ \A j \in Slots \ {i} : records'[j] = records[j]
    BY <1>1, <2>1, <2>2 DEF TypeOK
  <2>7. /\ member \in [Services -> Tickets] /\ call \in [Callers -> Calls]
        /\ member' \in [Services -> Tickets] /\ call' \in [Callers -> Calls]
        /\ member'[s] = t /\ \A x \in Services \ {s} : member'[x] = member[x]
        /\ call'[c] = r /\ \A d \in Callers \ {c} : call'[d] = call[d]
    BY <1>1, <2>1 DEF TypeOK
  <2>8. Tidy(records, Held)'
    <3> HIDE DEF s
    <3> DEFINE T == HeldIn(member, call)
               U == HeldIn(member', call')
               k == MemberKey(s)
               l == PreviousKey(c)
               V == [U EXCEPT ![k] = NoTicket]
               old == records
               new == records'
    <3>1. /\ T \in [Keys -> Tickets] /\ U \in [Keys -> Tickets] /\ k \in Keys /\ l \in Keys
          /\ T[k] = member[s] /\ T[l] = call[c].previous /\ U[k] = t /\ U[l] = member[s]
          /\ T[TicketKey(c)] = call[c].ticket /\ U[TicketKey(c)] = call[c].ticket
      BY <1>1, <2>4, <2>7, HeldAt
    <3>2. NoTicket \in Tickets /\ NoTicket.generation = 0 /\ k # l
      BY ConstantTypes, KeysApart DEF NoTicket
    <3>3. ASSUME NEW j \in Keys \ {k, l} PROVE U[j] = T[j]
      <4>1. CASE j = TicketKey(c)
        BY <3>1, <4>1
      <4>2. CASE j # TicketKey(c)
        <5>1. \/ \E x \in Services \ {s} : j = MemberKey(x)
              \/ \E d \in Callers \ {c} : j = TicketKey(d) \/ j = PreviousKey(d)
          BY <4>2 DEF Keys
        <5> QED
          BY <2>7, <5>1, HeldAt
      <4> QED
        BY <4>1, <4>2
    <3>4. Tidy(old, T) /\ old \in [Slots -> Records] /\ new \in [Slots -> Records]
      BY <2>6 DEF Layer, Held
    <3> HIDE DEF T, U, k, l
    <3>5. /\ V \in [Keys -> Tickets] /\ V[k] = NoTicket /\ V[l] = T[k]
          /\ \A j \in Keys \ {k} : V[j] = U[j]
      BY <3>1, <3>2
    <3> HIDE DEF V
    <3>6. Tidy(old, V)
      <4>1. T[l].generation = 0 /\ V[k].generation = 0 /\ \A j \in Keys \ {k, l} : SameHeld(T, V, j)
        BY <1>2, <3>1, <3>2, <3>3, <3>5 DEF SameHeld
      <4> HIDE DEF old
      <4> QED
        BY <3>1, <3>2, <3>4, <3>5, <4>1, MoveTidy
    <3>7. /\ old[i].state = "Empty" /\ new[i] = n /\ \A j \in Slots \ {i} : new[j] = old[j]
      BY <2>2, <2>6
    <3> HIDE DEF old, new
    <3>8. Id(new, i) = t
      BY <2>5, <3>7 DEF Id
    <3>9. Rekeyed(V, U, k, Id(new, i)) /\ V[k].generation = 0
      BY <3>1, <3>2, <3>5, <3>8 DEF Rekeyed, SameHeld
    <3>10. Tidy(new, U)
      <4>1. new[i].state # "Empty" /\ new[i].generation # 0 /\ new[i].references = 1
        BY <2>3, <2>4, <3>7
      <4> QED
        BY <2>2, <3>4, <3>6, <3>7, <3>9, <4>1, AdmitTidy
    <3> QED
      BY <3>10 DEF new, U, Held
  <2>9. \A j \in Slots : Onward(j)
    BY <1>1, <2>2, <2>4, <2>6 DEF Onward, UnderWay
  <2>10. UniqueOK'
    <3>1. \A j \in Slots : records[j].generation \in Nat
      BY <2>6, RetirementAssumption DEF Records
    <3> QED
      BY <2>1, <2>3, <2>4, <2>6, <3>1 DEF Layer, UniqueOK
  <2>11. TicketsOK!(c)' /\ JoinedOK!(c)' /\ DrainOK!(c)'
    BY <1>2, <2>4, <2>7
  <2> QED
    BY <1>1, <1>3, <2>7, <2>8, <2>9, <2>10, <2>11, LayerStep
<1> QED
  BY <1>4, <1>5

\* The cancelled ticket is reset and the previous one is the member again.
LEMMA RestoreLayer ==
    ASSUME Inv, Inv', Layer, NEW c \in Callers, RestorePrevious(c)
    PROVE  Layer'
<1> DEFINE s == call[c].service
<1>1. /\ TypeOK /\ TypeOK' /\ call[c] \in Calls /\ call[c].op = "start"
      /\ s \in Services /\ UNCHANGED <<nextGeneration, closed, task>>
      /\ records' = Released(records, member[s])
      /\ member' = [member EXCEPT ![s] = call[c].previous]
      /\ call' = [call EXCEPT ![c] = Idle]
  BY DEF Inv, StagesOK, RestorePrevious, At, TypeOK
<1>2. call[c].ticket.generation = 0
  BY <1>1 DEF Layer, TicketsOK
<1>3. /\ call'[c].op = "none" /\ call'[c].at = "idle"
      /\ call'[c].ticket.generation = 0 /\ call'[c].previous.generation = 0
      /\ \A d \in Callers \ {c} : call'[d] = call[d]
  BY <1>1, IdleKeeps
<1>4. /\ member \in [Services -> Tickets] /\ call \in [Callers -> Calls]
      /\ member' \in [Services -> Tickets] /\ call' \in [Callers -> Calls]
      /\ member'[s] = call[c].previous /\ \A x \in Services \ {s} : member'[x] = member[x]
      /\ records \in [Slots -> Records] /\ member[s] \in Tickets
  BY <1>1 DEF TypeOK
<1>5. Tidy(records, Held)'
  <2> HIDE DEF s
  <2> DEFINE T == HeldIn(member, call)
             U == HeldIn(member', call')
             k == MemberKey(s)
             l == PreviousKey(c)
             V == [T EXCEPT ![k] = NoTicket]
             old == records
             new == records'
  <2>1. /\ T \in [Keys -> Tickets] /\ U \in [Keys -> Tickets] /\ k \in Keys /\ l \in Keys
        /\ T[k] = member[s] /\ T[l] = call[c].previous /\ U[k] = call[c].previous
        /\ U[l] = call'[c].previous
        /\ T[TicketKey(c)] = call[c].ticket /\ U[TicketKey(c)] = call'[c].ticket
    <3>1. /\ T \in [Keys -> Tickets] /\ k \in Keys /\ l \in Keys
          /\ T[k] = member[s] /\ T[l] = call[c].previous /\ T[TicketKey(c)] = call[c].ticket
      BY <1>1, <1>4, HeldAt
    <3>2. /\ U \in [Keys -> Tickets] /\ U[k] = member'[s]
          /\ U[l] = call'[c].previous /\ U[TicketKey(c)] = call'[c].ticket
      BY <1>1, <1>4, HeldAt
    <3> QED
      BY <1>4, <3>1, <3>2
  <2>2. NoTicket \in Tickets /\ NoTicket.generation = 0 /\ k # l
    BY ConstantTypes, KeysApart DEF NoTicket
  <2>3. ASSUME NEW j \in Keys \ {k, l} PROVE SameHeld(T, U, j)
    <3>1. CASE j = TicketKey(c)
      BY <1>2, <1>3, <2>1, <3>1 DEF SameHeld
    <3>2. CASE j # TicketKey(c)
      <4>1. \/ \E x \in Services \ {s} : j = MemberKey(x)
            \/ \E d \in Callers \ {c} : j = TicketKey(d) \/ j = PreviousKey(d)
        BY <3>2 DEF Keys
      <4>2. U[j] = T[j]
        BY <1>3, <1>4, <4>1, HeldAt
      <4> QED
        BY <4>2 DEF SameHeld
    <3> QED
      BY <3>1, <3>2
  <2>4. Tidy(old, T) /\ old \in [Slots -> Records] /\ new = Released(old, T[k])
    BY <1>1, <1>4, <2>1 DEF Layer, Held
  <2>5. new \in [Slots -> Records]
    BY <1>1 DEF TypeOK
  <2>6. U[l].generation = 0
    BY <1>3, <2>1
  <2> HIDE DEF T, U, k, l, old, new
  <2>7. /\ V \in [Keys -> Tickets] /\ V[k] = NoTicket /\ \A j \in Keys \ {k} : V[j] = T[j]
    BY <2>1, <2>2
  <2> HIDE DEF V
  <2>8. Tidy(new, V)
    <3>1. Rekeyed(T, V, k, NoTicket)
      BY <2>1, <2>7 DEF Rekeyed, SameHeld
    <3> QED
      BY <2>2, <2>4, <3>1, ReleaseTidy
  <2>9. Tidy(new, U)
    <3>1. /\ U[k] = V[l] /\ V[k].generation = 0 /\ \A j \in Keys \ {l, k} : SameHeld(V, U, j)
      BY <2>1, <2>2, <2>3, <2>7 DEF SameHeld
    <3> QED
      BY <2>1, <2>2, <2>5, <2>6, <2>7, <2>8, <3>1, MoveTidy
  <2> QED
    BY <2>9 DEF new, U, Held
<1>6. Recounted(records, records')
  BY <1>1, <1>4, ReleasedRecounts
<1>7. TicketsOK!(c)' /\ JoinedOK!(c)' /\ DrainOK!(c)'
  BY <1>3
<1> QED
  BY <1>1, <1>3, <1>5, <1>6, <1>7, RecountStep

(***************************************************************************)
(* The layer in every reachable state, and what follows from it.           *)
(***************************************************************************)
LEMMA InitLayer == Init => Layer
<1> SUFFICES ASSUME Init PROVE Layer
  OBVIOUS
<1>1. Inv
  BY InitInv
<1>2. Idle.ticket = NoTicket /\ Idle.previous = NoTicket /\ NoTicket.generation = 0
      /\ Idle.op = "none" /\ Idle.at = "idle" /\ Cleared.generation = 0
      /\ Cleared.state = "Empty" /\ NoTask.generation = 0
  BY DEF Idle, NoTicket, Cleared, NoTask
<1>3. UniqueOK /\ TicketsOK /\ JoinedOK /\ DrainOK /\ NoneOK
  BY <1>2 DEF Init, UniqueOK, TicketsOK, JoinedOK, DrainOK, NoneOK
<1>4. Tidy(records, Held)
  <2>1. \A k \in Keys : Held[k].generation = 0
    <3>1. member \in [Services -> Tickets] /\ call \in [Callers -> Calls]
      BY <1>1 DEF Inv, TypeOK
    <3>2. ASSUME NEW k \in Keys PROVE HeldIn(member, call)[k] = NoTicket
      <4>1. \/ \E s \in Services : k = MemberKey(s)
            \/ \E c \in Callers : k = TicketKey(c) \/ k = PreviousKey(c)
        BY DEF Keys
      <4>2. /\ \A s \in Services : member[s] = NoTicket
            /\ \A c \in Callers : call[c].ticket = NoTicket /\ call[c].previous = NoTicket
        BY <1>2 DEF Init
      <4> QED
        BY <3>1, <4>1, <4>2, HeldAt
    <3> QED
      BY <1>2, <3>2 DEF Held
  <2> QED
    BY <1>2, <2>1 DEF Init, Tidy, Counted
<1> QED
  BY <1>3, <1>4 DEF Layer

LEMMA NextLayer == Inv /\ Inv' /\ Layer /\ [Next]_vars => Layer'
<1> SUFFICES ASSUME Inv, Inv', Layer, [Next]_vars PROVE Layer'
  OBVIOUS
<1>1. ASSUME NEW c \in Callers, NEW s \in Services,
             StartBegin(c, s) \/ StopBegin(c, s) \/ DestroyBegin(c, s)
      PROVE  Layer'
  BY <1>1, BeginLayer
<1>2. ASSUME NEW c \in Callers, StartSteps(c) PROVE Layer'
  BY <1>2, EarlyStartLayer, AdmitLayer, CreateTaskLayer, PublishLayer, ReturnLayer, CancelLayer,
     RestoreLayer DEF StartSteps
<1>3. ASSUME NEW c \in Callers, CopyTicket(c) \/ ReapSteps(c) PROVE Layer'
  BY <1>3, CopyTicketLayer, TryReapLayer, DeleteTaskLayer, MarkReapedLayer DEF ReapSteps
<1>4. ASSUME NEW c \in Callers, StopSteps(c) PROVE Layer'
  BY <1>4, ReturnLayer, DestroyJoinedLayer, DrainNextLayer, DrainReturnLayer, DestroyReturnLayer
     DEF StopSteps
<1>5. ASSUME NEW h \in Handles, WorkerSteps(h) PROVE Layer'
  BY <1>5, WorkerLayer
<1>6. ASSUME (\E i \in Slots : PumpSlot(i)) \/ PumpNext PROVE Layer'
  BY <1>6, PumpLayer
<1>7. CASE UNCHANGED vars
  <2>1. Held' = Held
    BY <1>7 DEF vars, Held
  <2>2. Tidy(records, Held)'
    <3> DEFINE G == Held'
               new == records'
    <3>1. G = Held /\ new = records
      BY <1>7, <2>1 DEF vars
    <3> HIDE DEF G, new
    <3>2. Tidy(new, G)
      BY <3>1 DEF Layer
    <3> QED
      BY <3>2 DEF G, new
  <2>3. UniqueOK' /\ NoneOK'
    BY <1>7 DEF vars, Layer, UniqueOK, NoneOK
  <2>4. TicketsOK' /\ JoinedOK' /\ DrainOK'
    BY <1>7 DEF vars, Layer, TicketsOK, JoinedOK, DrainOK, RecordOf
  <2> QED
    BY <2>2, <2>3, <2>4 DEF Layer
<1> QED
  BY <1>1, <1>2, <1>3, <1>4, <1>5, <1>6, <1>7 DEF Next

LEMMA LayerHolds == Spec => [](Inv /\ Layer)
<1>1. Init => Inv /\ Layer
  BY InitInv, InitLayer
<1>2. Inv /\ Layer /\ [Next]_vars => Inv' /\ Layer'
  BY NextInv, NextLayer
<1> QED
  BY <1>1, <1>2, PTL DEF Spec

\* No Require of the registry can abort under the services' protocol, for any
\* number of slots, services, callers and TCB addresses.
THEOREM RequiresNeverFail == Spec => []RequiresHold
<1>1. Inv /\ Layer => RequiresHold
  <2> SUFFICES ASSUME Inv, Layer PROVE RequiresHold
    OBVIOUS
  <2>1. TypeOK
    BY DEF Inv
  <2>2. \A s \in Services : RequiresHold!1!(s)
    BY <2>1, NamedHolds
  <2>3. \A c \in Callers : RequiresHold!2!(c)
    <3> SUFFICES ASSUME NEW c \in Callers PROVE RequiresHold!2!(c)
      OBVIOUS
    <3>1. RequiresHold!2!(c)!1
      BY <2>1, NamedHolds
    <3>2. RequiresHold!2!(c)!2 /\ RequiresHold!2!(c)!3
      BY DEF Inv, StartsOK, ClaimsOK
    <3>3. RequiresHold!2!(c)!4
      <4> SUFFICES ASSUME At(c, "destroy", "drain"), NEW i \in Slots PROVE records[i].handle # c
        BY DEF Owned
      <4>1. c \in Clients /\ records[i].handle \in Handles \cup {None}
        BY <2>1 DEF At, Layer, DrainOK, TypeOK, Records
      <4> QED
        BY <4>1, RetirementAssumption
    <3> QED
      BY <3>1, <3>2, <3>3
  <2>4. \A h \in Handles : RequiresHold!3!(h)
    BY DEF Inv, WorkersOK
  <2> QED
    BY <2>2, <2>3, <2>4 DEF RequiresHold
<1> QED
  BY <1>1, LayerHolds, PTL

\* The count of a record is the number of tickets that name it, however many
\* services and callers hold them: no slot leaks and none is reused too early.
THEOREM CountsAreExact == Spec => []ReferencesExact
<1>1. Inv /\ Layer => ReferencesExact
  <2> SUFFICES ASSUME Inv, Layer, NEW i \in Slots, records[i].generation # 0
               PROVE  records[i].references = Cardinality(Owners(i))
    BY DEF ReferencesExact
  <2>1. /\ member \in [Services -> Tickets] /\ call \in [Callers -> Calls]
    BY DEF Inv, TypeOK
  <2>2. Holders(Held, Id(records, i)) = Owners(i)
    <3>1. ASSUME NEW k \in Holders(Held, Id(records, i)) PROVE k \in Owners(i)
      <4>1. \/ \E s \in Services : k = MemberKey(s)
            \/ \E c \in Callers : k = TicketKey(c) \/ k = PreviousKey(c)
        BY DEF Holders, Keys
      <4>2. Held[k] = Id(records, i)
        BY DEF Holders
      <4>3. ASSUME NEW s \in Services, k = MemberKey(s) PROVE k \in Owners(i)
        <5>1. member[s] = Id(records, i)
          BY <2>1, <4>2, <4>3, HeldAt DEF Held
        <5> QED
          BY <4>3, <5>1 DEF Owners, Id, MemberKey
      <4>4. ASSUME NEW c \in Callers, k = TicketKey(c) PROVE k \in Owners(i)
        <5>1. call[c].ticket = Id(records, i)
          BY <2>1, <4>2, <4>4, HeldAt DEF Held
        <5> QED
          BY <4>4, <5>1 DEF Owners, Id, TicketKey
      <4>5. ASSUME NEW c \in Callers, k = PreviousKey(c) PROVE k \in Owners(i)
        <5>1. call[c].previous = Id(records, i)
          BY <2>1, <4>2, <4>5, HeldAt DEF Held
        <5> QED
          BY <4>5, <5>1 DEF Owners, Id, PreviousKey
      <4> QED
        BY <4>1, <4>3, <4>4, <4>5
    <3>2. ASSUME NEW k \in Owners(i) PROVE k \in Holders(Held, Id(records, i))
      <4>1. \/ \E s \in Services : k = MemberKey(s) /\ member[s] = Id(records, i)
            \/ \E c \in Callers : k = TicketKey(c) /\ call[c].ticket = Id(records, i)
            \/ \E c \in Callers : k = PreviousKey(c) /\ call[c].previous = Id(records, i)
        BY DEF Owners, Id, MemberKey, TicketKey, PreviousKey
      <4>2. k \in Keys /\ HeldIn(member, call)[k] = Id(records, i)
        <5> DEFINE H == HeldIn(member, call)
        <5>1. /\ \A s \in Services : MemberKey(s) \in Keys /\ H[MemberKey(s)] = member[s]
              /\ \A c \in Callers : /\ TicketKey(c) \in Keys /\ PreviousKey(c) \in Keys
                                    /\ H[TicketKey(c)] = call[c].ticket
                                    /\ H[PreviousKey(c)] = call[c].previous
          BY <2>1, HeldAt
        <5> HIDE DEF H
        <5>2. k \in Keys /\ H[k] = Id(records, i)
          BY <4>1, <5>1
        <5> QED
          BY <5>2 DEF H
      <4> QED
        BY <4>2 DEF Held, Holders
    <3> QED
      BY <3>1, <3>2
  <2> QED
    BY <2>2 DEF Layer, Tidy, Counted
<1> QED
  BY <1>1, LayerHolds, PTL

\* When Join returns to somebody else, the worker of the captured generation is
\* gone, also when its TCB address already carries a new worker.
THEOREM JoinReclaims == Spec => []JoinMeansReclaimed
<1>1. Inv /\ Layer => JoinMeansReclaimed
  <2> SUFFICES ASSUME Inv, Layer, NEW c \in Callers, NEW h \in Handles, call[c].at = "joined",
                      call[c].op \in {"stop", "destroy"}, h # c, call[c].ticket.generation # 0,
                      task[h].generation = call[c].ticket.generation
               PROVE  FALSE
    BY DEF JoinMeansReclaimed
  <2> DEFINE t == call[c].ticket
             i == task[h].slot
  <2>1. /\ t.slot \in Slots /\ i \in Slots /\ task[h] \in Workers
    BY DEF Inv, TypeOK, Calls, Tickets, Workers
  <2>2. task[h].state # "none"
    BY DEF Layer, NoneOK
  <2>3. records[i].generation = task[h].generation /\ records[t.slot].generation = t.generation
    BY <2>2, NamedHolds DEF Inv, WorkersOK, OwnRecord, RecordOf
  <2>4. i = t.slot
    BY <2>1, <2>3 DEF Layer, UniqueOK
  <2>5. \/ records[i].state = "Reserved"
        \/ records[i].state \in {"Published", "Finished", "Reaping"} /\ records[i].handle = h
    BY <2>1, <2>2 DEF Inv, WorkersOK, OwnRecord, Workers
  <2>6. \/ records[i].state = "Reaped"
        \/ records[i].state \in {"Published", "Finished", "Reaping"} /\ records[i].handle = c
    BY <2>4 DEF Layer, JoinedOK, RecordOf
  <2> QED
    BY <2>5, <2>6
<1> QED
  BY <1>1, LayerHolds, PTL

\* After Drain no worker of the owner lives, and none ever will: the destructor may
\* free what the workers use.
THEOREM DrainedStaysDrained == Spec => []DrainedForEver
<1>1. Inv /\ Layer => DrainedForEver
  <2> SUFFICES ASSUME Inv, Layer, NEW c \in Callers, NEW h \in Handles,
                      call[c].at \in {"drained", "destroyed"}, task[h].state # "none"
               PROVE  task[h].owner # call[c].service
    BY DEF DrainedForEver
  <2>1. /\ task[h] \in Workers /\ task[h].slot \in Slots
    BY DEF Inv, TypeOK, Workers
  <2>2. OwnRecord(h).owner = task[h].owner /\ Live(OwnRecord(h))
    BY <2>1 DEF Inv, WorkersOK, Workers, Live
  <2> QED
    BY <2>1, <2>2 DEF Layer, DrainOK, OwnRecord
<1> QED
  BY <1>1, LayerHolds, PTL
=============================================================================
