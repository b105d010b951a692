--------------------------- MODULE TaskRetirement ---------------------------
(***************************************************************************)
(* The task retirement registry (main/phone_os/task-retirement.cc) together *)
(* with the way every migrated service uses it: Start reserves a record,    *)
(* creates a worker and publishes its handle; Stop copies the member ticket *)
(* under the service mutex and joins it outside; the destructor closes the  *)
(* owner, stops and drains it; app_main pumps finished records.  FreeRTOS   *)
(* (task creation, deletion, reuse of a freed TCB address as a new handle)  *)
(* is external.  One step is one registry critical section, one FreeRTOS    *)
(* call or one service-mutex section.                                       *)
(***************************************************************************)
EXTENDS Integers, FiniteSets

CONSTANTS
    NumSlots,       \* kTaskRetirementSlots
    Services,       \* objects that own a TaskRetirementOwner and a member ticket
    Clients,        \* permanent tasks that call Start, Stop and the destructor
    Main,           \* app_main's task, the only caller of PumpTaskRetirements
    Handles,        \* TCB addresses the heap can hand to a new worker
    MaxGeneration,  \* the generation at which admission stops (uint32 maximum)
    None

ASSUME RetirementAssumption ==
    /\ NumSlots \in Nat \ {0}
    /\ MaxGeneration \in Nat \ {0}
    /\ Main \notin Clients
    /\ (Clients \cup {Main}) \cap Handles = {}
    /\ None \notin Clients \cup {Main} \cup Handles \cup Services

Slots   == 1..NumSlots
Callers == Clients \cup {Main} \cup Handles

VARIABLES
    pool,           \* the lazily allocated record table
    records,        \* the table: one Record per slot
    nextGeneration,
    closed,         \* closed[s]: the owner of s was closed
    member,         \* member[s]: the ticket service s keeps of its last worker
    mutex,          \* mutex[s]: the caller inside the service mutex, or None
    active,         \* active[s]: the worker whose business is running, or None
    stopRequested,
    task,           \* FreeRTOS: the worker living at each TCB address
    call            \* call[c]: where caller c stands in a registry operation

vars == <<pool, records, nextGeneration, closed, member, mutex, active,
          stopRequested, task, call>>
serviceVars == <<closed, member, mutex, active, stopRequested>>

NoTicket == [slot |-> 1, generation |-> 0]
Cleared  == [state |-> "Empty", handle |-> None, generation |-> 0,
             owner |-> None, references |-> 0]
NoTask   == [state |-> "none", slot |-> 1, generation |-> 0, owner |-> None]
Idle     == [op |-> "none", at |-> "idle", service |-> None, ticket |-> NoTicket,
             previous |-> NoTicket, target |-> NoTicket, handle |-> None]

RecordOf(t) == records[t.slot]

(***************************************************************************)
(* References.                                                             *)
(***************************************************************************)
\* Bug: a copy of a ticket does not count.
RetainedUncounted(recs, t) == recs

Retained(recs, t) ==
    IF t.generation = 0 THEN recs
    ELSE [recs EXCEPT ![t.slot].references = @ + 1]

\* Bug: a released record is recycled whatever its state.
ReleasedAnyState(recs, t) ==
    IF t.generation = 0 THEN recs
    ELSE IF recs[t.slot].references = 1
         THEN [recs EXCEPT ![t.slot] = Cleared]
         ELSE [recs EXCEPT ![t.slot].references = @ - 1]

Released(recs, t) ==
    IF t.generation = 0 THEN recs
    ELSE IF recs[t.slot].references = 1 /\ recs[t.slot].state = "Reaped"
         THEN [recs EXCEPT ![t.slot] = Cleared]
         ELSE [recs EXCEPT ![t.slot].references = @ - 1]

(***************************************************************************)
(* Start: reserve, create, publish or cancel, all inside the service mutex. *)
(***************************************************************************)
At(c, op, at) == call[c].op = op /\ call[c].at = at

\* A client calls whenever it likes until the service is destroyed; a worker
\* re-enters its own service from inside its body (a callback, or the destructor
\* of one, stops the stream or starts a replacement).
MayCall(c, s) ==
    /\ call[c] = Idle
    /\ \/ c \in Clients
       \/ c \in Handles /\ task[c].state \in {"business", "tail"} /\ task[c].owner = s
    /\ \A d \in Callers : ~(call[d].at = "destroyed" /\ call[d].service = s)

StartBegin(c, s) ==
    /\ MayCall(c, s)
    /\ mutex[s] = None
    /\ active[s] = None
    /\ ~closed[s]
    /\ mutex' = [mutex EXCEPT ![s] = c]
    /\ call' = [call EXCEPT ![c] = [Idle EXCEPT !.op = "start", !.at = "ensure", !.service = s]]
    /\ UNCHANGED <<pool, records, nextGeneration, closed, member, active, stopRequested, task>>

\* EnsureRecords: the first caller allocates, the others wait for the outcome.
EnsureRecords(c) ==
    /\ At(c, "start", "ensure")
    /\ \/ /\ pool = "ready"
          /\ call' = [call EXCEPT ![c].at = "admit"]
          /\ UNCHANGED pool
       \/ /\ pool = "null"
          /\ pool' = "initializing"
          /\ call' = [call EXCEPT ![c].at = "allocate"]
    /\ UNCHANGED <<records, nextGeneration, serviceVars, task>>

AllocatePool(c) ==
    /\ At(c, "start", "allocate")
    /\ \/ /\ pool' = "ready"
          /\ call' = [call EXCEPT ![c].at = "admit"]
          /\ UNCHANGED mutex
       \/ /\ pool' = "null"
          /\ call' = [call EXCEPT ![c] = Idle]
          /\ mutex' = [mutex EXCEPT ![call[c].service] = None]
    /\ UNCHANGED <<records, nextGeneration, closed, member, active, stopRequested, task>>

FreeSlots == {i \in Slots : records[i].state = "Empty"}
FirstFree == CHOOSE i \in FreeSlots : \A j \in FreeSlots : i <= j

\* Bug: the owner is not checked again after the pool was ensured.
MayAdmitUnchecked(s) == nextGeneration < MaxGeneration /\ FreeSlots # {}

\* Bug: the generation counter is allowed to run out.
MayAdmitUnbounded(s) == ~closed[s] /\ FreeSlots # {}

MayAdmit(s) == /\ ~closed[s]
               /\ nextGeneration < MaxGeneration
               /\ FreeSlots # {}

Admit(c) ==
    /\ At(c, "start", "admit")
    /\ LET s == call[c].service
           t == [slot |-> FirstFree, generation |-> nextGeneration] IN
       IF MayAdmit(s)
       THEN /\ records' = [records EXCEPT ![t.slot] =
                  [state |-> "Reserved", handle |-> None, generation |-> nextGeneration,
                   owner |-> s, references |-> 1]]
            /\ nextGeneration' = nextGeneration + 1
            /\ member' = [member EXCEPT ![s] = t]
            /\ call' = [call EXCEPT ![c] = [@ EXCEPT !.at = "create", !.previous = member[s]]]
            /\ UNCHANGED mutex
       ELSE /\ call' = [call EXCEPT ![c] = Idle]
            /\ mutex' = [mutex EXCEPT ![s] = None]
            /\ UNCHANGED <<records, nextGeneration, member>>
    /\ UNCHANGED <<pool, closed, active, stopRequested, task>>

\* xTaskCreateWithCaps: a new worker at any free address, or no memory.
CreateTask(c) ==
    /\ At(c, "start", "create")
    /\ LET s == call[c].service IN
       \/ \E h \in Handles :
             /\ task[h].state = "none"
             /\ task' = [task EXCEPT ![h] = [state |-> "waiting", slot |-> member[s].slot,
                             generation |-> member[s].generation, owner |-> s]]
             /\ call' = [call EXCEPT ![c] = [@ EXCEPT !.at = "publish", !.handle = h]]
       \/ /\ call' = [call EXCEPT ![c].at = "cancel"]
          /\ UNCHANGED task
    /\ UNCHANGED <<pool, records, nextGeneration, serviceVars>>

PublishTaskRetirement(c) ==
    /\ At(c, "start", "publish")
    /\ LET s == call[c].service IN
       /\ records' = [records EXCEPT ![member[s].slot] =
              [@ EXCEPT !.state = "Published", !.handle = call[c].handle]]
       /\ active' = [active EXCEPT ![s] = call[c].handle]
       /\ stopRequested' = [stopRequested EXCEPT ![s] = FALSE]
    /\ call' = [call EXCEPT ![c].at = "leave"]
    /\ UNCHANGED <<pool, nextGeneration, closed, member, mutex, task>>

\* The previous ticket is a local of Start: it is released before the mutex is.
StartReturn(c) ==
    /\ At(c, "start", "leave")
    /\ records' = Released(records, call[c].previous)
    /\ mutex' = [mutex EXCEPT ![call[c].service] = None]
    /\ call' = [call EXCEPT ![c] = Idle]
    /\ UNCHANGED <<pool, nextGeneration, closed, member, active, stopRequested, task>>

CancelTaskRetirement(c) ==
    /\ At(c, "start", "cancel")
    /\ records' = [records EXCEPT ![member[call[c].service].slot].state = "Reaped"]
    /\ call' = [call EXCEPT ![c].at = "restore"]
    /\ UNCHANGED <<pool, nextGeneration, serviceVars, task>>

\* member_ = std::move(previous): the cancelled ticket is reset, the old one is back.
RestorePrevious(c) ==
    /\ At(c, "start", "restore")
    /\ LET s == call[c].service IN
       /\ records' = Released(records, member[s])
       /\ member' = [member EXCEPT ![s] = call[c].previous]
       /\ mutex' = [mutex EXCEPT ![s] = None]
    /\ call' = [call EXCEPT ![c] = Idle]
    /\ UNCHANGED <<pool, nextGeneration, closed, active, stopRequested, task>>

(***************************************************************************)
(* TaskRetirementEntry, running on the worker h itself.                    *)
(***************************************************************************)
OwnRecord(h) == records[task[h].slot]

MayEnterBody(h) == OwnRecord(h).state = "Published"

EnterBody(h) ==
    /\ task[h].state = "waiting"
    /\ MayEnterBody(h)
    /\ task' = [task EXCEPT ![h].state = "business"]
    /\ UNCHANGED <<pool, records, nextGeneration, serviceVars, call>>

\* The body clears the service's active handle under the service mutex: a
\* replacement may start while the locals of this body are still destroyed.
FinishBusiness(h) ==
    /\ task[h].state = "business"
    /\ call[h] = Idle
    /\ mutex[task[h].owner] = None
    /\ active' = [active EXCEPT ![task[h].owner] = None]
    /\ task' = [task EXCEPT ![h].state = "tail"]
    /\ UNCHANGED <<pool, records, nextGeneration, closed, member, mutex, stopRequested, call>>

ReturnFromBody(h) ==
    /\ task[h].state = "tail"
    /\ call[h] = Idle
    /\ records' = [records EXCEPT ![task[h].slot].state = "Finished"]
    /\ task' = [task EXCEPT ![h].state = "parked"]
    /\ UNCHANGED <<pool, nextGeneration, serviceVars, call>>

(***************************************************************************)
(* Stop and the destructor: copy the member ticket, then Join it.          *)
(***************************************************************************)
StopBegin(c, s) ==
    /\ MayCall(c, s)
    /\ call' = [call EXCEPT ![c] = [Idle EXCEPT !.op = "stop", !.at = "copy", !.service = s]]
    /\ UNCHANGED <<pool, records, nextGeneration, serviceVars, task>>

\* A destructor closes its owner, without the mutex in ~CameraService, then
\* stops and drains; ~LanOnboardingService cancels the job and drains at once.
DestroyBegin(c, s) ==
    /\ MayCall(c, s)
    /\ c \in Clients
    /\ ~closed[s]
    /\ closed' = [closed EXCEPT ![s] = TRUE]
    /\ \E at \in {"copy", "drain"} :
          call' = [call EXCEPT ![c] = [Idle EXCEPT !.op = "destroy", !.at = at, !.service = s]]
    /\ stopRequested' = [stopRequested EXCEPT ![s] = TRUE]
    /\ UNCHANGED <<pool, records, nextGeneration, member, mutex, active, task>>

\* Bug: a worker is not recognised when it stops itself.
IsNeverCurrentTask(c, t) == FALSE

IsCurrentTask(c, t) ==
    /\ RecordOf(t).state \in {"Published", "Finished"}
    /\ RecordOf(t).handle = c

CopyTicket(c) ==
    /\ call[c].at = "copy"
    /\ LET s == call[c].service  t == member[s] IN
       /\ mutex[s] = None
       /\ stopRequested' = [stopRequested EXCEPT ![s] = TRUE]
       /\ records' = Retained(records, t)
       /\ call' = [call EXCEPT ![c] = [@ EXCEPT !.ticket = t, !.target = t,
                      !.at = IF t.generation = 0 \/ IsCurrentTask(c, t) THEN "joined" ELSE "reap"]]
    /\ UNCHANGED <<pool, nextGeneration, closed, member, mutex, active, task>>

(***************************************************************************)
(* TryReap, the loop body of Join and of the pump.                         *)
(***************************************************************************)
\* Bug: a worker that another reaper is still deleting counts as gone.
GoneWhileReaping(t) == \/ RecordOf(t).generation # t.generation
                       \/ RecordOf(t).state \in {"Empty", "Reaping", "Reaped"}

Gone(t) == \/ RecordOf(t).generation # t.generation
           \/ RecordOf(t).state \in {"Empty", "Reaped"}

\* Bug: only a worker somebody still holds a ticket of is reclaimed.
MayClaimReferenced(c, t) == /\ RecordOf(t).state = "Finished"
                            /\ RecordOf(t).handle # c
                            /\ RecordOf(t).references > 0
\* Bug: the body is not awaited.
MayClaimUnfinished(c, t) == RecordOf(t).state \in {"Published", "Finished"} /\ RecordOf(t).handle # c
MayClaim(c, t) == RecordOf(t).state = "Finished" /\ RecordOf(t).handle # c

TryReap(c) ==
    /\ call[c].at = "reap"
    /\ LET t == call[c].target IN
       \/ /\ Gone(t)
          /\ call' = [call EXCEPT ![c].at = "joined"]
          /\ UNCHANGED records
       \/ /\ ~Gone(t)
          /\ MayClaim(c, t)
          /\ records' = [records EXCEPT ![t.slot].state = "Reaping"]
          /\ call' = [call EXCEPT ![c] = [@ EXCEPT !.at = "delete", !.handle = RecordOf(t).handle]]
       \/ /\ call[c].op = "pump"    \* the pump tries once; Join polls
          /\ ~Gone(t)
          /\ ~MayClaim(c, t)
          /\ call' = [call EXCEPT ![c].at = "joined"]
          /\ UNCHANGED records
    /\ UNCHANGED <<pool, nextGeneration, serviceVars, task>>

\* vTaskDeleteWithCaps: the TCB is freed, its address may become a new worker.
DeleteTask(c) ==
    /\ call[c].at = "delete"
    /\ task' = [task EXCEPT ![call[c].handle] = NoTask]
    /\ call' = [call EXCEPT ![c].at = "mark"]
    /\ UNCHANGED <<pool, records, nextGeneration, serviceVars>>

MarkReaped(c) ==
    /\ call[c].at = "mark"
    /\ LET t == call[c].target IN
       records' = [records EXCEPT ![t.slot] =
                      IF @.references = 0 THEN Cleared
                      ELSE [@ EXCEPT !.state = "Reaped", !.handle = None]]
    /\ call' = [call EXCEPT ![c] = [@ EXCEPT !.at = "joined", !.handle = None]]
    /\ UNCHANGED <<pool, nextGeneration, serviceVars, task>>

(***************************************************************************)
(* What follows a Join: Stop resets its copy, Drain looks for the next.    *)
(***************************************************************************)
StopReturn(c) ==
    /\ At(c, "stop", "joined")
    /\ records' = Released(records, call[c].ticket)
    /\ call' = [call EXCEPT ![c] = Idle]
    /\ UNCHANGED <<pool, nextGeneration, serviceVars, task>>

DestroyJoined(c) ==
    /\ At(c, "destroy", "joined")
    /\ records' = Released(records, call[c].ticket)
    /\ call' = [call EXCEPT ![c] = [@ EXCEPT !.at = "drain", !.ticket = NoTicket, !.target = NoTicket]]
    /\ UNCHANGED <<pool, nextGeneration, serviceVars, task>>

\* Bug: Drain skips a record whose worker is not published yet.
OwnedSkipReserved(s) ==
    {i \in Slots : /\ records[i].owner = s
                   /\ records[i].state \notin {"Empty", "Reaped", "Reserved"}}
Owned(s) == {i \in Slots : /\ records[i].owner = s
                           /\ records[i].state \notin {"Empty", "Reaped"}}
FirstOwned(s) == CHOOSE i \in Owned(s) : \A j \in Owned(s) : i <= j

DrainNext(c) ==
    /\ At(c, "destroy", "drain")
    /\ LET s == call[c].service IN
       /\ Owned(s) # {}
       /\ LET t == [slot |-> FirstOwned(s), generation |-> records[FirstOwned(s)].generation] IN
          /\ records' = Retained(records, t)
          /\ call' = [call EXCEPT ![c] = [@ EXCEPT !.at = "reap", !.ticket = t, !.target = t]]
    /\ UNCHANGED <<pool, nextGeneration, serviceVars, task>>

DrainReturn(c) ==
    /\ At(c, "destroy", "drain")
    /\ Owned(call[c].service) = {}
    /\ call' = [call EXCEPT ![c].at = "drained"]
    /\ UNCHANGED <<pool, records, nextGeneration, serviceVars, task>>

\* The members are destroyed: no Start may be in flight.
DestroyReturn(c) ==
    /\ At(c, "destroy", "drained")
    /\ LET s == call[c].service IN
       /\ mutex[s] = None
       /\ records' = Released(records, member[s])
       /\ member' = [member EXCEPT ![s] = NoTicket]
       /\ call' = [call EXCEPT ![c] = [Idle EXCEPT !.at = "destroyed", !.service = s]]
    /\ UNCHANGED <<pool, nextGeneration, closed, mutex, active, stopRequested, task>>

(***************************************************************************)
(* PumpTaskRetirements: one pass reads each slot and tries it without a    *)
(* ticket, in two critical sections.                                       *)
(***************************************************************************)
PumpSlot(i) ==
    /\ call[Main] = Idle
    /\ pool = "ready"
    /\ records[i].state = "Finished"
    /\ call' = [call EXCEPT ![Main] = [Idle EXCEPT !.op = "pump", !.at = "reap",
                    !.target = [slot |-> i, generation |-> records[i].generation]]]
    /\ UNCHANGED <<pool, records, nextGeneration, serviceVars, task>>

PumpNext ==
    /\ At(Main, "pump", "joined")
    /\ call' = [call EXCEPT ![Main] = Idle]
    /\ UNCHANGED <<pool, records, nextGeneration, serviceVars, task>>

-----------------------------------------------------------------------------
Init ==
    /\ pool = "null"
    /\ records = [i \in Slots |-> Cleared]
    /\ nextGeneration = 1
    /\ closed = [s \in Services |-> FALSE]
    /\ member = [s \in Services |-> NoTicket]
    /\ mutex = [s \in Services |-> None]
    /\ active = [s \in Services |-> None]
    /\ stopRequested = [s \in Services |-> FALSE]
    /\ task = [h \in Handles |-> NoTask]
    /\ call = [c \in Callers |-> Idle]

StartSteps(c) == \/ EnsureRecords(c) \/ AllocatePool(c) \/ Admit(c) \/ CreateTask(c)
                 \/ PublishTaskRetirement(c) \/ StartReturn(c)
                 \/ CancelTaskRetirement(c) \/ RestorePrevious(c)
ReapSteps(c)  == TryReap(c) \/ DeleteTask(c) \/ MarkReaped(c)
StopSteps(c)  == StopReturn(c) \/ DestroyJoined(c) \/ DrainNext(c) \/ DrainReturn(c) \/ DestroyReturn(c)
WorkerSteps(h) == EnterBody(h) \/ FinishBusiness(h) \/ ReturnFromBody(h)

Next ==
    \/ \E c \in Callers, s \in Services : StartBegin(c, s) \/ StopBegin(c, s) \/ DestroyBegin(c, s)
    \/ \E c \in Callers : StartSteps(c) \/ CopyTicket(c) \/ ReapSteps(c) \/ StopSteps(c)
    \/ \E h \in Handles : WorkerSteps(h)
    \/ \E i \in Slots : PumpSlot(i)
    \/ PumpNext

\* Every ready task runs (the polling loops delay instead of spinning); a
\* FreeRTOS mutex queues its waiters; a body makes finitely many calls and
\* returns once its stop was requested; app_main pumps for ever.  Nothing
\* makes a client call anything.
Runs(c) == StartSteps(c) \/ ReapSteps(c) \/ StopSteps(c) \/ (c = Main /\ PumpNext)
Works(h) == \/ EnterBody(h)
            \/ FinishBusiness(h) /\ stopRequested[task[h].owner]
            \/ ReturnFromBody(h)
Fairness ==
    /\ \A c \in Callers : WF_vars(Runs(c))
    /\ \A c \in Clients \cup Handles : SF_vars(CopyTicket(c))
    /\ \A h \in Handles : SF_vars(Works(h))
    /\ \A i \in Slots : SF_vars(PumpSlot(i))

Spec == Init /\ [][Next]_vars /\ Fairness

-----------------------------------------------------------------------------
Tickets == [slot : Slots, generation : 0..MaxGeneration]
Records == [state : {"Empty", "Reserved", "Published", "Finished", "Reaping", "Reaped"},
            handle : Handles \cup {None}, generation : 0..MaxGeneration,
            owner : Services \cup {None}, references : Int]
Workers == [state : {"none", "waiting", "business", "tail", "parked"}, slot : Slots,
            generation : 0..MaxGeneration, owner : Services \cup {None}]
Calls   == [op : {"none", "start", "stop", "destroy", "pump"},
            at : {"idle", "ensure", "allocate", "admit", "create", "publish", "leave", "cancel",
                  "restore", "copy", "reap", "delete", "mark", "joined", "drain", "drained",
                  "destroyed"},
            service : Services \cup {None}, ticket : Tickets, previous : Tickets,
            target : Tickets, handle : Handles \cup {None}]

TypeOK ==
    /\ pool \in {"null", "initializing", "ready"}
    /\ records \in [Slots -> Records]
    /\ nextGeneration \in 1..MaxGeneration
    /\ closed \in [Services -> BOOLEAN]
    /\ member \in [Services -> Tickets]
    /\ mutex \in [Services -> Callers \cup {None}]
    /\ active \in [Services -> Handles \cup {None}]
    /\ stopRequested \in [Services -> BOOLEAN]
    /\ task \in [Handles -> Workers]
    /\ call \in [Callers -> Calls]

\* Only a worker whose body has returned is deleted, at most one reaper is at
\* work on a record, and it deletes the very worker the record was made for:
\* TryReap's "There is one claimer only" (task-retirement.cc:116-118).
OnlyParkedDeleted ==
    \A c \in Callers : call[c].at = "delete" =>
        LET t == call[c].target  h == call[c].handle IN
        /\ RecordOf(t).state = "Reaping"
        /\ task[h].state = "parked"
        /\ task[h].slot = t.slot
        /\ task[h].generation = t.generation
        /\ \A d \in Callers \ {c} : call[d].at = "delete" => call[d].handle # h

\* Every Require (std::abort) of the registry holds where the code evaluates it
\* under the services' usage: tickets name their own generation, publication
\* and cancellation find a Reserved record, the entry finds its own record, a
\* mark finds the record it claimed.
RequiresHold ==
    /\ \A s \in Services : member[s].generation # 0 =>
          /\ RecordOf(member[s]).generation = member[s].generation
          /\ RecordOf(member[s]).state # "Empty"
          /\ RecordOf(member[s]).references > 0
    /\ \A c \in Callers :
          /\ \A t \in {call[c].ticket, call[c].previous} : t.generation # 0 =>
                /\ RecordOf(t).generation = t.generation
                /\ RecordOf(t).state # "Empty"
                /\ RecordOf(t).references > 0
          /\ call[c].at \in {"create", "publish", "cancel"} =>
                RecordOf(member[call[c].service]).state = "Reserved"
          /\ call[c].at = "mark" =>
                /\ RecordOf(call[c].target).state = "Reaping"
                /\ RecordOf(call[c].target).generation = call[c].target.generation
          /\ At(c, "destroy", "drain") =>
                \A i \in Owned(call[c].service) :
                    records[i].state = "Reaping" \/ records[i].handle # c
    /\ \A h \in Handles :
          /\ task[h].state = "waiting" => OwnRecord(h).state \in {"Reserved", "Published"}
          /\ task[h].state \in {"business", "tail"} => OwnRecord(h).state = "Published"
          /\ task[h].state # "none" => OwnRecord(h).generation = task[h].generation

\* A record is counted exactly by the tickets that name it: neither a leaked
\* reference (a slot lost for ever) nor a missing one (a slot reused under a
\* live ticket).
Owners(i) == {<<"member", s>> : s \in {x \in Services :
                    member[x] = [slot |-> i, generation |-> records[i].generation]}}
             \cup {<<"ticket", c>> : c \in {x \in Callers :
                    call[x].ticket = [slot |-> i, generation |-> records[i].generation]}}
             \cup {<<"previous", c>> : c \in {x \in Callers :
                    call[x].previous = [slot |-> i, generation |-> records[i].generation]}}
ReferencesExact ==
    \A i \in Slots : records[i].generation # 0 =>
        records[i].references = Cardinality(Owners(i))

\* When Join returns to an external caller, the worker of the captured
\* generation is gone: its body, its locals and its stack (task-retirement.h:30).
JoinMeansReclaimed ==
    \A c \in Callers, h \in Handles :
        (call[c].at = "joined" /\ call[c].op \in {"stop", "destroy"} /\ h # c) =>
            \/ call[c].ticket.generation = 0
            \/ task[h].generation # call[c].ticket.generation

\* When Drain has returned no worker of that owner lives and none can appear,
\* so the service may free its mutexes.
DrainedForEver ==
    \A c \in Callers, h \in Handles :
        (call[c].at \in {"drained", "destroyed"} /\ task[h].state # "none") =>
            task[h].owner # call[c].service

\* The pump alone reclaims every parked worker, with no later Start or Stop.
ParkedIsReclaimed ==
    \A h \in Handles : (task[h].state = "parked") ~> (task[h].state = "none")

\* A Stop returns, whatever the others do (a self-Stop at once).
StopReturns ==
    \A c \in Callers : (call[c].op = "stop") ~> (call[c].op # "stop")
=============================================================================
