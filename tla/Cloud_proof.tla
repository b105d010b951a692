---------------------------- MODULE Cloud_proof ----------------------------
(***************************************************************************)
(* Proofs about UnifiedMqttService, part by part and side by side, for every *)
(* number of commands, payloads and entries of the ledger, every set of     *)
(* scenarios of the streams and every budget of faults of the connection.   *)
(* None of the safety properties is inductive by itself; each part has an   *)
(* invariant that says why it holds:                                        *)
(*                                                                         *)
(* - LedgerInv: that a command is not executed twice rests on the entry of a *)
(*   running command being in the memory, uncompleted, under its own ticket *)
(*   (RunningIsRemembered), because only completed entries are evicted; that *)
(*   a replay is the outcome of its own command rests on every entry        *)
(*   standing for the run that made it (EntryStandsForRun).                 *)
(* - StreamsInv: that a cleanup touches only the peer of the lease it read   *)
(*   rests on the operation lock (OpOwned, SnapHeld, StartHeld); that a      *)
(*   stop is evidence rests on where its lease stands between the check and *)
(*   the answer (CommandFits, ExactStopJoined).                             *)
(* - ConnectionInv: that there is one SDK client rests on every client      *)
(*   having one owner, the service, the worker or Stop (Places,             *)
(*   HandlesOwned); that a round forgets nothing rests on which rejection    *)
(*   and which route the flags stand for meanwhile (AuthKept, RouteKept).   *)
(***************************************************************************)
EXTENDS MCCloud, SequenceTheorems, FiniteSetTheorems, TLAPS

(***************************************************************************)
(* The command ledger.                                                     *)
(***************************************************************************)
LedgerTypes ==
    /\ authority \in Nat /\ next \in Nat
    /\ entries \subseteq Entry /\ jobs \subseteq Job /\ ran \subseteq Job

\* A command has one entry, and a ticket number is given once.
EntriesDistinct ==
    /\ \A e, f \in entries : e.cmd = f.cmd => e = f
    /\ \A e, f \in entries : e.seq = f.seq => e = f
    /\ \A j, k \in ran : j.seq = k.seq => j = k

\* Numbers are given in order, from one.
NumbersGiven ==
    /\ \A e \in entries : e.seq <= next
    /\ \A j \in ran : 0 < j.seq /\ j.seq <= next /\ j.authority <= authority

RunningIsRemembered ==
    /\ jobs \subseteq ran
    /\ \A j \in jobs : j.authority = authority =>
           \E e \in entries : e.seq = j.seq /\ e.cmd = j.cmd /\ ~e.complete

EntryStandsForRun ==
    \A e \in entries :
        /\ e.response \in {0, e.seq}
        /\ \E j \in ran : j.seq = e.seq /\ j.cmd = e.cmd /\ j.payload = e.payload

LedgerInv ==
    /\ LedgerTypes /\ EntriesDistinct /\ NumbersGiven
    /\ RunningIsRemembered /\ EntryStandsForRun /\ ReplayIsOwn

LedgerBounds == authority <= MaxResets /\ next <= MaxSequence /\ answer.kind \in Answers

LEMMA LedgerInitHolds == LedgerInit => LedgerInv
  BY DEF LedgerInit, LedgerInv, LedgerTypes, EntriesDistinct, NumbersGiven, RunningIsRemembered,
         EntryStandsForRun, ReplayIsOwn, NoAnswer

\* Begin: the new entry has a new number and a command that was not remembered.
LEMMA BeginHolds ==
  ASSUME LedgerInv, NEW c \in Commands, NEW p \in Payloads, Begin(c, p)
  PROVE  LedgerInv'
  <1> DEFINE job   == [authority |-> authority, seq |-> next + 1, cmd |-> c, payload |-> p]
             entry == [seq |-> next + 1, cmd |-> c, payload |-> p,
                       complete |-> FALSE, response |-> 0]
  <1>1. /\ next' = next + 1 /\ authority' = authority
        /\ entries' = (entries \ Evicted) \cup {entry}
        /\ jobs' = jobs \cup {job} /\ ran' = ran \cup {job}
        /\ answer' = NoAnswer
    BY DEF Begin
  <1>2. ~\E e \in entries : e.cmd = c
    BY DEF Begin, Remembered
  <1>3. \A e \in Evicted : e.complete
    BY DEF Evicted, Oldest, Completed
  <1>4. LedgerTypes /\ EntriesDistinct /\ NumbersGiven /\ RunningIsRemembered /\ EntryStandsForRun
    BY DEF LedgerInv
  <1>5. job \in Job /\ entry \in Entry
    BY <1>4 DEF LedgerTypes, Job, Entry
  <1>6. job.seq = next + 1 /\ job.cmd = c /\ job.payload = p /\ job.authority = authority
    OBVIOUS
  <1>7. /\ entry.seq = next + 1 /\ entry.cmd = c /\ entry.payload = p
        /\ ~entry.complete /\ entry.response = 0
    OBVIOUS
  <1> HIDE DEF job, entry
  <1>8. LedgerTypes'
    BY <1>1, <1>4, <1>5 DEF LedgerTypes
  <1>9. \A e \in entries : e.seq \in Nat /\ e.seq <= next
    BY <1>4 DEF NumbersGiven, LedgerTypes, Entry
  <1>10. \A j \in ran : j.seq \in Nat /\ j.seq <= next
    BY <1>4 DEF NumbersGiven, LedgerTypes, Job
  <1>11. next \in Nat /\ authority \in Nat
    BY <1>4 DEF LedgerTypes
  <1>12. EntriesDistinct'
    <2>1. \A e, f \in entries' : e.cmd = f.cmd => e = f
      BY <1>1, <1>2, <1>4, <1>7 DEF EntriesDistinct
    <2>2. \A e, f \in entries' : e.seq = f.seq => e = f
      BY <1>1, <1>4, <1>7, <1>9, <1>11 DEF EntriesDistinct
    <2>3. \A j, k \in ran' : j.seq = k.seq => j = k
      BY <1>1, <1>4, <1>6, <1>10, <1>11 DEF EntriesDistinct
    <2> QED BY <2>1, <2>2, <2>3 DEF EntriesDistinct
  <1>13. NumbersGiven'
    <2>1. \A e \in entries' : e.seq <= next'
      BY <1>1, <1>7, <1>9, <1>11
    <2>2. \A j \in ran' : 0 < j.seq /\ j.seq <= next' /\ j.authority <= authority'
      BY <1>1, <1>4, <1>6, <1>10, <1>11 DEF NumbersGiven
    <2> QED BY <2>1, <2>2 DEF NumbersGiven
  <1>14. RunningIsRemembered'
    <2>1. jobs' \subseteq ran'
      BY <1>1, <1>4 DEF RunningIsRemembered
    <2>2. ASSUME NEW j \in jobs', j.authority = authority'
          PROVE  \E e \in entries' : e.seq = j.seq /\ e.cmd = j.cmd /\ ~e.complete
      <3>1. CASE j = job
        BY <3>1, <1>1, <1>6, <1>7
      <3>2. CASE j \in jobs
        <4>1. PICK e \in entries : e.seq = j.seq /\ e.cmd = j.cmd /\ ~e.complete
          BY <3>2, <2>2, <1>1, <1>4 DEF RunningIsRemembered
        <4> QED BY <4>1, <1>1, <1>3
      <3> QED BY <3>1, <3>2, <2>2, <1>1
    <2> QED BY <2>1, <2>2 DEF RunningIsRemembered
  <1>15. EntryStandsForRun'
    BY <1>1, <1>4, <1>6, <1>7 DEF EntryStandsForRun
  <1>16. ReplayIsOwn'
    BY <1>1 DEF ReplayIsOwn, NoAnswer
  <1> QED BY <1>8, <1>12, <1>13, <1>14, <1>15, <1>16 DEF LedgerInv

\* Answer: what is replayed is a kept reply of the entry of that command.
LEMMA AnswerHolds ==
  ASSUME LedgerInv, NEW c \in Commands, NEW p \in Payloads, Answer(c, p)
  PROVE  LedgerInv'
  <1>1. UNCHANGED <<authority, next, entries, jobs, ran>> /\ answer' = Verdict(c, p)
    BY DEF Answer
  <1>2. ReplayIsOwn'
    <2>1. SUFFICES ASSUME answer'.kind = "replay"
                   PROVE  \E j \in ran : /\ j.seq = answer'.job.seq
                                         /\ j.cmd = answer'.job.cmd
                                         /\ j.payload = answer'.job.payload
      BY <1>1 DEF ReplayIsOwn
    <2>2. Remembered(c)
      BY <2>1, <1>1 DEF Verdict
    <2> DEFINE e == CHOOSE x \in entries : x.cmd = c
    <2>3. e \in entries /\ e.cmd = c
      BY <2>2 DEF Remembered
    <2>4. /\ e.payload = p /\ e.response # 0
          /\ answer'.job = [seq |-> e.response, cmd |-> c, payload |-> p]
      BY <2>1, <2>2, <1>1 DEF Verdict
    <2> HIDE DEF e
    <2>5. e.response = e.seq
      BY <2>3, <2>4 DEF LedgerInv, EntryStandsForRun
    <2>6. PICK j \in ran : j.seq = e.seq /\ j.cmd = e.cmd /\ j.payload = e.payload
      BY <2>3 DEF LedgerInv, EntryStandsForRun
    <2> QED BY <2>3, <2>4, <2>5, <2>6
  <1> QED
    BY <1>1, <1>2 DEF LedgerInv, LedgerTypes, EntriesDistinct, NumbersGiven, RunningIsRemembered,
                      EntryStandsForRun

\* Complete: an entry changes only its completion and its reply.
LEMMA CompleteHolds ==
  ASSUME LedgerInv, NEW job \in jobs, NEW reply \in BOOLEAN, Complete(job, reply)
  PROVE  LedgerInv'
  <1> DEFINE becomes(e) ==
               IF TicketOf(job) = {} THEN e
               ELSE IF e \in TicketOf(job)
               THEN [e EXCEPT !.complete = TRUE, !.response = IF reply THEN job.seq ELSE 0]
               ELSE IF reply /\ e \in Dropped THEN [e EXCEPT !.response = 0] ELSE e
  <1>1. LedgerTypes /\ EntriesDistinct /\ NumbersGiven /\ RunningIsRemembered
        /\ EntryStandsForRun /\ ReplayIsOwn
    BY DEF LedgerInv
  <1>2. /\ jobs' = jobs \ {job} /\ UNCHANGED <<authority, next, ran, answer>>
        /\ entries' = {becomes(e) : e \in entries}
    BY DEF Complete
  <1>3. job \in Job /\ job \in ran
    BY <1>1 DEF LedgerTypes, RunningIsRemembered
  <1>4. ASSUME NEW e \in entries
        PROVE  /\ becomes(e) \in Entry /\ becomes(e).seq = e.seq /\ becomes(e).cmd = e.cmd
               /\ becomes(e).payload = e.payload /\ becomes(e).response \in {0, e.seq}
               /\ e.seq # job.seq => becomes(e).complete = e.complete
    <2>1. e \in Entry /\ e.response \in {0, e.seq}
      BY <1>1 DEF LedgerTypes, EntryStandsForRun
    <2>2. e \in TicketOf(job) => e.seq = job.seq
      BY DEF TicketOf
    <2> QED BY <2>1, <2>2, <1>3 DEF Entry, Job
  <1> HIDE DEF becomes
  <1>5. LedgerTypes'
    BY <1>1, <1>2, <1>4 DEF LedgerTypes
  <1>6. EntriesDistinct'
    <2>1. \A e, f \in entries' : e.cmd = f.cmd => e = f
      BY <1>1, <1>2, <1>4 DEF EntriesDistinct
    <2>2. \A e, f \in entries' : e.seq = f.seq => e = f
      BY <1>1, <1>2, <1>4 DEF EntriesDistinct
    <2> QED BY <2>1, <2>2, <1>1, <1>2 DEF EntriesDistinct
  <1>7. NumbersGiven'
    BY <1>1, <1>2, <1>4 DEF NumbersGiven
  <1>8. RunningIsRemembered'
    <2>1. ASSUME NEW j \in jobs', j.authority = authority'
          PROVE  \E e \in entries' : e.seq = j.seq /\ e.cmd = j.cmd /\ ~e.complete
      <3>1. PICK e \in entries : e.seq = j.seq /\ e.cmd = j.cmd /\ ~e.complete
        BY <2>1, <1>1, <1>2 DEF RunningIsRemembered
      <3>2. j.seq # job.seq
        BY <2>1, <1>1, <1>2, <1>3 DEF EntriesDistinct, RunningIsRemembered
      <3> QED BY <3>1, <3>2, <1>2, <1>4
    <2> QED BY <2>1, <1>1, <1>2 DEF RunningIsRemembered
  <1>9. EntryStandsForRun'
    BY <1>1, <1>2, <1>4 DEF EntryStandsForRun
  <1>10. ReplayIsOwn'
    BY <1>1, <1>2 DEF ReplayIsOwn
  <1> QED BY <1>5, <1>6, <1>7, <1>8, <1>9, <1>10 DEF LedgerInv

\* A reset: no run was admitted under the new authority yet.
LEMMA ResetHolds ==
  ASSUME LedgerInv, ResetAuthority
  PROVE  LedgerInv'
  <1>1. /\ authority' = authority + 1 /\ entries' = {}
        /\ UNCHANGED <<next, jobs, ran, answer>>
    BY DEF ResetAuthority
  <1>2. LedgerTypes /\ EntriesDistinct /\ NumbersGiven /\ RunningIsRemembered /\ ReplayIsOwn
    BY DEF LedgerInv
  <1>3. LedgerTypes' /\ EntriesDistinct' /\ EntryStandsForRun' /\ ReplayIsOwn'
    BY <1>1, <1>2 DEF LedgerTypes, EntriesDistinct, EntryStandsForRun, ReplayIsOwn
  <1>4. \A j \in ran : j.authority \in Nat /\ j.authority <= authority /\ authority \in Nat
    BY <1>2 DEF LedgerTypes, NumbersGiven, Job
  <1>5. NumbersGiven'
    BY <1>1, <1>2, <1>4 DEF NumbersGiven
  <1>6. RunningIsRemembered'
    <2>1. \A j \in jobs' : j.authority # authority'
      BY <1>1, <1>2, <1>4 DEF RunningIsRemembered
    <2> QED BY <2>1, <1>1, <1>2 DEF RunningIsRemembered
  <1> QED BY <1>3, <1>5, <1>6 DEF LedgerInv

LEMMA LedgerNextHolds ==
  ASSUME LedgerInv, [LedgerNext]_ledgerVars
  PROVE  LedgerInv'
  <1>1. LedgerInv /\ [LedgerNext]_ledgerVars
    OBVIOUS
  <1>2. CASE UNCHANGED ledgerVars
    BY <1>1, <1>2 DEF ledgerVars, LedgerInv, LedgerTypes, EntriesDistinct, NumbersGiven,
      RunningIsRemembered,
                      EntryStandsForRun, ReplayIsOwn
  <1>3. CASE LedgerNext
    BY <1>1, <1>3, BeginHolds, AnswerHolds, CompleteHolds, ResetHolds DEF LedgerNext
  <1> QED BY <1>1, <1>2, <1>3

\* Two running commands with the same number have the same entry, so the same
\* ticket, so they are the same run.
LEMMA InvariantGivesOnce == LedgerInv => NeverTwiceAtOnce
  <1>1. SUFFICES ASSUME LedgerInv, NEW j \in jobs, NEW k \in jobs,
                        j.authority = authority, k.authority = authority, j.cmd = k.cmd
                 PROVE  j = k
    BY DEF NeverTwiceAtOnce
  <1>2. PICK e \in entries : e.seq = j.seq /\ e.cmd = j.cmd
    BY <1>1 DEF LedgerInv, RunningIsRemembered
  <1>3. PICK f \in entries : f.seq = k.seq /\ f.cmd = k.cmd
    BY <1>1 DEF LedgerInv, RunningIsRemembered
  <1> QED BY <1>1, <1>2, <1>3 DEF LedgerInv, EntriesDistinct, RunningIsRemembered

\* The invariant of the ledger.
THEOREM LedgerInvariant == LedgerSpec => []LedgerInv
  <1>1. LedgerInit => LedgerInv
    BY LedgerInitHolds
  <1>2. LedgerInv /\ [LedgerNext]_ledgerVars => LedgerInv'
    BY LedgerNextHolds
  <1> QED BY <1>1, <1>2, PTL DEF LedgerSpec

\* A command the cloud delivers again is never executed while it is still being
\* executed (Begin answers kPending), whatever was evicted in between.
THEOREM NotTwice == LedgerSpec => []NeverTwiceAtOnce
  BY LedgerInvariant, InvariantGivesOnce, PTL

\* A replayed answer (Begin answers kReplay) is the outcome of that command with
\* that payload, also when its completion came after evictions and resets.
THEOREM OwnReplay == LedgerSpec => []ReplayIsOwn
  <1>1. LedgerInv => ReplayIsOwn
    BY DEF LedgerInv
  <1> QED BY <1>1, LedgerInvariant, PTL

\* The counters stay below their bounds, and Begin answers with one of its results.
LEMMA LedgerBoundsKept ==
  ASSUME LedgerTypes, LedgerBounds, [LedgerNext]_ledgerVars
  PROVE  LedgerBounds'
  <1>1. CASE UNCHANGED ledgerVars
    BY <1>1 DEF LedgerBounds, ledgerVars
  <1>2. ASSUME NEW c \in Commands, NEW p \in Payloads, Begin(c, p)
        PROVE  LedgerBounds'
    <2>1. UNCHANGED authority /\ next' = next + 1 /\ next < MaxSequence
      BY <1>2 DEF Begin
    <2>2. answer' = NoAnswer
      BY <1>2 DEF Begin
    <2> QED BY <2>1, <2>2, LedgerAssumption DEF LedgerBounds, LedgerTypes, NoAnswer, Answers
  <1>3. ASSUME NEW c \in Commands, NEW p \in Payloads, Answer(c, p)
        PROVE  LedgerBounds'
    <2>1. UNCHANGED <<authority, next>> /\ answer' = Verdict(c, p)
      BY <1>3 DEF Answer
    <2>2. Verdict(c, p).kind \in Answers
      BY DEF Verdict, Answers
    <2> QED BY <2>1, <2>2 DEF LedgerBounds
  <1>4. ASSUME NEW job \in jobs, NEW reply \in BOOLEAN, Complete(job, reply)
        PROVE  LedgerBounds'
    BY <1>4 DEF Complete, LedgerBounds
  <1>5. CASE ResetAuthority
    BY <1>5, LedgerAssumption DEF ResetAuthority, LedgerBounds, LedgerTypes
  <1> QED BY <1>1, <1>2, <1>3, <1>4, <1>5 DEF LedgerNext

LEMMA LedgerBoundsInit == LedgerInit => LedgerBounds
  BY LedgerAssumption DEF LedgerInit, LedgerBounds, NoAnswer, Answers

\* The types of the ledger follow from its invariant and its bounds.
LEMMA LedgerTypesGiven == LedgerInv /\ LedgerBounds => LedgerTypeOK
  BY LedgerAssumption DEF LedgerInv, LedgerTypes, LedgerBounds, LedgerTypeOK

(***************************************************************************)
(* The streams.                                                            *)
(***************************************************************************)
Lease == [kind : Kinds, session : Nat, no : Nat, epoch : Nat, active : BOOLEAN, accepted : BOOLEAN]
Nonces == 0 .. Len(leases)

WhileHeld == {"loop", "begin", "start", "native", "commit", "stop", "verify", "signal", "end",
              "complete", "answer"}
AfterCleanup == {"start", "native", "commit", "stop", "signal", "end", "answer"}

StreamTypes ==
    /\ conn \in [started : BOOLEAN, up : BOOLEAN, epoch : Nat]
    /\ leases \in Seq(Lease) /\ pending \in BOOLEAN
    /\ held \in [Kinds -> [lease : Nonces, closed : Nonces, latest : Nonces]]
    /\ peer \in [Kinds -> [n : Nonces, pc : {"none", "running", "revoking", "ended"}]]
    /\ scenario \in [requests : SUBSET Requests, breaks : Nat, calls : Nat]
    /\ ledger \in [{r.no : r \in scenario.requests} ->
                      [known : BOOLEAN, ok : BOOLEAN, epoch : Nat, nonce : Nat]]

OpTypes ==
    op \in [owner : {"free", "worker", "caller"},
           pc : {"none", "snap", "stop", "record", "recompute", "done"},
           i : 1 .. 3, snap : Nonces]
HandlerTypes ==
    handler \in [pc : WhileHeld \cup {"idle", "lock"}, req : Requests \cup {NoReq},
                epoch : Nat, lease : Nat, ok : BOOLEAN]
CallerTypes ==
    caller \in [pc : {"idle", "lock", "clean", "join"}, what : Kinds \cup {"none", "service"}]

\* The operation lock belongs to the worker from LoopCleanup or Lock to its answer, and
\* to a caller while it cleans up.
OpOwned ==
    /\ op.owner = "worker" <=> handler.pc \in WhileHeld
    /\ op.owner = "caller" <=> caller.pc = "clean"
    /\ op.owner = "free" <=> op.pc = "none"
    /\ handler.pc \in AfterCleanup => op.pc = "done"
    /\ op.pc \in {"stop", "record"} => op.i \in {1, 2}

\* A native instance belongs to the lease its stream holds.
PeersHeld ==
    \A k \in Kinds : /\ peer[k].n = 0 <=> peer[k].pc = "none"
                     /\ peer[k].n \in {0, held[k].lease}

\* Nobody else gives up or takes a lease while a cleanup or a start works on it.
SnapHeld ==
    /\ op.pc \in {"stop", "record"} => op.snap # 0 /\ held[Kind].lease = op.snap
    /\ op.pc = "record" => peer[Kind].n = 0
StartHeld ==
    handler.pc \in {"native", "commit"} =>
        handler.lease # 0 /\ held[handler.req.kind].lease = handler.lease

\* What the worker executes is the command it took.
CommandFits ==
    /\ handler.pc \notin {"idle", "loop"} => handler.req \in scenario.requests
    /\ handler.pc \in {"start", "native", "commit"} => handler.req.op = "start"
    /\ handler.pc \in {"stop", "verify"} => handler.req.op = "stop"
    /\ handler.pc = "signal" => handler.req.op = "signal"
    /\ handler.pc = "verify" =>
          /\ handler.lease \in DOMAIN leases
          /\ handler.req.start # 0 => leases[handler.lease].no = handler.req.start

StopJoined(k, n, start) ==
    /\ n \in DOMAIN leases /\ leases[n].accepted /\ leases[n].no = start
    /\ n = held[k].latest /\ held[k].lease = 0

ExactStopJoined ==
    /\ handler.pc \in {"end", "complete", "answer"}
    /\ handler.ok /\ handler.req.op = "stop" /\ handler.req.start # 0
    => StopJoined(handler.req.kind, handler.lease, handler.req.start)

RoomLeft ==
    /\ Len(leases) <= MaxStreams
    /\ handler.pc \in {"lock", "begin"} /\ handler.req.op = "start" =>
          Len(leases) < MaxStreams \/ ledger[handler.req.no].known
    /\ handler.pc = "start" => Len(leases) < MaxStreams

StreamsInv ==
    /\ StreamTypes /\ OpTypes /\ HandlerTypes /\ CallerTypes
    /\ OpOwned /\ PeersHeld /\ SnapHeld /\ StartHeld
    /\ CommandFits /\ ExactStopJoined /\ RoomLeft

\* The stream an exact or a plain stop finds running.
StopIsMine ==
    LET r == handler.req
        n == held[r.kind].lease
    IN  /\ n # 0 /\ leases[n].session = r.session
        /\ r.start # 0 => leases[n].no = r.start
        /\ IsStreamPublicationCurrent(n)

LEMMA TwoKinds == Kinds = {"camera", "display"} /\ Order[1] = "camera" /\ Order[2] = "display"
                  /\ Len(Order) = 2
  BY DEF Kinds, Order

\* Revoking changes nothing of a lease but that it is active.
LEMMA RevokedLeases ==
  ASSUME leases \in Seq(Lease), NEW ns
  PROVE  /\ Revoked(ns) \in Seq(Lease) /\ Len(Revoked(ns)) = Len(leases)
         /\ DOMAIN Revoked(ns) = DOMAIN leases /\ DOMAIN leases = 1 .. Len(leases)
         /\ \A n \in DOMAIN leases : Revoked(ns)[n].no = leases[n].no
         /\ \A n \in DOMAIN leases : Revoked(ns)[n].accepted = leases[n].accepted
<1>1. DOMAIN leases = 1 .. Len(leases) /\ Len(leases) \in Nat
  OBVIOUS
<1>2. \A n \in DOMAIN leases : leases[n] \in Lease
  OBVIOUS
<1>3. ASSUME NEW n \in DOMAIN leases
      PROVE  /\ Revoked(ns)[n] \in Lease /\ Revoked(ns)[n].no = leases[n].no
             /\ Revoked(ns)[n].accepted = leases[n].accepted
  BY <1>2 DEF Revoked, Lease
<1>4. DOMAIN Revoked(ns) = 1 .. Len(leases)
  BY <1>1 DEF Revoked
<1>5. Revoked(ns) \in [1 .. Len(leases) -> Lease]
  BY <1>1, <1>3, <1>4 DEF Revoked
<1>6. Revoked(ns) \in Seq(Lease)
  BY <1>1, <1>5, SeqDef
<1>7. Len(Revoked(ns)) = Len(leases)
  BY <1>1, <1>4, <1>6, LenProperties
<1> QED
  BY <1>1, <1>3, <1>4, <1>6, <1>7

LEMMA NonceFacts ==
  ASSUME StreamTypes
  PROVE  /\ Len(leases) \in Nat /\ DOMAIN leases = 1 .. Len(leases)
         /\ 0 \in Nonces /\ Nonces \subseteq Nat
  BY DEF StreamTypes, Nonces


\* What a completed join leaves of the record of a kind.
LEMMA GivenUp ==
  ASSUME NEW S, NEW r \in [lease : S, closed : S, latest : S], NEW a, NEW c,
         NEW x, x = [r EXCEPT !.lease = a, !.closed = c]
  PROVE  x = [lease |-> a, closed |-> c, latest |-> r.latest]
OBVIOUS


\* The stream that a stop finds closed is one whose native join completed.
LEMMA ClosedIsJoined ==
  ASSUME StreamTypes, NEW k \in Kinds, NEW session, NEW start
  PROVE  LET n == FindClosedStream(k, session, start)
         IN  n \in Nat /\ (n # 0 => StopJoined(k, n, start))
<1> DEFINE n == held[k].closed
           closed == /\ Connected /\ n # 0 /\ held[k].lease = 0
                     /\ leases[n].accepted /\ ~leases[n].active
                     /\ start # 0 /\ leases[n].session = session /\ leases[n].no = start
                     /\ leases[n].epoch = conn.epoch /\ n = held[k].latest
<1>1. n \in Nonces /\ n \in Nat
  BY NonceFacts DEF StreamTypes
<1>2. FindClosedStream(k, session, start) = IF closed THEN n ELSE 0
  BY DEF FindClosedStream
<1>3. ASSUME closed
      PROVE  StopJoined(k, n, start)
  BY <1>1, <1>3, NonceFacts DEF StopJoined, Nonces
<1> HIDE DEF n, closed
<1>4. CASE closed
  BY <1>1, <1>2, <1>3, <1>4
<1>5. CASE ~closed
  BY <1>1, <1>2, <1>5
<1> QED
  BY <1>4, <1>5

\* What a connection that came up, or was lost, leaves of the record of the connection.
LEMMA Turned ==
  ASSUME NEW r \in [started : BOOLEAN, up : BOOLEAN, epoch : Nat], NEW b \in BOOLEAN,
         NEW x, x = [r EXCEPT !.up = b, !.epoch = @ + 1]
  PROVE  x \in [started : BOOLEAN, up : BOOLEAN, epoch : Nat]
<1>1. x = [r EXCEPT !.up = b, !.epoch = r.epoch + 1]
  OBVIOUS
<1>2. PICK was \in BOOLEAN, up \in BOOLEAN, epoch \in Nat :
        r = [started |-> was, up |-> up, epoch |-> epoch]
  OBVIOUS
<1>3. r.epoch + 1 \in Nat
  OBVIOUS
<1> DEFINE e == r.epoch + 1
<1>4. x = [r EXCEPT !.up = b, !.epoch = e]
  BY <1>1
<1> HIDE DEF e
<1>5. x = [started |-> was, up |-> b, epoch |-> e]
  BY <1>2, <1>4
<1>6. e \in Nat
  BY <1>3 DEF e
<1> QED
  BY <1>5, <1>6

\* A lost connection or a call is one of those the scenario allows.
LEMMA SpendKeeps ==
  ASSUME StreamTypes, NEW what \in {"breaks", "calls"}, SpendScenario(what)
  PROVE  /\ scenario' \in [requests : SUBSET Requests, breaks : Nat, calls : Nat]
         /\ scenario'.requests = scenario.requests
<1>1. scenario \in [requests : SUBSET Requests, breaks : Nat, calls : Nat]
  BY DEF StreamTypes
<1>2. CASE what = "breaks"
  <2>1. scenario' = [scenario EXCEPT !.breaks = scenario.breaks - 1] /\ scenario.breaks > 0
    BY <1>2 DEF SpendScenario
  <2> QED
    BY <1>1, <2>1
<1>3. CASE what = "calls"
  <2>1. scenario' = [scenario EXCEPT !.calls = scenario.calls - 1] /\ scenario.calls > 0
    BY <1>3 DEF SpendScenario
  <2> QED
    BY <1>1, <2>1
<1> QED
  BY <1>2, <1>3

LEMMA LoopCleanupKeeps ==
  ASSUME StreamsInv, LoopCleanup
  PROVE  StreamsInv'
<1>1. /\ StreamTypes /\ OpTypes /\ HandlerTypes /\ CallerTypes /\ OpOwned /\ PeersHeld
      /\ SnapHeld /\ StartHeld /\ CommandFits /\ ExactStopJoined /\ RoomLeft
  BY DEF StreamsInv
<1>2. /\ Len(leases) \in Nat /\ DOMAIN leases = 1 .. Len(leases)
      /\ 0 \in Nonces /\ Nonces \subseteq Nat
  BY <1>1, NonceFacts
<1>3. /\ op.owner = "free" /\ handler.pc = "idle"
      /\ handler' = [handler EXCEPT !.pc = "loop"]
      /\ op' = [owner |-> "worker", pc |-> "snap", i |-> 1, snap |-> 0]
      /\ UNCHANGED <<conn, leases, held, pending, peer, caller, ledger, scenario>>
      /\ Nonces' = Nonces
  BY DEF LoopCleanup, WorkerAt, WorkerTo, Clean, Nonces
<1>4. StreamTypes' /\ CallerTypes' /\ PeersHeld'
  BY <1>1, <1>3 DEF StreamTypes, CallerTypes, PeersHeld, Nonces
<1>5. OpTypes'
  BY <1>1, <1>2, <1>3 DEF OpTypes
<1>6. HandlerTypes'
  BY <1>1, <1>2, <1>3 DEF HandlerTypes, WhileHeld
<1>7. OpOwned'
  BY <1>1, <1>2, <1>3 DEF OpOwned, WhileHeld, AfterCleanup, HandlerTypes, CallerTypes,
    OpTypes
<1>8. SnapHeld'
  BY <1>1, <1>2, <1>3 DEF SnapHeld, Kind, OpOwned, OpTypes
<1>9. StartHeld'
  BY <1>1, <1>2, <1>3 DEF StartHeld, WhileHeld, HandlerTypes, OpOwned
<1>10. CommandFits'
  BY <1>1, <1>2, <1>3 DEF CommandFits, WhileHeld, HandlerTypes
<1>11. ExactStopJoined'
  BY <1>1, <1>2, <1>3 DEF ExactStopJoined, StopJoined, HandlerTypes, CommandFits
<1>12. RoomLeft'
  BY <1>1, <1>2, <1>3 DEF RoomLeft, WhileHeld, HandlerTypes, CommandFits
<1> QED
  BY <1>4, <1>5, <1>6, <1>7, <1>8, <1>9, <1>10, <1>11, <1>12 DEF StreamsInv

LEMMA LoopCleanedKeeps ==
  ASSUME StreamsInv, LoopCleaned
  PROVE  StreamsInv'
<1>1. /\ StreamTypes /\ OpTypes /\ HandlerTypes /\ CallerTypes /\ OpOwned /\ PeersHeld
      /\ SnapHeld /\ StartHeld /\ CommandFits /\ ExactStopJoined /\ RoomLeft
  BY DEF StreamsInv
<1>2. /\ Len(leases) \in Nat /\ DOMAIN leases = 1 .. Len(leases)
      /\ 0 \in Nonces /\ Nonces \subseteq Nat
  BY <1>1, NonceFacts
<1>3. /\ op.owner = "worker" /\ handler.pc = "loop"
      /\ handler' = Idle /\ op' = Free
      /\ UNCHANGED <<conn, leases, held, pending, peer, caller, ledger, scenario>>
      /\ Nonces' = Nonces
  BY DEF LoopCleaned, WorkerAt, Cleaned, Nonces
<1>4. StreamTypes' /\ CallerTypes' /\ PeersHeld'
  BY <1>1, <1>3 DEF StreamTypes, CallerTypes, PeersHeld, Nonces
<1>5. OpTypes'
  BY <1>1, <1>2, <1>3 DEF OpTypes, Free
<1>6. HandlerTypes'
  BY <1>1, <1>2, <1>3 DEF HandlerTypes, WhileHeld, Idle
<1>7. OpOwned'
  BY <1>1, <1>2, <1>3 DEF OpOwned, WhileHeld, AfterCleanup, HandlerTypes, CallerTypes,
    OpTypes, Idle, Free
<1>8. SnapHeld'
  BY <1>1, <1>2, <1>3 DEF SnapHeld, Kind, OpOwned, OpTypes, Free
<1>9. StartHeld'
  BY <1>1, <1>2, <1>3 DEF StartHeld, WhileHeld, HandlerTypes, OpOwned, Idle
<1>10. CommandFits'
  BY <1>1, <1>2, <1>3 DEF CommandFits, WhileHeld, HandlerTypes, Idle
<1>11. ExactStopJoined'
  BY <1>1, <1>2, <1>3 DEF ExactStopJoined, StopJoined, HandlerTypes, CommandFits, Idle
<1>12. RoomLeft'
  BY <1>1, <1>2, <1>3 DEF RoomLeft, WhileHeld, HandlerTypes, CommandFits, Idle
<1> QED
  BY <1>4, <1>5, <1>6, <1>7, <1>8, <1>9, <1>10, <1>11, <1>12 DEF StreamsInv

LEMMA DeliverKeeps ==
  ASSUME StreamsInv, NEW r \in scenario.requests, Deliver(r)
  PROVE  StreamsInv'
<1>1. /\ StreamTypes /\ OpTypes /\ HandlerTypes /\ CallerTypes /\ OpOwned /\ PeersHeld
      /\ SnapHeld /\ StartHeld /\ CommandFits /\ ExactStopJoined /\ RoomLeft
  BY DEF StreamsInv
<1>2. /\ Len(leases) \in Nat /\ DOMAIN leases = 1 .. Len(leases)
      /\ 0 \in Nonces /\ Nonces \subseteq Nat
  BY <1>1, NonceFacts
<1>3. /\ handler.pc = "idle"
      /\ handler' = [pc |-> "lock", req |-> r, epoch |-> conn.epoch, lease |-> 0, ok |-> FALSE]
      /\ r.op = "start" => Len(leases) < MaxStreams \/ ledger[r.no].known
      /\ r \in Requests /\ conn.epoch \in Nat
      /\ UNCHANGED <<conn, leases, held, pending, peer, op, caller, ledger, scenario>>
      /\ Nonces' = Nonces
  BY <1>1 DEF Deliver, WorkerAt, Idle, Nonces, StreamTypes
<1>4. StreamTypes' /\ OpTypes' /\ CallerTypes' /\ PeersHeld' /\ SnapHeld'
  BY <1>1, <1>3 DEF StreamTypes, OpTypes, CallerTypes, PeersHeld, Nonces, SnapHeld,
    Kind
<1>5. HandlerTypes'
  BY <1>1, <1>2, <1>3 DEF HandlerTypes, WhileHeld
<1>6. OpOwned'
  BY <1>1, <1>2, <1>3 DEF OpOwned, WhileHeld, AfterCleanup, HandlerTypes, CallerTypes,
    OpTypes
<1>7. StartHeld'
  BY <1>1, <1>2, <1>3 DEF StartHeld, WhileHeld, HandlerTypes, OpOwned
<1>8. CommandFits'
  BY <1>1, <1>2, <1>3 DEF CommandFits, WhileHeld, HandlerTypes
<1>9. ExactStopJoined'
  BY <1>1, <1>2, <1>3 DEF ExactStopJoined, StopJoined, HandlerTypes, CommandFits
<1>10. RoomLeft'
  BY <1>1, <1>2, <1>3 DEF RoomLeft, WhileHeld, HandlerTypes, CommandFits
<1> QED
  BY <1>4, <1>5, <1>6, <1>7, <1>8, <1>9, <1>10 DEF StreamsInv

LEMMA LockKeeps ==
  ASSUME StreamsInv, Lock
  PROVE  StreamsInv'
<1>1. /\ StreamTypes /\ OpTypes /\ HandlerTypes /\ CallerTypes /\ OpOwned /\ PeersHeld
      /\ SnapHeld /\ StartHeld /\ CommandFits /\ ExactStopJoined /\ RoomLeft
  BY DEF StreamsInv
<1>2. /\ Len(leases) \in Nat /\ DOMAIN leases = 1 .. Len(leases)
      /\ 0 \in Nonces /\ Nonces \subseteq Nat
  BY <1>1, NonceFacts
<1>3. /\ op.owner = "free" /\ handler.pc = "lock"
      /\ handler' = [handler EXCEPT !.pc = "begin"]
      /\ op' = [owner |-> "worker", pc |-> "snap", i |-> 1, snap |-> 0]
      /\ UNCHANGED <<conn, leases, held, pending, peer, caller, ledger, scenario>>
      /\ Nonces' = Nonces
  BY DEF Lock, WorkerAt, WorkerTo, Clean, Nonces
<1>4. StreamTypes' /\ CallerTypes' /\ PeersHeld'
  BY <1>1, <1>3 DEF StreamTypes, CallerTypes, PeersHeld, Nonces
<1>5. OpTypes'
  BY <1>1, <1>2, <1>3 DEF OpTypes
<1>6. HandlerTypes'
  BY <1>1, <1>2, <1>3 DEF HandlerTypes, WhileHeld
<1>7. OpOwned'
  BY <1>1, <1>2, <1>3 DEF OpOwned, WhileHeld, AfterCleanup, HandlerTypes, CallerTypes,
    OpTypes
<1>8. SnapHeld'
  BY <1>1, <1>2, <1>3 DEF SnapHeld, Kind, OpOwned, OpTypes
<1>9. StartHeld'
  BY <1>1, <1>2, <1>3 DEF StartHeld, WhileHeld, HandlerTypes, OpOwned
<1>10. CommandFits'
  BY <1>1, <1>2, <1>3 DEF CommandFits, WhileHeld, HandlerTypes
<1>11. ExactStopJoined'
  BY <1>1, <1>2, <1>3 DEF ExactStopJoined, StopJoined, HandlerTypes, CommandFits
<1>12. RoomLeft'
  BY <1>1, <1>2, <1>3 DEF RoomLeft, WhileHeld, HandlerTypes, CommandFits
<1> QED
  BY <1>4, <1>5, <1>6, <1>7, <1>8, <1>9, <1>10, <1>11, <1>12 DEF StreamsInv

LEMMA CommandEndKeeps ==
  ASSUME StreamsInv, CommandEnd
  PROVE  StreamsInv'
<1>1. /\ StreamTypes /\ OpTypes /\ HandlerTypes /\ CallerTypes /\ OpOwned /\ PeersHeld
      /\ SnapHeld /\ StartHeld /\ CommandFits /\ ExactStopJoined /\ RoomLeft
  BY DEF StreamsInv
<1>2. /\ Len(leases) \in Nat /\ DOMAIN leases = 1 .. Len(leases)
      /\ 0 \in Nonces /\ Nonces \subseteq Nat
  BY <1>1, NonceFacts
<1>3. /\ handler.pc = "end"
      /\ handler' = [handler EXCEPT !.pc = "complete"]
      /\ op' = [owner |-> "worker", pc |-> "snap", i |-> 1, snap |-> 0]
      /\ UNCHANGED <<conn, leases, held, pending, peer, caller, ledger, scenario>>
      /\ Nonces' = Nonces
  BY DEF CommandEnd, WorkerAt, WorkerTo, Clean, Nonces
<1>4. StreamTypes' /\ CallerTypes' /\ PeersHeld'
  BY <1>1, <1>3 DEF StreamTypes, CallerTypes, PeersHeld, Nonces
<1>5. OpTypes'
  BY <1>1, <1>2, <1>3 DEF OpTypes
<1>6. HandlerTypes'
  BY <1>1, <1>2, <1>3 DEF HandlerTypes, WhileHeld
<1>7. OpOwned'
  BY <1>1, <1>2, <1>3 DEF OpOwned, WhileHeld, AfterCleanup, HandlerTypes, CallerTypes,
    OpTypes
<1>8. SnapHeld'
  BY <1>1, <1>2, <1>3 DEF SnapHeld, Kind, OpOwned, OpTypes
<1>9. StartHeld'
  BY <1>1, <1>2, <1>3 DEF StartHeld, WhileHeld, HandlerTypes, OpOwned
<1>10. CommandFits'
  BY <1>1, <1>2, <1>3 DEF CommandFits, WhileHeld, HandlerTypes
<1>11. ExactStopJoined'
  BY <1>1, <1>2, <1>3 DEF ExactStopJoined, StopJoined, HandlerTypes, CommandFits
<1>12. RoomLeft'
  BY <1>1, <1>2, <1>3 DEF RoomLeft, WhileHeld, HandlerTypes, CommandFits
<1> QED
  BY <1>4, <1>5, <1>6, <1>7, <1>8, <1>9, <1>10, <1>11, <1>12 DEF StreamsInv

LEMMA CommandAnswerKeeps ==
  ASSUME StreamsInv, CommandAnswer
  PROVE  StreamsInv'
<1>1. /\ StreamTypes /\ OpTypes /\ HandlerTypes /\ CallerTypes /\ OpOwned /\ PeersHeld
      /\ SnapHeld /\ StartHeld /\ CommandFits /\ ExactStopJoined /\ RoomLeft
  BY DEF StreamsInv
<1>2. /\ Len(leases) \in Nat /\ DOMAIN leases = 1 .. Len(leases)
      /\ 0 \in Nonces /\ Nonces \subseteq Nat
  BY <1>1, NonceFacts
<1>3. /\ handler.pc = "answer"
      /\ handler' = Idle /\ op' = Free
      /\ UNCHANGED <<conn, leases, held, pending, peer, caller, ledger, scenario>>
      /\ Nonces' = Nonces
  BY DEF CommandAnswer, WorkerAt, Nonces
<1>4. StreamTypes' /\ CallerTypes' /\ PeersHeld'
  BY <1>1, <1>3 DEF StreamTypes, CallerTypes, PeersHeld, Nonces
<1>5. OpTypes'
  BY <1>1, <1>2, <1>3 DEF OpTypes, Free
<1>6. HandlerTypes'
  BY <1>1, <1>2, <1>3 DEF HandlerTypes, WhileHeld, Idle
<1>7. OpOwned'
  BY <1>1, <1>2, <1>3 DEF OpOwned, WhileHeld, AfterCleanup, HandlerTypes, CallerTypes,
    OpTypes, Idle, Free
<1>8. SnapHeld'
  BY <1>1, <1>2, <1>3 DEF SnapHeld, Kind, OpOwned, OpTypes, Free
<1>9. StartHeld'
  BY <1>1, <1>2, <1>3 DEF StartHeld, WhileHeld, HandlerTypes, OpOwned, Idle
<1>10. CommandFits'
  BY <1>1, <1>2, <1>3 DEF CommandFits, WhileHeld, HandlerTypes, Idle
<1>11. ExactStopJoined'
  BY <1>1, <1>2, <1>3 DEF ExactStopJoined, StopJoined, HandlerTypes, CommandFits, Idle
<1>12. RoomLeft'
  BY <1>1, <1>2, <1>3 DEF RoomLeft, WhileHeld, HandlerTypes, CommandFits, Idle
<1> QED
  BY <1>4, <1>5, <1>6, <1>7, <1>8, <1>9, <1>10, <1>11, <1>12 DEF StreamsInv

LEMMA CleanSnapKeeps_Past ==
  ASSUME StreamsInv, CleanSnap, op.i > Len(Order)
  PROVE  StreamsInv'
<1>1. /\ StreamTypes /\ OpTypes /\ HandlerTypes /\ CallerTypes /\ OpOwned /\ PeersHeld
      /\ SnapHeld /\ StartHeld /\ CommandFits /\ ExactStopJoined /\ RoomLeft
  BY DEF StreamsInv
<1>2. /\ Len(leases) \in Nat /\ DOMAIN leases = 1 .. Len(leases)
      /\ 0 \in Nonces /\ Nonces \subseteq Nat
  BY <1>1, NonceFacts
<1>3. /\ op.pc = "snap"
      /\ op' = [op EXCEPT !.pc = "recompute"]
      /\ UNCHANGED <<conn, leases, held, pending, peer, handler, caller, ledger, scenario>>
      /\ Nonces' = Nonces
  BY DEF CleanSnap, OpAt, Nonces
<1>4. StreamTypes' /\ HandlerTypes' /\ CallerTypes' /\ PeersHeld' /\ StartHeld' /\
        CommandFits' /\ ExactStopJoined' /\ RoomLeft'
  BY <1>1, <1>3 DEF StreamTypes, HandlerTypes, CallerTypes, PeersHeld, Nonces,
    StartHeld, CommandFits, ExactStopJoined, StopJoined, RoomLeft
<1>5. OpTypes'
  BY <1>1, <1>2, <1>3 DEF OpTypes
<1>6. OpOwned'
  BY <1>1, <1>2, <1>3 DEF OpOwned, WhileHeld, AfterCleanup, HandlerTypes, CallerTypes,
    OpTypes
<1>7. SnapHeld'
  BY <1>1, <1>2, <1>3 DEF SnapHeld, Kind, OpOwned, OpTypes
<1> QED
  BY <1>4, <1>5, <1>6, <1>7 DEF StreamsInv

LEMMA CleanSnapKeeps_Found ==
  ASSUME StreamsInv, CleanSnap, ~(op.i > Len(Order)), held[Kind].lease # 0,
         ~leases[held[Kind].lease].active
  PROVE  StreamsInv'
<1>1. /\ StreamTypes /\ OpTypes /\ HandlerTypes /\ CallerTypes /\ OpOwned /\ PeersHeld
      /\ SnapHeld /\ StartHeld /\ CommandFits /\ ExactStopJoined /\ RoomLeft
  BY DEF StreamsInv
<1>2. /\ Len(leases) \in Nat /\ DOMAIN leases = 1 .. Len(leases)
      /\ 0 \in Nonces /\ Nonces \subseteq Nat
  BY <1>1, NonceFacts
<1>3. /\ op.pc = "snap" /\ op.i \in {1, 2}
      /\ op' = [op EXCEPT !.pc = "stop", !.snap = held[Kind].lease]
      /\ Kind \in Kinds /\ held[Kind].lease \in Nonces
      /\ Kind' = Kind
      /\ UNCHANGED <<conn, leases, held, pending, peer, handler, caller, ledger, scenario>>
      /\ Nonces' = Nonces
  BY SMTT(30), <1>1, TwoKinds DEF CleanSnap, OpAt, Nonces, OpTypes, StreamTypes, Kind
<1>4. StreamTypes' /\ HandlerTypes' /\ CallerTypes' /\ PeersHeld' /\ StartHeld' /\
        CommandFits' /\ ExactStopJoined' /\ RoomLeft'
  BY SMTT(30), <1>1, <1>3 DEF StreamTypes, HandlerTypes, CallerTypes, PeersHeld, Nonces,
    StartHeld, CommandFits, ExactStopJoined, StopJoined, RoomLeft
<1>5. OpTypes'
  BY <1>1, <1>2, <1>3 DEF OpTypes
<1>6. OpOwned'
  BY <1>1, <1>2, <1>3 DEF OpOwned, WhileHeld, AfterCleanup, HandlerTypes, CallerTypes,
    OpTypes
<1>7. SnapHeld'
  BY <1>1, <1>2, <1>3 DEF SnapHeld, Kind, OpOwned, OpTypes
<1> QED
  BY <1>4, <1>5, <1>6, <1>7 DEF StreamsInv

LEMMA CleanSnapKeeps_Next ==
  ASSUME StreamsInv, CleanSnap, ~(op.i > Len(Order)),
         ~(held[Kind].lease # 0 /\ ~leases[held[Kind].lease].active)
  PROVE  StreamsInv'
<1>1. /\ StreamTypes /\ OpTypes /\ HandlerTypes /\ CallerTypes /\ OpOwned /\ PeersHeld
      /\ SnapHeld /\ StartHeld /\ CommandFits /\ ExactStopJoined /\ RoomLeft
  BY DEF StreamsInv
<1>2. /\ Len(leases) \in Nat /\ DOMAIN leases = 1 .. Len(leases)
      /\ 0 \in Nonces /\ Nonces \subseteq Nat
  BY <1>1, NonceFacts
<1>3. /\ op.pc = "snap" /\ op.i \in {1, 2}
      /\ op' = [op EXCEPT !.i = op.i + 1]
      /\ UNCHANGED <<conn, leases, held, pending, peer, handler, caller, ledger, scenario>>
      /\ Nonces' = Nonces
  BY <1>1, TwoKinds DEF CleanSnap, OpAt, Nonces, OpTypes
<1>4. StreamTypes' /\ HandlerTypes' /\ CallerTypes' /\ PeersHeld' /\ StartHeld' /\
        CommandFits' /\ ExactStopJoined' /\ RoomLeft'
  BY SMTT(30), <1>1, <1>3 DEF StreamTypes, HandlerTypes, CallerTypes, PeersHeld, Nonces,
    StartHeld, CommandFits, ExactStopJoined, StopJoined, RoomLeft
<1>5. OpTypes'
  BY <1>1, <1>2, <1>3 DEF OpTypes
<1>6. OpOwned'
  BY <1>1, <1>2, <1>3 DEF OpOwned, WhileHeld, AfterCleanup, HandlerTypes, CallerTypes,
    OpTypes
<1>7. SnapHeld'
  BY <1>1, <1>2, <1>3 DEF SnapHeld, Kind, OpOwned, OpTypes
<1> QED
  BY <1>4, <1>5, <1>6, <1>7 DEF StreamsInv

LEMMA CleanJoinKeeps ==
  ASSUME StreamsInv, CleanJoin
  PROVE  StreamsInv'
<1>1. /\ StreamTypes /\ OpTypes /\ HandlerTypes /\ CallerTypes /\ OpOwned /\ PeersHeld
      /\ SnapHeld /\ StartHeld /\ CommandFits /\ ExactStopJoined /\ RoomLeft
  BY DEF StreamsInv
<1>2. /\ Len(leases) \in Nat /\ DOMAIN leases = 1 .. Len(leases)
      /\ 0 \in Nonces /\ Nonces \subseteq Nat
  BY <1>1, NonceFacts
<1>3. /\ op.pc = "stop" /\ Kind \in Kinds
      /\ op' = [op EXCEPT !.pc = "record"]
      /\ peer' = [peer EXCEPT ![Kind] = NoPeer]
      /\ Kind' = Kind
      /\ UNCHANGED <<conn, leases, held, pending, handler, caller, ledger, scenario>>
      /\ Nonces' = Nonces
  BY <1>1, TwoKinds DEF CleanJoin, OpAt, Nonces, OpTypes, OpOwned, Kind
<1>4. HandlerTypes' /\ CallerTypes' /\ StartHeld' /\ CommandFits' /\ ExactStopJoined'
        /\ RoomLeft'
  BY <1>1, <1>3 DEF HandlerTypes, CallerTypes, StartHeld, CommandFits,
    ExactStopJoined, StopJoined, RoomLeft
<1>5. StreamTypes'
  BY <1>1, <1>2, <1>3 DEF StreamTypes, NoPeer
<1>6. OpTypes'
  BY <1>1, <1>2, <1>3 DEF OpTypes
<1>7. OpOwned'
  BY <1>1, <1>2, <1>3 DEF OpOwned, WhileHeld, AfterCleanup, HandlerTypes, CallerTypes,
    OpTypes
<1>8. PeersHeld'
  BY <1>1, <1>2, <1>3 DEF PeersHeld, Nonces, StreamTypes, NoPeer
<1>9. SnapHeld'
  BY <1>1, <1>2, <1>3 DEF SnapHeld, Kind, OpOwned, OpTypes, NoPeer, StreamTypes
<1> QED
  BY <1>4, <1>5, <1>6, <1>7, <1>8, <1>9 DEF StreamsInv

LEMMA CleanRecordKeeps ==
  ASSUME StreamsInv, CleanRecord
  PROVE  StreamsInv'
<1>1. /\ StreamTypes /\ OpTypes /\ HandlerTypes /\ CallerTypes /\ OpOwned /\ PeersHeld
      /\ SnapHeld /\ StartHeld /\ CommandFits /\ ExactStopJoined /\ RoomLeft
  BY DEF StreamsInv
<1>2. /\ Len(leases) \in Nat /\ DOMAIN leases = 1 .. Len(leases)
      /\ 0 \in Nonces /\ Nonces \subseteq Nat
  BY <1>1, NonceFacts
<1>3. /\ op.pc = "record" /\ op.i \in {1, 2} /\ Kind \in Kinds
      /\ op' = [op EXCEPT !.pc = "snap", !.i = op.i + 1]
      /\ \E c \in Nonces :
            held' = [held EXCEPT ![Kind] = [lease |-> 0, closed |-> c, latest |-> held[Kind].latest]]
      /\ UNCHANGED <<conn, leases, pending, peer, handler, caller, ledger, scenario>>
      /\ Nonces' = Nonces
  <2>1. op.pc = "record" /\ op.i \in {1, 2} /\ Kind \in Kinds /\ held[Kind].lease = op.snap
    BY <1>1, TwoKinds DEF CleanRecord, OpAt, OpOwned, SnapHeld, Kind
  <2>2. held[Kind] \in [lease : Nonces, closed : Nonces, latest : Nonces]
    BY <1>1, <2>1 DEF StreamTypes
  <2>3. op' = [op EXCEPT !.pc = "snap", !.i = op.i + 1]
        /\ UNCHANGED <<conn, leases, pending, peer, handler, caller, ledger, scenario>>
    BY DEF CleanRecord
  <2>4. \E closes \in BOOLEAN :
          held' = [held EXCEPT ![Kind].lease = 0,
                               ![Kind].closed = IF closes THEN op.snap ELSE @]
    BY <2>1 DEF CleanRecord
  <2>5. PICK closes \in BOOLEAN :
          held' = [held EXCEPT ![Kind].lease = 0,
                               ![Kind].closed = IF closes THEN op.snap ELSE @]
    BY <2>4
  <2> DEFINE c == IF closes THEN op.snap ELSE held[Kind].closed
  <2>6. c \in Nonces
    BY <1>1, <2>2 DEF OpTypes
  <2>7. [held[Kind] EXCEPT !.lease = 0, !.closed = c]
          = [lease |-> 0, closed |-> c, latest |-> held[Kind].latest]
    BY <2>2, GivenUp
  <2>8. held' = [held EXCEPT ![Kind] = [held[Kind] EXCEPT !.lease = 0, !.closed = c]]
    <3>1. held \in [Kinds -> [lease : Nonces, closed : Nonces, latest : Nonces]]
      BY <1>1 DEF StreamTypes
    <3> QED
      BY <2>1, <2>5, <3>1
  <2>9. held' = [held EXCEPT ![Kind] = [lease |-> 0, closed |-> c, latest |-> held[Kind].latest]]
    BY <2>7, <2>8
  <2> QED
    BY <2>1, <2>3, <2>6, <2>9 DEF Nonces
<1>4. HandlerTypes' /\ CallerTypes' /\ CommandFits' /\ RoomLeft'
  BY <1>1, <1>3 DEF HandlerTypes, CallerTypes, CommandFits, RoomLeft
<1>5. StreamTypes'
  BY <1>1, <1>2, <1>3 DEF StreamTypes
<1>6. OpTypes'
  <2>1. op.owner \in {"free", "worker", "caller"} /\ op.snap \in Nonces
    BY <1>1 DEF OpTypes
  <2>2. op.i + 1 \in 1 .. 3
    BY <1>3
  <2>3. op' = [owner |-> op.owner, pc |-> "snap", i |-> op.i + 1, snap |-> op.snap]
    BY <1>1, <1>3 DEF OpTypes
  <2> QED
    BY <1>3, <2>1, <2>2, <2>3 DEF OpTypes
<1>7. OpOwned'
  BY <1>1, <1>2, <1>3 DEF OpOwned, WhileHeld, AfterCleanup, HandlerTypes, CallerTypes,
    OpTypes
<1>8. PeersHeld'
  BY <1>1, <1>2, <1>3 DEF PeersHeld, Nonces, StreamTypes, SnapHeld
<1>9. SnapHeld'
  BY <1>1, <1>2, <1>3 DEF SnapHeld, Kind, OpOwned, OpTypes
<1>10. StartHeld'
  BY <1>1, <1>2, <1>3 DEF StartHeld, WhileHeld, HandlerTypes, OpOwned, AfterCleanup,
    OpTypes
<1>11. ExactStopJoined'
  BY SMTT(30), <1>1, <1>2, <1>3 DEF ExactStopJoined, StopJoined, HandlerTypes, CommandFits,
    StreamTypes
<1> QED
  BY <1>4, <1>5, <1>6, <1>7, <1>8, <1>9, <1>10, <1>11 DEF StreamsInv

LEMMA CleanRecomputeKeeps ==
  ASSUME StreamsInv, CleanRecompute
  PROVE  StreamsInv'
<1>1. /\ StreamTypes /\ OpTypes /\ HandlerTypes /\ CallerTypes /\ OpOwned /\ PeersHeld
      /\ SnapHeld /\ StartHeld /\ CommandFits /\ ExactStopJoined /\ RoomLeft
  BY DEF StreamsInv
<1>2. /\ Len(leases) \in Nat /\ DOMAIN leases = 1 .. Len(leases)
      /\ 0 \in Nonces /\ Nonces \subseteq Nat
  BY <1>1, NonceFacts
<1>3. /\ op.pc = "recompute" /\ pending' \in BOOLEAN
      /\ op' = [op EXCEPT !.pc = "done"]
      /\ UNCHANGED <<conn, leases, held, peer, handler, caller, ledger, scenario>>
      /\ Nonces' = Nonces
  BY DEF CleanRecompute, OpAt, Nonces
<1>4. HandlerTypes' /\ CallerTypes' /\ PeersHeld' /\ StartHeld' /\ CommandFits' /\
        ExactStopJoined' /\ RoomLeft'
  BY <1>1, <1>3 DEF HandlerTypes, CallerTypes, PeersHeld, Nonces, StartHeld,
    CommandFits, ExactStopJoined, StopJoined, RoomLeft
<1>5. StreamTypes'
  BY <1>1, <1>2, <1>3 DEF StreamTypes
<1>6. OpTypes'
  BY <1>1, <1>2, <1>3 DEF OpTypes
<1>7. OpOwned'
  BY <1>1, <1>2, <1>3 DEF OpOwned, WhileHeld, AfterCleanup, HandlerTypes, CallerTypes,
    OpTypes
<1>8. SnapHeld'
  BY <1>1, <1>2, <1>3 DEF SnapHeld, Kind, OpOwned, OpTypes
<1> QED
  BY <1>4, <1>5, <1>6, <1>7, <1>8 DEF StreamsInv

LEMMA PeerEndsKeeps ==
  ASSUME StreamsInv, NEW k \in Kinds, PeerEnds(k)
  PROVE  StreamsInv'
<1>1. /\ StreamTypes /\ OpTypes /\ HandlerTypes /\ CallerTypes /\ OpOwned /\ PeersHeld
      /\ SnapHeld /\ StartHeld /\ CommandFits /\ ExactStopJoined /\ RoomLeft
  BY DEF StreamsInv
<1>2. /\ Len(leases) \in Nat /\ DOMAIN leases = 1 .. Len(leases)
      /\ 0 \in Nonces /\ Nonces \subseteq Nat
  BY <1>1, NonceFacts
<1>3. /\ peer[k].pc = "running" /\ peer' = [peer EXCEPT ![k].pc = "revoking"]
      /\ leases' \in Seq(Lease) /\ Len(leases') = Len(leases)
      /\ DOMAIN leases' = DOMAIN leases
      /\ \A n \in DOMAIN leases : leases'[n].no = leases[n].no
      /\ \A n \in DOMAIN leases : leases[n].accepted => leases'[n].accepted
      /\ UNCHANGED <<conn, held, pending, op, handler, caller, ledger, scenario>>
      /\ Nonces' = Nonces
  BY <1>1, <1>2, RevokedLeases DEF PeerEnds, StreamTypes, Nonces
<1>4. OpTypes' /\ HandlerTypes' /\ CallerTypes' /\ OpOwned' /\ StartHeld'
  BY <1>1, <1>3 DEF OpTypes, HandlerTypes, CallerTypes, OpOwned, StartHeld
<1>5. StreamTypes'
  BY ZenonT(30), <1>1, <1>2, <1>3 DEF StreamTypes
<1>6. PeersHeld'
  BY <1>1, <1>2, <1>3 DEF PeersHeld, Nonces, StreamTypes
<1>7. SnapHeld'
  BY <1>1, <1>2, <1>3 DEF SnapHeld, Kind, OpOwned, OpTypes, StreamTypes, PeersHeld
<1>8. CommandFits'
  BY <1>1, <1>2, <1>3 DEF CommandFits, WhileHeld, HandlerTypes
<1>9. ExactStopJoined'
  BY <1>1, <1>2, <1>3 DEF ExactStopJoined, StopJoined, HandlerTypes, CommandFits
<1>10. RoomLeft'
  BY <1>1, <1>2, <1>3 DEF RoomLeft, WhileHeld, HandlerTypes, CommandFits
<1> QED
  BY <1>4, <1>5, <1>6, <1>7, <1>8, <1>9, <1>10 DEF StreamsInv

LEMMA RevokeStreamLeaseKeeps ==
  ASSUME StreamsInv, NEW k \in Kinds, RevokeStreamLease(k)
  PROVE  StreamsInv'
<1>1. /\ StreamTypes /\ OpTypes /\ HandlerTypes /\ CallerTypes /\ OpOwned /\ PeersHeld
      /\ SnapHeld /\ StartHeld /\ CommandFits /\ ExactStopJoined /\ RoomLeft
  BY DEF StreamsInv
<1>2. /\ Len(leases) \in Nat /\ DOMAIN leases = 1 .. Len(leases)
      /\ 0 \in Nonces /\ Nonces \subseteq Nat
  BY <1>1, NonceFacts
<1>3. /\ peer[k].pc = "revoking" /\ peer' = [peer EXCEPT ![k].pc = "ended"]
      /\ pending' \in BOOLEAN
      /\ UNCHANGED <<conn, leases, held, op, handler, caller, ledger, scenario>>
      /\ Nonces' = Nonces
  BY <1>1 DEF RevokeStreamLease, StreamTypes, Nonces
<1>4. OpTypes' /\ HandlerTypes' /\ CallerTypes' /\ OpOwned' /\ StartHeld' /\
        CommandFits' /\ ExactStopJoined' /\ RoomLeft'
  BY <1>1, <1>3 DEF OpTypes, HandlerTypes, CallerTypes, OpOwned, StartHeld,
    CommandFits, ExactStopJoined, StopJoined, RoomLeft
<1>5. StreamTypes'
  <2>1. peer' \in [Kinds -> [n : Nonces, pc : {"none", "running", "revoking", "ended"}]]
    BY ZenonT(30), <1>1, <1>3 DEF StreamTypes
  <2> QED
    BY <1>1, <1>3, <2>1 DEF StreamTypes
<1>6. PeersHeld'
  BY <1>1, <1>2, <1>3 DEF PeersHeld, Nonces, StreamTypes
<1>7. SnapHeld'
  BY <1>1, <1>2, <1>3 DEF SnapHeld, Kind, OpOwned, OpTypes, StreamTypes, PeersHeld
<1> QED
  BY <1>4, <1>5, <1>6, <1>7 DEF StreamsInv

LEMMA CommandBeginKeeps_Stale ==
  ASSUME StreamsInv, CommandBegin, ~IsCommandContextCurrent
  PROVE  StreamsInv'
<1>1. /\ StreamTypes /\ OpTypes /\ HandlerTypes /\ CallerTypes /\ OpOwned /\ PeersHeld
      /\ SnapHeld /\ StartHeld /\ CommandFits /\ ExactStopJoined /\ RoomLeft
  BY DEF StreamsInv
<1>2. /\ Len(leases) \in Nat /\ DOMAIN leases = 1 .. Len(leases)
      /\ 0 \in Nonces /\ Nonces \subseteq Nat
  BY <1>1, NonceFacts
<1>3. /\ handler.pc = "begin"
      /\ handler' = Idle /\ op' = Free
      /\ UNCHANGED <<conn, leases, held, pending, peer, caller, ledger, scenario>>
      /\ Nonces' = Nonces
  BY DEF CommandBegin, WorkerAt, Nonces
<1>4. StreamTypes' /\ CallerTypes' /\ PeersHeld'
  BY <1>1, <1>3 DEF StreamTypes, CallerTypes, PeersHeld, Nonces
<1>5. OpTypes'
  BY <1>1, <1>2, <1>3 DEF OpTypes, Free
<1>6. HandlerTypes'
  BY <1>1, <1>2, <1>3 DEF HandlerTypes, WhileHeld, Idle
<1>7. OpOwned'
  BY <1>1, <1>2, <1>3 DEF OpOwned, WhileHeld, AfterCleanup, HandlerTypes, CallerTypes,
    OpTypes, Idle, Free
<1>8. SnapHeld'
  BY <1>1, <1>2, <1>3 DEF SnapHeld, Kind, OpOwned, OpTypes, Free
<1>9. StartHeld'
  BY <1>1, <1>2, <1>3 DEF StartHeld, WhileHeld, HandlerTypes, OpOwned, Idle
<1>10. CommandFits'
  BY <1>1, <1>2, <1>3 DEF CommandFits, WhileHeld, HandlerTypes, Idle
<1>11. ExactStopJoined'
  BY <1>1, <1>2, <1>3 DEF ExactStopJoined, StopJoined, HandlerTypes, CommandFits, Idle
<1>12. RoomLeft'
  BY <1>1, <1>2, <1>3 DEF RoomLeft, WhileHeld, HandlerTypes, CommandFits, Idle
<1> QED
  BY <1>4, <1>5, <1>6, <1>7, <1>8, <1>9, <1>10, <1>11, <1>12 DEF StreamsInv

LEMMA CommandBeginKeeps_Known ==
  ASSUME StreamsInv, CommandBegin, IsCommandContextCurrent, ledger[handler.req.no].known
  PROVE  StreamsInv'
<1>1. /\ StreamTypes /\ OpTypes /\ HandlerTypes /\ CallerTypes /\ OpOwned /\ PeersHeld
      /\ SnapHeld /\ StartHeld /\ CommandFits /\ ExactStopJoined /\ RoomLeft
  BY DEF StreamsInv
<1>2. /\ Len(leases) \in Nat /\ DOMAIN leases = 1 .. Len(leases)
      /\ 0 \in Nonces /\ Nonces \subseteq Nat
  BY <1>1, NonceFacts
<1>3. /\ handler.pc = "begin" /\ op.pc = "done"
      /\ handler.req \in scenario.requests
      /\ handler' = [handler EXCEPT !.pc = "answer", !.ok = handler'.ok, !.lease = handler'.lease]
      /\ handler'.ok \in BOOLEAN /\ handler'.lease \in Nat
      /\ /\ handler'.ok /\ handler.req.op = "stop" /\ handler.req.start # 0
          => StopJoined(handler.req.kind, handler'.lease, handler.req.start)
      /\ UNCHANGED <<conn, leases, held, pending, peer, op, caller, ledger, scenario>>
      /\ Nonces' = Nonces
  <2> DEFINE r == handler.req
  <2>1. handler.pc = "begin" /\ op.pc = "done"
        /\ handler' = [handler EXCEPT !.pc = "answer", !.ok = Replayed(r), !.lease = ledger[r.no].nonce]
        /\ UNCHANGED <<conn, leases, held, pending, peer, op, caller, ledger, scenario>>
    BY DEF CommandBegin, WorkerAt, Cleaned, OpAt
  <2>2. r \in scenario.requests
    BY <1>1, <2>1 DEF CommandFits
  <2>3. r \in Requests /\ r.kind \in Kinds /\ r.no \in Nat
    BY <1>1, <2>2 DEF StreamTypes, Requests
  <2>4. ledger[r.no] \in [known : BOOLEAN, ok : BOOLEAN, epoch : Nat, nonce : Nat]
    BY <1>1, <2>2 DEF StreamTypes
  <2>6. Replayed(r) \in BOOLEAN
    BY <2>4 DEF Replayed
  <2>7. handler'.ok = Replayed(r) /\ handler'.lease = ledger[r.no].nonce
    BY <1>1, <2>1 DEF HandlerTypes
  <2>8. ASSUME Replayed(r), r.op = "stop", r.start # 0
        PROVE  StopJoined(r.kind, ledger[r.no].nonce, r.start)
    <3>1. ledger[r.no].nonce # 0 /\ ledger[r.no].nonce = FindClosedStream(r.kind, r.session, r.start)
      BY <2>8 DEF Replayed
    <3> QED
      BY <1>1, <2>3, <3>1, ClosedIsJoined
  <2> QED
    BY <2>1, <2>2, <2>4, <2>6, <2>7, <2>8 DEF Nonces
<1>4. StreamTypes' /\ OpTypes' /\ CallerTypes' /\ PeersHeld' /\ SnapHeld'
  BY <1>1, <1>3 DEF StreamTypes, OpTypes, CallerTypes, PeersHeld, Nonces, SnapHeld,
    Kind
<1>5. HandlerTypes'
  BY <1>1, <1>2, <1>3 DEF HandlerTypes, WhileHeld
<1>6. OpOwned'
  BY <1>1, <1>2, <1>3 DEF OpOwned, WhileHeld, AfterCleanup, HandlerTypes, CallerTypes,
    OpTypes
<1>7. StartHeld'
  BY <1>1, <1>2, <1>3 DEF StartHeld, WhileHeld, HandlerTypes, OpOwned
<1>8. CommandFits'
  BY <1>1, <1>2, <1>3 DEF CommandFits, WhileHeld, HandlerTypes
<1>9. ExactStopJoined'
  BY <1>1, <1>2, <1>3 DEF ExactStopJoined, StopJoined, HandlerTypes, CommandFits,
    StreamTypes
<1>10. RoomLeft'
  BY <1>1, <1>2, <1>3 DEF RoomLeft, WhileHeld, HandlerTypes, CommandFits
<1> QED
  BY <1>4, <1>5, <1>6, <1>7, <1>8, <1>9, <1>10 DEF StreamsInv

LEMMA CommandBeginKeeps_New ==
  ASSUME StreamsInv, CommandBegin, IsCommandContextCurrent, ~ledger[handler.req.no].known
  PROVE  StreamsInv'
<1>1. /\ StreamTypes /\ OpTypes /\ HandlerTypes /\ CallerTypes /\ OpOwned /\ PeersHeld
      /\ SnapHeld /\ StartHeld /\ CommandFits /\ ExactStopJoined /\ RoomLeft
  BY DEF StreamsInv
<1>2. /\ Len(leases) \in Nat /\ DOMAIN leases = 1 .. Len(leases)
      /\ 0 \in Nonces /\ Nonces \subseteq Nat
  BY <1>1, NonceFacts
<1>3. /\ handler.pc = "begin" /\ op.pc = "done"
      /\ handler.req \in scenario.requests
      /\ handler.req.op \in {"start", "stop", "signal"}
      /\ handler' = [handler EXCEPT !.pc = handler.req.op]
      /\ UNCHANGED <<conn, leases, held, pending, peer, op, caller, ledger, scenario>>
      /\ Nonces' = Nonces
  BY <1>1 DEF CommandBegin, WorkerAt, WorkerTo, Cleaned, OpAt, Nonces, CommandFits,
    StreamTypes, Requests
<1>4. StreamTypes' /\ OpTypes' /\ CallerTypes' /\ PeersHeld' /\ SnapHeld'
  BY <1>1, <1>3 DEF StreamTypes, OpTypes, CallerTypes, PeersHeld, Nonces, SnapHeld,
    Kind
<1>5. HandlerTypes'
  BY <1>1, <1>2, <1>3 DEF HandlerTypes, WhileHeld
<1>6. OpOwned'
  BY <1>1, <1>2, <1>3 DEF OpOwned, WhileHeld, AfterCleanup, HandlerTypes, CallerTypes,
    OpTypes
<1>7. StartHeld'
  BY <1>1, <1>2, <1>3 DEF StartHeld, WhileHeld, HandlerTypes, OpOwned
<1>8. CommandFits'
  BY <1>1, <1>2, <1>3 DEF CommandFits, WhileHeld, HandlerTypes
<1>9. ExactStopJoined'
  BY <1>1, <1>2, <1>3 DEF ExactStopJoined, StopJoined, HandlerTypes, CommandFits
<1>10. RoomLeft'
  BY <1>1, <1>2, <1>3 DEF RoomLeft, WhileHeld, HandlerTypes, CommandFits
<1> QED
  BY <1>4, <1>5, <1>6, <1>7, <1>8, <1>9, <1>10 DEF StreamsInv

LEMMA StreamStartKeeps_Refused ==
  ASSUME StreamsInv, StreamStart, ~IsCommandContextCurrent \/ HeldLeases # {}
  PROVE  StreamsInv'
<1>1. /\ StreamTypes /\ OpTypes /\ HandlerTypes /\ CallerTypes /\ OpOwned /\ PeersHeld
      /\ SnapHeld /\ StartHeld /\ CommandFits /\ ExactStopJoined /\ RoomLeft
  BY DEF StreamsInv
<1>2. /\ Len(leases) \in Nat /\ DOMAIN leases = 1 .. Len(leases)
      /\ 0 \in Nonces /\ Nonces \subseteq Nat
  BY <1>1, NonceFacts
<1>3. /\ handler.pc = "start"
      /\ handler' = [handler EXCEPT !.pc = "end", !.ok = FALSE]
      /\ UNCHANGED <<conn, leases, held, pending, peer, op, caller, ledger, scenario>>
      /\ Nonces' = Nonces
  BY DEF StreamStart, WorkerAt, Failed, Nonces
<1>4. StreamTypes' /\ OpTypes' /\ CallerTypes' /\ PeersHeld' /\ SnapHeld'
  BY <1>1, <1>3 DEF StreamTypes, OpTypes, CallerTypes, PeersHeld, Nonces, SnapHeld,
    Kind
<1>5. HandlerTypes'
  BY <1>1, <1>2, <1>3 DEF HandlerTypes, WhileHeld
<1>6. OpOwned'
  BY <1>1, <1>2, <1>3 DEF OpOwned, WhileHeld, AfterCleanup, HandlerTypes, CallerTypes,
    OpTypes
<1>7. StartHeld'
  BY <1>1, <1>2, <1>3 DEF StartHeld, WhileHeld, HandlerTypes, OpOwned
<1>8. CommandFits'
  BY <1>1, <1>2, <1>3 DEF CommandFits, WhileHeld, HandlerTypes
<1>9. ExactStopJoined'
  BY <1>1, <1>2, <1>3 DEF ExactStopJoined, StopJoined, HandlerTypes, CommandFits
<1>10. RoomLeft'
  BY <1>1, <1>2, <1>3 DEF RoomLeft, WhileHeld, HandlerTypes, CommandFits
<1> QED
  BY <1>4, <1>5, <1>6, <1>7, <1>8, <1>9, <1>10 DEF StreamsInv

LEMMA StreamStartKeeps_Taken ==
  ASSUME StreamsInv, StreamStart, ~(~IsCommandContextCurrent \/ HeldLeases # {})
  PROVE  StreamsInv'
<1>1. /\ StreamTypes /\ OpTypes /\ HandlerTypes /\ CallerTypes /\ OpOwned /\ PeersHeld
      /\ SnapHeld /\ StartHeld /\ CommandFits /\ ExactStopJoined /\ RoomLeft
  BY DEF StreamsInv
<1>2. /\ Len(leases) \in Nat /\ DOMAIN leases = 1 .. Len(leases)
      /\ 0 \in Nonces /\ Nonces \subseteq Nat
  BY <1>1, NonceFacts
<1>3. /\ handler.pc = "start" /\ op.pc = "done"
      /\ handler.req \in Requests /\ handler.req.kind \in Kinds /\ handler.req.op = "start"
      /\ \A k \in Kinds : held[k].lease = 0 /\ peer[k].n = 0
      /\ leases' \in Seq(Lease) /\ Len(leases') = Len(leases) + 1 /\ Len(leases) + 1 \in Nat
      /\ handler' = [handler EXCEPT !.pc = "native", !.lease = Len(leases) + 1]
      /\ held' = [held EXCEPT ![handler.req.kind] =
                     [lease |-> Len(leases) + 1, closed |-> 0, latest |-> Len(leases) + 1]]
      /\ Len(leases) < MaxStreams
      /\ Nonces \subseteq Nonces' /\ Len(leases) + 1 \in Nonces' /\ 0 \in Nonces'
      /\ UNCHANGED <<conn, pending, peer, op, caller, ledger, scenario>>
  <2>1. handler.pc = "start" /\ op.pc = "done" /\ handler.req.op = "start" /\ Len(leases) < MaxStreams
    BY <1>1 DEF StreamStart, WorkerAt, OpOwned, AfterCleanup, CommandFits, RoomLeft
  <2>2. handler.req \in Requests
    BY <1>1, <2>1 DEF CommandFits, StreamTypes
  <2>3. handler.req.kind \in Kinds /\ handler.req.session \in Nat /\ handler.req.no \in Nat
    BY <2>2 DEF Requests
  <2>4. \A k \in Kinds : held[k].lease = 0
    BY DEF HeldLeases
  <2>5. \A k \in Kinds : peer[k].n = 0
    BY <1>1, <2>4 DEF PeersHeld
  <2>6. /\ leases' = Append(leases, [kind |-> handler.req.kind, session |-> handler.req.session,
                                     no |-> handler.req.no, epoch |-> handler.epoch,
                                     active |-> TRUE, accepted |-> FALSE])
        /\ handler' = [handler EXCEPT !.pc = "native", !.lease = Len(leases) + 1]
        /\ held' = [held EXCEPT ![handler.req.kind] =
                       [lease |-> Len(leases) + 1, closed |-> 0, latest |-> Len(leases) + 1]]
        /\ UNCHANGED <<conn, pending, peer, op, caller, ledger, scenario>>
    BY DEF StreamStart
  <2>7. [kind |-> handler.req.kind, session |-> handler.req.session, no |-> handler.req.no,
         epoch |-> handler.epoch, active |-> TRUE, accepted |-> FALSE] \in Lease
    BY <1>1, <2>3 DEF Lease, HandlerTypes
  <2>8. leases' \in Seq(Lease) /\ Len(leases') = Len(leases) + 1
    BY <1>1, <2>6, <2>7, AppendProperties DEF StreamTypes
  <2>9. Nonces \subseteq Nonces' /\ Len(leases) + 1 \in Nonces' /\ 0 \in Nonces'
    BY <1>2, <2>8 DEF Nonces
  <2> QED
    BY <1>2, <2>1, <2>2, <2>3, <2>4, <2>5, <2>6, <2>8, <2>9
<1>4. CallerTypes'
  BY <1>1, <1>3 DEF CallerTypes
<1>5. StreamTypes'
  <2>1. held' \in [Kinds -> [lease : Nonces', closed : Nonces', latest : Nonces']]
    BY <1>1, <1>3 DEF StreamTypes
  <2>2. peer' \in [Kinds -> [n : Nonces', pc : {"none", "running", "revoking", "ended"}]]
    BY <1>1, <1>3 DEF StreamTypes
  <2> QED
    BY <1>1, <1>3, <2>1, <2>2 DEF StreamTypes
<1>6. OpTypes'
  BY <1>1, <1>2, <1>3 DEF OpTypes
<1>7. HandlerTypes'
  BY <1>1, <1>2, <1>3 DEF HandlerTypes, WhileHeld
<1>8. OpOwned'
  BY <1>1, <1>2, <1>3 DEF OpOwned, WhileHeld, AfterCleanup, HandlerTypes, CallerTypes,
    OpTypes
<1>9. PeersHeld'
  BY <1>1, <1>2, <1>3 DEF PeersHeld, Nonces, StreamTypes, StreamTypes
<1>10. SnapHeld'
  BY <1>1, <1>2, <1>3 DEF SnapHeld, Kind, OpOwned, OpTypes, StreamTypes
<1>11. StartHeld'
  BY <1>1, <1>2, <1>3 DEF StartHeld, WhileHeld, HandlerTypes, OpOwned, StreamTypes
<1>12. CommandFits'
  BY <1>1, <1>2, <1>3 DEF CommandFits, WhileHeld, HandlerTypes
<1>13. ExactStopJoined'
  BY <1>1, <1>2, <1>3 DEF ExactStopJoined, StopJoined, HandlerTypes, CommandFits
<1>14. RoomLeft'
  BY <1>1, <1>2, <1>3, StreamsAssumption DEF RoomLeft, WhileHeld, HandlerTypes,
    CommandFits
<1> QED
  BY <1>4, <1>5, <1>6, <1>7, <1>8, <1>9, <1>10, <1>11, <1>12, <1>13, <1>14 DEF
    StreamsInv

LEMMA NativeStartKeeps_Failed ==
  ASSUME StreamsInv, NativeStart(FALSE)
  PROVE  StreamsInv'
<1>1. /\ StreamTypes /\ OpTypes /\ HandlerTypes /\ CallerTypes /\ OpOwned /\ PeersHeld
      /\ SnapHeld /\ StartHeld /\ CommandFits /\ ExactStopJoined /\ RoomLeft
  BY DEF StreamsInv
<1>2. /\ Len(leases) \in Nat /\ DOMAIN leases = 1 .. Len(leases)
      /\ 0 \in Nonces /\ Nonces \subseteq Nat
  BY <1>1, NonceFacts
<1>3. /\ handler.pc = "native"
      /\ handler' = [handler EXCEPT !.pc = "commit", !.ok = FALSE]
      /\ UNCHANGED <<conn, leases, held, pending, peer, op, caller, ledger, scenario>>
      /\ Nonces' = Nonces
  BY DEF NativeStart, WorkerAt, Nonces
<1>4. StreamTypes' /\ OpTypes' /\ CallerTypes' /\ PeersHeld' /\ SnapHeld'
  BY <1>1, <1>3 DEF StreamTypes, OpTypes, CallerTypes, PeersHeld, Nonces, SnapHeld,
    Kind
<1>5. HandlerTypes'
  BY <1>1, <1>2, <1>3 DEF HandlerTypes, WhileHeld
<1>6. OpOwned'
  BY <1>1, <1>2, <1>3 DEF OpOwned, WhileHeld, AfterCleanup, HandlerTypes, CallerTypes,
    OpTypes
<1>7. StartHeld'
  BY <1>1, <1>2, <1>3 DEF StartHeld, WhileHeld, HandlerTypes, OpOwned
<1>8. CommandFits'
  BY <1>1, <1>2, <1>3 DEF CommandFits, WhileHeld, HandlerTypes
<1>9. ExactStopJoined'
  BY <1>1, <1>2, <1>3 DEF ExactStopJoined, StopJoined, HandlerTypes, CommandFits
<1>10. RoomLeft'
  BY <1>1, <1>2, <1>3 DEF RoomLeft, WhileHeld, HandlerTypes, CommandFits
<1> QED
  BY <1>4, <1>5, <1>6, <1>7, <1>8, <1>9, <1>10 DEF StreamsInv

LEMMA NativeStartKeeps_Started ==
  ASSUME StreamsInv, NativeStart(TRUE)
  PROVE  StreamsInv'
<1>1. /\ StreamTypes /\ OpTypes /\ HandlerTypes /\ CallerTypes /\ OpOwned /\ PeersHeld
      /\ SnapHeld /\ StartHeld /\ CommandFits /\ ExactStopJoined /\ RoomLeft
  BY DEF StreamsInv
<1>2. /\ Len(leases) \in Nat /\ DOMAIN leases = 1 .. Len(leases)
      /\ 0 \in Nonces /\ Nonces \subseteq Nat
  BY <1>1, NonceFacts
<1>3. /\ handler.pc = "native" /\ op.pc = "done"
      /\ handler.req.kind \in Kinds /\ handler.lease \in Nonces /\ handler.lease # 0
      /\ held[handler.req.kind].lease = handler.lease
      /\ handler' = [handler EXCEPT !.pc = "commit", !.ok = TRUE]
      /\ peer' = [peer EXCEPT ![handler.req.kind] = [n |-> handler.lease, pc |-> "running"]]
      /\ UNCHANGED <<conn, leases, held, pending, op, caller, ledger, scenario>>
      /\ Nonces' = Nonces
  <2>1. handler.pc = "native" /\ op.pc = "done"
    BY <1>1 DEF NativeStart, WorkerAt, OpOwned, AfterCleanup
  <2>2. handler.req \in Requests
    BY <1>1, <2>1 DEF CommandFits, StreamTypes
  <2>3. handler.req.kind \in Kinds
    BY <2>2 DEF Requests
  <2>4. handler.lease # 0 /\ held[handler.req.kind].lease = handler.lease
    BY <1>1, <2>1 DEF StartHeld
  <2>5. handler.lease \in Nonces
    BY <1>1, <2>3, <2>4 DEF StreamTypes
  <2> QED
    BY <2>1, <2>3, <2>4, <2>5 DEF NativeStart, Nonces
<1>4. OpTypes' /\ CallerTypes'
  BY <1>1, <1>3 DEF OpTypes, CallerTypes
<1>5. StreamTypes'
  BY <1>1, <1>2, <1>3 DEF StreamTypes
<1>6. HandlerTypes'
  BY <1>1, <1>2, <1>3 DEF HandlerTypes, WhileHeld
<1>7. OpOwned'
  BY <1>1, <1>2, <1>3 DEF OpOwned, WhileHeld, AfterCleanup, HandlerTypes, CallerTypes,
    OpTypes
<1>8. PeersHeld'
  BY <1>1, <1>2, <1>3 DEF PeersHeld, Nonces, StreamTypes, StreamTypes
<1>9. SnapHeld'
  BY <1>1, <1>2, <1>3 DEF SnapHeld, Kind, OpOwned, OpTypes
<1>10. StartHeld'
  BY <1>1, <1>2, <1>3 DEF StartHeld, WhileHeld, HandlerTypes, OpOwned
<1>11. CommandFits'
  BY <1>1, <1>2, <1>3 DEF CommandFits, WhileHeld, HandlerTypes
<1>12. ExactStopJoined'
  BY <1>1, <1>2, <1>3 DEF ExactStopJoined, StopJoined, HandlerTypes, CommandFits
<1>13. RoomLeft'
  BY <1>1, <1>2, <1>3 DEF RoomLeft, WhileHeld, HandlerTypes, CommandFits
<1> QED
  BY <1>4, <1>5, <1>6, <1>7, <1>8, <1>9, <1>10, <1>11, <1>12, <1>13 DEF StreamsInv

LEMMA StartCommitKeeps ==
  ASSUME StreamsInv, StartCommit
  PROVE  StreamsInv'
<1>1. /\ StreamTypes /\ OpTypes /\ HandlerTypes /\ CallerTypes /\ OpOwned /\ PeersHeld
      /\ SnapHeld /\ StartHeld /\ CommandFits /\ ExactStopJoined /\ RoomLeft
  BY DEF StreamsInv
<1>2. /\ Len(leases) \in Nat /\ DOMAIN leases = 1 .. Len(leases)
      /\ 0 \in Nonces /\ Nonces \subseteq Nat
  BY <1>1, NonceFacts
<1>3. /\ handler.pc = "commit" /\ handler.req.op = "start" /\ pending' \in BOOLEAN
      /\ leases' \in Seq(Lease) /\ Len(leases') = Len(leases)
      /\ DOMAIN leases' = DOMAIN leases
      /\ \A n \in DOMAIN leases : leases'[n].no = leases[n].no
      /\ \A n \in DOMAIN leases : leases[n].accepted => leases'[n].accepted
      /\ handler'.ok \in BOOLEAN
      /\ handler' = [handler EXCEPT !.pc = "end", !.ok = handler'.ok]
      /\ UNCHANGED <<conn, held, peer, op, caller, ledger, scenario>>
      /\ Nonces' = Nonces
  <2> DEFINE n == handler.lease
             good == handler.ok /\ IsStreamPublicationCurrent(n)
  <2>1. /\ handler.pc = "commit"
        /\ leases' = IF good THEN [leases EXCEPT ![n].accepted = TRUE] ELSE Revoked({n})
        /\ pending' = (pending \/ ~good)
        /\ handler' = [handler EXCEPT !.pc = "end", !.ok = good]
        /\ UNCHANGED <<conn, held, peer, op, caller, ledger, scenario>>
    BY DEF StartCommit, WorkerAt
  <2>2. handler.req.op = "start" /\ handler.req \in scenario.requests
    BY <1>1, <2>1 DEF CommandFits
  <2>3. handler.req.kind \in Kinds
    BY <1>1, <2>2 DEF StreamTypes, Requests
  <2>4. n \in Nonces /\ n # 0
    BY <1>1, <2>1, <2>3 DEF StreamTypes, StartHeld
  <2>5. n \in DOMAIN leases
    BY <1>2, <2>4 DEF Nonces
  <2>6. leases \in Seq(Lease) /\ \A m \in DOMAIN leases : leases[m] \in Lease
    BY <1>1 DEF StreamTypes
  <2>7. /\ leases' \in Seq(Lease) /\ Len(leases') = Len(leases)
        /\ DOMAIN leases' = DOMAIN leases
        /\ \A m \in DOMAIN leases : leases'[m].no = leases[m].no
        /\ \A m \in DOMAIN leases : leases[m].accepted => leases'[m].accepted
    <3>1. CASE good
      <4>1. leases' = [leases EXCEPT ![n].accepted = TRUE]
        BY <2>1, <3>1
      <4>2. [leases[n] EXCEPT !.accepted = TRUE] \in Lease
        BY <2>5, <2>6 DEF Lease
      <4>3. leases' = [leases EXCEPT ![n] = [leases[n] EXCEPT !.accepted = TRUE]]
        BY <4>1
      <4>4. leases' \in Seq(Lease) /\ Len(leases') = Len(leases)
        BY <2>5, <2>6, <4>2, <4>3, ExceptSeq
      <4>5. DOMAIN leases' = DOMAIN leases
        BY <4>3
      <4>6. ASSUME NEW m \in DOMAIN leases
            PROVE  leases'[m].no = leases[m].no /\ (leases[m].accepted => leases'[m].accepted)
        BY <2>6, <4>3 DEF Lease
      <4> QED
        BY <4>4, <4>5, <4>6
    <3>2. CASE ~good
      BY <2>1, <2>6, <3>2, RevokedLeases
    <3> QED
      BY <3>1, <3>2
  <2>8. good \in BOOLEAN /\ pending' \in BOOLEAN
    BY <1>1, <2>1 DEF HandlerTypes, StreamTypes
  <2>9. handler'.ok = good
    BY <1>1, <2>1 DEF HandlerTypes
  <2> QED
    BY <2>1, <2>2, <2>7, <2>8, <2>9 DEF Nonces
<1>4. OpTypes' /\ CallerTypes' /\ PeersHeld' /\ SnapHeld'
  BY <1>1, <1>3 DEF OpTypes, CallerTypes, PeersHeld, Nonces, SnapHeld, Kind
<1>5. StreamTypes'
  BY <1>1, <1>2, <1>3 DEF StreamTypes
<1>6. HandlerTypes'
  BY <1>1, <1>2, <1>3 DEF HandlerTypes, WhileHeld
<1>7. OpOwned'
  BY <1>1, <1>2, <1>3 DEF OpOwned, WhileHeld, AfterCleanup, HandlerTypes, CallerTypes,
    OpTypes
<1>8. StartHeld'
  BY <1>1, <1>2, <1>3 DEF StartHeld, WhileHeld, HandlerTypes, OpOwned
<1>9. CommandFits'
  BY <1>1, <1>2, <1>3 DEF CommandFits, WhileHeld, HandlerTypes
<1>10. ExactStopJoined'
  BY <1>1, <1>2, <1>3 DEF ExactStopJoined, StopJoined, HandlerTypes, CommandFits
<1>11. RoomLeft'
  BY <1>1, <1>2, <1>3 DEF RoomLeft, WhileHeld, HandlerTypes, CommandFits
<1> QED
  BY <1>4, <1>5, <1>6, <1>7, <1>8, <1>9, <1>10, <1>11 DEF StreamsInv

LEMMA StreamStopKeeps_Mine ==
  ASSUME StreamsInv, StreamStop, IsCommandContextCurrent, StopIsMine
  PROVE  StreamsInv'
<1>1. /\ StreamTypes /\ OpTypes /\ HandlerTypes /\ CallerTypes /\ OpOwned /\ PeersHeld
      /\ SnapHeld /\ StartHeld /\ CommandFits /\ ExactStopJoined /\ RoomLeft
  BY DEF StreamsInv
<1>2. /\ Len(leases) \in Nat /\ DOMAIN leases = 1 .. Len(leases)
      /\ 0 \in Nonces /\ Nonces \subseteq Nat
  BY <1>1, NonceFacts
<1>3. /\ handler.pc = "stop" /\ op.pc = "done" /\ handler.req.op = "stop"
      /\ leases' \in Seq(Lease) /\ Len(leases') = Len(leases)
      /\ DOMAIN leases' = DOMAIN leases
      /\ \A n \in DOMAIN leases : leases'[n].no = leases[n].no
      /\ \A n \in DOMAIN leases : leases[n].accepted => leases'[n].accepted
      /\ handler'.lease \in DOMAIN leases /\ handler'.lease \in Nat
      /\ handler.req.start # 0 => leases[handler'.lease].no = handler.req.start
      /\ pending' = TRUE
      /\ handler' = [handler EXCEPT !.pc = "verify", !.lease = handler'.lease]
      /\ op' = [owner |-> "worker", pc |-> "snap", i |-> 1, snap |-> 0]
      /\ UNCHANGED <<conn, held, peer, caller, ledger, scenario>>
      /\ Nonces' = Nonces
  <2> DEFINE n == held[handler.req.kind].lease
  <2>1. /\ handler.pc = "stop"
        /\ leases' = Revoked({n}) /\ pending' = TRUE
        /\ handler' = [handler EXCEPT !.pc = "verify", !.lease = n]
        /\ op' = [owner |-> "worker", pc |-> "snap", i |-> 1, snap |-> 0]
        /\ UNCHANGED <<conn, held, peer, caller, ledger, scenario>>
    BY DEF StreamStop, StopIsMine, WorkerAt, Clean
  <2>2. handler.req.op = "stop" /\ op.pc = "done" /\ handler.req \in Requests
    BY <1>1, <2>1 DEF CommandFits, OpOwned, AfterCleanup, StreamTypes
  <2>3. handler.req.kind \in Kinds
    BY <2>2 DEF Requests
  <2>4. n \in Nonces /\ n # 0
    BY <1>1, <2>3 DEF StreamTypes, StopIsMine
  <2>5. n \in DOMAIN leases /\ (handler.req.start # 0 => leases[n].no = handler.req.start)
    BY SMTT(30), <1>2, <2>4 DEF Nonces, StopIsMine
  <2>6. leases \in Seq(Lease)
    BY <1>1 DEF StreamTypes
  <2>7. handler'.lease = n
    BY <1>1, <2>1 DEF HandlerTypes
  <2>8. /\ leases' \in Seq(Lease) /\ Len(leases') = Len(leases)
        /\ DOMAIN leases' = DOMAIN leases
        /\ \A m \in DOMAIN leases : leases'[m].no = leases[m].no
        /\ \A m \in DOMAIN leases : leases[m].accepted => leases'[m].accepted
    BY <2>1, <2>6, RevokedLeases
  <2>9. Nonces' = Nonces
    BY <2>8 DEF Nonces
  <2>10. n \in Nat
    BY <1>2, <2>5
  <2> HIDE DEF n
  <2> QED
    BY <2>1, <2>2, <2>5, <2>7, <2>8, <2>9, <2>10
<1>4. CallerTypes' /\ PeersHeld'
  BY <1>1, <1>3 DEF CallerTypes, PeersHeld, Nonces
<1>5. StreamTypes'
  BY <1>1, <1>2, <1>3 DEF StreamTypes
<1>6. OpTypes'
  BY <1>1, <1>2, <1>3 DEF OpTypes
<1>7. HandlerTypes'
  BY <1>1, <1>2, <1>3 DEF HandlerTypes, WhileHeld
<1>8. OpOwned'
  BY <1>1, <1>2, <1>3 DEF OpOwned, WhileHeld, AfterCleanup, HandlerTypes, CallerTypes,
    OpTypes
<1>9. SnapHeld'
  BY <1>1, <1>2, <1>3 DEF SnapHeld, Kind, OpOwned, OpTypes
<1>10. StartHeld'
  BY <1>1, <1>2, <1>3 DEF StartHeld, WhileHeld, HandlerTypes, OpOwned
<1>11. CommandFits'
  BY <1>1, <1>2, <1>3 DEF CommandFits, WhileHeld, HandlerTypes
<1>12. ExactStopJoined'
  BY <1>1, <1>2, <1>3 DEF ExactStopJoined, StopJoined, HandlerTypes, CommandFits
<1>13. RoomLeft'
  BY <1>1, <1>2, <1>3 DEF RoomLeft, WhileHeld, HandlerTypes, CommandFits
<1> QED
  BY <1>4, <1>5, <1>6, <1>7, <1>8, <1>9, <1>10, <1>11, <1>12, <1>13 DEF StreamsInv

LEMMA StreamStopKeeps_Again ==
  ASSUME StreamsInv, StreamStop, IsCommandContextCurrent, ~StopIsMine, handler.req.start # 0,
         FindClosedStream(handler.req.kind, handler.req.session, handler.req.start) # 0
  PROVE  StreamsInv'
<1>1. /\ StreamTypes /\ OpTypes /\ HandlerTypes /\ CallerTypes /\ OpOwned /\ PeersHeld
      /\ SnapHeld /\ StartHeld /\ CommandFits /\ ExactStopJoined /\ RoomLeft
  BY DEF StreamsInv
<1>2. /\ Len(leases) \in Nat /\ DOMAIN leases = 1 .. Len(leases)
      /\ 0 \in Nonces /\ Nonces \subseteq Nat
  BY <1>1, NonceFacts
<1>3. /\ handler.pc = "stop" /\ op.pc = "done" /\ handler'.lease \in Nat
      /\ StopJoined(handler.req.kind, handler'.lease, handler.req.start)
      /\ handler' = [handler EXCEPT !.pc = "end", !.ok = TRUE, !.lease = handler'.lease]
      /\ UNCHANGED <<conn, leases, held, pending, peer, op, caller, ledger, scenario>>
      /\ Nonces' = Nonces
  <2> DEFINE r == handler.req
             closed == FindClosedStream(r.kind, r.session, r.start)
  <2>1. /\ handler.pc = "stop"
        /\ handler' = [handler EXCEPT !.pc = "end", !.ok = TRUE, !.lease = closed]
        /\ UNCHANGED <<conn, leases, held, pending, peer, op, caller, ledger, scenario>>
    BY DEF StreamStop, StopIsMine, WorkerAt
  <2>2. r \in Requests /\ op.pc = "done"
    BY <1>1, <2>1 DEF CommandFits, OpOwned, AfterCleanup, StreamTypes
  <2>3. r.kind \in Kinds
    BY <2>2 DEF Requests
  <2>5. closed \in Nat /\ StopJoined(r.kind, closed, r.start)
    BY <1>1, <2>3, ClosedIsJoined
  <2>6. handler'.lease = closed
    BY <1>1, <2>1 DEF HandlerTypes
  <2> QED
    BY <2>1, <2>2, <2>5, <2>6 DEF Nonces
<1>4. StreamTypes' /\ OpTypes' /\ CallerTypes' /\ PeersHeld' /\ SnapHeld'
  BY <1>1, <1>3 DEF StreamTypes, OpTypes, CallerTypes, PeersHeld, Nonces, SnapHeld,
    Kind
<1>5. HandlerTypes'
  BY <1>1, <1>2, <1>3 DEF HandlerTypes, WhileHeld
<1>6. OpOwned'
  BY <1>1, <1>2, <1>3 DEF OpOwned, WhileHeld, AfterCleanup, HandlerTypes, CallerTypes,
    OpTypes
<1>7. StartHeld'
  BY <1>1, <1>2, <1>3 DEF StartHeld, WhileHeld, HandlerTypes, OpOwned
<1>8. CommandFits'
  BY <1>1, <1>2, <1>3 DEF CommandFits, WhileHeld, HandlerTypes
<1>9. ExactStopJoined'
  BY <1>1, <1>2, <1>3 DEF ExactStopJoined, StopJoined, HandlerTypes, CommandFits
<1>10. RoomLeft'
  BY <1>1, <1>2, <1>3 DEF RoomLeft, WhileHeld, HandlerTypes, CommandFits
<1> QED
  BY <1>4, <1>5, <1>6, <1>7, <1>8, <1>9, <1>10 DEF StreamsInv

LEMMA StreamStopKeeps_Refused ==
  ASSUME StreamsInv, StreamStop,
         ~(IsCommandContextCurrent /\ StopIsMine),
         ~(/\ IsCommandContextCurrent /\ handler.req.start # 0
           /\ FindClosedStream(handler.req.kind, handler.req.session, handler.req.start) # 0)
  PROVE  StreamsInv'
<1>1. /\ StreamTypes /\ OpTypes /\ HandlerTypes /\ CallerTypes /\ OpOwned /\ PeersHeld
      /\ SnapHeld /\ StartHeld /\ CommandFits /\ ExactStopJoined /\ RoomLeft
  BY DEF StreamsInv
<1>2. /\ Len(leases) \in Nat /\ DOMAIN leases = 1 .. Len(leases)
      /\ 0 \in Nonces /\ Nonces \subseteq Nat
  BY <1>1, NonceFacts
<1>3. /\ handler.pc = "stop"
      /\ handler' = [handler EXCEPT !.pc = "end", !.ok = FALSE]
      /\ UNCHANGED <<conn, leases, held, pending, peer, op, caller, ledger, scenario>>
      /\ Nonces' = Nonces
  BY DEF StreamStop, StopIsMine, WorkerAt, Failed, Nonces
<1>4. StreamTypes' /\ OpTypes' /\ CallerTypes' /\ PeersHeld' /\ SnapHeld'
  BY <1>1, <1>3 DEF StreamTypes, OpTypes, CallerTypes, PeersHeld, Nonces, SnapHeld,
    Kind
<1>5. HandlerTypes'
  BY <1>1, <1>2, <1>3 DEF HandlerTypes, WhileHeld
<1>6. OpOwned'
  BY <1>1, <1>2, <1>3 DEF OpOwned, WhileHeld, AfterCleanup, HandlerTypes, CallerTypes,
    OpTypes
<1>7. StartHeld'
  BY <1>1, <1>2, <1>3 DEF StartHeld, WhileHeld, HandlerTypes, OpOwned
<1>8. CommandFits'
  BY <1>1, <1>2, <1>3 DEF CommandFits, WhileHeld, HandlerTypes
<1>9. ExactStopJoined'
  BY <1>1, <1>2, <1>3 DEF ExactStopJoined, StopJoined, HandlerTypes, CommandFits
<1>10. RoomLeft'
  BY <1>1, <1>2, <1>3 DEF RoomLeft, WhileHeld, HandlerTypes, CommandFits
<1> QED
  BY <1>4, <1>5, <1>6, <1>7, <1>8, <1>9, <1>10 DEF StreamsInv

LEMMA StopVerifyKeeps ==
  ASSUME StreamsInv, StopVerify
  PROVE  StreamsInv'
<1>1. /\ StreamTypes /\ OpTypes /\ HandlerTypes /\ CallerTypes /\ OpOwned /\ PeersHeld
      /\ SnapHeld /\ StartHeld /\ CommandFits /\ ExactStopJoined /\ RoomLeft
  BY DEF StreamsInv
<1>2. /\ Len(leases) \in Nat /\ DOMAIN leases = 1 .. Len(leases)
      /\ 0 \in Nonces /\ Nonces \subseteq Nat
  BY <1>1, NonceFacts
<1>3. /\ handler.pc = "verify" /\ op.pc = "done" /\ handler.req.op = "stop"
      /\ handler'.ok \in BOOLEAN
      /\ /\ handler'.ok /\ handler.req.start # 0
          => StopJoined(handler.req.kind, handler.lease, handler.req.start)
      /\ handler' = [handler EXCEPT !.pc = "end", !.ok = handler'.ok]
      /\ UNCHANGED <<conn, leases, held, pending, peer, op, caller, ledger, scenario>>
      /\ Nonces' = Nonces
  <2> DEFINE r == handler.req
             n == handler.lease
             closed == FindClosedStream(r.kind, r.session, leases[n].no)
  <2>1. /\ handler.pc = "verify" /\ op.pc = "done"
        /\ handler' = [handler EXCEPT !.pc = "end", !.ok = IsCommandContextCurrent /\ closed = n]
        /\ UNCHANGED <<conn, leases, held, pending, peer, op, caller, ledger, scenario>>
    BY DEF StopVerify, WorkerAt, Cleaned, OpAt
  <2>2. /\ r \in Requests /\ r.op = "stop" /\ n \in DOMAIN leases
        /\ r.start # 0 => leases[n].no = r.start
    BY <1>1, <2>1 DEF CommandFits, StreamTypes
  <2>3. handler'.ok = (IsCommandContextCurrent /\ closed = n)
    BY <1>1, <2>1 DEF HandlerTypes
  <2>4. ASSUME handler'.ok, r.start # 0
        PROVE  StopJoined(r.kind, n, r.start)
    <3>1. closed = n /\ leases[n].no = r.start
      BY <2>2, <2>3, <2>4
    <3>3. n # 0
      BY <1>2, <2>2
    <3>2. r.kind \in Kinds
      BY <2>2 DEF Requests
    <3> QED
      BY <1>1, <3>1, <3>2, <3>3, ClosedIsJoined
  <2> QED
    BY <2>1, <2>2, <2>3, <2>4 DEF Nonces
<1>4. StreamTypes' /\ OpTypes' /\ CallerTypes' /\ PeersHeld' /\ SnapHeld'
  BY <1>1, <1>3 DEF StreamTypes, OpTypes, CallerTypes, PeersHeld, Nonces, SnapHeld,
    Kind
<1>5. HandlerTypes'
  BY <1>1, <1>2, <1>3 DEF HandlerTypes, WhileHeld
<1>6. OpOwned'
  BY <1>1, <1>2, <1>3 DEF OpOwned, WhileHeld, AfterCleanup, HandlerTypes, CallerTypes,
    OpTypes
<1>7. StartHeld'
  BY <1>1, <1>2, <1>3 DEF StartHeld, WhileHeld, HandlerTypes, OpOwned
<1>8. CommandFits'
  BY <1>1, <1>2, <1>3 DEF CommandFits, WhileHeld, HandlerTypes
<1>9. ExactStopJoined'
  BY <1>1, <1>2, <1>3 DEF ExactStopJoined, StopJoined, HandlerTypes, CommandFits
<1>10. RoomLeft'
  BY <1>1, <1>2, <1>3 DEF RoomLeft, WhileHeld, HandlerTypes, CommandFits
<1> QED
  BY <1>4, <1>5, <1>6, <1>7, <1>8, <1>9, <1>10 DEF StreamsInv

LEMMA StreamSignalKeeps ==
  ASSUME StreamsInv, StreamSignal
  PROVE  StreamsInv'
<1>1. /\ StreamTypes /\ OpTypes /\ HandlerTypes /\ CallerTypes /\ OpOwned /\ PeersHeld
      /\ SnapHeld /\ StartHeld /\ CommandFits /\ ExactStopJoined /\ RoomLeft
  BY DEF StreamsInv
<1>2. /\ Len(leases) \in Nat /\ DOMAIN leases = 1 .. Len(leases)
      /\ 0 \in Nonces /\ Nonces \subseteq Nat
  BY <1>1, NonceFacts
<1>3. /\ handler.pc = "signal" /\ op.pc = "done" /\ handler.req.op = "signal"
      /\ handler'.ok \in BOOLEAN /\ handler'.lease \in Nat
      /\ handler' = [handler EXCEPT !.pc = "end", !.lease = handler'.lease, !.ok = handler'.ok]
      /\ UNCHANGED <<conn, leases, held, pending, peer, op, caller, ledger, scenario>>
      /\ Nonces' = Nonces
  <2> DEFINE n == held[handler.req.kind].lease
             good == /\ IsCommandContextCurrent /\ n # 0
                     /\ leases[n].session = handler.req.session
                     /\ IsStreamPublicationCurrent(n)
                     /\ peer[handler.req.kind].pc = "running"
  <2>1. /\ handler.pc = "signal"
        /\ handler' = [handler EXCEPT !.pc = "end", !.lease = n, !.ok = good]
        /\ UNCHANGED <<conn, leases, held, pending, peer, op, caller, ledger, scenario>>
    BY DEF StreamSignal, WorkerAt
  <2>2. handler.req.op = "signal" /\ op.pc = "done" /\ handler.req \in Requests
    BY <1>1, <2>1 DEF CommandFits, OpOwned, AfterCleanup, StreamTypes
  <2>3. handler.req.kind \in Kinds
    BY <2>2 DEF Requests
  <2>4. n \in Nat
    BY <1>1, <1>2, <2>3 DEF StreamTypes
  <2> HIDE DEF good
  <2>5. handler'.lease = n /\ handler'.ok = good
    BY <1>1, <2>1 DEF HandlerTypes
  <2>6. good \in BOOLEAN
    BY DEF good
  <2> QED
    BY <2>1, <2>2, <2>4, <2>5, <2>6 DEF Nonces
<1>4. StreamTypes' /\ OpTypes' /\ CallerTypes' /\ PeersHeld' /\ SnapHeld'
  BY <1>1, <1>3 DEF StreamTypes, OpTypes, CallerTypes, PeersHeld, Nonces, SnapHeld,
    Kind
<1>5. HandlerTypes'
  BY <1>1, <1>2, <1>3 DEF HandlerTypes, WhileHeld
<1>6. OpOwned'
  BY <1>1, <1>2, <1>3 DEF OpOwned, WhileHeld, AfterCleanup, HandlerTypes, CallerTypes,
    OpTypes
<1>7. StartHeld'
  BY <1>1, <1>2, <1>3 DEF StartHeld, WhileHeld, HandlerTypes, OpOwned
<1>8. CommandFits'
  BY <1>1, <1>2, <1>3 DEF CommandFits, WhileHeld, HandlerTypes
<1>9. ExactStopJoined'
  BY <1>1, <1>2, <1>3 DEF ExactStopJoined, StopJoined, HandlerTypes, CommandFits
<1>10. RoomLeft'
  BY <1>1, <1>2, <1>3 DEF RoomLeft, WhileHeld, HandlerTypes, CommandFits
<1> QED
  BY <1>4, <1>5, <1>6, <1>7, <1>8, <1>9, <1>10 DEF StreamsInv

LEMMA CommandCompleteKeeps ==
  ASSUME StreamsInv, CommandComplete
  PROVE  StreamsInv'
<1>1. /\ StreamTypes /\ OpTypes /\ HandlerTypes /\ CallerTypes /\ OpOwned /\ PeersHeld
      /\ SnapHeld /\ StartHeld /\ CommandFits /\ ExactStopJoined /\ RoomLeft
  BY DEF StreamsInv
<1>2. /\ Len(leases) \in Nat /\ DOMAIN leases = 1 .. Len(leases)
      /\ 0 \in Nonces /\ Nonces \subseteq Nat
  BY <1>1, NonceFacts
<1>3. /\ handler.pc = "complete" /\ op.pc = "done"
      /\ handler' = [handler EXCEPT !.pc = "answer"]
      /\ handler.req \in scenario.requests
      /\ \E e \in [known : BOOLEAN, ok : BOOLEAN, epoch : Nat, nonce : Nat] :
           ledger' = [ledger EXCEPT ![handler.req.no] = e]
      /\ UNCHANGED <<conn, leases, held, pending, peer, op, caller, scenario>>
      /\ Nonces' = Nonces
  <2> DEFINE exact == handler.ok /\ handler.req.op = "stop" /\ handler.req.start # 0
             e == [known |-> TRUE, ok |-> handler.ok, epoch |-> IF exact THEN handler.epoch ELSE 0,
                   nonce |-> IF exact THEN handler.lease ELSE 0]
  <2>1. e \in [known : BOOLEAN, ok : BOOLEAN, epoch : Nat, nonce : Nat]
    BY <1>1 DEF HandlerTypes
  <2>2. ledger' = [ledger EXCEPT ![handler.req.no] = e]
    BY DEF CommandComplete
  <2>3. handler.req \in scenario.requests
    BY <1>1 DEF CommandComplete, WorkerAt, CommandFits
  <2> HIDE DEF e
  <2> QED
    BY <2>1, <2>2, <2>3 DEF CommandComplete, WorkerAt, WorkerTo, Cleaned, OpAt, Nonces
<1>4. OpTypes' /\ CallerTypes' /\ PeersHeld' /\ SnapHeld'
  BY <1>1, <1>3 DEF OpTypes, CallerTypes, PeersHeld, Nonces, SnapHeld, Kind
<1>5. StreamTypes'
  BY <1>1, <1>2, <1>3 DEF StreamTypes
<1>6. HandlerTypes'
  BY <1>1, <1>2, <1>3 DEF HandlerTypes, WhileHeld
<1>7. OpOwned'
  BY <1>1, <1>2, <1>3 DEF OpOwned, WhileHeld, AfterCleanup, HandlerTypes, CallerTypes,
    OpTypes
<1>8. StartHeld'
  BY <1>1, <1>2, <1>3 DEF StartHeld, WhileHeld, HandlerTypes, OpOwned
<1>9. CommandFits'
  BY <1>1, <1>2, <1>3 DEF CommandFits, WhileHeld, HandlerTypes
<1>10. ExactStopJoined'
  BY <1>1, <1>2, <1>3 DEF ExactStopJoined, StopJoined, HandlerTypes, CommandFits
<1>11. RoomLeft'
  BY <1>1, <1>2, <1>3 DEF RoomLeft, WhileHeld, HandlerTypes, CommandFits
<1> QED
  BY <1>4, <1>5, <1>6, <1>7, <1>8, <1>9, <1>10, <1>11 DEF StreamsInv

LEMMA ConnectionUpKeeps ==
  ASSUME StreamsInv, ConnectionUp
  PROVE  StreamsInv'
<1>1. /\ StreamTypes /\ OpTypes /\ HandlerTypes /\ CallerTypes /\ OpOwned /\ PeersHeld
      /\ SnapHeld /\ StartHeld /\ CommandFits /\ ExactStopJoined /\ RoomLeft
  BY DEF StreamsInv
<1>2. /\ Len(leases) \in Nat /\ DOMAIN leases = 1 .. Len(leases)
      /\ 0 \in Nonces /\ Nonces \subseteq Nat
  BY <1>1, NonceFacts
<1>3. /\ leases' \in Seq(Lease) /\ Len(leases') = Len(leases)
      /\ DOMAIN leases' = DOMAIN leases
      /\ \A n \in DOMAIN leases : leases'[n].no = leases[n].no
      /\ \A n \in DOMAIN leases : leases[n].accepted => leases'[n].accepted
      /\ held' \in [Kinds -> [lease : Nonces, closed : Nonces, latest : Nonces]]
      /\ \A k \in Kinds : held'[k].lease = held[k].lease /\ held'[k].latest = held[k].latest
      /\ pending' \in BOOLEAN
      /\ conn' \in [started : BOOLEAN, up : BOOLEAN, epoch : Nat]
      /\ UNCHANGED <<peer, op, handler, caller, ledger, scenario>>
      /\ Nonces' = Nonces
  <2>1. leases \in Seq(Lease) /\ held \in [Kinds -> [lease : Nonces, closed : Nonces, latest : Nonces]]
    BY <1>1 DEF StreamTypes
  <2>2. AdvanceConnectionEpoch
    BY DEF ConnectionUp
  <2>3. /\ leases' = Revoked(HeldLeases) /\ held' = [k \in Kinds |-> [held[k] EXCEPT !.closed = 0]]
        /\ pending' \in BOOLEAN
    BY <2>2 DEF AdvanceConnectionEpoch
  <2>4. /\ leases' \in Seq(Lease) /\ Len(leases') = Len(leases)
        /\ DOMAIN leases' = DOMAIN leases
        /\ \A n \in DOMAIN leases : leases'[n].no = leases[n].no
        /\ \A n \in DOMAIN leases : leases[n].accepted => leases'[n].accepted
    BY <2>1, <2>3, RevokedLeases
  <2>5. /\ held' \in [Kinds -> [lease : Nonces, closed : Nonces, latest : Nonces]]
        /\ \A k \in Kinds : held'[k].lease = held[k].lease /\ held'[k].latest = held[k].latest
    BY <1>2, <2>1, <2>3
  <2>11. conn' \in [started : BOOLEAN, up : BOOLEAN, epoch : Nat]
    <3>1. conn \in [started : BOOLEAN, up : BOOLEAN, epoch : Nat]
      BY <1>1 DEF StreamTypes
    <3>2. conn' = [conn EXCEPT !.up = TRUE, !.epoch = @ + 1]
      BY DEF ConnectionUp
    <3> QED
      BY <3>1, <3>2, Turned
  <2>7. UNCHANGED <<peer, op, handler, caller, ledger, scenario>>
    BY DEF ConnectionUp
  <2> QED
    BY <2>3, <2>4, <2>5, <2>11, <2>7 DEF Nonces
<1>4. OpTypes' /\ HandlerTypes' /\ CallerTypes' /\ OpOwned'
  BY <1>1, <1>3 DEF OpTypes, HandlerTypes, CallerTypes, OpOwned
<1>5. StreamTypes'
  BY <1>1, <1>2, <1>3 DEF StreamTypes
<1>6. PeersHeld'
  BY <1>1, <1>2, <1>3 DEF PeersHeld, Nonces, StreamTypes
<1>7. SnapHeld'
  <2>1. op.pc \in {"stop", "record"} => Kind \in Kinds /\ Kind' = Kind
    BY <1>1, <1>3, TwoKinds DEF OpOwned, Kind
  <2> QED
    BY <1>1, <1>3, <2>1 DEF SnapHeld
<1>8. StartHeld'
  <2>1. handler.pc \in {"native", "commit"} => handler.req.kind \in Kinds
    BY <1>1 DEF CommandFits, StreamTypes, Requests
  <2> QED
    BY <1>1, <1>3, <2>1 DEF StartHeld
<1>9. CommandFits'
  BY <1>1, <1>2, <1>3 DEF CommandFits, WhileHeld, HandlerTypes
<1>10. ExactStopJoined'
  <2>1. handler.pc \in {"end", "complete", "answer"} => handler.req.kind \in Kinds
    BY <1>1 DEF CommandFits, StreamTypes, Requests
  <2> QED
    BY <1>1, <1>3, <2>1 DEF ExactStopJoined, StopJoined
<1>11. RoomLeft'
  BY <1>1, <1>2, <1>3 DEF RoomLeft, WhileHeld, HandlerTypes, CommandFits
<1> QED
  BY <1>4, <1>5, <1>6, <1>7, <1>8, <1>9, <1>10, <1>11 DEF StreamsInv

LEMMA ConnectionLostKeeps ==
  ASSUME StreamsInv, ConnectionLost
  PROVE  StreamsInv'
<1>1. /\ StreamTypes /\ OpTypes /\ HandlerTypes /\ CallerTypes /\ OpOwned /\ PeersHeld
      /\ SnapHeld /\ StartHeld /\ CommandFits /\ ExactStopJoined /\ RoomLeft
  BY DEF StreamsInv
<1>2. /\ Len(leases) \in Nat /\ DOMAIN leases = 1 .. Len(leases)
      /\ 0 \in Nonces /\ Nonces \subseteq Nat
  BY <1>1, NonceFacts
<1>3. /\ leases' \in Seq(Lease) /\ Len(leases') = Len(leases)
      /\ DOMAIN leases' = DOMAIN leases
      /\ \A n \in DOMAIN leases : leases'[n].no = leases[n].no
      /\ \A n \in DOMAIN leases : leases[n].accepted => leases'[n].accepted
      /\ held' \in [Kinds -> [lease : Nonces, closed : Nonces, latest : Nonces]]
      /\ \A k \in Kinds : held'[k].lease = held[k].lease /\ held'[k].latest = held[k].latest
      /\ pending' \in BOOLEAN
      /\ conn' \in [started : BOOLEAN, up : BOOLEAN, epoch : Nat]
      /\ scenario' \in [requests : SUBSET Requests, breaks : Nat, calls : Nat]
      /\ scenario'.requests = scenario.requests
      /\ UNCHANGED <<peer, op, handler, caller, ledger>>
      /\ Nonces' = Nonces
  <2>1. leases \in Seq(Lease) /\ held \in [Kinds -> [lease : Nonces, closed : Nonces, latest : Nonces]]
    BY <1>1 DEF StreamTypes
  <2>2. AdvanceConnectionEpoch
    BY DEF ConnectionLost
  <2>3. /\ leases' = Revoked(HeldLeases) /\ held' = [k \in Kinds |-> [held[k] EXCEPT !.closed = 0]]
        /\ pending' \in BOOLEAN
    BY <2>2 DEF AdvanceConnectionEpoch
  <2>4. /\ leases' \in Seq(Lease) /\ Len(leases') = Len(leases)
        /\ DOMAIN leases' = DOMAIN leases
        /\ \A n \in DOMAIN leases : leases'[n].no = leases[n].no
        /\ \A n \in DOMAIN leases : leases[n].accepted => leases'[n].accepted
    BY <2>1, <2>3, RevokedLeases
  <2>5. /\ held' \in [Kinds -> [lease : Nonces, closed : Nonces, latest : Nonces]]
        /\ \A k \in Kinds : held'[k].lease = held[k].lease /\ held'[k].latest = held[k].latest
    BY <1>2, <2>1, <2>3
  <2>11. conn' \in [started : BOOLEAN, up : BOOLEAN, epoch : Nat]
    <3>1. conn \in [started : BOOLEAN, up : BOOLEAN, epoch : Nat]
      BY <1>1 DEF StreamTypes
    <3>2. conn' = [conn EXCEPT !.up = FALSE, !.epoch = @ + 1]
      BY DEF ConnectionLost
    <3> QED
      BY <3>1, <3>2, Turned
  <2>12. /\ scenario' \in [requests : SUBSET Requests, breaks : Nat, calls : Nat]
         /\ scenario'.requests = scenario.requests
    BY <1>1, SpendKeeps DEF ConnectionLost
  <2>7. UNCHANGED <<peer, op, handler, caller, ledger>>
    BY DEF ConnectionLost
  <2> QED
    BY <2>3, <2>4, <2>5, <2>11, <2>12, <2>7 DEF Nonces
<1>4. OpTypes' /\ HandlerTypes' /\ CallerTypes' /\ OpOwned'
  BY <1>1, <1>3 DEF OpTypes, HandlerTypes, CallerTypes, OpOwned
<1>5. StreamTypes'
  BY <1>1, <1>2, <1>3 DEF StreamTypes
<1>6. PeersHeld'
  BY <1>1, <1>2, <1>3 DEF PeersHeld, Nonces, StreamTypes
<1>7. SnapHeld'
  <2>1. op.pc \in {"stop", "record"} => Kind \in Kinds /\ Kind' = Kind
    BY <1>1, <1>3, TwoKinds DEF OpOwned, Kind
  <2> QED
    BY <1>1, <1>3, <2>1 DEF SnapHeld
<1>8. StartHeld'
  <2>1. handler.pc \in {"native", "commit"} => handler.req.kind \in Kinds
    BY <1>1 DEF CommandFits, StreamTypes, Requests
  <2> QED
    BY <1>1, <1>3, <2>1 DEF StartHeld
<1>9. CommandFits'
  BY <1>1, <1>2, <1>3 DEF CommandFits, WhileHeld, HandlerTypes
<1>10. ExactStopJoined'
  <2>1. handler.pc \in {"end", "complete", "answer"} => handler.req.kind \in Kinds
    BY <1>1 DEF CommandFits, StreamTypes, Requests
  <2> QED
    BY <1>1, <1>3, <2>1 DEF ExactStopJoined, StopJoined
<1>11. RoomLeft'
  BY <1>1, <1>2, <1>3 DEF RoomLeft, WhileHeld, HandlerTypes, CommandFits
<1> QED
  BY <1>4, <1>5, <1>6, <1>7, <1>8, <1>9, <1>10, <1>11 DEF StreamsInv

LEMMA CallStopKeeps ==
  ASSUME StreamsInv, CallStop
  PROVE  StreamsInv'
<1>1. /\ StreamTypes /\ OpTypes /\ HandlerTypes /\ CallerTypes /\ OpOwned /\ PeersHeld
      /\ SnapHeld /\ StartHeld /\ CommandFits /\ ExactStopJoined /\ RoomLeft
  BY DEF StreamsInv
<1>2. /\ Len(leases) \in Nat /\ DOMAIN leases = 1 .. Len(leases)
      /\ 0 \in Nonces /\ Nonces \subseteq Nat
  BY <1>1, NonceFacts
<1>3. /\ leases' \in Seq(Lease) /\ Len(leases') = Len(leases)
      /\ DOMAIN leases' = DOMAIN leases
      /\ \A n \in DOMAIN leases : leases'[n].no = leases[n].no
      /\ \A n \in DOMAIN leases : leases[n].accepted => leases'[n].accepted
      /\ held' \in [Kinds -> [lease : Nonces, closed : Nonces, latest : Nonces]]
      /\ \A k \in Kinds : held'[k].lease = held[k].lease /\ held'[k].latest = held[k].latest
      /\ pending' \in BOOLEAN
      /\ conn' \in [started : BOOLEAN, up : BOOLEAN, epoch : Nat]
      /\ scenario' \in [requests : SUBSET Requests, breaks : Nat, calls : Nat]
      /\ scenario'.requests = scenario.requests
      /\ caller' \in [pc : {"idle", "lock", "clean", "join"}, what : Kinds \cup {"none", "service"}]
      /\ caller'.pc # "clean" /\ caller.pc = "idle"
      /\ UNCHANGED <<peer, op, handler, ledger>>
      /\ Nonces' = Nonces
  <2>1. leases \in Seq(Lease) /\ held \in [Kinds -> [lease : Nonces, closed : Nonces, latest : Nonces]]
    BY <1>1 DEF StreamTypes
  <2>2. AdvanceConnectionEpoch
    BY DEF CallStop
  <2>3. /\ leases' = Revoked(HeldLeases) /\ held' = [k \in Kinds |-> [held[k] EXCEPT !.closed = 0]]
        /\ pending' \in BOOLEAN
    BY <2>2 DEF AdvanceConnectionEpoch
  <2>4. /\ leases' \in Seq(Lease) /\ Len(leases') = Len(leases)
        /\ DOMAIN leases' = DOMAIN leases
        /\ \A n \in DOMAIN leases : leases'[n].no = leases[n].no
        /\ \A n \in DOMAIN leases : leases[n].accepted => leases'[n].accepted
    BY <2>1, <2>3, RevokedLeases
  <2>5. /\ held' \in [Kinds -> [lease : Nonces, closed : Nonces, latest : Nonces]]
        /\ \A k \in Kinds : held'[k].lease = held[k].lease /\ held'[k].latest = held[k].latest
    BY <1>2, <2>1, <2>3
  <2>11. conn' \in [started : BOOLEAN, up : BOOLEAN, epoch : Nat]
    BY <1>1 DEF CallStop, StreamTypes
  <2>12. /\ scenario' \in [requests : SUBSET Requests, breaks : Nat, calls : Nat]
         /\ scenario'.requests = scenario.requests
    BY <1>1, SpendKeeps DEF CallStop
  <2>13. /\ caller' \in [pc : {"idle", "lock", "clean", "join"}, what : Kinds \cup {"none", "service"}]
         /\ caller'.pc # "clean" /\ caller.pc = "idle"
    BY DEF CallStop
  <2>7. UNCHANGED <<peer, op, handler, ledger>>
    BY DEF CallStop
  <2> QED
    BY <2>3, <2>4, <2>5, <2>11, <2>12, <2>13, <2>7 DEF Nonces
<1>4. OpTypes' /\ HandlerTypes'
  BY <1>1, <1>3 DEF OpTypes, HandlerTypes
<1>5. StreamTypes'
  BY <1>1, <1>2, <1>3 DEF StreamTypes
<1>6. CallerTypes'
  BY <1>1, <1>2, <1>3 DEF CallerTypes
<1>7. OpOwned'
  BY <1>1, <1>2, <1>3 DEF OpOwned, WhileHeld, AfterCleanup, HandlerTypes, CallerTypes,
    OpTypes
<1>8. PeersHeld'
  BY <1>1, <1>2, <1>3 DEF PeersHeld, Nonces, StreamTypes
<1>9. SnapHeld'
  <2>1. op.pc \in {"stop", "record"} => Kind \in Kinds /\ Kind' = Kind
    BY <1>1, <1>3, TwoKinds DEF OpOwned, Kind
  <2> QED
    BY <1>1, <1>3, <2>1 DEF SnapHeld
<1>10. StartHeld'
  <2>1. handler.pc \in {"native", "commit"} => handler.req.kind \in Kinds
    BY <1>1 DEF CommandFits, StreamTypes, Requests
  <2> QED
    BY <1>1, <1>3, <2>1 DEF StartHeld
<1>11. CommandFits'
  BY <1>1, <1>2, <1>3 DEF CommandFits, WhileHeld, HandlerTypes
<1>12. ExactStopJoined'
  <2>1. handler.pc \in {"end", "complete", "answer"} => handler.req.kind \in Kinds
    BY <1>1 DEF CommandFits, StreamTypes, Requests
  <2> QED
    BY <1>1, <1>3, <2>1 DEF ExactStopJoined, StopJoined
<1>13. RoomLeft'
  BY <1>1, <1>2, <1>3 DEF RoomLeft, WhileHeld, HandlerTypes, CommandFits
<1> QED
  BY <1>4, <1>5, <1>6, <1>7, <1>8, <1>9, <1>10, <1>11, <1>12, <1>13 DEF StreamsInv

LEMMA CallStopStreamKeeps ==
  ASSUME StreamsInv, NEW k \in Kinds, CallStopStream(k)
  PROVE  StreamsInv'
<1>1. /\ StreamTypes /\ OpTypes /\ HandlerTypes /\ CallerTypes /\ OpOwned /\ PeersHeld
      /\ SnapHeld /\ StartHeld /\ CommandFits /\ ExactStopJoined /\ RoomLeft
  BY DEF StreamsInv
<1>2. /\ Len(leases) \in Nat /\ DOMAIN leases = 1 .. Len(leases)
      /\ 0 \in Nonces /\ Nonces \subseteq Nat
  BY <1>1, NonceFacts
<1>3. /\ leases' \in Seq(Lease) /\ Len(leases') = Len(leases)
      /\ DOMAIN leases' = DOMAIN leases
      /\ \A n \in DOMAIN leases : leases'[n].no = leases[n].no
      /\ \A n \in DOMAIN leases : leases[n].accepted => leases'[n].accepted
      /\ pending' \in BOOLEAN
      /\ scenario' \in [requests : SUBSET Requests, breaks : Nat, calls : Nat]
      /\ scenario'.requests = scenario.requests
      /\ caller.pc = "idle" /\ caller' = [pc |-> "lock", what |-> k]
      /\ UNCHANGED <<conn, held, peer, op, handler, ledger>>
      /\ Nonces' = Nonces
  <2>1. SpendScenario("calls")
    BY DEF CallStopStream
  <2>2. scenario' \in [requests : SUBSET Requests, breaks : Nat, calls : Nat]
        /\ scenario'.requests = scenario.requests
    BY <1>1, <2>1, SpendKeeps
  <2>3. leases \in Seq(Lease) /\ pending \in BOOLEAN
    BY <1>1 DEF StreamTypes
  <2>4. leases' = Revoked({held[k].lease}) /\ pending' = (pending \/ held[k].lease # 0)
        /\ caller.pc = "idle" /\ caller' = [pc |-> "lock", what |-> k]
        /\ UNCHANGED <<conn, held, peer, op, handler, ledger>>
    BY DEF CallStopStream
  <2> QED
    BY <2>2, <2>3, <2>4, RevokedLeases DEF Nonces
<1>4. OpTypes' /\ HandlerTypes' /\ PeersHeld' /\ SnapHeld' /\ StartHeld'
  BY <1>1, <1>3 DEF OpTypes, HandlerTypes, PeersHeld, Nonces, SnapHeld, Kind,
    StartHeld
<1>5. StreamTypes'
  BY <1>1, <1>2, <1>3 DEF StreamTypes
<1>6. CallerTypes'
  BY <1>1, <1>2, <1>3 DEF CallerTypes
<1>7. OpOwned'
  BY <1>1, <1>2, <1>3 DEF OpOwned, WhileHeld, AfterCleanup, HandlerTypes, CallerTypes,
    OpTypes
<1>8. CommandFits'
  BY <1>1, <1>2, <1>3 DEF CommandFits, WhileHeld, HandlerTypes
<1>9. ExactStopJoined'
  BY <1>1, <1>2, <1>3 DEF ExactStopJoined, StopJoined, HandlerTypes, CommandFits
<1>10. RoomLeft'
  BY <1>1, <1>2, <1>3 DEF RoomLeft, WhileHeld, HandlerTypes, CommandFits
<1> QED
  BY <1>4, <1>5, <1>6, <1>7, <1>8, <1>9, <1>10 DEF StreamsInv

LEMMA CallLockKeeps ==
  ASSUME StreamsInv, CallLock
  PROVE  StreamsInv'
<1>1. /\ StreamTypes /\ OpTypes /\ HandlerTypes /\ CallerTypes /\ OpOwned /\ PeersHeld
      /\ SnapHeld /\ StartHeld /\ CommandFits /\ ExactStopJoined /\ RoomLeft
  BY DEF StreamsInv
<1>2. /\ Len(leases) \in Nat /\ DOMAIN leases = 1 .. Len(leases)
      /\ 0 \in Nonces /\ Nonces \subseteq Nat
  BY <1>1, NonceFacts
<1>3. /\ leases' \in Seq(Lease) /\ Len(leases') = Len(leases)
      /\ DOMAIN leases' = DOMAIN leases
      /\ \A n \in DOMAIN leases : leases'[n].no = leases[n].no
      /\ \A n \in DOMAIN leases : leases[n].accepted => leases'[n].accepted
      /\ caller.pc = "lock" /\ op.owner = "free"
      /\ caller' = [caller EXCEPT !.pc = "clean"]
      /\ op' = [owner |-> "caller", pc |-> "snap", i |-> 1, snap |-> 0]
      /\ UNCHANGED <<conn, held, pending, peer, handler, ledger, scenario>>
      /\ Nonces' = Nonces
  BY <1>1, <1>2, RevokedLeases DEF CallLock, Clean, StreamTypes, Nonces
<1>4. HandlerTypes' /\ PeersHeld' /\ StartHeld'
  BY <1>1, <1>3 DEF HandlerTypes, PeersHeld, Nonces, StartHeld
<1>5. StreamTypes'
  BY <1>1, <1>2, <1>3 DEF StreamTypes
<1>6. OpTypes'
  BY <1>1, <1>2, <1>3 DEF OpTypes
<1>7. CallerTypes'
  BY <1>1, <1>2, <1>3 DEF CallerTypes
<1>8. OpOwned'
  BY <1>1, <1>2, <1>3 DEF OpOwned, WhileHeld, AfterCleanup, HandlerTypes, CallerTypes,
    OpTypes
<1>9. SnapHeld'
  BY <1>1, <1>2, <1>3 DEF SnapHeld, Kind, OpOwned, OpTypes
<1>10. CommandFits'
  BY <1>1, <1>2, <1>3 DEF CommandFits, WhileHeld, HandlerTypes
<1>11. ExactStopJoined'
  BY <1>1, <1>2, <1>3 DEF ExactStopJoined, StopJoined, HandlerTypes, CommandFits
<1>12. RoomLeft'
  BY <1>1, <1>2, <1>3 DEF RoomLeft, WhileHeld, HandlerTypes, CommandFits
<1> QED
  BY <1>4, <1>5, <1>6, <1>7, <1>8, <1>9, <1>10, <1>11, <1>12 DEF StreamsInv

LEMMA CallCleanedKeeps ==
  ASSUME StreamsInv, CallCleaned
  PROVE  StreamsInv'
<1>1. /\ StreamTypes /\ OpTypes /\ HandlerTypes /\ CallerTypes /\ OpOwned /\ PeersHeld
      /\ SnapHeld /\ StartHeld /\ CommandFits /\ ExactStopJoined /\ RoomLeft
  BY DEF StreamsInv
<1>2. /\ Len(leases) \in Nat /\ DOMAIN leases = 1 .. Len(leases)
      /\ 0 \in Nonces /\ Nonces \subseteq Nat
  BY <1>1, NonceFacts
<1>3. /\ caller.pc = "clean" /\ op' = Free
      /\ caller' = NoCall \/ caller' = [caller EXCEPT !.pc = "join"]
      /\ UNCHANGED <<conn, leases, held, pending, peer, handler, ledger, scenario>>
      /\ Nonces' = Nonces
  BY DEF CallCleaned, Nonces
<1>4. StreamTypes' /\ HandlerTypes' /\ PeersHeld' /\ StartHeld' /\ CommandFits' /\
        ExactStopJoined' /\ RoomLeft'
  BY <1>1, <1>3 DEF StreamTypes, HandlerTypes, PeersHeld, Nonces, StartHeld,
    CommandFits, ExactStopJoined, StopJoined, RoomLeft
<1>5. OpTypes'
  BY <1>1, <1>2, <1>3 DEF OpTypes, Free
<1>6. CallerTypes'
  BY <1>1, <1>2, <1>3 DEF CallerTypes, NoCall
<1>7. OpOwned'
  BY <1>1, <1>2, <1>3 DEF OpOwned, WhileHeld, AfterCleanup, HandlerTypes, CallerTypes,
    OpTypes, Free, NoCall
<1>8. SnapHeld'
  BY <1>1, <1>2, <1>3 DEF SnapHeld, Kind, OpOwned, OpTypes, Free
<1> QED
  BY <1>4, <1>5, <1>6, <1>7, <1>8 DEF StreamsInv

LEMMA RestartKeeps ==
  ASSUME StreamsInv, NEW same \in BOOLEAN, Restart(same)
  PROVE  StreamsInv'
<1>1. /\ StreamTypes /\ OpTypes /\ HandlerTypes /\ CallerTypes /\ OpOwned /\ PeersHeld
      /\ SnapHeld /\ StartHeld /\ CommandFits /\ ExactStopJoined /\ RoomLeft
  BY DEF StreamsInv
<1>2. /\ Len(leases) \in Nat /\ DOMAIN leases = 1 .. Len(leases)
      /\ 0 \in Nonces /\ Nonces \subseteq Nat
  BY <1>1, NonceFacts
<1>3. /\ caller.pc = "join" /\ handler.pc = "idle" /\ caller' = NoCall
      /\ conn' = [conn EXCEPT !.started = TRUE]
      /\ ledger' \in [{r.no : r \in scenario.requests} ->
                      [known : BOOLEAN, ok : BOOLEAN, epoch : Nat, nonce : Nat]]
      /\ UNCHANGED <<leases, held, pending, peer, op, handler, scenario>>
      /\ Nonces' = Nonces
  BY <1>1 DEF Restart, WorkerAt, Unknown, StreamTypes, Nonces
<1>4. OpTypes' /\ HandlerTypes' /\ PeersHeld' /\ SnapHeld' /\ StartHeld' /\
        CommandFits' /\ ExactStopJoined'
  BY <1>1, <1>3 DEF OpTypes, HandlerTypes, PeersHeld, Nonces, SnapHeld, Kind,
    StartHeld, CommandFits, ExactStopJoined, StopJoined
<1>5. StreamTypes'
  BY <1>1, <1>2, <1>3 DEF StreamTypes
<1>6. CallerTypes'
  BY <1>1, <1>2, <1>3 DEF CallerTypes, NoCall
<1>7. OpOwned'
  BY <1>1, <1>2, <1>3 DEF OpOwned, WhileHeld, AfterCleanup, HandlerTypes, CallerTypes,
    OpTypes, NoCall
<1>8. RoomLeft'
  BY <1>1, <1>2, <1>3 DEF RoomLeft, WhileHeld, HandlerTypes, CommandFits
<1> QED
  BY <1>4, <1>5, <1>6, <1>7, <1>8 DEF StreamsInv

LEMMA StreamsInitHolds == StreamsInit => StreamsInv
<1> SUFFICES ASSUME StreamsInit
             PROVE  StreamsInv
  OBVIOUS
<1>1. /\ conn = [started |-> TRUE, up |-> TRUE, epoch |-> 1] /\ leases = <<>>
      /\ held = [k \in Kinds |-> [lease |-> 0, closed |-> 0, latest |-> 0]]
      /\ pending = FALSE /\ peer = [k \in Kinds |-> NoPeer]
      /\ op = Free /\ handler = Idle /\ caller = NoCall
      /\ scenario \in Scenarios /\ ledger = Unknown
  BY DEF StreamsInit
<1>2. leases \in Seq(Lease) /\ Len(leases) = 0 /\ 0 \in Nonces
  BY <1>1 DEF Nonces
<1>3. StreamTypes
  BY <1>1, <1>2, StreamsAssumption DEF StreamTypes, NoPeer, Unknown
<1>4. OpTypes
  BY <1>1, <1>2 DEF OpTypes, Free
<1>5. HandlerTypes
  BY <1>1 DEF HandlerTypes, Idle
<1>6. CallerTypes
  BY <1>1 DEF CallerTypes, NoCall
<1>7. OpOwned
  BY <1>1 DEF OpOwned, Free, Idle, NoCall, WhileHeld, AfterCleanup
<1>8. PeersHeld
  BY <1>1 DEF PeersHeld, NoPeer
<1>9. SnapHeld /\ StartHeld /\ CommandFits /\ ExactStopJoined
  BY <1>1 DEF SnapHeld, StartHeld, CommandFits, ExactStopJoined, Free, Idle
<1>10. RoomLeft
  BY <1>1, <1>2, StreamsAssumption DEF RoomLeft, Idle
<1> QED
  BY <1>3, <1>4, <1>5, <1>6, <1>7, <1>8, <1>9, <1>10 DEF StreamsInv

LEMMA StreamsStutter ==
  ASSUME StreamsInv, UNCHANGED streamVars
  PROVE  StreamsInv'
<1>1. UNCHANGED <<conn, leases, held, pending, peer, op, handler, caller, ledger, scenario>>
  BY DEF streamVars
<1>2. StreamTypes' /\ OpTypes' /\ HandlerTypes' /\ CallerTypes'
  BY <1>1 DEF StreamsInv, StreamTypes, OpTypes, HandlerTypes, CallerTypes, Nonces
<1>3. OpOwned' /\ PeersHeld' /\ SnapHeld' /\ StartHeld'
  BY <1>1 DEF StreamsInv, OpOwned, PeersHeld, SnapHeld, StartHeld, Kind
<1>4. CommandFits' /\ ExactStopJoined' /\ RoomLeft'
  BY <1>1 DEF StreamsInv, CommandFits, ExactStopJoined, StopJoined, RoomLeft
<1> QED
  BY <1>2, <1>3, <1>4 DEF StreamsInv

LEMMA CleanStepKeeps ==
  ASSUME StreamsInv, CleanStep
  PROVE  StreamsInv'
<1>1. CASE CleanSnap
  BY <1>1, CleanSnapKeeps_Past, CleanSnapKeeps_Found, CleanSnapKeeps_Next
<1>2. CASE CleanJoin
  BY <1>2, CleanJoinKeeps
<1>3. CASE CleanRecord
  BY <1>3, CleanRecordKeeps
<1>4. CASE CleanRecompute
  BY <1>4, CleanRecomputeKeeps
<1> QED
  BY <1>1, <1>2, <1>3, <1>4 DEF CleanStep

LEMMA CommandStepKeeps ==
  ASSUME StreamsInv, CommandStep
  PROVE  StreamsInv'
<1>1. CASE LoopCleanup
  BY <1>1, LoopCleanupKeeps
<1>2. CASE LoopCleaned
  BY <1>2, LoopCleanedKeeps
<1>3. CASE Lock
  BY <1>3, LockKeeps
<1>4. CASE CommandBegin
  BY <1>4, CommandBeginKeeps_Stale, CommandBeginKeeps_Known, CommandBeginKeeps_New
<1>5. CASE StreamStart
  BY <1>5, StreamStartKeeps_Refused, StreamStartKeeps_Taken
<1>6. CASE \E begun \in BOOLEAN : NativeStart(begun)
  BY <1>6, NativeStartKeeps_Failed, NativeStartKeeps_Started
<1>7. CASE StartCommit
  BY <1>7, StartCommitKeeps
<1>8. CASE StreamStop
  BY <1>8, StreamStopKeeps_Mine, StreamStopKeeps_Again, StreamStopKeeps_Refused
<1>9. CASE StopVerify
  BY <1>9, StopVerifyKeeps
<1>10. CASE StreamSignal
  BY <1>10, StreamSignalKeeps
<1>11. CASE CommandEnd
  BY <1>11, CommandEndKeeps
<1>12. CASE CommandComplete
  BY <1>12, CommandCompleteKeeps
<1>13. CASE CommandAnswer
  BY <1>13, CommandAnswerKeeps
<1> QED
  BY <1>1, <1>2, <1>3, <1>4, <1>5, <1>6, <1>7, <1>8, <1>9, <1>10, <1>11, <1>12, <1>13
  DEF CommandStep

LEMMA StreamsNextKeeps ==
  ASSUME StreamsInv, [StreamsNext]_streamVars
  PROVE  StreamsInv'
<1>1. CASE UNCHANGED streamVars
  BY <1>1, StreamsStutter
<1>2. CASE CleanStep \/ CommandStep
  BY <1>2, CleanStepKeeps, CommandStepKeeps
<1>3. CASE CallStep
  BY <1>3, CallLockKeeps, CallCleanedKeeps, RestartKeeps DEF CallStep
<1>4. CASE \E r \in scenario.requests : Deliver(r)
  BY <1>4, DeliverKeeps
<1>5. CASE \E k \in Kinds : PeerEnds(k) \/ RevokeStreamLease(k) \/ CallStopStream(k)
  BY <1>5, PeerEndsKeeps, RevokeStreamLeaseKeeps, CallStopStreamKeeps
<1>6. CASE ConnectionUp \/ ConnectionLost \/ CallStop
  BY <1>6, ConnectionUpKeeps, ConnectionLostKeeps, CallStopKeeps
<1> QED
  BY <1>1, <1>2, <1>3, <1>4, <1>5, <1>6 DEF StreamsNext

\* The invariant of the streams.
THEOREM StreamsInvariant == StreamsSpec => []StreamsInv
<1>1. StreamsInit => StreamsInv
  BY StreamsInitHolds
<1>2. StreamsInv /\ [StreamsNext]_streamVars => StreamsInv'
  BY StreamsNextKeeps
<1> QED
  BY <1>1, <1>2, PTL DEF StreamsSpec

LEMMA StreamsTypesGiven == StreamsInv => StreamsTypeOK
<1>1. ASSUME StreamsInv
      PROVE  StreamsTypeOK
  <2>1. StreamTypes /\ OpTypes /\ RoomLeft
    BY <1>1 DEF StreamsInv
  <2> QED
    BY <2>1 DEF StreamsTypeOK, StreamTypes, OpTypes, RoomLeft, Nonces
<1> QED
  BY <1>1

\* A cleanup stops and joins no instance but that of the lease it read, although it reads
\* the lease and stops the peer in separate steps (CleanupRevokedStreamsLocked).
THEOREM StopsTheRightPeer == StreamsSpec => []NoForeignStop
<1>1. ASSUME StreamsInv
      PROVE  NoForeignStop
  <2>1. PeersHeld /\ SnapHeld /\ OpOwned /\ OpTypes
    BY <1>1 DEF StreamsInv
  <2>2. op.pc \in {"stop", "record"} => Kind \in Kinds
    BY <2>1, TwoKinds DEF OpOwned, Kind
  <2> QED
    BY <2>1, <2>2 DEF NoForeignStop, PeersHeld, SnapHeld, OpAt
<1> QED
  BY <1>1, StreamsInvariant, PTL

\* The success of an exact stop, at first or as a replay, says that the very start it
\* names was accepted and joined and that nothing was started since (HandleCommand).
THEOREM StopIsEvidence == StreamsSpec => []StopMeansJoined
<1>1. ASSUME StreamsInv
      PROVE  StopMeansJoined
  <2> SUFFICES ASSUME handler.pc = "answer", handler.ok, handler.req.op = "stop",
                      handler.req.start # 0
               PROVE  LET k == handler.req.kind
                          n == handler.lease
                      IN  /\ n # 0 /\ leases[n].accepted /\ leases[n].no = handler.req.start
                          /\ n = held[k].latest /\ held[k].lease = 0 /\ peer[k] = NoPeer
    BY DEF StopMeansJoined, WorkerAt
  <2>1. StreamTypes /\ PeersHeld /\ CommandFits /\ ExactStopJoined
    BY <1>1 DEF StreamsInv
  <2>2. handler.req.kind \in Kinds
    BY <2>1 DEF CommandFits, StreamTypes, Requests
  <2>3. StopJoined(handler.req.kind, handler.lease, handler.req.start)
    BY <2>1 DEF ExactStopJoined
  <2>4. handler.lease # 0
    BY <2>1, <2>3, NonceFacts DEF StopJoined
  <2>5. peer[handler.req.kind].n = 0 /\ peer[handler.req.kind].pc = "none"
    BY <2>1, <2>2, <2>3 DEF PeersHeld, StopJoined
  <2>6. peer[handler.req.kind] = NoPeer
    BY <2>1, <2>2, <2>5 DEF StreamTypes, NoPeer
  <2> QED
    BY <2>3, <2>4, <2>6 DEF StopJoined
<1> QED
  BY <1>1, StreamsInvariant, PTL

(***************************************************************************)
(* The connection.                                                         *)
(***************************************************************************)
\* Where the worker stands while no client is attached, whoever else runs.
NoClientYet == {"exited", "connect", "connectHttp", "create", "init", "attach", "destroy",
                "isolating", "isolated", "reload"}
OtherPlaces == {"idle", "plan", "load", "http", "rotated", "apply", "decide", "retire",
                "isolate", "wait", "start", "finish"}
\* Where it holds an SDK client that is not attached.
HoldsHandle == {"attach", "destroy", "isolating"}
Clients == [gen : Nat, addr : Nat, fresh : BOOLEAN, route : Nat]

WorldTypes ==
    /\ cfg \in [addr : Nat, bound : BOOLEAN] /\ server \in Nat
    /\ online \in BOOLEAN /\ voice \in BOOLEAN /\ started \in BOOLEAN
    /\ connected \in BOOLEAN /\ generation \in Nat
    /\ failed \in [route : Nat, orphan : BOOLEAN]
    /\ stopper \in [pc : {"none", "unbound", "destroying", "joining", "stopped"}, mine : Nat]
WorkerTypes ==
    worker \in [pc : NoClientYet \cup OtherPlaces,
                snap : [addr : Nat, fresh : BOOLEAN, bound : BOOLEAN],
                route : Nat, viaRoute : BOOLEAN, from : {"connect", "refresh"}, mine : Nat]
FlagTypes ==
    flags \in [forceRefresh : BOOLEAN, reset : BOOLEAN, connecting : BOOLEAN,
               pending : BOOLEAN, restart : BOOLEAN, retryWait : BOOLEAN]
RouteTypes ==
    /\ route \in [valid : BOOLEAN, now : Nat, scheduled : BOOLEAN, refresh : Nat]
    /\ route.refresh <= route.now
RecoveryTypes ==
    recovery \in [auth : Nat, failures : Nat, transport : BOOLEAN, cooling : BOOLEAN]
ClientTypes == client # None => client \in Clients

\* A client is attached only to a started service, under the present generation, and
\* Stop destroys only what no worker holds.
Places ==
    /\ started <=> stopper.pc \in {"none", "unbound"}
    /\ worker.pc = "exited" => ~started
    /\ stopper.pc = "stopped" => worker.pc = "exited"
    /\ stopper.pc = "destroying" => worker.pc \notin HoldsHandle \cup {"init"}
    /\ client # None => started /\ worker.pc \notin NoClientYet /\ client.gen = generation

\* Every client of the SDK has exactly one owner.
HandlesOwned ==
    handles = IF client # None THEN {client.gen}
              ELSE IF worker.pc \in HoldsHandle THEN {worker.mine}
              ELSE IF stopper.pc = "destroying" THEN {stopper.mine}
              ELSE {}

\* The rejection of a generation is none of a later one.
AuthKept ==
    /\ recovery.auth <= generation
    /\ worker.pc \in {"init", "attach"} => recovery.auth < worker.mine
    /\ client # None /\ recovery.auth = client.gen => flags.reset /\ ~recovery.transport

\* A network newer than the client's is scheduled, and a round consumes only its own.
RouteKept ==
    /\ client # None /\ client.route # route.now =>
          (route.scheduled /\ flags.reset) \/ failed.route = route.now
    /\ client # None /\ client.route # route.now /\ worker.pc \in {"start", "finish"} =>
          route.scheduled /\ route.refresh # route.now
    /\ worker.pc \in {"load", "http"} /\ client # None /\ worker.viaRoute => route.scheduled
    /\ worker.pc \in {"load", "http"} /\ route.scheduled /\ route.refresh = route.now =>
          worker.viaRoute /\ worker.route = route.now

ConnectionInv ==
    /\ WorldTypes /\ WorkerTypes /\ FlagTypes /\ RouteTypes /\ RecoveryTypes /\ ClientTypes
    /\ Places /\ HandlesOwned /\ AuthKept /\ RouteKept

\* The worker goes on, holding no client, and leaves what is attached alone.
LEMMA MovesKeeps ==
  ASSUME ConnectionInv, WorkerTypes',
         FlagTypes',
         WorldTypes',
         flags.reset => flags'.reset \/ client = None,
         worker.pc \notin HoldsHandle \cup {"exited"},
         worker'.pc \notin HoldsHandle \cup {"init", "load", "http", "start", "finish"},
         worker'.pc = "exited" => ~started,
         client # None => worker'.pc \notin NoClientYet,
         UNCHANGED <<started, stopper, route, recovery, client, generation, handles, failed>>
  PROVE  ConnectionInv'
<1>1. /\ WorldTypes /\ WorkerTypes /\ FlagTypes /\ RouteTypes /\ RecoveryTypes /\ ClientTypes
      /\ Places /\ HandlesOwned /\ AuthKept /\ RouteKept
  BY DEF ConnectionInv
<1>2. RouteTypes' /\ RecoveryTypes' /\ ClientTypes'
  BY <1>1 DEF RouteTypes, RecoveryTypes, ClientTypes
<1>3. Places'
  BY <1>1 DEF Places, NoClientYet, HoldsHandle
<1>4. HandlesOwned'
  BY <1>1 DEF HandlesOwned, HoldsHandle
<1>5. AuthKept'
  BY <1>1 DEF AuthKept, HoldsHandle
<1>6. RouteKept'
  BY <1>1 DEF RouteKept
<1> QED
  BY <1>2, <1>3, <1>4, <1>5, <1>6 DEF ConnectionInv

LEMMA RouteOf ==
  ASSUME NEW valid \in BOOLEAN, NEW now \in Nat, NEW scheduled \in BOOLEAN, NEW refresh \in Nat,
         refresh <= now,
         route' = [valid |-> valid, now |-> now, scheduled |-> scheduled, refresh |-> refresh]
  PROVE  RouteTypes'
<1>1. route'.now = now /\ route'.refresh = refresh
  OBVIOUS
<1>2. route' \in [valid : BOOLEAN, now : Nat, scheduled : BOOLEAN, refresh : Nat]
  OBVIOUS
<1> QED
  BY <1>1, <1>2 DEF RouteTypes

\* What FinishCredentialRefresh leaves of the network and of the recovery.
LEMMA FinishFacts ==
  ASSUME RouteTypes, RecoveryTypes, FinishCredentialRefresh
  PROVE  /\ RouteTypes' /\ RecoveryTypes'
         /\ route'.now = route.now /\ recovery'.auth = recovery.auth /\ ~recovery'.transport
         /\ RoutePending => route' = route
         /\ ~RoutePending => ~route'.scheduled
<1>1. /\ recovery' = [recovery EXCEPT !.transport = FALSE]
      /\ route' = IF RoutePending THEN route ELSE [route EXCEPT !.scheduled = FALSE, !.refresh = 0]
  BY DEF FinishCredentialRefresh
<1>2. RecoveryTypes' /\ recovery'.auth = recovery.auth /\ ~recovery'.transport
  BY <1>1 DEF RecoveryTypes
<1>3. CASE RoutePending
  BY <1>1, <1>2, <1>3 DEF RouteTypes
<1>4. CASE ~RoutePending
  <2>1. PICK valid \in BOOLEAN, now \in Nat, scheduled \in BOOLEAN, refresh \in Nat :
          route = [valid |-> valid, now |-> now, scheduled |-> scheduled, refresh |-> refresh]
    BY DEF RouteTypes
  <2>2. route' = [route EXCEPT !.scheduled = FALSE, !.refresh = 0]
    BY <1>1, <1>4
  <2>3. route' = [valid |-> valid, now |-> now, scheduled |-> FALSE, refresh |-> 0]
    BY <2>1, <2>2
  <2>4. RouteTypes'
    BY <2>3 DEF RouteTypes
  <2> QED
    BY <1>2, <1>4, <2>1, <2>3, <2>4
<1> QED
  BY <1>3, <1>4

\* Where a StartClient that failed leaves the worker.
LEMMA StartFailedFacts ==
  ASSUME WorkerTypes, FlagTypes, started \in BOOLEAN, StartFailed
  PROVE  WorkerTypes' /\ FlagTypes' /\ worker'.pc \in {"idle", "wait"} /\ flags'.reset = flags.reset
<1>1. CASE worker.from = "refresh"
  <2>1. worker' = IdleWorker /\ flags' = [flags EXCEPT !.retryWait = @ \/ started]
    BY <1>1 DEF StartFailed, Return
  <2>2. WorkerTypes' /\ worker'.pc = "idle"
    BY <2>1 DEF WorkerTypes, IdleWorker, NoSnap, OtherPlaces, NoClientYet
  <2>3. FlagTypes' /\ flags'.reset = flags.reset
    BY <2>1 DEF FlagTypes
  <2> QED
    BY <2>2, <2>3
<1>2. CASE worker.from # "refresh"
  <2>1. worker' = [worker EXCEPT !.pc = "wait"] /\ flags' = flags
    BY <1>2 DEF StartFailed, Goto
  <2> QED
    BY <2>1 DEF WorkerTypes, FlagTypes, OtherPlaces, NoClientYet
<1> QED
  BY <1>1, <1>2

\* Detaching a client, or none, ends its generation.
LEMMA DetachFacts ==
  ASSUME generation \in Nat, RecoveryTypes, recovery.auth <= generation, Detach
  PROVE  /\ client' = None /\ connected' = FALSE /\ generation' \in Nat
         /\ RecoveryTypes' /\ recovery'.auth <= recovery.auth /\ recovery'.auth <= generation'
<1>1. /\ client' = None /\ connected' = FALSE /\ generation' = generation + 1
      /\ recovery' = [recovery EXCEPT !.auth = IF @ = generation THEN 0 ELSE @]
  BY DEF Detach
<1>2. RecoveryTypes' /\ recovery'.auth = IF recovery.auth = generation THEN 0 ELSE recovery.auth
  BY <1>1 DEF RecoveryTypes
<1>3. recovery.auth \in Nat
  BY DEF RecoveryTypes
<1> QED
  BY <1>1, <1>2, <1>3

LEMMA RebootKeeps ==
  ASSUME ConnectionInv,
         Reboot,
         UNCHANGED <<cfg, server, online>>,
         UNCHANGED <<cfg, server, online>>
  PROVE  ConnectionInv'
<1>1. /\ WorldTypes /\ WorkerTypes /\ FlagTypes /\ RouteTypes /\ RecoveryTypes /\ ClientTypes
      /\ Places /\ HandlesOwned /\ AuthKept /\ RouteKept
  BY DEF ConnectionInv
<1>2. WorldTypes'
  BY <1>1 DEF WorldTypes, Reboot, IdleWorker, NoSnap, NoStop, NoFlags, NoRoute,
    NoRecovery, NoFailure
<1>3. WorkerTypes'
  BY <1>1 DEF WorkerTypes, NoClientYet, OtherPlaces, Reboot, IdleWorker, NoSnap,
    NoStop, NoFlags, NoRoute, NoRecovery, NoFailure, WorldTypes
<1>4. FlagTypes'
  BY <1>1 DEF FlagTypes, Reboot, IdleWorker, NoSnap, NoStop, NoFlags, NoRoute,
    NoRecovery, NoFailure, WorldTypes
<1>5. RouteTypes'
  <2>1. route' = [valid |-> online, now |-> 0, scheduled |-> FALSE, refresh |-> 0]
    BY DEF Reboot, NoRoute
  <2>2. online \in BOOLEAN
    BY <1>1 DEF WorldTypes
  <2> QED
    BY <2>1, <2>2 DEF RouteTypes
<1>6. RecoveryTypes'
  BY <1>1 DEF RecoveryTypes, Reboot, IdleWorker, NoSnap, NoStop, NoFlags, NoRoute,
    NoRecovery, NoFailure, WorldTypes
<1>7. ClientTypes'
  BY <1>1 DEF ClientTypes, Reboot, IdleWorker, NoSnap, NoStop, NoFlags, NoRoute,
    NoRecovery, NoFailure, WorldTypes
<1>8. Places'
  BY <1>1 DEF Places, NoClientYet, HoldsHandle, WorkerTypes, WorldTypes, Reboot,
    IdleWorker, NoSnap, NoStop, NoFlags, NoRoute, NoRecovery, NoFailure
<1>9. HandlesOwned'
  BY <1>1 DEF HandlesOwned, HoldsHandle, WorkerTypes, Places, NoClientYet, Reboot,
    IdleWorker, NoSnap, NoStop, NoFlags, NoRoute, NoRecovery, NoFailure, WorldTypes
<1>10. AuthKept'
  BY <1>1 DEF AuthKept, WorkerTypes, Places, WorldTypes, RecoveryTypes, FlagTypes,
    NoClientYet, Reboot, IdleWorker, NoSnap, NoStop, NoFlags, NoRoute, NoRecovery,
    NoFailure
<1>11. RouteKept'
  BY <1>1 DEF RouteKept, WorkerTypes, Places, FlagTypes, RouteTypes, WorldTypes,
    Reboot, IdleWorker, NoSnap, NoStop, NoFlags, NoRoute, NoRecovery, NoFailure
<1> QED
  BY <1>2, <1>3, <1>4, <1>5, <1>6, <1>7, <1>8, <1>9, <1>10, <1>11 DEF ConnectionInv

\* A recovery that a connection made needless.
LEMMA PlanNeedlessKeeps ==
  ASSUME ConnectionInv,
         recovery.transport /\ ~route.scheduled,
         worker.pc = "plan" /\ worker' = IdleWorker,
         flags' = [flags EXCEPT !.reset = FALSE],
         recovery' = [recovery EXCEPT !.transport = FALSE],
         UNCHANGED <<cfg, server, online, voice, started, stopper, route, client, generation,
                     connected, handles, failed>>
  PROVE  ConnectionInv'
<1>1. /\ WorldTypes /\ WorkerTypes /\ FlagTypes /\ RouteTypes /\ RecoveryTypes /\ ClientTypes
      /\ Places /\ HandlesOwned /\ AuthKept /\ RouteKept
  BY DEF ConnectionInv
<1>2. WorldTypes' /\ RouteTypes' /\ ClientTypes'
  BY <1>1 DEF WorldTypes, RouteTypes, ClientTypes
<1>3. WorkerTypes'
  BY <1>1 DEF WorkerTypes, NoClientYet, OtherPlaces, IdleWorker, NoSnap
<1>4. FlagTypes'
  BY <1>1 DEF FlagTypes
<1>5. RecoveryTypes'
  BY <1>1 DEF RecoveryTypes
<1>6. Places'
  BY <1>1 DEF Places, NoClientYet, HoldsHandle, WorkerTypes, WorldTypes, IdleWorker
<1>7. HandlesOwned'
  BY <1>1 DEF HandlesOwned, HoldsHandle, WorkerTypes, Places, NoClientYet, IdleWorker
<1>8. AuthKept'
  BY <1>1 DEF AuthKept, WorkerTypes, Places, WorldTypes, RecoveryTypes, FlagTypes,
    NoClientYet, IdleWorker
<1>9. RouteKept'
  BY <1>1 DEF RouteKept, WorkerTypes, Places, FlagTypes, RouteTypes, WorldTypes,
    IdleWorker
<1> QED
  BY <1>2, <1>3, <1>4, <1>5, <1>6, <1>7, <1>8, <1>9 DEF ConnectionInv

\* A round is planned for the network and the rejection it found.
LEMMA PlanRoundKeeps ==
  ASSUME ConnectionInv,
         worker.pc = "plan",
         recovery' = [recovery EXCEPT !.auth = 0, !.failures = 0, !.cooling = TRUE],
         route' = [route EXCEPT !.refresh = IF route.scheduled THEN route.now ELSE @],
         worker' = [worker EXCEPT !.pc = "load", !.viaRoute = route.scheduled, !.route = route.now],
         UNCHANGED <<cfg, server, online, voice, started, stopper, flags, client, generation,
                     connected, handles, failed>>
  PROVE  ConnectionInv'
<1>1. /\ WorldTypes /\ WorkerTypes /\ FlagTypes /\ RouteTypes /\ RecoveryTypes /\ ClientTypes
      /\ Places /\ HandlesOwned /\ AuthKept /\ RouteKept
  BY DEF ConnectionInv
<1>2. WorldTypes' /\ FlagTypes' /\ ClientTypes'
  BY <1>1 DEF WorldTypes, FlagTypes, ClientTypes
<1>3. WorkerTypes'
  BY <1>1 DEF WorkerTypes, NoClientYet, OtherPlaces, RouteTypes
<1>4. RouteTypes'
  BY <1>1 DEF RouteTypes
<1>5. RecoveryTypes'
  BY <1>1 DEF RecoveryTypes
<1>6. Places'
  BY <1>1 DEF Places, NoClientYet, HoldsHandle, WorkerTypes, WorldTypes
<1>7. HandlesOwned'
  BY <1>1 DEF HandlesOwned, HoldsHandle, WorkerTypes, Places, NoClientYet
<1>8. AuthKept'
  BY <1>1 DEF AuthKept, WorkerTypes, Places, WorldTypes, RecoveryTypes, FlagTypes,
    NoClientYet
<1>9. RouteKept'
  BY <1>1 DEF RouteKept, WorkerTypes, Places, FlagTypes, RouteTypes, WorldTypes
<1> QED
  BY <1>2, <1>3, <1>4, <1>5, <1>6, <1>7, <1>8, <1>9 DEF ConnectionInv

LEMMA LoadedKeeps ==
  ASSUME ConnectionInv,
         worker.pc = "load",
         worker' = [worker EXCEPT !.pc = "http"],
         UNCHANGED <<cfg, server, online, voice, started, stopper, flags, route, recovery, client,
                     generation, connected, handles, failed>>
  PROVE  ConnectionInv'
<1>1. /\ WorldTypes /\ WorkerTypes /\ FlagTypes /\ RouteTypes /\ RecoveryTypes /\ ClientTypes
      /\ Places /\ HandlesOwned /\ AuthKept /\ RouteKept
  BY DEF ConnectionInv
<1>2. WorldTypes' /\ FlagTypes' /\ RouteTypes' /\ RecoveryTypes' /\ ClientTypes'
  BY <1>1 DEF WorldTypes, FlagTypes, RouteTypes, RecoveryTypes, ClientTypes
<1>3. WorkerTypes'
  BY <1>1 DEF WorkerTypes, NoClientYet, OtherPlaces
<1>4. Places'
  BY <1>1 DEF Places, NoClientYet, HoldsHandle, WorkerTypes, WorldTypes
<1>5. HandlesOwned'
  BY <1>1 DEF HandlesOwned, HoldsHandle, WorkerTypes, Places, NoClientYet
<1>6. AuthKept'
  BY <1>1 DEF AuthKept, WorkerTypes, Places, WorldTypes, RecoveryTypes, FlagTypes,
    NoClientYet
<1>7. RouteKept'
  BY <1>1 DEF RouteKept, WorkerTypes, Places, FlagTypes, RouteTypes, WorldTypes
<1> QED
  BY <1>2, <1>3, <1>4, <1>5, <1>6, <1>7 DEF ConnectionInv

\* A failed round gives up the network it was planned for, and no other.
LEMMA RoundFailedKeeps ==
  ASSUME ConnectionInv,
         worker.pc \in {"load", "http"},
         RoundFailed,
         UNCHANGED <<cfg, server, online, voice, started, stopper, client, generation, connected,
                     handles>>
  PROVE  ConnectionInv'
<1>1. /\ WorldTypes /\ WorkerTypes /\ FlagTypes /\ RouteTypes /\ RecoveryTypes /\ ClientTypes
      /\ Places /\ HandlesOwned /\ AuthKept /\ RouteKept
  BY DEF ConnectionInv
<1>2. ClientTypes'
  BY <1>1 DEF ClientTypes
<1>3. WorldTypes'
  BY <1>1 DEF WorldTypes, RoundFailed, WorkerTypes
<1>4. WorkerTypes'
  BY <1>1 DEF WorkerTypes, NoClientYet, OtherPlaces, RoundFailed, Return, IdleWorker,
    NoSnap
<1>5. FlagTypes'
  BY <1>1 DEF FlagTypes, RoundFailed, FinishedFlags, RoutePending, AuthPending,
    WorldTypes, RouteTypes
<1>6. RouteTypes'
  BY <1>1, FinishFacts DEF RouteTypes, RoundFailed
<1>7. RecoveryTypes'
  BY <1>1, FinishFacts DEF RecoveryTypes, RoundFailed
<1>8. Places'
  BY <1>1 DEF Places, NoClientYet, HoldsHandle, WorkerTypes, WorldTypes, RoundFailed,
    Return, IdleWorker
<1>9. HandlesOwned'
  BY <1>1 DEF HandlesOwned, HoldsHandle, WorkerTypes, Places, NoClientYet,
    RoundFailed, Return, IdleWorker
<1>10. AuthKept'
  BY <1>1 DEF AuthKept, WorkerTypes, Places, WorldTypes, RecoveryTypes, FlagTypes,
    NoClientYet, RoundFailed, Return, IdleWorker, FinishCredentialRefresh,
    FinishedFlags, AuthPending
<1>11. RouteKept'
  BY <1>1 DEF RouteKept, WorkerTypes, Places, FlagTypes, RouteTypes, WorldTypes,
    RoundFailed, Return, IdleWorker, FinishCredentialRefresh, FinishedFlags,
    RoutePending
<1> QED
  BY <1>2, <1>3, <1>4, <1>5, <1>6, <1>7, <1>8, <1>9, <1>10, <1>11 DEF ConnectionInv

LEMMA HttpDoneKeeps ==
  ASSUME ConnectionInv,
         cfg' \in [addr : Nat, bound : BOOLEAN],
         worker.pc = "http",
         worker' = [worker EXCEPT !.pc = "rotated"],
         (client' = None) <=> (client = None),
         client # None => /\ client' \in Clients /\ client'.gen = client.gen
                            /\ client'.route = client.route,
         UNCHANGED <<server, online, voice, started, stopper, flags, route, recovery, generation,
                     connected, handles, failed>>
  PROVE  ConnectionInv'
<1>1. /\ WorldTypes /\ WorkerTypes /\ FlagTypes /\ RouteTypes /\ RecoveryTypes /\ ClientTypes
      /\ Places /\ HandlesOwned /\ AuthKept /\ RouteKept
  BY DEF ConnectionInv
<1>2. FlagTypes' /\ RouteTypes' /\ RecoveryTypes'
  BY <1>1 DEF FlagTypes, RouteTypes, RecoveryTypes
<1>3. WorldTypes'
  BY <1>1 DEF WorldTypes
<1>4. WorkerTypes'
  BY <1>1 DEF WorkerTypes, NoClientYet, OtherPlaces
<1>5. ClientTypes'
  BY <1>1 DEF ClientTypes
<1>6. Places'
  BY <1>1 DEF Places, NoClientYet, HoldsHandle, WorkerTypes, WorldTypes
<1>7. HandlesOwned'
  BY <1>1 DEF HandlesOwned, HoldsHandle, WorkerTypes, Places, NoClientYet
<1>8. AuthKept'
  BY <1>1 DEF AuthKept, WorkerTypes, Places, WorldTypes, RecoveryTypes, FlagTypes,
    NoClientYet
<1>9. RouteKept'
  BY <1>1 DEF RouteKept, WorkerTypes, Places, FlagTypes, RouteTypes, WorldTypes
<1> QED
  BY <1>2, <1>3, <1>4, <1>5, <1>6, <1>7, <1>8, <1>9 DEF ConnectionInv

\* The client that is replaced becomes the worker's.
LEMMA RetiredKeeps ==
  ASSUME ConnectionInv,
         worker.pc \in {"retire", "isolate"} /\ client # None,
         Detach,
         WorkerTypes',
         worker'.pc \in {"destroy", "isolating"} /\ worker'.mine = client.gen,
         UNCHANGED <<cfg, server, online, voice, started, stopper, flags, route, handles, failed>>
  PROVE  ConnectionInv'
<1>1. /\ WorldTypes /\ WorkerTypes /\ FlagTypes /\ RouteTypes /\ RecoveryTypes /\ ClientTypes
      /\ Places /\ HandlesOwned /\ AuthKept /\ RouteKept
  BY DEF ConnectionInv
<1>p. /\ client' = None /\ connected' = FALSE /\ generation' \in Nat
      /\ RecoveryTypes' /\ recovery'.auth <= recovery.auth /\ recovery'.auth <= generation'
  BY <1>1, DetachFacts DEF WorldTypes, AuthKept
<1>2. FlagTypes' /\ RouteTypes'
  BY <1>1 DEF FlagTypes, RouteTypes
<1>3. WorldTypes'
  BY <1>1, <1>p DEF WorldTypes
<1>4. RecoveryTypes'
  BY <1>1, <1>p DEF RecoveryTypes
<1>5. ClientTypes'
  BY <1>1, <1>p DEF ClientTypes, Detach
<1>6. Places'
  BY <1>1, <1>p DEF Places, NoClientYet, HoldsHandle, WorkerTypes, WorldTypes, Detach
<1>7. HandlesOwned'
  BY <1>1, <1>p DEF HandlesOwned, HoldsHandle, WorkerTypes, Places, NoClientYet,
    Detach
<1>8. AuthKept'
  BY <1>1, <1>p DEF AuthKept, WorkerTypes, Places, WorldTypes, RecoveryTypes,
    FlagTypes, NoClientYet, HoldsHandle
<1>9. RouteKept'
  BY <1>1, <1>p DEF RouteKept, WorkerTypes, Places, FlagTypes, RouteTypes, WorldTypes
<1> QED
  BY <1>2, <1>3, <1>4, <1>5, <1>6, <1>7, <1>8, <1>9 DEF ConnectionInv

LEMMA DestroyedKeeps ==
  ASSUME ConnectionInv,
         worker.pc \in {"destroy", "isolating"},
         handles' = handles \ {worker.mine},
         worker'.pc \in {"idle", "isolated", "reload"},
         WorkerTypes',
         UNCHANGED <<cfg, server, online, voice, started, stopper, flags, route, recovery, client,
                     generation, connected, failed>>
  PROVE  ConnectionInv'
<1>1. /\ WorldTypes /\ WorkerTypes /\ FlagTypes /\ RouteTypes /\ RecoveryTypes /\ ClientTypes
      /\ Places /\ HandlesOwned /\ AuthKept /\ RouteKept
  BY DEF ConnectionInv
<1>2. WorldTypes' /\ FlagTypes' /\ RouteTypes' /\ RecoveryTypes' /\ ClientTypes'
  BY <1>1 DEF WorldTypes, FlagTypes, RouteTypes, RecoveryTypes, ClientTypes
<1>3. Places'
  BY <1>1 DEF Places, NoClientYet, HoldsHandle, WorkerTypes, WorldTypes
<1>4. HandlesOwned'
  BY <1>1 DEF HandlesOwned, HoldsHandle, WorkerTypes, Places, NoClientYet
<1>5. AuthKept'
  BY <1>1 DEF AuthKept, WorkerTypes, Places, WorldTypes, RecoveryTypes, FlagTypes,
    NoClientYet
<1>6. RouteKept'
  BY <1>1 DEF RouteKept, WorkerTypes, Places, FlagTypes, RouteTypes, WorldTypes
<1> QED
  BY <1>2, <1>3, <1>4, <1>5, <1>6 DEF ConnectionInv

LEMMA IsolatedKeeps ==
  ASSUME ConnectionInv,
         worker.pc = "isolated",
         Isolated,
         UNCHANGED <<cfg, server, online, voice, started, stopper, client, generation, connected,
                     handles, failed>>
  PROVE  ConnectionInv'
<1>1. /\ WorldTypes /\ WorkerTypes /\ FlagTypes /\ RouteTypes /\ RecoveryTypes /\ ClientTypes
      /\ Places /\ HandlesOwned /\ AuthKept /\ RouteKept
  BY DEF ConnectionInv
<1>2. WorldTypes' /\ ClientTypes'
  BY <1>1 DEF WorldTypes, ClientTypes
<1>3. WorkerTypes'
  BY <1>1 DEF WorkerTypes, NoClientYet, OtherPlaces, Isolated, Return, IdleWorker,
    NoSnap
<1>4. FlagTypes'
  BY <1>1 DEF FlagTypes, Isolated, FinishedFlags, RoutePending, AuthPending,
    WorldTypes, RouteTypes
<1>5. RouteTypes'
  BY <1>1, FinishFacts DEF RouteTypes, Isolated
<1>6. RecoveryTypes'
  BY <1>1, FinishFacts DEF RecoveryTypes, Isolated
<1>7. Places'
  BY <1>1 DEF Places, NoClientYet, HoldsHandle, WorkerTypes, WorldTypes, Isolated,
    Return, IdleWorker
<1>8. HandlesOwned'
  BY <1>1 DEF HandlesOwned, HoldsHandle, WorkerTypes, Places, NoClientYet, Isolated,
    Return, IdleWorker
<1>9. AuthKept'
  BY <1>1 DEF AuthKept, WorkerTypes, Places, WorldTypes, RecoveryTypes, FlagTypes,
    NoClientYet, Isolated, Return, IdleWorker, FinishCredentialRefresh
<1>10. RouteKept'
  BY <1>1 DEF RouteKept, WorkerTypes, Places, FlagTypes, RouteTypes, WorldTypes,
    Isolated, Return, IdleWorker, NoClientYet
<1> QED
  BY <1>2, <1>3, <1>4, <1>5, <1>6, <1>7, <1>8, <1>9, <1>10 DEF ConnectionInv

LEMMA ConnectLoadedKeeps ==
  ASSUME ConnectionInv,
         worker.pc = "connect",
         route' = [route EXCEPT !.refresh = IF route.scheduled THEN route.now ELSE @],
         worker'.pc \in {"wait", "connectHttp", "create"},
         WorkerTypes',
         FlagTypes',
         UNCHANGED <<cfg, server, online, voice, started, stopper, recovery, client, generation,
                     connected, handles, failed>>
  PROVE  ConnectionInv'
<1>1. /\ WorldTypes /\ WorkerTypes /\ FlagTypes /\ RouteTypes /\ RecoveryTypes /\ ClientTypes
      /\ Places /\ HandlesOwned /\ AuthKept /\ RouteKept
  BY DEF ConnectionInv
<1>2. WorldTypes' /\ RecoveryTypes' /\ ClientTypes'
  BY <1>1 DEF WorldTypes, RecoveryTypes, ClientTypes
<1>3. RouteTypes'
  BY <1>1 DEF RouteTypes
<1>4. Places'
  BY <1>1 DEF Places, NoClientYet, HoldsHandle, WorkerTypes, WorldTypes
<1>5. HandlesOwned'
  BY <1>1 DEF HandlesOwned, HoldsHandle, WorkerTypes, Places, NoClientYet
<1>6. AuthKept'
  BY <1>1 DEF AuthKept, WorkerTypes, Places, WorldTypes, RecoveryTypes, FlagTypes,
    NoClientYet
<1>7. RouteKept'
  BY <1>1 DEF RouteKept, WorkerTypes, Places, FlagTypes, RouteTypes, WorldTypes,
    NoClientYet
<1> QED
  BY <1>2, <1>3, <1>4, <1>5, <1>6, <1>7 DEF ConnectionInv

LEMMA CreatedKeeps ==
  ASSUME ConnectionInv,
         worker.pc = "create" /\ client = None /\ started,
         generation' = generation + 1,
         WorkerTypes',
         worker'.pc = "init" /\ worker'.mine = generation + 1,
         UNCHANGED <<cfg, server, online, voice, started, stopper, flags, route, recovery, client,
                     connected, handles, failed>>
  PROVE  ConnectionInv'
<1>1. /\ WorldTypes /\ WorkerTypes /\ FlagTypes /\ RouteTypes /\ RecoveryTypes /\ ClientTypes
      /\ Places /\ HandlesOwned /\ AuthKept /\ RouteKept
  BY DEF ConnectionInv
<1>2. FlagTypes' /\ RouteTypes' /\ RecoveryTypes' /\ ClientTypes'
  BY <1>1 DEF FlagTypes, RouteTypes, RecoveryTypes, ClientTypes
<1>3. WorldTypes'
  BY <1>1 DEF WorldTypes
<1>4. Places'
  BY <1>1 DEF Places, NoClientYet, HoldsHandle, WorkerTypes, WorldTypes
<1>5. HandlesOwned'
  BY <1>1 DEF HandlesOwned, HoldsHandle, WorkerTypes, Places, NoClientYet
<1>6. AuthKept'
  BY <1>1 DEF AuthKept, WorkerTypes, Places, WorldTypes, RecoveryTypes, FlagTypes,
    NoClientYet
<1>7. RouteKept'
  BY <1>1 DEF RouteKept, WorkerTypes, Places, FlagTypes, RouteTypes, WorldTypes
<1> QED
  BY <1>2, <1>3, <1>4, <1>5, <1>6, <1>7 DEF ConnectionInv

LEMMA InitialisedKeeps ==
  ASSUME ConnectionInv,
         worker.pc = "init",
         worker' = [worker EXCEPT !.pc = "attach"],
         handles' = handles \cup {worker.mine},
         UNCHANGED <<cfg, server, online, voice, started, stopper, flags, route, recovery, client,
                     generation, connected, failed>>
  PROVE  ConnectionInv'
<1>1. /\ WorldTypes /\ WorkerTypes /\ FlagTypes /\ RouteTypes /\ RecoveryTypes /\ ClientTypes
      /\ Places /\ HandlesOwned /\ AuthKept /\ RouteKept
  BY DEF ConnectionInv
<1>2. WorldTypes' /\ FlagTypes' /\ RouteTypes' /\ RecoveryTypes' /\ ClientTypes'
  BY <1>1 DEF WorldTypes, FlagTypes, RouteTypes, RecoveryTypes, ClientTypes
<1>3. WorkerTypes'
  BY <1>1 DEF WorkerTypes, NoClientYet, OtherPlaces
<1>4. Places'
  BY <1>1 DEF Places, NoClientYet, HoldsHandle, WorkerTypes, WorldTypes
<1>5. HandlesOwned'
  BY <1>1 DEF HandlesOwned, HoldsHandle, WorkerTypes, Places, NoClientYet
<1>6. AuthKept'
  BY <1>1 DEF AuthKept, WorkerTypes, Places, WorldTypes, RecoveryTypes, FlagTypes,
    NoClientYet
<1>7. RouteKept'
  BY <1>1 DEF RouteKept, WorkerTypes, Places, FlagTypes, RouteTypes, WorldTypes
<1> QED
  BY <1>2, <1>3, <1>4, <1>5, <1>6, <1>7 DEF ConnectionInv

LEMMA AttachedKeeps ==
  ASSUME ConnectionInv,
         worker.pc = "attach" /\ Fence,
         client' = [gen |-> worker.mine, addr |-> worker.snap.addr, fresh |-> TRUE,
                    route |-> worker.route],
         failed' = [failed EXCEPT !.orphan = FALSE],
         worker' = [worker EXCEPT !.pc = "start"],
         UNCHANGED <<cfg, server, online, voice, started, stopper, flags, route, recovery,
                     generation, connected, handles>>
  PROVE  ConnectionInv'
<1>1. /\ WorldTypes /\ WorkerTypes /\ FlagTypes /\ RouteTypes /\ RecoveryTypes /\ ClientTypes
      /\ Places /\ HandlesOwned /\ AuthKept /\ RouteKept
  BY DEF ConnectionInv
<1>p. client' \in Clients /\ client' # None /\ client'.gen = worker.mine /\ client'.route = worker.route
  <2>1. worker.mine \in Nat /\ worker.route \in Nat
        /\ worker.snap \in [addr : Nat, fresh : BOOLEAN, bound : BOOLEAN]
    BY <1>1 DEF WorkerTypes
  <2>2. worker.snap.addr \in Nat
    BY <2>1
  <2>3. client' \in Clients /\ client'.gen = worker.mine /\ client'.route = worker.route
    BY <2>1, <2>2 DEF Clients
  <2> QED
    BY <2>3, NoneAssumption DEF Clients
<1>2. FlagTypes' /\ RouteTypes' /\ RecoveryTypes'
  BY <1>1 DEF FlagTypes, RouteTypes, RecoveryTypes
<1>3. WorldTypes'
  BY <1>1, <1>p DEF WorldTypes
<1>4. WorkerTypes'
  BY <1>1, <1>p DEF WorkerTypes, NoClientYet, OtherPlaces
<1>5. ClientTypes'
  BY <1>1, <1>p DEF ClientTypes
<1>6. Places'
  BY <1>1, <1>p DEF Places, NoClientYet, HoldsHandle, WorkerTypes, WorldTypes, Fence
<1>7. HandlesOwned'
  BY <1>1, <1>p DEF HandlesOwned, HoldsHandle, WorkerTypes, Places, NoClientYet
<1>8. AuthKept'
  BY <1>1, <1>p DEF AuthKept, WorkerTypes, Places, WorldTypes, RecoveryTypes,
    FlagTypes, NoClientYet, Fence
<1>9. RouteKept'
  BY <1>1, <1>p DEF RouteKept, WorkerTypes, Places, FlagTypes, RouteTypes, WorldTypes,
    Fence
<1> QED
  BY <1>2, <1>3, <1>4, <1>5, <1>6, <1>7, <1>8, <1>9 DEF ConnectionInv

LEMMA AttachFailedKeeps ==
  ASSUME ConnectionInv,
         worker.pc = "attach",
         handles' = handles \ {worker.mine},
         WorkerTypes' /\ FlagTypes',
         flags'.reset = flags.reset,
         worker'.pc \in {"idle", "wait"},
         UNCHANGED <<cfg, server, online, voice, started, stopper, route, recovery, client,
                     generation, connected, failed>>
  PROVE  ConnectionInv'
<1>1. /\ WorldTypes /\ WorkerTypes /\ FlagTypes /\ RouteTypes /\ RecoveryTypes /\ ClientTypes
      /\ Places /\ HandlesOwned /\ AuthKept /\ RouteKept
  BY DEF ConnectionInv
<1>2. WorldTypes' /\ RouteTypes' /\ RecoveryTypes' /\ ClientTypes'
  BY <1>1 DEF WorldTypes, RouteTypes, RecoveryTypes, ClientTypes
<1>3. Places'
  BY <1>1 DEF Places, NoClientYet, HoldsHandle, WorkerTypes, WorldTypes
<1>4. HandlesOwned'
  BY <1>1 DEF HandlesOwned, HoldsHandle, WorkerTypes, Places, NoClientYet
<1>5. AuthKept'
  BY <1>1 DEF AuthKept, WorkerTypes, Places, WorldTypes, RecoveryTypes, FlagTypes,
    NoClientYet
<1>6. RouteKept'
  BY <1>1 DEF RouteKept, WorkerTypes, Places, FlagTypes, RouteTypes, WorldTypes
<1> QED
  BY <1>2, <1>3, <1>4, <1>5, <1>6 DEF ConnectionInv

LEMMA StartedKeeps ==
  ASSUME ConnectionInv,
         worker.pc = "start",
         worker' = [worker EXCEPT !.pc = "finish"],
         UNCHANGED <<cfg, server, online, voice, started, stopper, flags, route, recovery, client,
                     generation, connected, handles, failed>>
  PROVE  ConnectionInv'
<1>1. /\ WorldTypes /\ WorkerTypes /\ FlagTypes /\ RouteTypes /\ RecoveryTypes /\ ClientTypes
      /\ Places /\ HandlesOwned /\ AuthKept /\ RouteKept
  BY DEF ConnectionInv
<1>2. WorldTypes' /\ FlagTypes' /\ RouteTypes' /\ RecoveryTypes' /\ ClientTypes'
  BY <1>1 DEF WorldTypes, FlagTypes, RouteTypes, RecoveryTypes, ClientTypes
<1>3. WorkerTypes'
  BY <1>1 DEF WorkerTypes, NoClientYet, OtherPlaces
<1>4. Places'
  BY <1>1 DEF Places, NoClientYet, HoldsHandle, WorkerTypes, WorldTypes
<1>5. HandlesOwned'
  BY <1>1 DEF HandlesOwned, HoldsHandle, WorkerTypes, Places, NoClientYet
<1>6. AuthKept'
  BY <1>1 DEF AuthKept, WorkerTypes, Places, WorldTypes, RecoveryTypes, FlagTypes,
    NoClientYet
<1>7. RouteKept'
  BY <1>1 DEF RouteKept, WorkerTypes, Places, FlagTypes, RouteTypes, WorldTypes
<1> QED
  BY <1>2, <1>3, <1>4, <1>5, <1>6, <1>7 DEF ConnectionInv

LEMMA StartFailedKeeps ==
  ASSUME ConnectionInv,
         worker.pc = "start" /\ client # None /\ client.gen = worker.mine,
         Detach,
         handles' = handles \ {worker.mine},
         WorkerTypes' /\ FlagTypes',
         flags'.reset = flags.reset,
         worker'.pc \in {"idle", "wait"},
         UNCHANGED <<cfg, server, online, voice, started, stopper, route, failed>>
  PROVE  ConnectionInv'
<1>1. /\ WorldTypes /\ WorkerTypes /\ FlagTypes /\ RouteTypes /\ RecoveryTypes /\ ClientTypes
      /\ Places /\ HandlesOwned /\ AuthKept /\ RouteKept
  BY DEF ConnectionInv
<1>p. /\ client' = None /\ connected' = FALSE /\ generation' \in Nat
      /\ RecoveryTypes' /\ recovery'.auth <= recovery.auth /\ recovery'.auth <= generation'
  BY <1>1, DetachFacts DEF WorldTypes, AuthKept
<1>2. RouteTypes'
  BY <1>1 DEF RouteTypes
<1>3. WorldTypes'
  BY <1>1, <1>p DEF WorldTypes
<1>4. RecoveryTypes'
  BY <1>1, <1>p DEF RecoveryTypes
<1>5. ClientTypes'
  BY <1>1, <1>p DEF ClientTypes
<1>6. Places'
  BY <1>1, <1>p DEF Places, NoClientYet, HoldsHandle, WorkerTypes, WorldTypes
<1>7. HandlesOwned'
  BY <1>1, <1>p DEF HandlesOwned, HoldsHandle, WorkerTypes, Places, NoClientYet
<1>8. AuthKept'
  BY <1>1, <1>p DEF AuthKept, WorkerTypes, Places, WorldTypes, RecoveryTypes,
    FlagTypes, NoClientYet
<1>9. RouteKept'
  BY <1>1, <1>p DEF RouteKept, WorkerTypes, Places, FlagTypes, RouteTypes, WorldTypes
<1> QED
  BY <1>2, <1>3, <1>4, <1>5, <1>6, <1>7, <1>8, <1>9 DEF ConnectionInv

\* A finished round consumes the network and the rejection it served.
LEMMA FinishedKeeps ==
  ASSUME ConnectionInv,
         worker.pc = "finish",
         FinishCredentialRefresh,
         WorkerTypes' /\ FlagTypes',
         worker'.pc \in {"idle", "wait"},
         flags'.reset = (RoutePending \/ AuthPending),
         UNCHANGED <<cfg, server, online, voice, started, stopper, client, generation, connected,
                     handles, failed>>
  PROVE  ConnectionInv'
<1>1. /\ WorldTypes /\ WorkerTypes /\ FlagTypes /\ RouteTypes /\ RecoveryTypes /\ ClientTypes
      /\ Places /\ HandlesOwned /\ AuthKept /\ RouteKept
  BY DEF ConnectionInv
<1>2. WorldTypes' /\ ClientTypes'
  BY <1>1 DEF WorldTypes, ClientTypes
<1>3. RouteTypes'
  BY <1>1, FinishFacts DEF RouteTypes
<1>4. RecoveryTypes'
  BY <1>1, FinishFacts DEF RecoveryTypes
<1>5. Places'
  BY <1>1 DEF Places, NoClientYet, HoldsHandle, WorkerTypes, WorldTypes
<1>6. HandlesOwned'
  BY <1>1 DEF HandlesOwned, HoldsHandle, WorkerTypes, Places, NoClientYet
<1>7. AuthKept'
  BY <1>1, FinishFacts DEF AuthKept, WorkerTypes, Places, WorldTypes, RecoveryTypes,
    FlagTypes, NoClientYet, AuthPending
<1>8. RouteKept'
  BY <1>1, FinishFacts DEF RouteKept, WorkerTypes, Places, FlagTypes, RouteTypes,
    WorldTypes, RoutePending
<1> QED
  BY <1>2, <1>3, <1>4, <1>5, <1>6, <1>7, <1>8 DEF ConnectionInv

\* What neither the worker nor the client sees.
LEMMA WorldKeeps ==
  ASSUME ConnectionInv,
         WorldTypes',
         UNCHANGED <<started, stopper, worker, flags, route, recovery, client, generation,
                     handles, failed>>
  PROVE  ConnectionInv'
<1>1. /\ WorldTypes /\ WorkerTypes /\ FlagTypes /\ RouteTypes /\ RecoveryTypes /\ ClientTypes
      /\ Places /\ HandlesOwned /\ AuthKept /\ RouteKept
  BY DEF ConnectionInv
<1>2. WorkerTypes' /\ FlagTypes' /\ RouteTypes' /\ RecoveryTypes' /\ ClientTypes' /\
        Places' /\ HandlesOwned' /\ AuthKept' /\ RouteKept'
  BY <1>1 DEF WorkerTypes, FlagTypes, RouteTypes, RecoveryTypes, ClientTypes, Places,
    HandlesOwned, AuthKept, RouteKept
<1> QED
  BY <1>2 DEF ConnectionInv

LEMMA ConnectedKeeps ==
  ASSUME ConnectionInv,
         WorldTypes',
         RecoveryTypes',
         recovery'.auth = recovery.auth /\ recovery'.transport = recovery.transport,
         UNCHANGED <<cfg, server, online, voice, started, stopper, worker, flags, route, client,
                     generation, handles, failed>>
  PROVE  ConnectionInv'
<1>1. /\ WorldTypes /\ WorkerTypes /\ FlagTypes /\ RouteTypes /\ RecoveryTypes /\ ClientTypes
      /\ Places /\ HandlesOwned /\ AuthKept /\ RouteKept
  BY DEF ConnectionInv
<1>2. WorkerTypes' /\ FlagTypes' /\ RouteTypes' /\ ClientTypes' /\ Places' /\
        HandlesOwned' /\ RouteKept'
  BY <1>1 DEF WorkerTypes, FlagTypes, RouteTypes, ClientTypes, Places, HandlesOwned,
    RouteKept
<1>3. AuthKept'
  BY <1>1 DEF AuthKept, WorkerTypes, Places, WorldTypes, RecoveryTypes, FlagTypes,
    NoClientYet
<1> QED
  BY <1>2, <1>3 DEF ConnectionInv

LEMMA RejectedKeeps ==
  ASSUME ConnectionInv,
         client # None,
         recovery' = [recovery EXCEPT !.transport = FALSE, !.auth = client.gen],
         flags' = [flags EXCEPT !.reset = TRUE],
         UNCHANGED <<cfg, server, online, voice, started, stopper, worker, route, client,
                     generation, connected, handles, failed>>
  PROVE  ConnectionInv'
<1>1. /\ WorldTypes /\ WorkerTypes /\ FlagTypes /\ RouteTypes /\ RecoveryTypes /\ ClientTypes
      /\ Places /\ HandlesOwned /\ AuthKept /\ RouteKept
  BY DEF ConnectionInv
<1>2. WorldTypes' /\ WorkerTypes' /\ RouteTypes' /\ ClientTypes' /\ Places' /\
        HandlesOwned'
  BY <1>1 DEF WorldTypes, WorkerTypes, RouteTypes, ClientTypes, Places, HandlesOwned
<1>3. FlagTypes'
  BY <1>1 DEF FlagTypes
<1>4. RecoveryTypes'
  BY <1>1 DEF RecoveryTypes, ClientTypes, Clients
<1>5. AuthKept'
  BY <1>1 DEF AuthKept, WorkerTypes, Places, WorldTypes, RecoveryTypes, FlagTypes,
    NoClientYet
<1>6. RouteKept'
  BY <1>1 DEF RouteKept, WorkerTypes, Places, FlagTypes, RouteTypes, WorldTypes
<1> QED
  BY <1>2, <1>3, <1>4, <1>5, <1>6 DEF ConnectionInv

LEMMA TransportDueKeeps ==
  ASSUME ConnectionInv,
         ~flags.reset,
         recovery' = [recovery EXCEPT !.transport = TRUE],
         flags' = [flags EXCEPT !.reset = TRUE],
         UNCHANGED <<cfg, server, online, voice, started, stopper, worker, route, client,
                     generation, connected, handles, failed>>
  PROVE  ConnectionInv'
<1>1. /\ WorldTypes /\ WorkerTypes /\ FlagTypes /\ RouteTypes /\ RecoveryTypes /\ ClientTypes
      /\ Places /\ HandlesOwned /\ AuthKept /\ RouteKept
  BY DEF ConnectionInv
<1>2. WorldTypes' /\ WorkerTypes' /\ RouteTypes' /\ ClientTypes' /\ Places' /\
        HandlesOwned'
  BY <1>1 DEF WorldTypes, WorkerTypes, RouteTypes, ClientTypes, Places, HandlesOwned
<1>3. FlagTypes'
  BY <1>1 DEF FlagTypes
<1>4. RecoveryTypes'
  BY <1>1 DEF RecoveryTypes
<1>5. AuthKept'
  BY <1>1 DEF AuthKept, WorkerTypes, Places, WorldTypes, RecoveryTypes, FlagTypes,
    NoClientYet
<1>6. RouteKept'
  BY <1>1 DEF RouteKept, WorkerTypes, Places, FlagTypes, RouteTypes, WorldTypes
<1> QED
  BY <1>2, <1>3, <1>4, <1>5, <1>6 DEF ConnectionInv

LEMMA SameNetworkKeeps ==
  ASSUME ConnectionInv,
         WorldTypes' /\ FlagTypes',
         flags'.reset = flags.reset,
         failed'.route = failed.route,
         UNCHANGED <<cfg, voice, started, stopper, worker, route, recovery, client, generation,
                     connected, handles>>
  PROVE  ConnectionInv'
<1>1. /\ WorldTypes /\ WorkerTypes /\ FlagTypes /\ RouteTypes /\ RecoveryTypes /\ ClientTypes
      /\ Places /\ HandlesOwned /\ AuthKept /\ RouteKept
  BY DEF ConnectionInv
<1>2. WorkerTypes' /\ RouteTypes' /\ RecoveryTypes' /\ ClientTypes' /\ Places' /\
        HandlesOwned'
  BY <1>1 DEF WorkerTypes, RouteTypes, RecoveryTypes, ClientTypes, Places,
    HandlesOwned
<1>3. AuthKept'
  BY <1>1 DEF AuthKept, WorkerTypes, Places, WorldTypes, RecoveryTypes, FlagTypes,
    NoClientYet
<1>4. RouteKept'
  BY <1>1 DEF RouteKept, WorkerTypes, Places, FlagTypes, RouteTypes, WorldTypes
<1> QED
  BY <1>2, <1>3, <1>4 DEF ConnectionInv

\* A network that changed is newer than every client and every round.
LEMMA NewNetworkKeeps ==
  ASSUME ConnectionInv,
         WorldTypes',
         failed'.route = failed.route,
         started,
         NEW refresh \in BOOLEAN,
         client # None => refresh,
         route' = [route EXCEPT !.valid = TRUE, !.now = @ + 1, !.scheduled = @ \/ refresh],
         flags' = IF refresh THEN [flags EXCEPT !.reset = TRUE]
                  ELSE [flags EXCEPT !.connecting = @ \/ client = None],
         UNCHANGED <<cfg, voice, started, stopper, worker, recovery, client, generation,
                     connected, handles>>
  PROVE  ConnectionInv'
<1>1. /\ WorldTypes /\ WorkerTypes /\ FlagTypes /\ RouteTypes /\ RecoveryTypes /\ ClientTypes
      /\ Places /\ HandlesOwned /\ AuthKept /\ RouteKept
  BY DEF ConnectionInv
<1>2. WorkerTypes' /\ RecoveryTypes' /\ ClientTypes' /\ Places' /\ HandlesOwned'
  BY <1>1 DEF WorkerTypes, RecoveryTypes, ClientTypes, Places, HandlesOwned
<1>3. FlagTypes'
  BY <1>1 DEF FlagTypes
<1>4. RouteTypes'
  <2>1. PICK valid \in BOOLEAN, now \in Nat, scheduled \in BOOLEAN, old \in Nat :
          route = [valid |-> valid, now |-> now, scheduled |-> scheduled, refresh |-> old]
    BY <1>1 DEF RouteTypes
  <2>2. route' = [valid |-> TRUE, now |-> now + 1, scheduled |-> scheduled \/ refresh, refresh |-> old]
    BY <2>1
  <2>3. old <= now
    BY <1>1, <2>1 DEF RouteTypes
  <2>4. now + 1 \in Nat /\ (scheduled \/ refresh) \in BOOLEAN /\ old <= now + 1
    BY <2>3
  <2> QED
    BY <2>2, <2>4, RouteOf
<1>5. AuthKept'
  BY <1>1 DEF AuthKept, WorkerTypes, Places, WorldTypes, RecoveryTypes, FlagTypes,
    NoClientYet
<1>6. RouteKept'
  BY <1>1 DEF RouteKept, WorkerTypes, Places, FlagTypes, RouteTypes, WorldTypes
<1> QED
  BY <1>2, <1>3, <1>4, <1>5, <1>6 DEF ConnectionInv

\* A credential that is no longer the latest.
LEMMA AgedKeeps ==
  ASSUME ConnectionInv,
         WorldTypes',
         (started <=> stopper'.pc \in {"none", "unbound"}),
         stopper' = stopper \/ (stopper.pc = "none" /\ stopper'.pc = "unbound"),
         WorkerTypes',
         UNCHANGED <<worker.pc, worker.mine, worker.route, worker.viaRoute>>,
         (client' = None) <=> (client = None),
         client # None => /\ client' \in Clients /\ client'.gen = client.gen
                            /\ client'.route = client.route,
         UNCHANGED <<online, voice, started, flags, route, recovery, generation, connected,
                     handles, failed>>
  PROVE  ConnectionInv'
<1>1. /\ WorldTypes /\ WorkerTypes /\ FlagTypes /\ RouteTypes /\ RecoveryTypes /\ ClientTypes
      /\ Places /\ HandlesOwned /\ AuthKept /\ RouteKept
  BY DEF ConnectionInv
<1>2. FlagTypes' /\ RouteTypes' /\ RecoveryTypes'
  BY <1>1 DEF FlagTypes, RouteTypes, RecoveryTypes
<1>3. ClientTypes'
  BY <1>1 DEF ClientTypes
<1>4. Places'
  BY <1>1 DEF Places, NoClientYet, HoldsHandle, WorkerTypes, WorldTypes
<1>5. HandlesOwned'
  BY <1>1 DEF HandlesOwned, HoldsHandle, WorkerTypes, Places, NoClientYet
<1>6. AuthKept'
  BY <1>1 DEF AuthKept, WorkerTypes, Places, WorldTypes, RecoveryTypes, FlagTypes,
    NoClientYet
<1>7. RouteKept'
  BY <1>1 DEF RouteKept, WorkerTypes, Places, FlagTypes, RouteTypes, WorldTypes
<1> QED
  BY <1>2, <1>3, <1>4, <1>5, <1>6, <1>7 DEF ConnectionInv

LEMMA FlagsKeep ==
  ASSUME ConnectionInv,
         FlagTypes',
         flags'.reset = flags.reset,
         UNCHANGED <<cfg, server, online, voice, started, stopper, worker, route, recovery,
                     client, generation, connected, handles, failed>>
  PROVE  ConnectionInv'
<1>1. /\ WorldTypes /\ WorkerTypes /\ FlagTypes /\ RouteTypes /\ RecoveryTypes /\ ClientTypes
      /\ Places /\ HandlesOwned /\ AuthKept /\ RouteKept
  BY DEF ConnectionInv
<1>2. WorldTypes' /\ WorkerTypes' /\ RouteTypes' /\ RecoveryTypes' /\ ClientTypes' /\
        Places' /\ HandlesOwned'
  BY <1>1 DEF WorldTypes, WorkerTypes, RouteTypes, RecoveryTypes, ClientTypes, Places,
    HandlesOwned
<1>3. AuthKept'
  BY <1>1 DEF AuthKept, WorkerTypes, Places, WorldTypes, RecoveryTypes, FlagTypes,
    NoClientYet
<1>4. RouteKept'
  BY <1>1 DEF RouteKept, WorkerTypes, Places, FlagTypes, RouteTypes, WorldTypes
<1> QED
  BY <1>2, <1>3, <1>4 DEF ConnectionInv

LEMMA StopTakesKeeps ==
  ASSUME ConnectionInv,
         stopper.pc = "unbound",
         started' = FALSE,
         Detach,
         stopper' = IF client = None THEN [pc |-> "joining", mine |-> 0]
                    ELSE [pc |-> "destroying", mine |-> client.gen],
         UNCHANGED <<cfg, server, online, voice, worker, flags, route, handles, failed>>
  PROVE  ConnectionInv'
<1>1. /\ WorldTypes /\ WorkerTypes /\ FlagTypes /\ RouteTypes /\ RecoveryTypes /\ ClientTypes
      /\ Places /\ HandlesOwned /\ AuthKept /\ RouteKept
  BY DEF ConnectionInv
<1>p. /\ client' = None /\ connected' = FALSE /\ generation' \in Nat
      /\ RecoveryTypes' /\ recovery'.auth <= recovery.auth /\ recovery'.auth <= generation'
  BY <1>1, DetachFacts DEF WorldTypes, AuthKept
<1>2. WorkerTypes' /\ FlagTypes' /\ RouteTypes'
  BY <1>1 DEF WorkerTypes, FlagTypes, RouteTypes
<1>3. WorldTypes'
  BY <1>1, <1>p DEF WorldTypes, ClientTypes, Clients
<1>4. RecoveryTypes'
  BY <1>1, <1>p DEF RecoveryTypes
<1>5. ClientTypes'
  BY <1>1, <1>p DEF ClientTypes
<1>6. Places'
  BY <1>1, <1>p DEF Places, NoClientYet, HoldsHandle, WorkerTypes, WorldTypes
<1>7. HandlesOwned'
  BY <1>1, <1>p DEF HandlesOwned, HoldsHandle, WorkerTypes, Places, NoClientYet
<1>8. AuthKept'
  BY <1>1, <1>p DEF AuthKept, WorkerTypes, Places, WorldTypes, RecoveryTypes,
    FlagTypes, NoClientYet
<1>9. RouteKept'
  BY <1>1, <1>p DEF RouteKept, WorkerTypes, Places, FlagTypes, RouteTypes, WorldTypes
<1> QED
  BY <1>2, <1>3, <1>4, <1>5, <1>6, <1>7, <1>8, <1>9 DEF ConnectionInv

LEMMA StopDestroyedKeeps ==
  ASSUME ConnectionInv,
         stopper.pc = "destroying",
         handles' = handles \ {stopper.mine},
         stopper' = [stopper EXCEPT !.pc = "joining"],
         UNCHANGED <<cfg, server, online, voice, started, worker, flags, route, recovery, client,
                     generation, connected, failed>>
  PROVE  ConnectionInv'
<1>1. /\ WorldTypes /\ WorkerTypes /\ FlagTypes /\ RouteTypes /\ RecoveryTypes /\ ClientTypes
      /\ Places /\ HandlesOwned /\ AuthKept /\ RouteKept
  BY DEF ConnectionInv
<1>2. WorkerTypes' /\ FlagTypes' /\ RouteTypes' /\ RecoveryTypes' /\ ClientTypes' /\
        AuthKept' /\ RouteKept'
  BY <1>1 DEF WorkerTypes, FlagTypes, RouteTypes, RecoveryTypes, ClientTypes,
    AuthKept, RouteKept
<1>3. WorldTypes'
  BY <1>1 DEF WorldTypes
<1>4. Places'
  BY <1>1 DEF Places, NoClientYet, HoldsHandle, WorkerTypes, WorldTypes
<1>5. HandlesOwned'
  BY <1>1 DEF HandlesOwned, HoldsHandle, WorkerTypes, Places, NoClientYet
<1> QED
  BY <1>2, <1>3, <1>4, <1>5 DEF ConnectionInv

LEMMA StopReturnedKeeps ==
  ASSUME ConnectionInv,
         stopper.pc = "joining" /\ worker.pc = "exited",
         stopper' = [stopper EXCEPT !.pc = "stopped"],
         flags' = [NoFlags EXCEPT !.forceRefresh = flags.forceRefresh],
         route' = [NoRoute EXCEPT !.now = route.now + 1],
         recovery' = NoRecovery,
         UNCHANGED <<cfg, server, online, voice, started, worker, client, generation, connected,
                     handles, failed>>
  PROVE  ConnectionInv'
<1>1. /\ WorldTypes /\ WorkerTypes /\ FlagTypes /\ RouteTypes /\ RecoveryTypes /\ ClientTypes
      /\ Places /\ HandlesOwned /\ AuthKept /\ RouteKept
  BY DEF ConnectionInv
<1>2. WorkerTypes' /\ ClientTypes'
  BY <1>1 DEF WorkerTypes, ClientTypes
<1>3. WorldTypes'
  BY <1>1 DEF WorldTypes
<1>4. FlagTypes'
  BY <1>1 DEF FlagTypes, NoFlags
<1>5. RouteTypes'
  <2>1. route.now \in Nat
    BY <1>1 DEF RouteTypes
  <2>2. route' = [valid |-> FALSE, now |-> route.now + 1, scheduled |-> FALSE, refresh |-> 0]
    BY DEF NoRoute
  <2>3. route.now + 1 \in Nat /\ 0 <= route.now + 1
    BY <2>1
  <2> QED
    BY <2>2, <2>3, RouteOf
<1>6. RecoveryTypes'
  BY <1>1 DEF RecoveryTypes, NoRecovery
<1>7. Places'
  BY <1>1 DEF Places, NoClientYet, HoldsHandle, WorkerTypes, WorldTypes
<1>8. HandlesOwned'
  BY <1>1 DEF HandlesOwned, HoldsHandle, WorkerTypes, Places, NoClientYet
<1>9. AuthKept'
  BY <1>1 DEF AuthKept, WorkerTypes, Places, WorldTypes, RecoveryTypes, FlagTypes,
    NoClientYet, NoRecovery
<1>10. RouteKept'
  BY <1>1 DEF RouteKept, WorkerTypes, Places, FlagTypes, RouteTypes, WorldTypes,
    NoClientYet
<1> QED
  BY <1>2, <1>3, <1>4, <1>5, <1>6, <1>7, <1>8, <1>9, <1>10 DEF ConnectionInv

LEMMA StartedAgainKeeps ==
  ASSUME ConnectionInv,
         stopper.pc = "stopped",
         WorldTypes',
         FlagTypes',
         stopper' = NoStop /\ started' = TRUE /\ worker' = IdleWorker,
         online \in BOOLEAN,
         route' = [route EXCEPT !.valid = online],
         UNCHANGED <<server, online, voice, recovery, client, generation, connected, handles>>
  PROVE  ConnectionInv'
<1>1. /\ WorldTypes /\ WorkerTypes /\ FlagTypes /\ RouteTypes /\ RecoveryTypes /\ ClientTypes
      /\ Places /\ HandlesOwned /\ AuthKept /\ RouteKept
  BY DEF ConnectionInv
<1>2. RecoveryTypes' /\ ClientTypes'
  BY <1>1 DEF RecoveryTypes, ClientTypes
<1>3. WorkerTypes'
  BY <1>1 DEF WorkerTypes, NoClientYet, OtherPlaces, IdleWorker, NoSnap
<1>4. RouteTypes'
  BY <1>1 DEF RouteTypes
<1>5. Places'
  BY <1>1 DEF Places, NoClientYet, HoldsHandle, WorkerTypes, WorldTypes, IdleWorker,
    NoStop
<1>6. HandlesOwned'
  BY <1>1 DEF HandlesOwned, HoldsHandle, WorkerTypes, Places, NoClientYet, IdleWorker,
    NoStop
<1>7. AuthKept'
  BY <1>1 DEF AuthKept, WorkerTypes, Places, WorldTypes, RecoveryTypes, FlagTypes,
    NoClientYet, IdleWorker
<1>8. RouteKept'
  BY <1>1 DEF RouteKept, WorkerTypes, Places, FlagTypes, RouteTypes, WorldTypes,
    IdleWorker
<1> QED
  BY <1>2, <1>3, <1>4, <1>5, <1>6, <1>7, <1>8 DEF ConnectionInv

LEMMA BoundAgainKeeps ==
  ASSUME ConnectionInv,
         WorldTypes',
         FlagTypes',
         flags'.reset = flags.reset,
         failed'.route = failed.route,
         UNCHANGED <<server, online, voice, started, stopper, worker, route, recovery, client,
                     generation, connected, handles>>
  PROVE  ConnectionInv'
<1>1. /\ WorldTypes /\ WorkerTypes /\ FlagTypes /\ RouteTypes /\ RecoveryTypes /\ ClientTypes
      /\ Places /\ HandlesOwned /\ AuthKept /\ RouteKept
  BY DEF ConnectionInv
<1>2. WorkerTypes' /\ RouteTypes' /\ RecoveryTypes' /\ ClientTypes' /\ Places' /\
        HandlesOwned'
  BY <1>1 DEF WorkerTypes, RouteTypes, RecoveryTypes, ClientTypes, Places,
    HandlesOwned
<1>3. AuthKept'
  BY <1>1 DEF AuthKept, WorkerTypes, Places, WorldTypes, RecoveryTypes, FlagTypes,
    NoClientYet
<1>4. RouteKept'
  BY <1>1 DEF RouteKept, WorkerTypes, Places, FlagTypes, RouteTypes, WorldTypes
<1> QED
  BY <1>2, <1>3, <1>4 DEF ConnectionInv

\* A credential that is no longer the latest leaves its client attached.
LEMMA AgedFacts ==
  ASSUME ClientTypes, Aged
  PROVE  /\ (client' = None) <=> (client = None)
         /\ client # None => /\ client' \in Clients /\ client'.gen = client.gen
                             /\ client'.route = client.route
<1>1. CASE client = None
  BY <1>1 DEF Aged
<1>2. CASE client # None
  <2>1. client \in Clients
    BY <1>2 DEF ClientTypes
  <2>2. client' = [client EXCEPT !.fresh = FALSE]
    BY <1>2 DEF Aged
  <2>3. client' \in Clients /\ client'.gen = client.gen /\ client'.route = client.route
    BY <2>1, <2>2 DEF Clients
  <2> QED
    BY <1>2, <2>3, NoneAssumption DEF Clients
<1> QED
  BY <1>1, <1>2

LEMMA GotoTyped ==
  ASSUME WorkerTypes, NEW pc \in NoClientYet \cup OtherPlaces, Goto(pc)
  PROVE  WorkerTypes' /\ worker'.pc = pc
BY DEF Goto, WorkerTypes

LEMMA ReturnTyped ==
  ASSUME Return
  PROVE  WorkerTypes' /\ worker'.pc = "idle"
BY DEF Return, WorkerTypes, IdleWorker, NoSnap, OtherPlaces

LEMMA WorkerSet ==
  ASSUME WorkerTypes, NEW pc \in NoClientYet \cup OtherPlaces, NEW mine \in Nat,
         worker' = [worker EXCEPT !.pc = pc, !.mine = mine]
  PROVE  WorkerTypes' /\ worker'.pc = pc /\ worker'.mine = mine
BY DEF WorkerTypes

LEMMA SnapshotTyped ==
  WorldTypes => Snapshot \in [addr : Nat, fresh : BOOLEAN, bound : BOOLEAN]
BY DEF WorldTypes, Snapshot

LEMMA FinishedTyped ==
  ASSUME FlagTypes,
         flags' = FinishedFlags \/ flags' = [FinishedFlags EXCEPT !.connecting = FALSE]
  PROVE  FlagTypes' /\ flags'.reset = (RoutePending \/ AuthPending)
<1> DEFINE due == RoutePending \/ AuthPending
<1>1. due \in BOOLEAN
  OBVIOUS
<1>2. FinishedFlags = [flags EXCEPT !.pending = FALSE, !.retryWait = FALSE, !.reset = due]
  BY DEF FinishedFlags
<1> HIDE DEF due
<1>3. PICK a \in BOOLEAN, b \in BOOLEAN, c \in BOOLEAN, d \in BOOLEAN, e \in BOOLEAN,
           f \in BOOLEAN :
        flags = [forceRefresh |-> a, reset |-> b, connecting |-> c, pending |-> d,
                 restart |-> e, retryWait |-> f]
  BY DEF FlagTypes
<1>4. FinishedFlags = [forceRefresh |-> a, reset |-> due, connecting |-> c, pending |-> FALSE,
                       restart |-> e, retryWait |-> FALSE]
  BY <1>2, <1>3
<1>5. CASE flags' = FinishedFlags
  <2>1. FlagTypes' /\ flags'.reset = due
    BY <1>1, <1>4, <1>5 DEF FlagTypes
  <2> QED
    BY <2>1 DEF due
<1>6. CASE flags' = [FinishedFlags EXCEPT !.connecting = FALSE]
  <2>1. FlagTypes' /\ flags'.reset = due
    BY ZenonT(30), <1>1, <1>4, <1>6 DEF FlagTypes
  <2> QED
    BY <2>1 DEF due
<1> QED
  BY <1>5, <1>6

LEMMA ScheduleTransportRecoveryKeeps ==
  ASSUME ConnectionInv, ScheduleTransportRecovery
  PROVE  ConnectionInv'
<1>1. /\ WorldTypes /\ WorkerTypes /\ FlagTypes /\ RouteTypes /\ RecoveryTypes /\ ClientTypes
      /\ Places /\ HandlesOwned /\ AuthKept /\ RouteKept
  BY DEF ConnectionInv
<1>2. CASE TRUE
  BY <1>1, <1>2, TransportDueKeeps DEF ScheduleTransportRecovery, TransportDue, world
<1> QED
  BY <1>2 DEF ScheduleTransportRecovery

LEMMA RefreshBeginKeeps ==
  ASSUME ConnectionInv, RefreshBegin
  PROVE  ConnectionInv'
<1>1. /\ WorldTypes /\ WorkerTypes /\ FlagTypes /\ RouteTypes /\ RecoveryTypes /\ ClientTypes
      /\ Places /\ HandlesOwned /\ AuthKept /\ RouteKept
  BY DEF ConnectionInv
<1>2. CASE flags.restart
  BY <1>1, <1>2, RebootKeeps DEF RefreshBegin, Reboot, world
<1>3. CASE ~flags.restart
  <2>1. /\ worker.pc = "idle"
        /\ worker' = [worker EXCEPT !.pc = IF flags.pending THEN "apply" ELSE "plan"]
        /\ UNCHANGED <<cfg, server, online, voice, started, stopper, flags, route, recovery,
                       client, generation, connected, handles, failed>>
    BY <1>1, <1>3 DEF RefreshBegin, At, Goto, world
  <2>2. WorkerTypes' /\ worker'.pc \in {"apply", "plan"}
    BY <1>1, <2>1 DEF WorkerTypes, NoClientYet, OtherPlaces, IdleWorker, NoSnap
  <2>3. FlagTypes' /\ (flags.reset => flags'.reset \/ client = None)
    BY <1>1, <2>1 DEF FlagTypes
  <2>4. WorldTypes'
    BY <1>1, <2>1 DEF WorldTypes
  <2>5. client # None => worker'.pc \notin NoClientYet
    BY <1>1, <2>1, <2>2, <1>3 DEF Places, NoClientYet
  <2> QED
    BY <1>1, <2>1, <2>2, <2>3, <2>4, <2>5, MovesKeeps DEF HoldsHandle
<1> QED
  BY <1>2, <1>3 DEF RefreshBegin

LEMMA RefreshPlanKeeps ==
  ASSUME ConnectionInv, RefreshPlan
  PROVE  ConnectionInv'
<1>1. /\ WorldTypes /\ WorkerTypes /\ FlagTypes /\ RouteTypes /\ RecoveryTypes /\ ClientTypes
      /\ Places /\ HandlesOwned /\ AuthKept /\ RouteKept
  BY DEF ConnectionInv
<1>2. CASE ~started
  <2>1. /\ worker.pc = "plan"
        /\ worker' = IdleWorker
        /\ flags' = [flags EXCEPT !.reset = FALSE]
        /\ UNCHANGED <<cfg, server, online, voice, started, stopper, route, recovery, client,
                       generation, connected, handles, failed>>
    BY <1>1, <1>2 DEF RefreshPlan, At, Return, world
  <2>2. WorkerTypes' /\ worker'.pc \in {"idle"}
    BY <1>1, <2>1 DEF WorkerTypes, NoClientYet, OtherPlaces, IdleWorker, NoSnap
  <2>3. FlagTypes' /\ (flags.reset => flags'.reset \/ client = None)
    BY <1>1, <2>1, <1>2 DEF FlagTypes, Places
  <2>4. WorldTypes'
    BY <1>1, <2>1 DEF WorldTypes
  <2>5. client # None => worker'.pc \notin NoClientYet
    BY <1>1, <2>1, <2>2, <1>2 DEF Places, NoClientYet
  <2> QED
    BY <1>1, <2>1, <2>2, <2>3, <2>4, <2>5, MovesKeeps DEF HoldsHandle
<1>3. CASE started /\ voice
  <2>1. /\ worker.pc = "plan"
        /\ worker' = IdleWorker
        /\ UNCHANGED <<cfg, server, online, voice, started, stopper, flags, route, recovery,
                       client, generation, connected, handles, failed>>
    BY <1>1, <1>3 DEF RefreshPlan, At, Return, world
  <2>2. WorkerTypes' /\ worker'.pc \in {"idle"}
    BY <1>1, <2>1 DEF WorkerTypes, NoClientYet, OtherPlaces, IdleWorker, NoSnap
  <2>3. FlagTypes' /\ (flags.reset => flags'.reset \/ client = None)
    BY <1>1, <2>1 DEF FlagTypes
  <2>4. WorldTypes'
    BY <1>1, <2>1 DEF WorldTypes
  <2>5. client # None => worker'.pc \notin NoClientYet
    BY <1>1, <2>1, <2>2, <1>3 DEF Places, NoClientYet
  <2> QED
    BY <1>1, <2>1, <2>2, <2>3, <2>4, <2>5, MovesKeeps DEF HoldsHandle
<1>4. CASE started /\ ~voice /\ (recovery.transport /\ ~route.scheduled /\ connected)
  BY <1>1, <1>4, PlanNeedlessKeeps DEF RefreshPlan, At, Return, world
<1>5. CASE started /\ ~voice /\ ~(recovery.transport /\ ~route.scheduled /\ connected)
  BY <1>1, <1>5, PlanRoundKeeps DEF RefreshPlan, At, world
<1> QED
  BY <1>2, <1>3, <1>4, <1>5 DEF RefreshPlan

LEMMA RefreshLoadKeeps ==
  ASSUME ConnectionInv, RefreshLoad
  PROVE  ConnectionInv'
<1>1. /\ WorldTypes /\ WorkerTypes /\ FlagTypes /\ RouteTypes /\ RecoveryTypes /\ ClientTypes
      /\ Places /\ HandlesOwned /\ AuthKept /\ RouteKept
  BY DEF ConnectionInv
<1>2. CASE RoundFailed
  BY <1>1, <1>2, RoundFailedKeeps DEF RefreshLoad, At, world
<1>3. CASE /\ Goto("http")
           /\ UNCHANGED <<flags, route, recovery, failed>>
  BY <1>1, <1>3, LoadedKeeps DEF RefreshLoad, At, Goto, world
<1> QED
  BY <1>2, <1>3 DEF RefreshLoad

LEMMA RefreshHttpKeeps ==
  ASSUME ConnectionInv, RefreshHttp
  PROVE  ConnectionInv'
<1>1. /\ WorldTypes /\ WorkerTypes /\ FlagTypes /\ RouteTypes /\ RecoveryTypes /\ ClientTypes
      /\ Places /\ HandlesOwned /\ AuthKept /\ RouteKept
  BY DEF ConnectionInv
<1>2. CASE /\ cfg' = [cfg EXCEPT !.addr = server] /\ Aged /\ Goto("rotated")
           /\ UNCHANGED <<flags, route, recovery, failed>>
  <2>1. cfg' \in [addr : Nat, bound : BOOLEAN]
    BY <1>1, <1>2 DEF WorldTypes
  <2>2. /\ (client' = None) <=> (client = None)
        /\ client # None => /\ client' \in Clients /\ client'.gen = client.gen
                            /\ client'.route = client.route
    BY <1>1, <1>2, AgedFacts
  <2> QED
    BY <1>1, <1>2, <2>1, <2>2, HttpDoneKeeps DEF RefreshHttp, At, Goto, world
<1>3. CASE /\ RoundFailed
           /\ UNCHANGED <<cfg, client>>
  BY <1>1, <1>3, RoundFailedKeeps DEF RefreshHttp, At, world
<1> QED
  BY <1>2, <1>3 DEF RefreshHttp

LEMMA RefreshRotatedKeeps ==
  ASSUME ConnectionInv, RefreshRotated
  PROVE  ConnectionInv'
<1>1. /\ WorldTypes /\ WorkerTypes /\ FlagTypes /\ RouteTypes /\ RecoveryTypes /\ ClientTypes
      /\ Places /\ HandlesOwned /\ AuthKept /\ RouteKept
  BY DEF ConnectionInv
<1>2. CASE worker.viaRoute /\ worker.route # route.now
  <2>1. /\ worker.pc = "rotated"
        /\ worker' = IdleWorker
        /\ UNCHANGED <<cfg, server, online, voice, started, stopper, flags, route, recovery,
                       client, generation, connected, handles, failed>>
    BY <1>1, <1>2 DEF RefreshRotated, At, Return, world
  <2>2. WorkerTypes' /\ worker'.pc \in {"idle"}
    BY <1>1, <2>1 DEF WorkerTypes, NoClientYet, OtherPlaces, IdleWorker, NoSnap
  <2>3. FlagTypes' /\ (flags.reset => flags'.reset \/ client = None)
    BY <1>1, <2>1 DEF FlagTypes
  <2>4. WorldTypes'
    BY <1>1, <2>1 DEF WorldTypes
  <2>5. client # None => worker'.pc \notin NoClientYet
    BY <1>1, <2>1, <2>2, <1>2 DEF Places, NoClientYet
  <2> QED
    BY <1>1, <2>1, <2>2, <2>3, <2>4, <2>5, MovesKeeps DEF HoldsHandle
<1>3. CASE ~(worker.viaRoute /\ worker.route # route.now)
  <2>1. /\ worker.pc = "rotated"
        /\ worker' = [worker EXCEPT !.pc = "apply"]
        /\ flags' = [flags EXCEPT !.pending = TRUE]
        /\ UNCHANGED <<cfg, server, online, voice, started, stopper, route, recovery, client,
                       generation, connected, handles, failed>>
    BY <1>1, <1>3 DEF RefreshRotated, At, Goto, world
  <2>2. WorkerTypes' /\ worker'.pc \in {"apply"}
    BY <1>1, <2>1 DEF WorkerTypes, NoClientYet, OtherPlaces, IdleWorker, NoSnap
  <2>3. FlagTypes' /\ (flags.reset => flags'.reset \/ client = None)
    BY <1>1, <2>1 DEF FlagTypes
  <2>4. WorldTypes'
    BY <1>1, <2>1 DEF WorldTypes
  <2>5. client # None => worker'.pc \notin NoClientYet
    BY <1>1, <2>1, <2>2, <1>3 DEF Places, NoClientYet
  <2> QED
    BY <1>1, <2>1, <2>2, <2>3, <2>4, <2>5, MovesKeeps DEF HoldsHandle
<1> QED
  BY <1>2, <1>3 DEF RefreshRotated

LEMMA ApplyKeeps ==
  ASSUME ConnectionInv, Apply
  PROVE  ConnectionInv'
<1>1. /\ WorldTypes /\ WorkerTypes /\ FlagTypes /\ RouteTypes /\ RecoveryTypes /\ ClientTypes
      /\ Places /\ HandlesOwned /\ AuthKept /\ RouteKept
  BY DEF ConnectionInv
<1>2. CASE ~started \/ voice \/ flags.retryWait
  <2>1. /\ worker.pc = "apply"
        /\ worker' = IdleWorker
        /\ UNCHANGED <<cfg, server, online, voice, started, stopper, flags, route, recovery,
                       client, generation, connected, handles, failed>>
    BY <1>1, <1>2 DEF Apply, At, Return, world
  <2>2. WorkerTypes' /\ worker'.pc \in {"idle"}
    BY <1>1, <2>1 DEF WorkerTypes, NoClientYet, OtherPlaces, IdleWorker, NoSnap
  <2>3. FlagTypes' /\ (flags.reset => flags'.reset \/ client = None)
    BY <1>1, <2>1 DEF FlagTypes
  <2>4. WorldTypes'
    BY <1>1, <2>1 DEF WorldTypes
  <2>5. client # None => worker'.pc \notin NoClientYet
    BY <1>1, <2>1, <2>2, <1>2 DEF Places, NoClientYet
  <2> QED
    BY <1>1, <2>1, <2>2, <2>3, <2>4, <2>5, MovesKeeps DEF HoldsHandle
<1>3. CASE /\ started /\ ~voice /\ ~flags.retryWait
           /\ route.scheduled /\ route.refresh # route.now
  <2>1. /\ worker.pc = "apply"
        /\ worker' = IdleWorker
        /\ flags' = [flags EXCEPT !.pending = FALSE]
        /\ UNCHANGED <<cfg, server, online, voice, started, stopper, route, recovery, client,
                       generation, connected, handles, failed>>
    BY <1>1, <1>3 DEF Apply, At, Return, world
  <2>2. WorkerTypes' /\ worker'.pc \in {"idle"}
    BY <1>1, <2>1 DEF WorkerTypes, NoClientYet, OtherPlaces, IdleWorker, NoSnap
  <2>3. FlagTypes' /\ (flags.reset => flags'.reset \/ client = None)
    BY <1>1, <2>1 DEF FlagTypes
  <2>4. WorldTypes'
    BY <1>1, <2>1 DEF WorldTypes
  <2>5. client # None => worker'.pc \notin NoClientYet
    BY <1>1, <2>1, <2>2, <1>3 DEF Places, NoClientYet
  <2> QED
    BY <1>1, <2>1, <2>2, <2>3, <2>4, <2>5, MovesKeeps DEF HoldsHandle
<1>4. CASE /\ started /\ ~voice /\ ~flags.retryWait
           /\ ~(route.scheduled /\ route.refresh # route.now)
  <2>1. /\ worker.pc = "apply"
        /\ worker' = [worker EXCEPT !.pc = "decide", !.route = route.now]
        /\ UNCHANGED <<cfg, server, online, voice, started, stopper, flags, route, recovery,
                       client, generation, connected, handles, failed>>
    BY <1>1, <1>4 DEF Apply, At, world
  <2>2. WorkerTypes' /\ worker'.pc \in {"decide"}
    BY <1>1, <2>1 DEF WorkerTypes, NoClientYet, OtherPlaces, RouteTypes
  <2>3. FlagTypes' /\ (flags.reset => flags'.reset \/ client = None)
    BY <1>1, <2>1 DEF FlagTypes
  <2>4. WorldTypes'
    BY <1>1, <2>1 DEF WorldTypes
  <2>5. client # None => worker'.pc \notin NoClientYet
    BY <1>1, <2>1, <2>2, <1>4 DEF Places, NoClientYet
  <2> QED
    BY <1>1, <2>1, <2>2, <2>3, <2>4, <2>5, MovesKeeps DEF HoldsHandle
<1> QED
  BY <1>2, <1>3, <1>4 DEF Apply

LEMMA RefreshDecideKeeps ==
  ASSUME ConnectionInv, RefreshDecide
  PROVE  ConnectionInv'
<1>1. /\ WorldTypes /\ WorkerTypes /\ FlagTypes /\ RouteTypes /\ RecoveryTypes /\ ClientTypes
      /\ Places /\ HandlesOwned /\ AuthKept /\ RouteKept
  BY DEF ConnectionInv
<1>2. CASE /\ RetryLater
           /\ UNCHANGED <<cfg, world, started, stopper, client, generation, connected, handles,
                          failed>>
  <2>1. /\ worker.pc = "decide"
        /\ worker' = IdleWorker
        /\ flags' = [flags EXCEPT !.retryWait = TRUE]
        /\ UNCHANGED <<cfg, server, online, voice, started, stopper, route, recovery, client,
                       generation, connected, handles, failed>>
    BY <1>1, <1>2 DEF RefreshDecide, At, Return, RetryLater, world
  <2>2. WorkerTypes' /\ worker'.pc \in {"idle"}
    BY <1>1, <2>1 DEF WorkerTypes, NoClientYet, OtherPlaces, IdleWorker, NoSnap
  <2>3. FlagTypes' /\ (flags.reset => flags'.reset \/ client = None)
    BY <1>1, <2>1 DEF FlagTypes
  <2>4. WorldTypes'
    BY <1>1, <2>1 DEF WorldTypes
  <2>5. client # None => worker'.pc \notin NoClientYet
    BY <1>1, <2>1, <2>2, <1>2 DEF Places, NoClientYet
  <2> QED
    BY <1>1, <2>1, <2>2, <2>3, <2>4, <2>5, MovesKeeps DEF HoldsHandle
<1>3. CASE /\ Goto("isolate") \/ Goto("retire")
           /\ UNCHANGED <<cfg, world, started, stopper, flags, route, recovery, client,
                          generation, connected, handles, failed>>
  <2>1. /\ worker.pc = "decide"
        /\ worker' = [worker EXCEPT !.pc = "isolate"] \/ worker' = [worker EXCEPT !.pc = "retire"]
        /\ UNCHANGED <<cfg, server, online, voice, started, stopper, flags, route, recovery,
                       client, generation, connected, handles, failed>>
    BY <1>1, <1>3 DEF RefreshDecide, At, Goto, world
  <2>2. WorkerTypes' /\ worker'.pc \in {"isolate", "retire"}
    BY <1>1, <2>1 DEF WorkerTypes, NoClientYet, OtherPlaces, IdleWorker, NoSnap
  <2>3. FlagTypes' /\ (flags.reset => flags'.reset \/ client = None)
    BY <1>1, <2>1 DEF FlagTypes
  <2>4. WorldTypes'
    BY <1>1, <2>1 DEF WorldTypes
  <2>5. client # None => worker'.pc \notin NoClientYet
    BY <1>1, <2>1, <2>2, <1>3 DEF Places, NoClientYet
  <2> QED
    BY <1>1, <2>1, <2>2, <2>3, <2>4, <2>5, MovesKeeps DEF HoldsHandle
<1>4. CASE Reboot
  BY <1>1, <1>4, RebootKeeps DEF RefreshDecide, Reboot, world
<1>5. CASE /\ Return /\ flags' = [flags EXCEPT !.restart = TRUE]
           /\ UNCHANGED <<cfg, world, started, stopper, route, recovery, client, generation,
                          connected, handles, failed>>
  <2>1. /\ worker.pc = "decide"
        /\ worker' = IdleWorker
        /\ flags' = [flags EXCEPT !.restart = TRUE]
        /\ UNCHANGED <<cfg, server, online, voice, started, stopper, route, recovery, client,
                       generation, connected, handles, failed>>
    BY <1>1, <1>5 DEF RefreshDecide, At, Return, world
  <2>2. WorkerTypes' /\ worker'.pc \in {"idle"}
    BY <1>1, <2>1 DEF WorkerTypes, NoClientYet, OtherPlaces, IdleWorker, NoSnap
  <2>3. FlagTypes' /\ (flags.reset => flags'.reset \/ client = None)
    BY <1>1, <2>1 DEF FlagTypes
  <2>4. WorldTypes'
    BY <1>1, <2>1 DEF WorldTypes
  <2>5. client # None => worker'.pc \notin NoClientYet
    BY <1>1, <2>1, <2>2, <1>5 DEF Places, NoClientYet
  <2> QED
    BY <1>1, <2>1, <2>2, <2>3, <2>4, <2>5, MovesKeeps DEF HoldsHandle
<1> QED
  BY <1>2, <1>3, <1>4, <1>5 DEF RefreshDecide

LEMMA RetireKeeps ==
  ASSUME ConnectionInv, Retire
  PROVE  ConnectionInv'
<1>1. /\ WorldTypes /\ WorkerTypes /\ FlagTypes /\ RouteTypes /\ RecoveryTypes /\ ClientTypes
      /\ Places /\ HandlesOwned /\ AuthKept /\ RouteKept
  BY DEF ConnectionInv
<1>2. CASE ~started /\ At("retire") /\ Return /\ UNCHANGED <<recovery, client, generation, connected>>
  <2>1. /\ worker.pc = "retire"
        /\ worker' = IdleWorker
        /\ UNCHANGED <<cfg, server, online, voice, started, stopper, flags, route, recovery,
                       client, generation, connected, handles, failed>>
    BY <1>1, <1>2 DEF Retire, At, Return, world
  <2>2. WorkerTypes' /\ worker'.pc \in {"idle"}
    BY <1>1, <2>1 DEF WorkerTypes, NoClientYet, OtherPlaces, IdleWorker, NoSnap
  <2>3. FlagTypes' /\ (flags.reset => flags'.reset \/ client = None)
    BY <1>1, <2>1 DEF FlagTypes
  <2>4. WorldTypes'
    BY <1>1, <2>1 DEF WorldTypes
  <2>5. client # None => worker'.pc \notin NoClientYet
    BY <1>1, <2>1, <2>2, <1>2 DEF Places, NoClientYet
  <2> QED
    BY <1>1, <2>1, <2>2, <2>3, <2>4, <2>5, MovesKeeps DEF HoldsHandle
<1>3. CASE /\ client = None \/ ~started
           /\ Goto(IF At("retire") THEN "reload" ELSE "isolated")
           /\ UNCHANGED <<recovery, client, generation, connected>>
  <2>1. /\ worker.pc \in {"retire", "isolate"}
        /\ worker' = [worker EXCEPT !.pc = IF worker.pc = "retire" THEN "reload" ELSE "isolated"]
        /\ UNCHANGED <<cfg, server, online, voice, started, stopper, flags, route, recovery,
                       client, generation, connected, handles, failed>>
    BY <1>1, <1>3 DEF Retire, At, Goto, world
  <2>2. WorkerTypes' /\ worker'.pc \in {"reload", "isolated"}
    BY <1>1, <2>1 DEF WorkerTypes, NoClientYet, OtherPlaces, IdleWorker, NoSnap
  <2>3. FlagTypes' /\ (flags.reset => flags'.reset \/ client = None)
    BY <1>1, <2>1 DEF FlagTypes
  <2>4. WorldTypes'
    BY <1>1, <2>1 DEF WorldTypes
  <2>5. client # None => worker'.pc \notin NoClientYet
    BY <1>1, <2>1, <2>2, <1>3 DEF Places, NoClientYet
  <2> QED
    BY <1>1, <2>1, <2>2, <2>3, <2>4, <2>5, MovesKeeps DEF HoldsHandle
<1>4. CASE /\ started /\ client # None /\ Detach
           /\ worker' = [worker EXCEPT !.mine = client.gen,
                                       !.pc = IF At("retire") THEN "destroy" ELSE "isolating"]
  <2>1. client.gen \in Nat
    BY <1>1, <1>4 DEF ClientTypes, Clients
  <2>2. WorkerTypes' /\ worker'.pc \in {"destroy", "isolating"} /\ worker'.mine = client.gen
    BY <1>1, <1>4, <2>1 DEF WorkerTypes, NoClientYet
  <2> QED
    BY <1>1, <1>4, <2>1, <2>2, RetiredKeeps DEF Retire, At, world
<1> QED
  BY <1>2, <1>3, <1>4 DEF Retire

LEMMA DestroyRetiredKeeps ==
  ASSUME ConnectionInv, DestroyRetired
  PROVE  ConnectionInv'
<1>1. /\ WorldTypes /\ WorkerTypes /\ FlagTypes /\ RouteTypes /\ RecoveryTypes /\ ClientTypes
      /\ Places /\ HandlesOwned /\ AuthKept /\ RouteKept
  BY DEF ConnectionInv
<1>2. CASE Reboot
  BY <1>1, <1>2, RebootKeeps DEF DestroyRetired, Reboot, world
<1>3. CASE /\ handles' = handles \ {worker.mine}
           /\ \/ Goto("isolated") \/ Return \/ Goto("reload")
           /\ UNCHANGED <<cfg, world, started, stopper, flags, route, recovery, client,
                          generation, connected, failed>>
  <2>1. WorkerTypes' /\ worker'.pc \in {"idle", "isolated", "reload"}
    BY <1>1, <1>3, GotoTyped, ReturnTyped DEF NoClientYet
  <2> QED
    BY <1>1, <1>3, <2>1, DestroyedKeeps DEF DestroyRetired, At, world
<1> QED
  BY <1>2, <1>3 DEF DestroyRetired

LEMMA RefreshReloadKeeps ==
  ASSUME ConnectionInv, RefreshReload
  PROVE  ConnectionInv'
<1>1. /\ WorldTypes /\ WorkerTypes /\ FlagTypes /\ RouteTypes /\ RecoveryTypes /\ ClientTypes
      /\ Places /\ HandlesOwned /\ AuthKept /\ RouteKept
  BY DEF ConnectionInv
<1>2. CASE RetryLater
  <2>1. /\ worker.pc = "reload"
        /\ worker' = IdleWorker
        /\ flags' = [flags EXCEPT !.retryWait = TRUE]
        /\ UNCHANGED <<cfg, server, online, voice, started, stopper, route, recovery, client,
                       generation, connected, handles, failed>>
    BY <1>1, <1>2 DEF RefreshReload, At, Return, RetryLater, world
  <2>2. WorkerTypes' /\ worker'.pc \in {"idle"}
    BY <1>1, <2>1 DEF WorkerTypes, NoClientYet, OtherPlaces, IdleWorker, NoSnap
  <2>3. FlagTypes' /\ (flags.reset => flags'.reset \/ client = None)
    BY <1>1, <2>1 DEF FlagTypes
  <2>4. WorldTypes'
    BY <1>1, <2>1 DEF WorldTypes
  <2>5. client # None => worker'.pc \notin NoClientYet
    BY <1>1, <2>1, <2>2, <1>2 DEF Places, NoClientYet
  <2> QED
    BY <1>1, <2>1, <2>2, <2>3, <2>4, <2>5, MovesKeeps DEF HoldsHandle
<1>3. CASE /\ worker' = [worker EXCEPT !.pc = "create", !.snap = Snapshot, !.from = "refresh"]
           /\ UNCHANGED <<flags, route, recovery>>
  <2>1. /\ worker.pc = "reload"
        /\ worker' = [worker EXCEPT !.pc = "create", !.snap = Snapshot, !.from = "refresh"]
        /\ UNCHANGED <<cfg, server, online, voice, started, stopper, flags, route, recovery,
                       client, generation, connected, handles, failed>>
    BY <1>1, <1>3 DEF RefreshReload, At, world
  <2>2. WorkerTypes' /\ worker'.pc \in {"create"}
    BY <1>1, <2>1, SnapshotTyped DEF WorkerTypes, NoClientYet
  <2>3. FlagTypes' /\ (flags.reset => flags'.reset \/ client = None)
    BY <1>1, <2>1 DEF FlagTypes
  <2>4. WorldTypes'
    BY <1>1, <2>1 DEF WorldTypes
  <2>5. client # None => worker'.pc \notin NoClientYet
    BY <1>1, <2>1, <2>2, <1>3 DEF Places, NoClientYet
  <2> QED
    BY <1>1, <2>1, <2>2, <2>3, <2>4, <2>5, MovesKeeps DEF HoldsHandle
<1> QED
  BY <1>2, <1>3 DEF RefreshReload

LEMMA RunConnectionKeeps ==
  ASSUME ConnectionInv, RunConnection
  PROVE  ConnectionInv'
<1>1. /\ WorldTypes /\ WorkerTypes /\ FlagTypes /\ RouteTypes /\ RecoveryTypes /\ ClientTypes
      /\ Places /\ HandlesOwned /\ AuthKept /\ RouteKept
  BY DEF ConnectionInv
<1>2. CASE client # None
  <2>1. /\ worker.pc = "idle"
        /\ worker' = worker
        /\ flags' = [flags EXCEPT !.connecting = FALSE]
        /\ UNCHANGED <<cfg, server, online, voice, started, stopper, route, recovery, client,
                       generation, connected, handles, failed>>
    BY <1>1, <1>2 DEF RunConnection, At, world
  <2>2. WorkerTypes' /\ worker'.pc \in {"idle"}
    BY <1>1, <2>1 DEF WorkerTypes, NoClientYet, OtherPlaces, IdleWorker, NoSnap
  <2>3. FlagTypes' /\ (flags.reset => flags'.reset \/ client = None)
    BY <1>1, <2>1 DEF FlagTypes
  <2>4. WorldTypes'
    BY <1>1, <2>1 DEF WorldTypes
  <2>5. client # None => worker'.pc \notin NoClientYet
    BY <1>1, <2>1, <2>2, <1>2 DEF Places, NoClientYet
  <2> QED
    BY <1>1, <2>1, <2>2, <2>3, <2>4, <2>5, MovesKeeps DEF HoldsHandle
<1>3. CASE client = None
  <2>1. /\ worker.pc = "idle"
        /\ worker' = [worker EXCEPT !.pc = "connect"]
        /\ UNCHANGED <<cfg, server, online, voice, started, stopper, flags, route, recovery,
                       client, generation, connected, handles, failed>>
    BY <1>1, <1>3 DEF RunConnection, At, Goto, world
  <2>2. WorkerTypes' /\ worker'.pc \in {"connect"}
    BY <1>1, <2>1 DEF WorkerTypes, NoClientYet, OtherPlaces, IdleWorker, NoSnap
  <2>3. FlagTypes' /\ (flags.reset => flags'.reset \/ client = None)
    BY <1>1, <2>1 DEF FlagTypes
  <2>4. WorldTypes'
    BY <1>1, <2>1 DEF WorldTypes
  <2>5. client # None => worker'.pc \notin NoClientYet
    BY <1>1, <2>1, <2>2, <1>3 DEF Places, NoClientYet
  <2> QED
    BY <1>1, <2>1, <2>2, <2>3, <2>4, <2>5, MovesKeeps DEF HoldsHandle
<1> QED
  BY <1>2, <1>3 DEF RunConnection

LEMMA ConnectLoadKeeps ==
  ASSUME ConnectionInv, ConnectLoad
  PROVE  ConnectionInv'
<1>1. /\ WorldTypes /\ WorkerTypes /\ FlagTypes /\ RouteTypes /\ RecoveryTypes /\ ClientTypes
      /\ Places /\ HandlesOwned /\ AuthKept /\ RouteKept
  BY DEF ConnectionInv
<1>2. CASE Goto("wait") /\ UNCHANGED flags
  <2>1. WorkerTypes' /\ worker'.pc = "wait" /\ FlagTypes'
    BY <1>1, <1>2, GotoTyped DEF OtherPlaces, FlagTypes
  <2> QED
    BY <1>1, <1>2, <2>1, ConnectLoadedKeeps DEF ConnectLoad, At, world
<1>3. CASE /\ worker' = [worker EXCEPT
                 !.pc = IF flags.forceRefresh \/ route.scheduled \/ ~cfg.bound
                        THEN "connectHttp" ELSE "create",
                 !.snap = Snapshot, !.from = "connect",
                 !.route = route.now, !.viaRoute = route.scheduled]
           /\ flags' = [flags EXCEPT !.forceRefresh = FALSE]
  <2>1. WorkerTypes' /\ worker'.pc \in {"connectHttp", "create"}
    BY <1>1, <1>3, SnapshotTyped DEF WorkerTypes, NoClientYet, RouteTypes
  <2>2. FlagTypes'
    BY <1>1, <1>3 DEF FlagTypes
  <2> QED
    BY <1>1, <1>3, <2>1, <2>2, ConnectLoadedKeeps DEF ConnectLoad, At, world
<1> QED
  BY <1>2, <1>3 DEF ConnectLoad

LEMMA ConnectHttpKeeps ==
  ASSUME ConnectionInv, ConnectHttp
  PROVE  ConnectionInv'
<1>1. /\ WorldTypes /\ WorkerTypes /\ FlagTypes /\ RouteTypes /\ RecoveryTypes /\ ClientTypes
      /\ Places /\ HandlesOwned /\ AuthKept /\ RouteKept
  BY DEF ConnectionInv
<1>2. CASE /\ cfg' = [cfg EXCEPT !.addr = server]
           /\ worker' = [worker EXCEPT !.pc = "create",
                 !.snap = [addr |-> server, fresh |-> TRUE, bound |-> TRUE]]
  <2>1. /\ worker.pc = "connectHttp"
        /\ worker' = [worker EXCEPT !.pc = "create",
                !.snap = [addr |-> server, fresh |-> TRUE, bound |-> TRUE]]
        /\ cfg' \in [addr : Nat, bound : BOOLEAN]
        /\ UNCHANGED <<server, online, voice, started, stopper, flags, route, recovery, client,
                       generation, connected, handles, failed>>
    BY <1>1, <1>2 DEF ConnectHttp, At, world, WorldTypes
  <2>2. WorkerTypes' /\ worker'.pc \in {"create"}
    BY <1>1, <2>1 DEF WorkerTypes, NoClientYet, WorldTypes
  <2>3. FlagTypes' /\ (flags.reset => flags'.reset \/ client = None)
    BY <1>1, <2>1 DEF FlagTypes
  <2>4. WorldTypes'
    BY <1>1, <2>1 DEF WorldTypes
  <2>5. client # None => worker'.pc \notin NoClientYet
    BY <1>1, <2>1, <2>2, <1>2 DEF Places, NoClientYet
  <2> QED
    BY <1>1, <2>1, <2>2, <2>3, <2>4, <2>5, MovesKeeps DEF HoldsHandle
<1>3. CASE Goto(IF worker.snap.bound THEN "create" ELSE "wait") /\ UNCHANGED cfg
  <2>1. /\ worker.pc = "connectHttp"
        /\ worker' = [worker EXCEPT !.pc = IF worker.snap.bound THEN "create" ELSE "wait"]
        /\ UNCHANGED <<cfg, server, online, voice, started, stopper, flags, route, recovery,
                       client, generation, connected, handles, failed>>
    BY <1>1, <1>3 DEF ConnectHttp, At, Goto, world
  <2>2. WorkerTypes' /\ worker'.pc \in {"create", "wait"}
    BY <1>1, <2>1 DEF WorkerTypes, NoClientYet, OtherPlaces, IdleWorker, NoSnap
  <2>3. FlagTypes' /\ (flags.reset => flags'.reset \/ client = None)
    BY <1>1, <2>1 DEF FlagTypes
  <2>4. WorldTypes'
    BY <1>1, <2>1 DEF WorldTypes
  <2>5. client # None => worker'.pc \notin NoClientYet
    BY <1>1, <2>1, <2>2, <1>3 DEF Places, NoClientYet
  <2> QED
    BY <1>1, <2>1, <2>2, <2>3, <2>4, <2>5, MovesKeeps DEF HoldsHandle
<1> QED
  BY <1>2, <1>3 DEF ConnectHttp

LEMMA ConnectAgainKeeps ==
  ASSUME ConnectionInv, ConnectAgain
  PROVE  ConnectionInv'
<1>1. /\ WorldTypes /\ WorkerTypes /\ FlagTypes /\ RouteTypes /\ RecoveryTypes /\ ClientTypes
      /\ Places /\ HandlesOwned /\ AuthKept /\ RouteKept
  BY DEF ConnectionInv
<1>2. CASE started /\ client = None
  <2>1. /\ worker.pc = "wait"
        /\ worker' = [worker EXCEPT !.pc = "connect"]
        /\ UNCHANGED <<cfg, server, online, voice, started, stopper, flags, route, recovery,
                       client, generation, connected, handles, failed>>
    BY <1>1, <1>2 DEF ConnectAgain, At, Goto, world
  <2>2. WorkerTypes' /\ worker'.pc \in {"connect"}
    BY <1>1, <2>1 DEF WorkerTypes, NoClientYet, OtherPlaces, IdleWorker, NoSnap
  <2>3. FlagTypes' /\ (flags.reset => flags'.reset \/ client = None)
    BY <1>1, <2>1 DEF FlagTypes
  <2>4. WorldTypes'
    BY <1>1, <2>1 DEF WorldTypes
  <2>5. client # None => worker'.pc \notin NoClientYet
    BY <1>1, <2>1, <2>2, <1>2 DEF Places, NoClientYet
  <2> QED
    BY <1>1, <2>1, <2>2, <2>3, <2>4, <2>5, MovesKeeps DEF HoldsHandle
<1>3. CASE ~(started /\ client = None)
  <2>1. /\ worker.pc = "wait"
        /\ worker' = IdleWorker
        /\ flags' = [flags EXCEPT !.connecting = FALSE]
        /\ UNCHANGED <<cfg, server, online, voice, started, stopper, route, recovery, client,
                       generation, connected, handles, failed>>
    BY <1>1, <1>3 DEF ConnectAgain, At, Return, world
  <2>2. WorkerTypes' /\ worker'.pc \in {"idle"}
    BY <1>1, <2>1 DEF WorkerTypes, NoClientYet, OtherPlaces, IdleWorker, NoSnap
  <2>3. FlagTypes' /\ (flags.reset => flags'.reset \/ client = None)
    BY <1>1, <2>1 DEF FlagTypes
  <2>4. WorldTypes'
    BY <1>1, <2>1 DEF WorldTypes
  <2>5. client # None => worker'.pc \notin NoClientYet
    BY <1>1, <2>1, <2>2, <1>3 DEF Places, NoClientYet
  <2> QED
    BY <1>1, <2>1, <2>2, <2>3, <2>4, <2>5, MovesKeeps DEF HoldsHandle
<1> QED
  BY <1>2, <1>3 DEF ConnectAgain

LEMMA ClientCreateKeeps ==
  ASSUME ConnectionInv, ClientCreate
  PROVE  ConnectionInv'
<1>1. /\ WorldTypes /\ WorkerTypes /\ FlagTypes /\ RouteTypes /\ RecoveryTypes /\ ClientTypes
      /\ Places /\ HandlesOwned /\ AuthKept /\ RouteKept
  BY DEF ConnectionInv
<1>2. CASE started /\ client = None /\ worker.snap.bound
  <2>1. generation + 1 \in Nat
    BY <1>1 DEF WorldTypes
  <2>2. worker' = [worker EXCEPT !.pc = "init", !.mine = generation + 1]
    BY <1>2 DEF ClientCreate
  <2>3. WorkerTypes' /\ worker'.pc = "init" /\ worker'.mine = generation + 1
    BY <1>1, <2>1, <2>2, WorkerSet DEF NoClientYet
  <2> QED
    BY <1>1, <1>2, <2>3, CreatedKeeps DEF ClientCreate, At, world
<1>3. CASE ~(started /\ client = None /\ worker.snap.bound)
  <2>1. /\ worker.pc = "create"
        /\ StartFailed
        /\ UNCHANGED <<cfg, server, online, voice, started, stopper, route, recovery, client,
                       generation, connected, handles, failed>>
    BY <1>1, <1>3 DEF ClientCreate, At, world
  <2>2. WorkerTypes' /\ FlagTypes' /\ worker'.pc \in {"idle", "wait"} /\ flags'.reset = flags.reset
    BY <1>1, <2>1, StartFailedFacts DEF WorldTypes
  <2>3. FlagTypes' /\ (flags.reset => flags'.reset \/ client = None)
    BY <2>2
  <2>4. WorldTypes'
    BY <1>1, <2>1 DEF WorldTypes
  <2>5. client # None => worker'.pc \notin NoClientYet
    BY <1>1, <2>1, <2>2, <1>3 DEF Places, NoClientYet
  <2> QED
    BY <1>1, <2>1, <2>2, <2>3, <2>4, <2>5, MovesKeeps DEF HoldsHandle
<1> QED
  BY <1>2, <1>3 DEF ClientCreate

LEMMA ClientInitKeeps ==
  ASSUME ConnectionInv, ClientInit
  PROVE  ConnectionInv'
<1>1. /\ WorldTypes /\ WorkerTypes /\ FlagTypes /\ RouteTypes /\ RecoveryTypes /\ ClientTypes
      /\ Places /\ HandlesOwned /\ AuthKept /\ RouteKept
  BY DEF ConnectionInv
<1>2. CASE /\ Goto("attach") /\ handles' = handles \cup {worker.mine} /\ UNCHANGED flags
  BY <1>1, <1>2, InitialisedKeeps DEF ClientInit, At, Goto, world
<1>3. CASE StartFailed /\ UNCHANGED handles
  <2>1. /\ worker.pc = "init"
        /\ StartFailed
        /\ UNCHANGED <<cfg, server, online, voice, started, stopper, route, recovery, client,
                       generation, connected, handles, failed>>
    BY <1>1, <1>3 DEF ClientInit, At, world
  <2>2. WorkerTypes' /\ FlagTypes' /\ worker'.pc \in {"idle", "wait"} /\ flags'.reset = flags.reset
    BY <1>1, <2>1, StartFailedFacts DEF WorldTypes
  <2>3. FlagTypes' /\ (flags.reset => flags'.reset \/ client = None)
    BY <2>2
  <2>4. WorldTypes'
    BY <1>1, <2>1 DEF WorldTypes
  <2>5. client # None => worker'.pc \notin NoClientYet
    BY <1>1, <2>1, <2>2, <1>3 DEF Places, NoClientYet
  <2> QED
    BY <1>1, <2>1, <2>2, <2>3, <2>4, <2>5, MovesKeeps DEF HoldsHandle
<1> QED
  BY <1>2, <1>3 DEF ClientInit

LEMMA ClientAttachKeeps ==
  ASSUME ConnectionInv, ClientAttach
  PROVE  ConnectionInv'
<1>1. /\ WorldTypes /\ WorkerTypes /\ FlagTypes /\ RouteTypes /\ RecoveryTypes /\ ClientTypes
      /\ Places /\ HandlesOwned /\ AuthKept /\ RouteKept
  BY DEF ConnectionInv
<1>2. CASE Fence
  BY <1>1, <1>2, AttachedKeeps DEF ClientAttach, At, Goto, world
<1>3. CASE ~Fence
  <2>1. /\ WorkerTypes' /\ FlagTypes' /\ worker'.pc \in {"idle", "wait"}
        /\ flags'.reset = flags.reset
    BY <1>1, <1>3, StartFailedFacts DEF WorldTypes, ClientAttach
  <2> QED
    BY <1>1, <1>3, <2>1, AttachFailedKeeps DEF ClientAttach, At, world
<1> QED
  BY <1>2, <1>3 DEF ClientAttach

LEMMA ClientStartKeeps ==
  ASSUME ConnectionInv, ClientStart
  PROVE  ConnectionInv'
<1>1. /\ WorldTypes /\ WorkerTypes /\ FlagTypes /\ RouteTypes /\ RecoveryTypes /\ ClientTypes
      /\ Places /\ HandlesOwned /\ AuthKept /\ RouteKept
  BY DEF ConnectionInv
<1>2. CASE /\ Goto("finish")
           /\ UNCHANGED <<flags, client, generation, connected, handles, recovery>>
  BY <1>1, <1>2, StartedKeeps DEF ClientStart, At, Goto, world
<1>3. CASE /\ client # None /\ client.gen = worker.mine
           /\ Detach /\ handles' = handles \ {worker.mine} /\ StartFailed
  <2>1. /\ WorkerTypes' /\ FlagTypes' /\ worker'.pc \in {"idle", "wait"}
        /\ flags'.reset = flags.reset
    BY <1>1, <1>3, StartFailedFacts DEF WorldTypes
  <2> QED
    BY <1>1, <1>3, <2>1, StartFailedKeeps DEF ClientStart, At, world
<1>4. CASE StartFailed /\ UNCHANGED <<client, generation, connected, handles, recovery>>
  <2>1. /\ worker.pc = "start"
        /\ StartFailed
        /\ UNCHANGED <<cfg, server, online, voice, started, stopper, route, recovery, client,
                       generation, connected, handles, failed>>
    BY <1>1, <1>4 DEF ClientStart, At, world
  <2>2. WorkerTypes' /\ FlagTypes' /\ worker'.pc \in {"idle", "wait"} /\ flags'.reset = flags.reset
    BY <1>1, <2>1, StartFailedFacts DEF WorldTypes
  <2>3. FlagTypes' /\ (flags.reset => flags'.reset \/ client = None)
    BY <2>2
  <2>4. WorldTypes'
    BY <1>1, <2>1 DEF WorldTypes
  <2>5. client # None => worker'.pc \notin NoClientYet
    BY <1>1, <2>1, <2>2, <1>4 DEF Places, NoClientYet
  <2> QED
    BY <1>1, <2>1, <2>2, <2>3, <2>4, <2>5, MovesKeeps DEF HoldsHandle
<1> QED
  BY <1>2, <1>3, <1>4 DEF ClientStart

LEMMA ClientFinishKeeps ==
  ASSUME ConnectionInv, ClientFinish
  PROVE  ConnectionInv'
<1>1. /\ WorldTypes /\ WorkerTypes /\ FlagTypes /\ RouteTypes /\ RecoveryTypes /\ ClientTypes
      /\ Places /\ HandlesOwned /\ AuthKept /\ RouteKept
  BY DEF ConnectionInv
<1>2. CASE worker.from = "refresh"
  <2>1. FlagTypes' /\ flags'.reset = (RoutePending \/ AuthPending)
    BY <1>1, <1>2, FinishedTyped DEF ClientFinish
  <2>2. WorkerTypes' /\ worker'.pc \in {"idle", "wait"}
    BY <1>1, <1>2, GotoTyped, ReturnTyped DEF ClientFinish, OtherPlaces
  <2> QED
    BY <1>1, <1>2, <2>1, <2>2, FinishedKeeps DEF ClientFinish, At, world
<1>3. CASE worker.from # "refresh" /\ worker.viaRoute
  <2>1. FlagTypes' /\ flags'.reset = (RoutePending \/ AuthPending)
    BY <1>1, <1>3, FinishedTyped DEF ClientFinish
  <2>2. WorkerTypes' /\ worker'.pc \in {"idle", "wait"}
    BY <1>1, <1>3, GotoTyped, ReturnTyped DEF ClientFinish, OtherPlaces
  <2> QED
    BY <1>1, <1>3, <2>1, <2>2, FinishedKeeps DEF ClientFinish, At, world
<1>4. CASE worker.from # "refresh" /\ ~worker.viaRoute
  <2>1. /\ worker.pc = "finish"
        /\ worker' = [worker EXCEPT !.pc = "wait"]
        /\ UNCHANGED <<cfg, server, online, voice, started, stopper, flags, route, recovery,
                       client, generation, connected, handles, failed>>
    BY <1>1, <1>4 DEF ClientFinish, At, Goto, world
  <2>2. WorkerTypes' /\ worker'.pc \in {"wait"}
    BY <1>1, <2>1 DEF WorkerTypes, NoClientYet, OtherPlaces, IdleWorker, NoSnap
  <2>3. FlagTypes' /\ (flags.reset => flags'.reset \/ client = None)
    BY <1>1, <2>1 DEF FlagTypes
  <2>4. WorldTypes'
    BY <1>1, <2>1 DEF WorldTypes
  <2>5. client # None => worker'.pc \notin NoClientYet
    BY <1>1, <2>1, <2>2, <1>4 DEF Places, NoClientYet
  <2> QED
    BY <1>1, <2>1, <2>2, <2>3, <2>4, <2>5, MovesKeeps DEF HoldsHandle
<1> QED
  BY <1>2, <1>3, <1>4 DEF ClientFinish

LEMMA WorkerExitKeeps ==
  ASSUME ConnectionInv, WorkerExit
  PROVE  ConnectionInv'
<1>1. /\ WorldTypes /\ WorkerTypes /\ FlagTypes /\ RouteTypes /\ RecoveryTypes /\ ClientTypes
      /\ Places /\ HandlesOwned /\ AuthKept /\ RouteKept
  BY DEF ConnectionInv
<1>2. CASE TRUE
  <2>1. /\ worker.pc = "idle" /\ ~started
        /\ worker' = [IdleWorker EXCEPT !.pc = "exited"]
        /\ UNCHANGED <<cfg, server, online, voice, started, stopper, flags, route, recovery,
                       client, generation, connected, handles, failed>>
    BY <1>1, <1>2 DEF WorkerExit, At, Exited, world
  <2>2. WorkerTypes' /\ worker'.pc \in {"exited"}
    BY <1>1, <2>1 DEF WorkerTypes, NoClientYet, OtherPlaces, IdleWorker, NoSnap
  <2>3. FlagTypes' /\ (flags.reset => flags'.reset \/ client = None)
    BY <1>1, <2>1 DEF FlagTypes
  <2>4. WorldTypes'
    BY <1>1, <2>1 DEF WorldTypes
  <2>5. client # None => worker'.pc \notin NoClientYet
    BY <1>1, <2>1, <2>2, <1>2 DEF Places, NoClientYet
  <2> QED
    BY <1>1, <2>1, <2>2, <2>3, <2>4, <2>5, MovesKeeps DEF HoldsHandle
<1> QED
  BY <1>2 DEF WorkerExit

\* Whether an address that the network handed out is another one than the client's.
Refreshes(changed) ==
    ~(route.valid /\ ~changed) /\ (route.valid \/ client # None \/ flags.connecting)

LEMMA NetworkTyped ==
  ASSUME WorldTypes, NEW changed \in BOOLEAN, HandleNetworkAddress(changed)
  PROVE  WorldTypes' /\ failed'.route = failed.route
<1>1. failed' = [failed EXCEPT !.orphan = @ /\ ~started] /\ online' = TRUE
      /\ UNCHANGED <<cfg, voice, started, stopper, generation, connected>>
  BY DEF HandleNetworkAddress
<1>2. server' = server \/ server' = server + 1
  BY DEF HandleNetworkAddress
<1>3. server' \in Nat
  BY <1>2 DEF WorldTypes
<1>4. failed' \in [route : Nat, orphan : BOOLEAN] /\ failed'.route = failed.route
  BY <1>1 DEF WorldTypes
<1> QED
  BY <1>1, <1>3, <1>4 DEF WorldTypes

LEMMA RotatedFacts ==
  ASSUME WorkerTypes, worker' = Rotated(worker)
  PROVE  WorkerTypes' /\ UNCHANGED <<worker.pc, worker.mine, worker.route, worker.viaRoute>>
<1>1. worker.snap \in [addr : Nat, fresh : BOOLEAN, bound : BOOLEAN]
  BY DEF WorkerTypes
<1>2. [worker.snap EXCEPT !.fresh = FALSE] \in [addr : Nat, fresh : BOOLEAN, bound : BOOLEAN]
  BY <1>1
<1>3. worker' = [worker EXCEPT !.snap = [worker.snap EXCEPT !.fresh = FALSE]]
  BY DEF Rotated, WorkerTypes
<1> QED
  BY <1>2, <1>3 DEF WorkerTypes

LEMMA MqttConnectedKeeps ==
  ASSUME ConnectionInv, MqttConnected
  PROVE  ConnectionInv'
<1>1. /\ WorldTypes /\ WorkerTypes /\ FlagTypes /\ RouteTypes /\ RecoveryTypes /\ ClientTypes
      /\ Places /\ HandlesOwned /\ AuthKept /\ RouteKept
  BY DEF ConnectionInv
<1>2. CASE TRUE
  <2>1. WorldTypes'
    BY <1>1 DEF MqttConnected, world, WorldTypes
  <2>2. RecoveryTypes' /\ recovery'.auth = recovery.auth /\ recovery'.transport = recovery.transport
    BY <1>1 DEF MqttConnected, RecoveryTypes
  <2> QED
    BY <1>1, <1>2, <2>1, <2>2, ConnectedKeeps DEF MqttConnected, world
<1> QED
  BY <1>2 DEF MqttConnected

LEMMA TransportFailuresKeeps ==
  ASSUME ConnectionInv, TransportFailures
  PROVE  ConnectionInv'
<1>1. /\ WorldTypes /\ WorkerTypes /\ FlagTypes /\ RouteTypes /\ RecoveryTypes /\ ClientTypes
      /\ Places /\ HandlesOwned /\ AuthKept /\ RouteKept
  BY DEF ConnectionInv
<1>2. CASE TRUE
  <2>1. WorldTypes'
    BY <1>1 DEF TransportFailures, world, WorldTypes
  <2>2. RecoveryTypes' /\ recovery'.auth = recovery.auth /\ recovery'.transport = recovery.transport
    BY <1>1 DEF TransportFailures, RecoveryTypes
  <2> QED
    BY <1>1, <1>2, <2>1, <2>2, ConnectedKeeps DEF TransportFailures, world
<1> QED
  BY <1>2 DEF TransportFailures

LEMMA CooldownPassesKeeps ==
  ASSUME ConnectionInv, CooldownPasses
  PROVE  ConnectionInv'
<1>1. /\ WorldTypes /\ WorkerTypes /\ FlagTypes /\ RouteTypes /\ RecoveryTypes /\ ClientTypes
      /\ Places /\ HandlesOwned /\ AuthKept /\ RouteKept
  BY DEF ConnectionInv
<1>2. CASE TRUE
  <2>1. WorldTypes'
    BY <1>1 DEF CooldownPasses, world, WorldTypes
  <2>2. RecoveryTypes' /\ recovery'.auth = recovery.auth /\ recovery'.transport = recovery.transport
    BY <1>1 DEF CooldownPasses, RecoveryTypes
  <2> QED
    BY <1>1, <1>2, <2>1, <2>2, ConnectedKeeps DEF CooldownPasses, world
<1> QED
  BY <1>2 DEF CooldownPasses

LEMMA ScheduleCredentialRefreshKeeps ==
  ASSUME ConnectionInv, ScheduleCredentialRefresh
  PROVE  ConnectionInv'
<1>1. /\ WorldTypes /\ WorkerTypes /\ FlagTypes /\ RouteTypes /\ RecoveryTypes /\ ClientTypes
      /\ Places /\ HandlesOwned /\ AuthKept /\ RouteKept
  BY DEF ConnectionInv
<1>2. CASE TRUE
  BY <1>1, <1>2, RejectedKeeps DEF ScheduleCredentialRefresh, Running, world
<1> QED
  BY <1>2 DEF ScheduleCredentialRefresh

LEMMA MqttDisconnectedKeeps ==
  ASSUME ConnectionInv, MqttDisconnected
  PROVE  ConnectionInv'
<1>1. /\ WorldTypes /\ WorkerTypes /\ FlagTypes /\ RouteTypes /\ RecoveryTypes /\ ClientTypes
      /\ Places /\ HandlesOwned /\ AuthKept /\ RouteKept
  BY DEF ConnectionInv
<1>2. CASE TRUE
  <2>1. WorldTypes'
    BY <1>1 DEF MqttDisconnected, world, WorldTypes
  <2> QED
    BY <1>1, <1>2, <2>1, WorldKeeps DEF MqttDisconnected, world
<1> QED
  BY <1>2 DEF MqttDisconnected

LEMMA ServerMovesKeeps ==
  ASSUME ConnectionInv, ServerMoves
  PROVE  ConnectionInv'
<1>1. /\ WorldTypes /\ WorkerTypes /\ FlagTypes /\ RouteTypes /\ RecoveryTypes /\ ClientTypes
      /\ Places /\ HandlesOwned /\ AuthKept /\ RouteKept
  BY DEF ConnectionInv
<1>2. CASE TRUE
  <2>1. WorldTypes'
    BY <1>1 DEF ServerMoves, world, WorldTypes
  <2> QED
    BY <1>1, <1>2, <2>1, WorldKeeps DEF ServerMoves, world
<1> QED
  BY <1>2 DEF ServerMoves

LEMMA VoiceBeginsKeeps ==
  ASSUME ConnectionInv, VoiceBegins
  PROVE  ConnectionInv'
<1>1. /\ WorldTypes /\ WorkerTypes /\ FlagTypes /\ RouteTypes /\ RecoveryTypes /\ ClientTypes
      /\ Places /\ HandlesOwned /\ AuthKept /\ RouteKept
  BY DEF ConnectionInv
<1>2. CASE TRUE
  <2>1. WorldTypes'
    BY <1>1 DEF VoiceBegins, world, WorldTypes
  <2> QED
    BY <1>1, <1>2, <2>1, WorldKeeps DEF VoiceBegins, world
<1> QED
  BY <1>2 DEF VoiceBegins

LEMMA VoiceEndsKeeps ==
  ASSUME ConnectionInv, VoiceEnds
  PROVE  ConnectionInv'
<1>1. /\ WorldTypes /\ WorkerTypes /\ FlagTypes /\ RouteTypes /\ RecoveryTypes /\ ClientTypes
      /\ Places /\ HandlesOwned /\ AuthKept /\ RouteKept
  BY DEF ConnectionInv
<1>2. CASE TRUE
  <2>1. WorldTypes'
    BY <1>1 DEF VoiceEnds, world, WorldTypes
  <2> QED
    BY <1>1, <1>2, <2>1, WorldKeeps DEF VoiceEnds, world
<1> QED
  BY <1>2 DEF VoiceEnds

LEMMA RetryDelayPassesKeeps ==
  ASSUME ConnectionInv, RetryDelayPasses
  PROVE  ConnectionInv'
<1>1. /\ WorldTypes /\ WorkerTypes /\ FlagTypes /\ RouteTypes /\ RecoveryTypes /\ ClientTypes
      /\ Places /\ HandlesOwned /\ AuthKept /\ RouteKept
  BY DEF ConnectionInv
<1>2. CASE TRUE
  <2>1. FlagTypes' /\ flags'.reset = flags.reset
    BY <1>1 DEF RetryDelayPasses, FlagTypes
  <2> QED
    BY <1>1, <1>2, <2>1, FlagsKeep DEF RetryDelayPasses, world
<1> QED
  BY <1>2 DEF RetryDelayPasses

LEMMA HandleNetworkAddressKeeps ==
  ASSUME ConnectionInv, NEW changed \in BOOLEAN, HandleNetworkAddress(changed)
  PROVE  ConnectionInv'
<1>1. /\ WorldTypes /\ WorkerTypes /\ FlagTypes /\ RouteTypes /\ RecoveryTypes /\ ClientTypes
      /\ Places /\ HandlesOwned /\ AuthKept /\ RouteKept
  BY DEF ConnectionInv
<1>2. CASE /\ UNCHANGED route
           /\ flags' = flags \/ flags' = [flags EXCEPT !.connecting = @ \/ client = None]
  <2>1. WorldTypes' /\ failed'.route = failed.route
    BY <1>1, NetworkTyped
  <2>2. FlagTypes' /\ flags'.reset = flags.reset
    BY <1>1, <1>2 DEF FlagTypes
  <2>3. UNCHANGED <<cfg, voice, started, stopper, worker, route, recovery, client, generation,
                    connected, handles>>
    BY <1>2 DEF HandleNetworkAddress
  <2> QED
    BY <2>1, <2>2, <2>3, SameNetworkKeeps
<1>3. CASE /\ started /\ route' = [route EXCEPT !.valid = TRUE, !.now = @ + 1,
                                         !.scheduled = @ \/ Refreshes(changed)]
           /\ flags' = IF Refreshes(changed) THEN [flags EXCEPT !.reset = TRUE]
                       ELSE [flags EXCEPT !.connecting = @ \/ client = None]
           /\ ~(route.valid /\ ~changed)
  <2>1. WorldTypes' /\ failed'.route = failed.route
    BY <1>1, NetworkTyped
  <2>2. Refreshes(changed) \in BOOLEAN
    BY DEF Refreshes
  <2>3. client # None => Refreshes(changed)
    BY <1>3 DEF Refreshes
  <2> QED
    BY <1>1, <1>3, <2>1, <2>2, <2>3, NewNetworkKeeps DEF HandleNetworkAddress, world
<1>4. CASE ~started
  <2>1. UNCHANGED <<route, flags>>
    BY <1>4 DEF HandleNetworkAddress
  <2> QED
    BY <1>2, <2>1
<1>5. CASE started /\ route.valid /\ ~changed
  <2>1. route' = route /\ flags' = [flags EXCEPT !.connecting = @ \/ client = None]
    BY <1>5 DEF HandleNetworkAddress
  <2> QED
    BY <1>2, <2>1
<1>6. CASE started /\ ~(route.valid /\ ~changed)
  <2>1. /\ route' = [route EXCEPT !.valid = TRUE, !.now = @ + 1, !.scheduled = @ \/ Refreshes(changed)]
        /\ flags' = IF Refreshes(changed) THEN [flags EXCEPT !.reset = TRUE]
                    ELSE [flags EXCEPT !.connecting = @ \/ client = None]
    BY <1>6 DEF HandleNetworkAddress, Refreshes
  <2> QED
    BY <1>3, <1>6, <2>1
<1> QED
  BY <1>4, <1>5, <1>6

LEMMA CredentialRotatedKeeps ==
  ASSUME ConnectionInv, CredentialRotated
  PROVE  ConnectionInv'
<1>1. /\ WorldTypes /\ WorkerTypes /\ FlagTypes /\ RouteTypes /\ RecoveryTypes /\ ClientTypes
      /\ Places /\ HandlesOwned /\ AuthKept /\ RouteKept
  BY DEF ConnectionInv
<1>2. CASE TRUE
  <2>1. /\ (client' = None) <=> (client = None)
        /\ client # None => /\ client' \in Clients /\ client'.gen = client.gen
                            /\ client'.route = client.route
    BY <1>1, AgedFacts DEF CredentialRotated
  <2>2. WorkerTypes' /\ UNCHANGED <<worker.pc, worker.mine, worker.route, worker.viaRoute>>
    BY <1>1, RotatedFacts DEF CredentialRotated
  <2>3. WorldTypes'
    BY <1>1 DEF CredentialRotated, StopAt, world, WorldTypes
  <2>4. (started <=> stopper'.pc \in {"none", "unbound"})
        /\ (stopper' = stopper \/ (stopper.pc = "none" /\ stopper'.pc = "unbound"))
    BY <1>1 DEF CredentialRotated, StopAt, WorldTypes, Places
  <2> QED
    BY <1>1, <1>2, <2>1, <2>2, <2>3, <2>4, AgedKeeps DEF CredentialRotated, world
<1> QED
  BY <1>2 DEF CredentialRotated

LEMMA UnbindKeeps ==
  ASSUME ConnectionInv, Unbind
  PROVE  ConnectionInv'
<1>1. /\ WorldTypes /\ WorkerTypes /\ FlagTypes /\ RouteTypes /\ RecoveryTypes /\ ClientTypes
      /\ Places /\ HandlesOwned /\ AuthKept /\ RouteKept
  BY DEF ConnectionInv
<1>2. CASE TRUE
  <2>1. /\ (client' = None) <=> (client = None)
        /\ client # None => /\ client' \in Clients /\ client'.gen = client.gen
                            /\ client'.route = client.route
    BY <1>1, AgedFacts DEF Unbind
  <2>2. WorkerTypes' /\ UNCHANGED <<worker.pc, worker.mine, worker.route, worker.viaRoute>>
    BY <1>1, RotatedFacts DEF Unbind
  <2>3. WorldTypes'
    BY <1>1 DEF Unbind, StopAt, world, WorldTypes
  <2>4. (started <=> stopper'.pc \in {"none", "unbound"})
        /\ (stopper' = stopper \/ (stopper.pc = "none" /\ stopper'.pc = "unbound"))
    BY <1>1 DEF Unbind, StopAt, WorldTypes, Places
  <2> QED
    BY <1>1, <1>2, <2>1, <2>2, <2>3, <2>4, AgedKeeps DEF Unbind, world
<1> QED
  BY <1>2 DEF Unbind

LEMMA StopBeginKeeps ==
  ASSUME ConnectionInv, StopBegin
  PROVE  ConnectionInv'
<1>1. /\ WorldTypes /\ WorkerTypes /\ FlagTypes /\ RouteTypes /\ RecoveryTypes /\ ClientTypes
      /\ Places /\ HandlesOwned /\ AuthKept /\ RouteKept
  BY DEF ConnectionInv
<1>2. CASE TRUE
  BY <1>1, <1>2, StopTakesKeeps DEF StopBegin, world
<1> QED
  BY <1>2 DEF StopBegin

LEMMA StopDestroyKeeps ==
  ASSUME ConnectionInv, StopDestroy
  PROVE  ConnectionInv'
<1>1. /\ WorldTypes /\ WorkerTypes /\ FlagTypes /\ RouteTypes /\ RecoveryTypes /\ ClientTypes
      /\ Places /\ HandlesOwned /\ AuthKept /\ RouteKept
  BY DEF ConnectionInv
<1>2. CASE Reboot
  BY <1>1, <1>2, RebootKeeps DEF StopDestroy, Reboot, world
<1>3. CASE /\ handles' = handles \ {stopper.mine} /\ StopAt("joining")
           /\ UNCHANGED <<cfg, world, started, worker, flags, route, recovery, client, generation,
                          connected, failed>>
  BY <1>1, <1>3, StopDestroyedKeeps DEF StopDestroy, StopAt, world
<1> QED
  BY <1>2, <1>3 DEF StopDestroy

LEMMA StopReturnKeeps ==
  ASSUME ConnectionInv, StopReturn
  PROVE  ConnectionInv'
<1>1. /\ WorldTypes /\ WorkerTypes /\ FlagTypes /\ RouteTypes /\ RecoveryTypes /\ ClientTypes
      /\ Places /\ HandlesOwned /\ AuthKept /\ RouteKept
  BY DEF ConnectionInv
<1>2. CASE TRUE
  BY <1>1, <1>2, StopReturnedKeeps DEF StopReturn, StopAt, world
<1> QED
  BY <1>2 DEF StopReturn

LEMMA BindKeeps ==
  ASSUME ConnectionInv, Bind
  PROVE  ConnectionInv'
<1>1. /\ WorldTypes /\ WorkerTypes /\ FlagTypes /\ RouteTypes /\ RecoveryTypes /\ ClientTypes
      /\ Places /\ HandlesOwned /\ AuthKept /\ RouteKept
  BY DEF ConnectionInv
<1>2. CASE /\ stopper.pc = "stopped" /\ stopper' = NoStop /\ started' = TRUE /\ worker' = IdleWorker
           /\ flags' = [flags EXCEPT !.forceRefresh = TRUE, !.connecting = online]
           /\ route' = [route EXCEPT !.valid = online]
  <2>1. WorldTypes'
    BY <1>1, <1>2 DEF Bind, world, WorldTypes, NoStop
  <2>2. failed'.route = failed.route /\ online \in BOOLEAN
    BY <1>1 DEF Bind, WorldTypes
  <2>3. FlagTypes'
    BY <1>1, <2>2, <1>2 DEF FlagTypes
  <2> QED
    BY <1>1, <1>2, <2>1, <2>2, <2>3, StartedAgainKeeps DEF Bind, world
<1>3. CASE /\ flags' = [flags EXCEPT !.connecting = @ \/ client = None]
           /\ UNCHANGED <<stopper, started, worker, route>>
  <2>1. WorldTypes'
    BY <1>1, <1>3 DEF Bind, world, WorldTypes, NoStop
  <2>2. failed'.route = failed.route /\ online \in BOOLEAN
    BY <1>1 DEF Bind, WorldTypes
  <2>3. FlagTypes' /\ flags'.reset = flags.reset
    BY <1>1, <1>3 DEF FlagTypes
  <2> QED
    BY <1>1, <1>3, <2>1, <2>2, <2>3, BoundAgainKeeps DEF Bind, world
<1> QED
  BY <1>2, <1>3 DEF Bind

LEMMA IsolatedStepKeeps ==
  ASSUME ConnectionInv, Isolated
  PROVE  ConnectionInv'
<1>1. /\ WorldTypes /\ WorkerTypes /\ FlagTypes /\ RouteTypes /\ RecoveryTypes /\ ClientTypes
      /\ Places /\ HandlesOwned /\ AuthKept /\ RouteKept
  BY DEF ConnectionInv
<1>2. CASE TRUE
  BY <1>1, <1>2, IsolatedKeeps DEF Isolated, At, world
<1> QED
  BY <1>2 DEF Isolated

LEMMA ConnectionInitHolds == ConnectionInit => ConnectionInv
<1> SUFFICES ASSUME ConnectionInit
             PROVE  ConnectionInv
  OBVIOUS
<1>1. WorldTypes
  BY DEF ConnectionInit, WorldTypes, NoStop, NoFailure
<1>2. WorkerTypes
  BY DEF ConnectionInit, WorkerTypes, IdleWorker, NoSnap, OtherPlaces
<1>3. FlagTypes /\ RecoveryTypes
  BY DEF ConnectionInit, FlagTypes, RecoveryTypes, NoFlags, NoRecovery
<1>4. RouteTypes
  BY DEF ConnectionInit, RouteTypes, NoRoute
<1>5. ClientTypes /\ Places /\ HandlesOwned
  BY DEF ConnectionInit, ClientTypes, Places, HandlesOwned, NoStop, IdleWorker, HoldsHandle
<1>6. AuthKept /\ RouteKept
  BY DEF ConnectionInit, AuthKept, RouteKept, NoRecovery, NoRoute, IdleWorker
<1> QED
  BY <1>1, <1>2, <1>3, <1>4, <1>5, <1>6 DEF ConnectionInv

LEMMA ConnectionStutters ==
  ASSUME ConnectionInv, UNCHANGED connectionVars
  PROVE  ConnectionInv'
<1>1. UNCHANGED <<cfg, server, online, voice, started, stopper, worker, flags, route, recovery,
                  client, generation, connected, handles, failed>>
  BY DEF connectionVars
<1>2. WorldTypes' /\ WorkerTypes' /\ FlagTypes' /\ RouteTypes' /\ RecoveryTypes' /\ ClientTypes'
  BY <1>1 DEF ConnectionInv, WorldTypes, WorkerTypes, FlagTypes, RouteTypes, RecoveryTypes,
    ClientTypes
<1>3. Places' /\ HandlesOwned' /\ AuthKept' /\ RouteKept'
  BY <1>1 DEF ConnectionInv, Places, HandlesOwned, AuthKept, RouteKept
<1> QED
  BY <1>2, <1>3 DEF ConnectionInv

LEMMA WorkerStepKeeps ==
  ASSUME ConnectionInv, WorkerStep
  PROVE  ConnectionInv'
<1>1. CASE ScheduleTransportRecovery
  BY <1>1, ScheduleTransportRecoveryKeeps
<1>2. CASE RefreshBegin
  BY <1>2, RefreshBeginKeeps
<1>3. CASE RefreshPlan
  BY <1>3, RefreshPlanKeeps
<1>4. CASE RefreshLoad
  BY <1>4, RefreshLoadKeeps
<1>5. CASE RefreshHttp
  BY <1>5, RefreshHttpKeeps
<1>6. CASE RefreshRotated
  BY <1>6, RefreshRotatedKeeps
<1>7. CASE Apply
  BY <1>7, ApplyKeeps
<1>8. CASE RefreshDecide
  BY <1>8, RefreshDecideKeeps
<1>9. CASE Retire
  BY <1>9, RetireKeeps
<1>10. CASE DestroyRetired
  BY <1>10, DestroyRetiredKeeps
<1>11. CASE Isolated
  BY <1>11, IsolatedStepKeeps
<1>12. CASE RefreshReload
  BY <1>12, RefreshReloadKeeps
<1>13. CASE RunConnection
  BY <1>13, RunConnectionKeeps
<1>14. CASE ConnectLoad
  BY <1>14, ConnectLoadKeeps
<1>15. CASE ConnectHttp
  BY <1>15, ConnectHttpKeeps
<1>16. CASE ConnectAgain
  BY <1>16, ConnectAgainKeeps
<1>17. CASE ClientCreate
  BY <1>17, ClientCreateKeeps
<1>18. CASE ClientInit
  BY <1>18, ClientInitKeeps
<1>19. CASE ClientAttach
  BY <1>19, ClientAttachKeeps
<1>20. CASE ClientStart
  BY <1>20, ClientStartKeeps
<1>21. CASE ClientFinish
  BY <1>21, ClientFinishKeeps
<1>22. CASE WorkerExit
  BY <1>22, WorkerExitKeeps
<1> QED
  BY <1>1, <1>2, <1>3, <1>4, <1>5, <1>6, <1>7, <1>8, <1>9, <1>10, <1>11, <1>12, <1>13,
    <1>14, <1>15, <1>16, <1>17, <1>18, <1>19, <1>20, <1>21, <1>22 DEF WorkerStep

LEMMA SdkStepKeeps ==
  ASSUME ConnectionInv, SdkStep
  PROVE  ConnectionInv'
<1>1. CASE MqttConnected
  BY <1>1, MqttConnectedKeeps
<1>2. CASE TransportFailures
  BY <1>2, TransportFailuresKeeps
<1>3. CASE ScheduleCredentialRefresh
  BY <1>3, ScheduleCredentialRefreshKeeps
<1> QED
  BY <1>1, <1>2, <1>3 DEF SdkStep

LEMMA StopStepKeeps ==
  ASSUME ConnectionInv, StopStep
  PROVE  ConnectionInv'
<1>1. CASE StopBegin
  BY <1>1, StopBeginKeeps
<1>2. CASE StopDestroy
  BY <1>2, StopDestroyKeeps
<1>3. CASE StopReturn
  BY <1>3, StopReturnKeeps
<1> QED
  BY <1>1, <1>2, <1>3 DEF StopStep

LEMMA ConnectionNextKeeps ==
  ASSUME ConnectionInv, [ConnectionNext]_connectionVars
  PROVE  ConnectionInv'
<1>1. CASE WorkerStep
  BY <1>1, WorkerStepKeeps
<1>2. CASE SdkStep
  BY <1>2, SdkStepKeeps
<1>3. CASE StopStep
  BY <1>3, StopStepKeeps
<1>4. CASE MqttDisconnected
  BY <1>4, MqttDisconnectedKeeps
<1>5. CASE \E changed \in BOOLEAN : HandleNetworkAddress(changed)
  BY <1>5, HandleNetworkAddressKeeps
<1>6. CASE ServerMoves
  BY <1>6, ServerMovesKeeps
<1>7. CASE CredentialRotated
  BY <1>7, CredentialRotatedKeeps
<1>8. CASE VoiceBegins
  BY <1>8, VoiceBeginsKeeps
<1>9. CASE VoiceEnds
  BY <1>9, VoiceEndsKeeps
<1>10. CASE RetryDelayPasses
  BY <1>10, RetryDelayPassesKeeps
<1>11. CASE CooldownPasses
  BY <1>11, CooldownPassesKeeps
<1>12. CASE Unbind
  BY <1>12, UnbindKeeps
<1>13. CASE Bind
  BY <1>13, BindKeeps
<1>14. CASE UNCHANGED connectionVars
  BY <1>14, ConnectionStutters
<1> QED
  BY <1>1, <1>2, <1>3, <1>4, <1>5, <1>6, <1>7, <1>8, <1>9, <1>10, <1>11, <1>12, <1>13,
    <1>14 DEF ConnectionNext

\* The invariant of the connection.
THEOREM ConnectionInvariant == ConnectionSpec => []ConnectionInv
<1>1. ConnectionInit => ConnectionInv
  BY ConnectionInitHolds
<1>2. ConnectionInv /\ [ConnectionNext]_connectionVars => ConnectionInv'
  BY ConnectionNextKeeps
<1> QED
  BY <1>1, <1>2, PTL DEF ConnectionSpec

LEMMA ConnectionTypesGiven == ConnectionInv => ConnectionTypeOK
<1>1. ASSUME ConnectionInv
      PROVE  ConnectionTypeOK
  <2>1. WorldTypes /\ WorkerTypes /\ FlagTypes /\ Places /\ HandlesOwned
    BY <1>1 DEF ConnectionInv
  <2>2. worker.pc \in NoClientYet \cup OtherPlaces
    BY <2>1 DEF WorkerTypes
  <2>3. client # None => client.gen = generation /\ client.gen \in handles
    BY <2>1 DEF Places, HandlesOwned
  <2> QED
    BY <2>1, <2>2, <2>3 DEF ConnectionTypeOK, WorldTypes, FlagTypes, NoClientYet, OtherPlaces
<1> QED
  BY <1>1

\* Two clients of the SDK never exist at once: a client is initialised only after the
\* one before it was destroyed by the worker or the Stop that took it (DestroyClient).
THEOREM OneClientAtATime == ConnectionSpec => []OneSdkClient
<1>1. ASSUME ConnectionInv
      PROVE  OneSdkClient
  <2>1. handles = {} \/ \E n : handles = {n}
    BY <1>1 DEF ConnectionInv, HandlesOwned
  <2>2. CASE handles = {}
    <3>1. Cardinality(handles) = 0
      BY <2>2, FS_EmptySet
    <3> QED
      BY <3>1 DEF OneSdkClient
  <2>3. ASSUME NEW n, handles = {n}
        PROVE  OneSdkClient
    <3>1. Cardinality(handles) = 1
      BY <2>3, FS_Singleton
    <3> QED
      BY <3>1 DEF OneSdkClient
  <2> QED
    BY <2>1, <2>2, <2>3
<1> QED
  BY <1>1, ConnectionInvariant, PTL

\* No round consumes a rejection or a network that came up while it ran
\* (FinishCredentialRefresh).
THEOREM RoundsForgetNothing == ConnectionSpec => []NothingForgotten
<1>1. ASSUME ConnectionInv
      PROVE  NothingForgotten
  <2>1. AuthKept /\ RouteKept
    BY <1>1 DEF ConnectionInv
  <2> QED
    BY <2>1 DEF AuthKept, RouteKept, NothingForgotten
<1> QED
  BY <1>1, ConnectionInvariant, PTL

(***************************************************************************)
(* The parts side by side: a step of one leaves the others alone.           *)
(***************************************************************************)
CloudInv == LedgerInv /\ LedgerBounds /\ ConnectionInv /\ StreamsInv

LEMMA CloudStepKeeps ==
  ASSUME CloudInv, [CloudNext]_all
  PROVE  CloudInv'
  <1>1. LedgerInv /\ LedgerBounds /\ ConnectionInv /\ StreamsInv /\ LedgerTypes
    BY DEF CloudInv, LedgerInv
  <1>2. /\ [LedgerNext]_ledgerVars
        /\ [ConnectionNext]_connectionVars
        /\ [StreamsNext]_streamVars
    BY DEF CloudNext, LedgerRuns, ConnectionRuns, StreamsRun, all
  <1>3. LedgerInv' /\ LedgerBounds'
    BY <1>1, <1>2, LedgerNextHolds, LedgerBoundsKept
  <1>4. ConnectionInv'
    BY <1>1, <1>2, ConnectionNextKeeps
  <1>5. StreamsInv'
    BY <1>1, <1>2, StreamsNextKeeps
  <1> QED BY <1>3, <1>4, <1>5 DEF CloudInv

\* Whichever part of UnifiedMqttService runs, its invariant holds beside those of the
\* others.
THEOREM CloudInvariant == CloudSpec => []CloudInv
  <1>1. CloudInit => CloudInv
    BY LedgerInitHolds, LedgerBoundsInit, ConnectionInitHolds, StreamsInitHolds
       DEF CloudInit, CloudInv
  <1>2. CloudInv /\ [CloudNext]_all => CloudInv'
    BY CloudStepKeeps
  <1> QED BY <1>1, <1>2, PTL DEF CloudSpec

\* The state of the service keeps its types, and its counters the bounds of the model.
THEOREM CloudTyped == CloudSpec => []CloudTypeOK
  <1>1. ASSUME CloudInv
        PROVE  CloudTypeOK
    <2>1. LedgerInv /\ LedgerBounds /\ ConnectionInv /\ StreamsInv
      BY <1>1 DEF CloudInv
    <2> QED BY <2>1, LedgerTypesGiven, ConnectionTypesGiven, StreamsTypesGiven DEF CloudTypeOK
  <1> QED BY <1>1, CloudInvariant, PTL
=============================================================================
