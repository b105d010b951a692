--------------------------- MODULE CommandLedger ---------------------------
(***************************************************************************)
(* MqttCommandLedger (main/phone_os/mqtt_command_ledger.cc): the bounded    *)
(* memory by which a command the cloud delivers again is answered instead   *)
(* of executed again.  Its callers hold the MQTT lock, so Begin, Complete   *)
(* and ResetAuthority are atomic; between Begin and Complete a command runs  *)
(* outside the lock, for any time, as a job that holds the ticket.          *)
(*                                                                         *)
(* The entries form a set ordered by their sequence, as the deque is.  Every *)
(* reply takes one unit of the response budget, and stands for the job that  *)
(* produced it.                                                            *)
(***************************************************************************)
EXTENDS Naturals, FiniteSets

CONSTANTS
    Commands,       \* command numbers
    Payloads,       \* payload digests
    Capacity,       \* kCapacity
    Budget,         \* kResponseBudgetBytes, in replies
    MaxSequence,    \* the largest value of next_sequence_
    MaxResets       \* bound: authority resets

ASSUME LedgerAssumption ==
    /\ Capacity \in Nat \ {0} /\ Budget \in Nat \ {0}
    /\ MaxSequence \in Nat /\ MaxResets \in Nat

VARIABLES
    authority,      \* authority_
    next,           \* next_sequence_
    entries,        \* entries_: [seq, cmd, payload, complete, response]
    jobs,           \* commands being executed, each with its ticket
    ran,            \* history: every job ever admitted
    answer          \* the last answer given without executing

ledgerVars == <<authority, next, entries, jobs, ran, answer>>

Job   == [authority : Nat, seq : Nat, cmd : Commands, payload : Payloads]
Entry == [seq : Nat, cmd : Commands, payload : Payloads, complete : BOOLEAN, response : Nat]
Answers == {"none", "conflict", "pending", "unavailable", "replay", "full"}
NoAnswer == [kind |-> "none", job |-> [seq |-> 0]]

Oldest(es)  == {e \in es : \A f \in es : e.seq <= f.seq}
Completed   == {e \in entries : e.complete}
Replies(es) == {e \in es : e.response # 0}
Full        == Cardinality(entries) = Capacity
Remembered(c) == \E e \in entries : e.cmd = c

(***************************************************************************)
(* Begin: a command that is not remembered is executed, and when the memory  *)
(* is full the oldest completed entry makes room for it.                    *)
(***************************************************************************)
\* Bug: the oldest entry makes room, also while its command is being executed.
EvictedAnyOldest == IF Full THEN Oldest(entries) ELSE {}

Evicted == IF Full THEN Oldest(Completed) ELSE {}

Begin(c, p) ==
    /\ ~Remembered(c)
    /\ next < MaxSequence
    /\ Full => Evicted # {}
    /\ next' = next + 1
    /\ entries' = (entries \ Evicted) \cup
           {[seq |-> next + 1, cmd |-> c, payload |-> p, complete |-> FALSE, response |-> 0]}
    /\ LET job == [authority |-> authority, seq |-> next + 1, cmd |-> c, payload |-> p]
       IN  jobs' = jobs \cup {job} /\ ran' = ran \cup {job}
    /\ answer' = NoAnswer
    /\ UNCHANGED authority

\* What Begin answers otherwise.
Verdict(c, p) ==
    IF Remembered(c)
    THEN LET e == CHOOSE e \in entries : e.cmd = c
         IN  IF e.payload # p THEN [kind |-> "conflict", job |-> [seq |-> 0]]
             ELSE IF ~e.complete THEN [kind |-> "pending", job |-> [seq |-> 0]]
             ELSE IF e.response = 0 THEN [kind |-> "unavailable", job |-> [seq |-> 0]]
             ELSE [kind |-> "replay", job |-> [seq |-> e.response, cmd |-> c, payload |-> p]]
    ELSE [kind |-> "full", job |-> [seq |-> 0]]

Answer(c, p) ==
    /\ Remembered(c) \/ next = MaxSequence \/ (Full /\ Evicted = {})
    /\ answer' = Verdict(c, p)
    /\ UNCHANGED <<authority, next, entries, jobs, ran>>

(***************************************************************************)
(* Complete: the entry of the ticket is completed, and keeps the reply if it *)
(* has one, at the cost of the oldest replies.                              *)
(***************************************************************************)
\* Bug: the entry is looked up by the number of the command.
TicketOfByNumber(job) == {e \in entries : e.cmd = job.cmd /\ ~e.complete}

TicketOf(job) ==
    IF job.authority = authority
    THEN {e \in entries : e.seq = job.seq /\ ~e.complete} ELSE {}

Dropped == IF Cardinality(Replies(entries)) >= Budget THEN Oldest(Replies(entries)) ELSE {}

Complete(job, reply) ==
    /\ jobs' = jobs \ {job}
    /\ entries' =
         IF TicketOf(job) = {} THEN entries
         ELSE {IF e \in TicketOf(job)
               THEN [e EXCEPT !.complete = TRUE, !.response = IF reply THEN job.seq ELSE 0]
               ELSE IF reply /\ e \in Dropped THEN [e EXCEPT !.response = 0] ELSE e
               : e \in entries}
    /\ UNCHANGED <<authority, next, ran, answer>>

ResetAuthority ==
    /\ authority < MaxResets
    /\ authority' = authority + 1 /\ entries' = {}
    /\ UNCHANGED <<next, jobs, ran, answer>>

LedgerInit ==
    /\ authority = 0 /\ next = 0 /\ entries = {} /\ jobs = {} /\ ran = {}
    /\ answer = NoAnswer

LedgerNext ==
    \/ \E c \in Commands, p \in Payloads : Begin(c, p) \/ Answer(c, p)
    \/ \E job \in jobs, reply \in BOOLEAN : Complete(job, reply)
    \/ ResetAuthority

LedgerSpec == LedgerInit /\ [][LedgerNext]_ledgerVars

LedgerTypeOK ==
    /\ authority \in 0..MaxResets /\ next \in 0..MaxSequence
    /\ entries \subseteq Entry /\ jobs \subseteq Job /\ ran \subseteq Job
    /\ answer.kind \in Answers

\* One command is never executed twice at the same time under one authority,
\* however often it is delivered and whatever is evicted (Begin).
NeverTwiceAtOnce ==
    \A j, k \in jobs :
        j.authority = authority /\ k.authority = authority /\ j.cmd = k.cmd => j = k

\* A replayed answer is the outcome of a run of that very command with that very
\* payload, however late its completion came (Complete).
ReplayIsOwn ==
    answer.kind = "replay" =>
        \E j \in ran : /\ j.seq = answer.job.seq
                       /\ j.cmd = answer.job.cmd /\ j.payload = answer.job.payload
=============================================================================
