----------------------------- MODULE OtaHistory -----------------------------
(***************************************************************************)
(* OtaSystem with a history variable: the tasks that left the journal       *)
(* before the server had a result for them, and have none yet.              *)
(***************************************************************************)
EXTENDS OtaSystem

VARIABLE lost

hvars == <<vars, lost>>

\* The task that this step takes out of the journal, unless it is answered.
Forgotten == {t \in DOMAIN result : /\ journal.task = t /\ result[t] = {}
                                    /\ journal'.task # t}
Records == lost' = {t \in lost \cup Forgotten : result'[t] = {}}

HInit == Init /\ lost = {}
HNext == Next /\ Records
HSpec == HInit /\ [][HNext]_hvars
-----------------------------------------------------------------------------
\* A task that is answered or lost is over, whatever still works on it.
Over(t) == result[t] # {} \/ t \in lost

\* A task leaves the journal only when the server has its result.  The one way
\* left is a process still busy with another task that is over: the report task
\* clearing a record that a download has cleared before it, or a second handoff
\* that fails late and puts the record of its task back.
NotForgotten ==
    [][\A t \in lost' \ lost :
          \E p \in Procs : loc[p].task \in Tasks \ {t} /\ Over(loc[p].task)]_hvars
=============================================================================
