---------------------------- MODULE RecordStore ----------------------------
(***************************************************************************)
(* What the OTA code needs of its journal, and all it may rely on: one      *)
(* durable record.  A save either replaces it or leaves it alone, whatever  *)
(* it answers and wherever a reset cuts it; a save that ran alone and       *)
(* answered true did replace it.  Of overlapping saves, a reset that cuts   *)
(* one may also undo the others: what was stored, or what another one has    *)
(* been saving, since it began comes back.  Nothing else changes the record. *)
(***************************************************************************)
CONSTANTS Writers, Contents, NoRecord

VARIABLES
    stored,     \* the record a load returns
    saving,     \* saving[w]: the record writer w is saving, or NoRecord
    since,      \* since[w]: what was stored at some time since that save began, and
                \* what saves that have returned since then may have left behind
    alone,      \* alone[w]: no other save has overlapped the one of w
    reply       \* reply[w]: what the last save of w answered
vars == <<stored, saving, since, alone, reply>>

Init == /\ stored = NoRecord
        /\ saving = [w \in Writers |-> NoRecord]
        /\ since = [w \in Writers |-> {}]
        /\ alone = [w \in Writers |-> TRUE]
        /\ reply = [w \in Writers |-> FALSE]

Busy == {w \in Writers : saving[w] # NoRecord}

Begin(w, r) ==
    /\ saving[w] = NoRecord
    /\ saving' = [saving EXCEPT ![w] = r]
    /\ since' = [since EXCEPT ![w] = {stored}]
    /\ alone' = [v \in Writers |-> IF v = w THEN Busy = {} ELSE alone[v] /\ v \notin Busy]
    /\ reply' = [reply EXCEPT ![w] = FALSE]
    /\ UNCHANGED stored

Return(w, ok) ==
    /\ saving[w] # NoRecord
    /\ stored' \in {stored, saving[w]}
    /\ ok /\ alone[w] => stored' = saving[w]
    /\ saving' = [saving EXCEPT ![w] = NoRecord]
    /\ \E behind \in {{}, {saving[w]}} :
          since' = [v \in Writers |->
                      IF v \in Busy \ {w} THEN since[v] \cup {stored'} \cup behind ELSE {}]
    /\ reply' = [reply EXCEPT ![w] = ok]
    /\ UNCHANGED alone

Reset ==
    /\ stored' \in {stored} \cup {saving[w] : w \in Busy}
                            \cup UNION {since[w] : w \in {v \in Busy : ~alone[v]}}
    /\ saving' = [w \in Writers |-> NoRecord]
    /\ since' = [w \in Writers |-> {}]
    /\ alone' = [w \in Writers |-> TRUE]
    /\ reply' = [w \in Writers |-> FALSE]

Next == \/ \E w \in Writers, r \in Contents : Begin(w, r)
        \/ \E w \in Writers, ok \in BOOLEAN : Return(w, ok)
        \/ Reset

Spec == Init /\ [][Next]_vars
=============================================================================
