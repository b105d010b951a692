----------------------------- MODULE OtaJournal -----------------------------
(***************************************************************************)
(* The OTA recovery journal (components/rodak_ota_state/rodak_ota_state.cc): *)
(* two NVS blobs, record_a and record_b, each with a 32-bit generation that *)
(* wraps and a CRC.  A save reads both, writes the one that is not the       *)
(* newest, and may be cut by a reset before, in the middle of or after the   *)
(* write.  Saves of different tasks are not serialised by any lock.  NVS is  *)
(* external: a write that returns an error may have been made or not, a      *)
(* write cut by a reset may also leave a blob whose CRC does not match.      *)
(***************************************************************************)
EXTENDS Integers

CONSTANTS
    Writers,        \* tasks that save: main loop, report, handoff, Recovery
    Contents,       \* OtaUpdateRecords that pass ValidateRecord
    NoRecord,
    Modulus,        \* 2^32: generations wrap
    MaxOvertakes    \* saves that may complete inside another save's window

\* MaxOvertakes is an assumption about the callers that no lock enforces: a save is
\* held up between its reads and its write for less than three saves of others.
ASSUME JournalAssumption ==
    /\ NoRecord \notin Contents
    /\ Modulus \in Nat /\ Modulus >= 8 /\ Modulus % 2 = 0
    /\ MaxOvertakes \in 0..2

Slots == {"a", "b"}

VARIABLES
    slot,       \* slot[x]: the blob in NVS
    save,       \* save[w]: the save in progress of writer w
    alone,      \* alone[w]: whether another save overlapped it (history)
    reply       \* reply[w]: what the last save of w returned
vars == <<slot, save, alone, reply>>

Missing == [status |-> "missing", generation |-> 0, record |-> NoRecord]
Corrupt == [status |-> "corrupt", generation |-> 0, record |-> NoRecord]
Blob(g, r) == [status |-> "valid", generation |-> g, record |-> r]
NoSave  == [at |-> "idle", record |-> NoRecord, target |-> "a", generation |-> 0,
            overtaken |-> 0, since |-> {}]  \* since (history): what loads returned, and what
                                            \* other saves left behind, since it began

Other(x) == IF x = "a" THEN "b" ELSE "a"

(***************************************************************************)
(* Slot selection.                                                         *)
(***************************************************************************)
\* Bug: plain comparison, wrong once the generation wraps.
IsNewerUnsigned(candidate, baseline) == candidate > baseline
IsNewerGeneration(candidate, baseline) ==
    (candidate - baseline) % Modulus \in 1..(Modulus \div 2 - 1)

Valid(slots) == {x \in Slots : slots[x].status = "valid"}

\* The newest valid slot; slot b replaces a only when it is strictly newer.
Newest(slots) ==
    IF "a" \in Valid(slots)
       /\ ~("b" \in Valid(slots)
            /\ IsNewerGeneration(slots["b"].generation, slots["a"].generation))
    THEN "a" ELSE "b"

\* LoadOtaUpdateRecordStatus, when both slots can be read.
Load(slots) == IF Valid(slots) = {} THEN NoRecord ELSE slots[Newest(slots)].record

LoadStatus(slots) ==
    IF Valid(slots) # {} THEN "valid"
    ELSE IF \E x \in Slots : slots[x].status = "corrupt" THEN "corrupt" ELSE "empty"

\* Bug: the copy that is still good is overwritten.
TargetNewest(slots) == Newest(slots)
Target(slots) ==
    CASE Valid(slots) = {"a"}  -> "b"
      [] Valid(slots) = Slots  -> Other(Newest(slots))
      [] OTHER                 -> "a"

\* Bug: the counter is wider than the field it is stored in.
NextGenerationUnwrapped(slots) ==
    IF Valid(slots) = {} THEN 1 ELSE slots[Newest(slots)].generation + 1
NextGeneration(slots) ==
    IF Valid(slots) = {} THEN 1
    ELSE (slots[Newest(slots)].generation + 1) % Modulus

(***************************************************************************)
(* SaveOtaUpdateRecord.                                                    *)
(***************************************************************************)
MayTarget(readable) == readable = Slots /\ LoadStatus(slot) # "corrupt"
Seen(readable) == [x \in Slots |-> IF x \in readable THEN slot[x] ELSE Missing]

Saving == {w \in Writers : save[w].at # "idle"}

\* ReadSlot of both, then the choice of the target and of the generation.
BeginSave(w, r) ==
    /\ save[w].at = "idle"
    /\ \E readable \in SUBSET Slots :
          LET seen == Seen(readable) IN
          save' = [save EXCEPT ![w] =
              IF MayTarget(readable)
              THEN [at |-> "write", record |-> r, target |-> Target(seen),
                    generation |-> NextGeneration(seen), overtaken |-> 0,
                    since |-> {Load(slot)}]
              ELSE [NoSave EXCEPT !.at = "refused", !.record = r, !.since = {Load(slot)}]]
    /\ alone' = [v \in Writers |-> IF v = w THEN Saving = {} ELSE alone[v] /\ v \notin Saving]
    /\ reply' = [reply EXCEPT ![w] = FALSE]
    /\ UNCHANGED slot

Refuse(w) ==
    /\ save[w].at = "refused"
    /\ save' = [save EXCEPT ![w] = NoSave]
    /\ UNCHANGED <<slot, alone, reply>>

Written(w) == [slot EXCEPT ![save[w].target] = Blob(save[w].generation, save[w].record)]

\* The other saves in progress see the journal change; those that chose their
\* slot are overtaken once more.
Returned(w) ==
    [v \in Writers |->
        IF v = w THEN NoSave
        ELSE IF v \notin Saving THEN save[v]
        ELSE [save[v] EXCEPT !.since = @ \cup {Load(slot'), save[w].record},
                             !.overtaken = IF save[v].at = "write" THEN @ + 1 ELSE @]]
MayReturn(w) == \A v \in Writers \ {w} : save[v].at = "write" => save[v].overtaken < MaxOvertakes

\* nvs_set_blob and nvs_commit: true only when the blob was written.
WriteSlot(w) ==
    /\ save[w].at = "write"
    /\ MayReturn(w)
    /\ \E ok \in BOOLEAN :
          /\ slot' \in (IF ok THEN {Written(w)} ELSE {slot, Written(w)})
          /\ reply' = [reply EXCEPT ![w] = ok]
    /\ save' = Returned(w)
    /\ UNCHANGED alone

\* A reset, at most one write being cut (NVS serialises single operations).
Reset ==
    /\ slot' \in {slot}
          \cup {Written(w) : w \in {v \in Writers : save[v].at = "write"}}
          \cup {[slot EXCEPT ![save[w].target] = Corrupt] :
                    w \in {v \in Writers : save[v].at = "write"}}
    /\ save' = [w \in Writers |-> NoSave]
    /\ alone' = [w \in Writers |-> TRUE]
    /\ reply' = [w \in Writers |-> FALSE]

Init ==
    /\ slot = [x \in Slots |-> Missing]
    /\ save = [w \in Writers |-> NoSave]
    /\ alone = [w \in Writers |-> TRUE]
    /\ reply = [w \in Writers |-> FALSE]

Next ==
    \/ \E w \in Writers, r \in Contents : BeginSave(w, r)
    \/ \E w \in Writers : Refuse(w) \/ WriteSlot(w)
    \/ Reset

Spec == Init /\ [][Next]_vars
-----------------------------------------------------------------------------
TypeOK ==
    /\ slot \in [Slots -> {Missing, Corrupt} \cup {Blob(g, r) : g \in 0..Modulus - 1, r \in Contents}]
    /\ save \in [Writers -> [at : {"idle", "write", "refused"}, record : Contents \cup {NoRecord},
                             target : Slots, generation : 0..Modulus - 1,
                             overtaken : 0..MaxOvertakes, since : SUBSET (Contents \cup {NoRecord})]]
    /\ alone \in [Writers -> BOOLEAN]
    /\ reply \in [Writers -> BOOLEAN]

\* The journal implements one durable record: what a load returns changes only
\* to a record being saved, and a save that ran alone and returned true is what
\* every later load returns (mqtt-ota-sd-recovery.md: alternating A/B blobs with
\* a generation number and CRC32; Recovery selects the newest valid one).
Store == INSTANCE RecordStore WITH
            stored <- Load(slot),
            saving <- [w \in Writers |-> save[w].record],
            since <- [w \in Writers |-> save[w].since]
StoreImplemented == Store!Spec

\* The journal never becomes unreadable once a record was stored: a cut write
\* costs at most the copy that was not the newest one, unless two saves of
\* different tasks overlapped and chose the same slot.
NeverLost ==
    [][LoadStatus(slot) = "valid" /\ (\A w \in Saving : alone[w])
          => LoadStatus(slot)' = "valid"]_vars
=============================================================================
