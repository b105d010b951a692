-------------------------- MODULE OtaJournal_proof --------------------------
(***************************************************************************)
(* Proofs about the OTA journal, for any number of writer tasks and records, *)
(* any even width of the generation counter and saves overtaken up to twice. *)
(*                                                                         *)
(* Two valid copies always have neighbouring generations, so the signed      *)
(* difference of the code decides which is the newer one, wrapped or not     *)
(* (Neighbours).  A save in progress was overtaken by at most two others, so *)
(* it writes over the older copy, or over the newest one under its very      *)
(* generation, or below the newest one (Fresh, Once, Twice): the newest copy *)
(* stays or becomes the one being saved.                                     *)
(***************************************************************************)
EXTENDS OtaJournal, TLAPS

Generations == 0 .. Modulus - 1
Succ(g) == (g + 1) % Modulus

Blobs  == {Blob(g, r) : g \in Generations, r \in Contents}
Copies == [Slots -> {Missing, Corrupt} \cup Blobs]

\* The copies after a write of b to slot t.
Put(slots, t, b) == [slots EXCEPT ![t] = b]

\* Of two valid copies one is the next generation after the other.
Neighbours(slots) ==
    Valid(slots) = Slots =>
        slots[Newest(slots)].generation = Succ(slots[Other(Newest(slots))].generation)

\* What a load would return if the newest copy were lost.
Second(slots) ==
    IF Other(Newest(slots)) \in Valid(slots) THEN slots[Other(Newest(slots))].record ELSE NoRecord

\* Where the save of w stands: nothing has been written since it chose its slot,
\* or one generation has, or two have.
Fresh(w) == /\ save[w].target = Other(Newest(slot))
            /\ save[w].generation = Succ(slot[Newest(slot)].generation)
Once(w)  == /\ save[w].overtaken >= 1
            /\ save[w].target = Newest(slot)
            /\ save[w].generation = slot[Newest(slot)].generation
            /\ Second(slot) \in save[w].since
Twice(w) == /\ save[w].overtaken >= 2
            /\ save[w].target = Other(Newest(slot))
            /\ Succ(save[w].generation) = slot[Newest(slot)].generation
First(w) == /\ slot = [x \in Slots |-> Missing]
            /\ save[w].target = "a"
            /\ save[w].generation = 1

Standing ==
    \A w \in Writers : save[w].at = "write" =>
        IF Valid(slot) = {} THEN First(w) ELSE Fresh(w) \/ Once(w) \/ Twice(w)

\* A save in progress has a record, has answered nothing and has seen what a load
\* returns; one that ran alone so far is the only one and was never overtaken.
SavesOK ==
    \A w \in Writers :
        /\ save[w].at = "idle" => save[w] = NoSave
        /\ save[w].at # "idle" => /\ save[w].record \in Contents
                                  /\ Load(slot) \in save[w].since
                                  /\ ~reply[w]
                                  /\ alone[w] => Saving = {w} /\ save[w].overtaken = 0

IInv == TypeOK /\ Neighbours(slot) /\ Standing /\ SavesOK

(***************************************************************************)
(* Generations.                                                            *)
(***************************************************************************)

\* The successor of a generation, wrapping at the modulus.
LEMMA SuccIs ==
  ASSUME NEW g \in Generations
  PROVE  /\ Succ(g) = IF g = Modulus - 1 THEN 0 ELSE g + 1
         /\ Succ(g) \in Generations
  <1>1. Modulus \in Nat /\ Modulus >= 8
    BY JournalAssumption
  <1> QED BY <1>1 DEF Succ, Generations

LEMMA Half == Modulus \div 2 \in Nat /\ Modulus \div 2 >= 4 /\ Modulus \div 2 < Modulus - 2
  BY JournalAssumption

\* A generation is newer than the one before it, and no generation than itself
\* or than the one after it.
LEMMA NewerIs ==
  ASSUME NEW g \in Generations
  PROVE  /\ IsNewerGeneration(Succ(g), g)
         /\ ~IsNewerGeneration(g, Succ(g))
         /\ ~IsNewerGeneration(g, g)
  <1>1. Modulus \in Nat /\ Modulus >= 8
    BY JournalAssumption
  <1>2. CASE g = Modulus - 1
    <2>1. Succ(g) = 0
      BY <1>2, SuccIs
    <2>2. (0 - g) % Modulus = 1
      BY <1>1, <1>2
    <2>3. (g - 0) % Modulus = Modulus - 1
      BY <1>1, <1>2
    <2>4. (g - g) % Modulus = 0
      BY <1>1, <1>2
    <2> QED BY <1>1, <2>1, <2>2, <2>3, <2>4, Half DEF IsNewerGeneration
  <1>3. CASE g # Modulus - 1
    <2>1. Succ(g) = g + 1
      BY <1>3, SuccIs
    <2>2. ((g + 1) - g) % Modulus = 1
      BY <1>1 DEF Generations
    <2>3. (g - (g + 1)) % Modulus = Modulus - 1
      BY <1>1 DEF Generations
    <2>4. (g - g) % Modulus = 0
      BY <1>1 DEF Generations
    <2> QED BY <1>1, <2>1, <2>2, <2>3, <2>4, Half DEF IsNewerGeneration
  <1> QED BY <1>2, <1>3

(***************************************************************************)
(* The two copies.                                                         *)
(***************************************************************************)
LEMMA CopyFields ==
  ASSUME NEW slots \in Copies, NEW x \in Slots
  PROVE  /\ slots[x].status \in {"missing", "corrupt", "valid"}
         /\ x \in Valid(slots) => /\ slots[x].generation \in Generations
                                  /\ slots[x].record \in Contents
                                  /\ slots[x].record # NoRecord
  BY JournalAssumption DEF Copies, Blobs, Blob, Missing, Corrupt, Valid

LEMMA OtherSlot ==
  ASSUME NEW x \in Slots
  PROVE  Other(x) \in Slots /\ Other(x) # x /\ Other(Other(x)) = x /\ Slots = {x, Other(x)}
  BY DEF Slots, Other

\* The newest copy is a valid one, the only one or the one ahead of the other.
LEMMA NewestIs ==
  ASSUME NEW slots \in Copies
  PROVE  /\ Newest(slots) \in Slots
         /\ Valid(slots) # {} => Newest(slots) \in Valid(slots)
         /\ \A x \in Slots :
               x \in Valid(slots) /\ (Other(x) \in Valid(slots) =>
                                         slots[x].generation = Succ(slots[Other(x)].generation))
               => Newest(slots) = x
  <1>1. Newest(slots) \in Slots
    BY DEF Newest, Slots
  <1>2. Valid(slots) # {} => Newest(slots) \in Valid(slots)
    BY DEF Newest, Valid, Slots
  <1>3. ASSUME NEW x \in Slots, x \in Valid(slots),
               Other(x) \in Valid(slots) => slots[x].generation = Succ(slots[Other(x)].generation)
        PROVE  Newest(slots) = x
    <2>1. CASE Other(x) \notin Valid(slots)
      BY <1>3, <2>1 DEF Newest, Other, Slots
    <2>2. CASE Other(x) \in Valid(slots)
      <3> DEFINE g == slots[Other(x)].generation
      <3>1. g \in Generations /\ slots[x].generation = Succ(g)
        BY <1>3, <2>2, CopyFields, OtherSlot
      <3>2. IsNewerGeneration(slots[x].generation, g) /\ ~IsNewerGeneration(g, slots[x].generation)
        BY <3>1, NewerIs
      <3> QED BY <1>3, <2>2, <3>2 DEF Newest, Other, Slots
    <2> QED BY <2>1, <2>2
  <1> QED BY <1>1, <1>2, <1>3

\* What a write puts into a slot, and what a torn one leaves there.
LEMMA PutCopy ==
  ASSUME NEW slots \in Copies, NEW t \in Slots, NEW g \in Generations, NEW r \in Contents,
         NEW new, new = Put(slots, t, Blob(g, r))
  PROVE  /\ new \in Copies
         /\ Valid(new) = Valid(slots) \cup {t}
         /\ new[t].generation = g /\ new[t].record = r
         /\ new[Other(t)] = slots[Other(t)]
  <1>1. Blob(g, r) \in Blobs /\ Blob(g, r).status = "valid"
        /\ Blob(g, r).generation = g /\ Blob(g, r).record = r
    BY DEF Blob, Blobs
  <1>2. new \in Copies /\ new[t] = Blob(g, r) /\ \A x \in Slots : x # t => new[x] = slots[x]
    BY <1>1 DEF Copies, Put
  <1>3. Valid(new) = Valid(slots) \cup {t}
    BY <1>1, <1>2 DEF Valid
  <1> QED BY <1>1, <1>2, <1>3, OtherSlot

LEMMA TornCopy ==
  ASSUME NEW slots \in Copies, NEW t \in Slots, NEW new, new = Put(slots, t, Corrupt)
  PROVE  /\ new \in Copies
         /\ Valid(new) = Valid(slots) \ {t}
         /\ new[Other(t)] = slots[Other(t)]
  <1>1. new \in Copies /\ new[t] = Corrupt /\ \A x \in Slots : x # t => new[x] = slots[x]
    BY DEF Copies, Put
  <1>2. Valid(new) = Valid(slots) \ {t}
    BY <1>1 DEF Valid, Corrupt
  <1> QED BY <1>1, <1>2, OtherSlot

\* The next generation over the older copy: the new record is the newest one and
\* the one that was newest is the second.
LEMMA WriteFresh ==
  ASSUME NEW slots \in Copies, Valid(slots) # {}, NEW r \in Contents, NEW new,
         new = Put(slots, Other(Newest(slots)), Blob(Succ(slots[Newest(slots)].generation), r))
  PROVE  /\ new \in Copies /\ Neighbours(new) /\ Valid(new) # {}
         /\ Newest(new) = Other(Newest(slots)) /\ Load(new) = r
         /\ new[Newest(new)].generation = Succ(slots[Newest(slots)].generation)
         /\ new[Other(Newest(new))].generation = slots[Newest(slots)].generation
         /\ Second(new) = Load(slots)
  <1> DEFINE n == Newest(slots)
             t == Other(n)
             g == Succ(slots[n].generation)
  <1>1. n \in Valid(slots) /\ n \in Slots /\ t \in Slots /\ Other(t) = n
    BY NewestIs, OtherSlot
  <1>2. g \in Generations
    BY <1>1, CopyFields, SuccIs
  <1>3. /\ new \in Copies /\ Valid(new) = Valid(slots) \cup {t}
        /\ new[t].generation = g /\ new[t].record = r /\ new[n] = slots[n]
    <2> HIDE DEF g, n
    <2>1. new = Put(slots, t, Blob(g, r))
      BY DEF g, n
    <2> QED BY <1>1, <1>2, <2>1, PutCopy
  <1>4. Newest(new) = t
    BY <1>1, <1>3, NewestIs
  <1> QED BY <1>1, <1>3, <1>4 DEF Neighbours, Load, Second

\* The newest generation again over the newest copy.
LEMMA WriteOnce ==
  ASSUME NEW slots \in Copies, Valid(slots) # {}, Neighbours(slots), NEW r \in Contents, NEW new,
         new = Put(slots, Newest(slots), Blob(slots[Newest(slots)].generation, r))
  PROVE  /\ new \in Copies /\ Neighbours(new) /\ Valid(new) # {}
         /\ Newest(new) = Newest(slots) /\ Load(new) = r
         /\ new[Newest(new)].generation = slots[Newest(slots)].generation
         /\ Second(new) = Second(slots)
  <1> DEFINE n == Newest(slots)
             g == slots[n].generation
  <1>1. n \in Valid(slots) /\ n \in Slots /\ Other(n) \in Slots /\ Other(n) # n
    BY NewestIs, OtherSlot
  <1>2. g \in Generations
    BY <1>1, CopyFields
  <1>3. /\ new \in Copies /\ Valid(new) = Valid(slots) \cup {n}
        /\ new[n].generation = g /\ new[n].record = r /\ new[Other(n)] = slots[Other(n)]
    <2> HIDE DEF g, n
    <2>1. new = Put(slots, n, Blob(g, r))
      BY DEF g, n
    <2> QED BY <1>1, <1>2, <2>1, PutCopy
  <1>4. Other(n) \in Valid(new) => new[n].generation = Succ(new[Other(n)].generation)
    <2>1. Other(n) \in Valid(new) => Valid(slots) = Slots
      BY <1>1, <1>3, OtherSlot DEF Valid
    <2> QED BY <1>1, <1>3, <2>1 DEF Neighbours
  <1>5. Newest(new) = n
    BY <1>1, <1>3, <1>4, NewestIs
  <1>6. Neighbours(new)
    BY <1>1, <1>4, <1>5 DEF Neighbours
  <1> QED BY <1>1, <1>3, <1>5, <1>6 DEF Load, Second

\* A generation below the newest copy: the newest one stays what it is.
LEMMA WriteTwice ==
  ASSUME NEW slots \in Copies, Valid(slots) # {}, NEW r \in Contents, NEW g \in Generations,
         Succ(g) = slots[Newest(slots)].generation, NEW new,
         new = Put(slots, Other(Newest(slots)), Blob(g, r))
  PROVE  /\ new \in Copies /\ Neighbours(new) /\ Valid(new) # {}
         /\ Newest(new) = Newest(slots) /\ Load(new) = Load(slots)
         /\ new[Newest(new)].generation = slots[Newest(slots)].generation
         /\ Second(new) = r
  <1> DEFINE n == Newest(slots)
             t == Other(n)
  <1>1. n \in Valid(slots) /\ n \in Slots /\ t \in Slots /\ Other(t) = n
    BY NewestIs, OtherSlot
  <1>2. /\ new \in Copies /\ Valid(new) = Valid(slots) \cup {t}
        /\ new[t].generation = g /\ new[t].record = r /\ new[n] = slots[n]
    <2> HIDE DEF n, t
    <2>1. new = Put(slots, t, Blob(g, r))
      BY DEF n, t
    <2> QED BY <1>1, <2>1, PutCopy
  <1>3. Newest(new) = n
    BY <1>1, <1>2, NewestIs
  <1> QED BY <1>1, <1>2, <1>3 DEF Neighbours, Load, Second

\* The first record of an empty journal.
LEMMA WriteFirst ==
  ASSUME NEW slots \in Copies, slots = [x \in Slots |-> Missing], NEW r \in Contents, NEW new,
         new = Put(slots, "a", Blob(1, r))
  PROVE  /\ new \in Copies /\ Neighbours(new) /\ Valid(new) # {}
         /\ Newest(new) = "a" /\ Load(new) = r
         /\ new["a"].generation = 1
         /\ Second(new) = NoRecord
  <1>1. "a" \in Slots /\ "b" \in Slots /\ Other("a") = "b" /\ 1 \in Generations
    BY JournalAssumption DEF Slots, Other, Generations
  <1>2. Valid(slots) = {}
    BY DEF Valid, Missing
  <1>3. /\ new \in Copies /\ Valid(new) = Valid(slots) \cup {"a"}
        /\ new["a"].generation = 1 /\ new["a"].record = r
    <2> DEFINE t == "a"
    <2>1. t \in Slots /\ new = Put(slots, t, Blob(1, r))
      BY <1>1
    <2> HIDE DEF t
    <2>2. /\ new \in Copies /\ Valid(new) = Valid(slots) \cup {t}
          /\ new[t].generation = 1 /\ new[t].record = r
      BY <1>1, <2>1, PutCopy
    <2> QED BY <2>2 DEF t
  <1>4. Newest(new) = "a"
    BY <1>1, <1>2, <1>3, NewestIs
  <1> QED BY <1>1, <1>2, <1>3, <1>4 DEF Neighbours, Load, Second, Slots

\* A torn write over the older copy costs nothing, one over the newest copy leaves
\* the second, and one into an empty journal leaves it empty.
LEMMA TornLoad ==
  ASSUME NEW slots \in Copies, NEW t \in Slots, NEW new, new = Put(slots, t, Corrupt)
  PROVE  /\ new \in Copies /\ Neighbours(new)
         /\ Valid(slots) # {} /\ t = Other(Newest(slots)) =>
               Valid(new) # {} /\ Load(new) = Load(slots)
         /\ Valid(slots) # {} /\ t = Newest(slots) => Load(new) = Second(slots)
         /\ Valid(slots) = {} => Load(new) = NoRecord
  <1>1. /\ new \in Copies /\ Valid(new) = Valid(slots) \ {t}
        /\ new[Other(t)] = slots[Other(t)]
    BY TornCopy
  <1>2. Other(t) \in Slots /\ Other(Other(t)) = t /\ Other(t) # t /\ Slots = {t, Other(t)}
    BY OtherSlot
  <1>3. Other(t) \in Valid(slots) => Newest(new) = Other(t) /\ Valid(new) = {Other(t)}
    BY <1>1, <1>2, NewestIs DEF Valid
  <1>4. Valid(new) \subseteq {Other(t)}
    BY <1>1, <1>2 DEF Valid
  <1>5. Neighbours(new)
    BY <1>2, <1>4 DEF Neighbours
  <1>6. Valid(slots) # {} => Newest(slots) \in Valid(slots) /\ Newest(slots) \in Slots
    BY NewestIs
  <1>7. ASSUME Valid(slots) # {}, t = Other(Newest(slots))
        PROVE  Valid(new) # {} /\ Load(new) = Load(slots)
    <2>1. Other(t) = Newest(slots)
      BY <1>6, <1>7, OtherSlot
    <2>2. Newest(new) = Newest(slots) /\ Valid(new) # {}
      BY <1>3, <1>6, <1>7, <2>1
    <2>3. new[Newest(new)] = slots[Newest(slots)]
      BY <1>1, <2>1, <2>2
    <2> QED BY <1>7, <2>2, <2>3 DEF Load
  <1>8. ASSUME Valid(slots) # {}, t = Newest(slots)
        PROVE  Load(new) = Second(slots)
    <2>1. CASE Other(t) \in Valid(slots)
      <3>1. Newest(new) = Other(t) /\ Valid(new) # {} /\ new[Newest(new)] = slots[Other(t)]
        BY <1>1, <1>3, <2>1
      <3> QED BY <1>8, <2>1, <3>1 DEF Load, Second
    <2>2. CASE Other(t) \notin Valid(slots)
      <3>1. Valid(new) = {}
        BY <1>1, <1>4, <2>2
      <3> QED BY <1>8, <2>2, <3>1 DEF Load, Second
    <2> QED BY <2>1, <2>2
  <1>9. Valid(slots) = {} => Load(new) = NoRecord
    BY <1>1 DEF Load
  <1> QED BY <1>1, <1>5, <1>7, <1>8, <1>9

(***************************************************************************)
(* Saves.                                                                  *)
(***************************************************************************)
SaveType == [at : {"idle", "write", "refused"}, record : Contents \cup {NoRecord},
             target : Slots, generation : Generations,
             overtaken : 0 .. MaxOvertakes, since : SUBSET (Contents \cup {NoRecord})]

LEMMA TypeOKIs ==
  TypeOK <=> /\ slot \in Copies /\ save \in [Writers -> SaveType]
             /\ alone \in [Writers -> BOOLEAN] /\ reply \in [Writers -> BOOLEAN]
  BY DEF TypeOK, Copies, Blobs, SaveType, Generations

LEMMA SaveFields ==
  ASSUME TypeOK, NEW w \in Writers
  PROVE  /\ save[w].at \in {"idle", "write", "refused"}
         /\ save[w].target \in Slots /\ save[w].generation \in Generations
         /\ save[w].overtaken \in 0 .. MaxOvertakes /\ save[w].overtaken \in Nat
         /\ MaxOvertakes \in {0, 1, 2}
  BY JournalAssumption, TypeOKIs DEF SaveType

LEMMA NoSaveType ==
  /\ NoSave \in SaveType /\ NoSave.record = NoRecord /\ NoSave.at = "idle" /\ NoSave.since = {}
  <1>1. 0 \in Generations /\ 0 \in 0 .. MaxOvertakes /\ "a" \in Slots
    BY JournalAssumption DEF Generations, Slots
  <1> QED BY <1>1 DEF NoSave, SaveType

LEMMA LoadType ==
  ASSUME NEW slots \in Copies
  PROVE  Load(slots) \in Contents \cup {NoRecord}
  BY NewestIs, CopyFields DEF Load

\* What ReadSlot of both and the choice of target and generation come to.
LEMMA ChosenIs ==
  ASSUME slot \in Copies, NEW readable, MayTarget(readable)
  PROVE  /\ Seen(readable) = slot
         /\ Valid(slot) = {} => /\ slot = [x \in Slots |-> Missing]
                                /\ Target(slot) = "a" /\ NextGeneration(slot) = 1
         /\ Valid(slot) # {} => /\ Target(slot) = Other(Newest(slot))
                                /\ NextGeneration(slot) = Succ(slot[Newest(slot)].generation)
  <1>1. Seen(readable) = slot
    BY DEF MayTarget, Seen, Copies
  <1>2. ASSUME Valid(slot) = {}
        PROVE  /\ slot = [x \in Slots |-> Missing]
               /\ Target(slot) = "a" /\ NextGeneration(slot) = 1
    <2>1. \A x \in Slots : slot[x].status # "corrupt"
      BY <1>2 DEF MayTarget, LoadStatus
    <2>2. \A x \in Slots : slot[x] = Missing
      BY <1>2, <2>1 DEF Copies, Blobs, Blob, Valid, Corrupt
    <2>3. slot = [x \in Slots |-> Missing]
      BY <2>2 DEF Copies
    <2>4. Valid(slot) # {"a"} /\ Valid(slot) # Slots
      BY <1>2 DEF Slots
    <2> QED BY <1>2, <2>3, <2>4 DEF Target, NextGeneration
  <1>3. ASSUME Valid(slot) # {}
        PROVE  /\ Target(slot) = Other(Newest(slot))
               /\ NextGeneration(slot) = Succ(slot[Newest(slot)].generation)
    <2>1. Newest(slot) \in Valid(slot) /\ Valid(slot) \subseteq {"a", "b"} /\ Slots = {"a", "b"}
      BY <1>3, NewestIs DEF Valid, Slots
    <2>2. Target(slot) = Other(Newest(slot))
      <3>1. CASE Valid(slot) = {"a"}
        BY <2>1, <3>1 DEF Target, Other
      <3>2. CASE Valid(slot) = {"b"}
        <4>1. Valid(slot) # {"a"} /\ Valid(slot) # Slots /\ Newest(slot) = "b"
          BY <2>1, <3>2
        <4> QED BY <4>1 DEF Target, Other
      <3>3. CASE Valid(slot) = Slots
        <4>1. Valid(slot) # {"a"}
          BY <2>1, <3>3
        <4> QED BY <3>3, <4>1 DEF Target
      <3> QED BY <1>3, <2>1, <3>1, <3>2, <3>3
    <2> QED BY <1>3, <2>2 DEF NextGeneration, Succ
  <1> QED BY <1>1, <1>2, <1>3

\* A save that was not touched, by a step that changes neither copies nor its own
\* history, stands where it stood.
LEMMA SameStanding ==
  ASSUME IInv, NEW v \in Writers, save'[v] = save[v], slot' = slot, (save[v].at = "write")'
  PROVE  (IF Valid(slot) = {} THEN First(v) ELSE Fresh(v) \/ Once(v) \/ Twice(v))'
  BY DEF IInv, Standing, First, Fresh, Once, Twice

\* A new save: what it may write over was not the newest copy.
LEMMA BeginHolds ==
  ASSUME IInv, NEW w \in Writers, NEW r \in Contents, BeginSave(w, r)
  PROVE  IInv' /\ Store!Begin(w, r)
  <1>1. /\ slot \in Copies /\ save \in [Writers -> SaveType]
        /\ alone \in [Writers -> BOOLEAN] /\ reply \in [Writers -> BOOLEAN]
    BY TypeOKIs DEF IInv
  <1>2. PICK readable \in SUBSET Slots :
           save' = [save EXCEPT ![w] =
              IF MayTarget(readable)
              THEN [at |-> "write", record |-> r, target |-> Target(Seen(readable)),
                    generation |-> NextGeneration(Seen(readable)), overtaken |-> 0,
                    since |-> {Load(slot)}]
              ELSE [NoSave EXCEPT !.at = "refused", !.record = r, !.since = {Load(slot)}]]
    BY DEF BeginSave
  <1>3. /\ save[w].at = "idle" /\ slot' = slot
        /\ alone' = [v \in Writers |-> IF v = w THEN Saving = {} ELSE alone[v] /\ v \notin Saving]
        /\ reply' = [reply EXCEPT ![w] = FALSE]
    BY DEF BeginSave
  <1>4. Load(slot) \in Contents \cup {NoRecord} /\ 0 \in 0 .. MaxOvertakes
    BY <1>1, LoadType, JournalAssumption
  <1>5. /\ save' \in [Writers -> SaveType]
        /\ \A v \in Writers : v # w => save'[v] = save[v]
        /\ save'[w].at # "idle" /\ save'[w].record = r /\ save'[w].overtaken = 0
        /\ save'[w].since = {Load(slot)}
        /\ save'[w].at = "write" =>
              IF Valid(slot) = {}
              THEN /\ slot = [x \in Slots |-> Missing]
                   /\ save'[w].target = "a" /\ save'[w].generation = 1
              ELSE /\ save'[w].target = Other(Newest(slot))
                   /\ save'[w].generation = Succ(slot[Newest(slot)].generation)
    <2>1. CASE MayTarget(readable)
      <3> DEFINE e == [at |-> "write", record |-> r, target |-> Target(slot),
                       generation |-> NextGeneration(slot), overtaken |-> 0,
                       since |-> {Load(slot)}]
      <3>1. save' = [save EXCEPT ![w] = e]
        BY <1>1, <1>2, <2>1, ChosenIs
      <3>2. CASE Valid(slot) = {}
        <4>1. Target(slot) = "a" /\ NextGeneration(slot) = 1 /\ slot = [x \in Slots |-> Missing]
          BY <1>1, <2>1, <3>2, ChosenIs
        <4>2. "a" \in Slots /\ 1 \in Generations
          BY JournalAssumption DEF Slots, Generations
        <4>3. e \in SaveType
          BY <1>4, <4>1, <4>2 DEF SaveType
        <4> QED BY <1>1, <3>1, <3>2, <4>1, <4>3
      <3>3. CASE Valid(slot) # {}
        <4>1. /\ Target(slot) = Other(Newest(slot))
              /\ NextGeneration(slot) = Succ(slot[Newest(slot)].generation)
          BY <1>1, <2>1, <3>3, ChosenIs
        <4>2. Target(slot) \in Slots /\ NextGeneration(slot) \in Generations
          BY <1>1, <3>3, <4>1, NewestIs, OtherSlot, CopyFields, SuccIs
        <4>3. e \in SaveType
          BY <1>4, <4>2 DEF SaveType
        <4> QED BY <1>1, <3>1, <3>3, <4>1, <4>3
      <3> QED BY <3>2, <3>3
    <2>2. CASE ~MayTarget(readable)
      <3> DEFINE e == [NoSave EXCEPT !.at = "refused", !.record = r, !.since = {Load(slot)}]
      <3>1. save' = [save EXCEPT ![w] = e]
        BY <1>2, <2>2
      <3>2. /\ e \in SaveType /\ e.at = "refused" /\ e.record = r /\ e.overtaken = 0
            /\ e.since = {Load(slot)}
        BY <1>4, NoSaveType DEF SaveType, NoSave
      <3> HIDE DEF e
      <3> QED BY <1>1, <3>1, <3>2
    <2> QED BY <2>1, <2>2
  <1>6. TypeOK'
    <2>1. alone' \in [Writers -> BOOLEAN]
      BY <1>3
    <2>2. reply' \in [Writers -> BOOLEAN]
      BY <1>1, <1>3
    <2> QED BY <1>1, <1>3, <1>5, <2>1, <2>2, TypeOKIs DEF TypeOK, Copies, Blobs, SaveType, Generations
  <1>7. Standing'
    <2>1. ASSUME NEW v \in Writers, (save[v].at = "write")'
          PROVE  (IF Valid(slot) = {} THEN First(v) ELSE Fresh(v) \/ Once(v) \/ Twice(v))'
      <3>1. CASE v = w
        BY <1>3, <1>5, <2>1, <3>1 DEF First, Fresh
      <3>2. CASE v # w
        BY <1>3, <1>5, <2>1, <3>2, SameStanding
      <3> QED BY <3>1, <3>2
    <2> QED BY <2>1 DEF Standing
  <1>8. SavesOK'
    <2>1. Saving' = Saving \cup {w}
      BY <1>3, <1>5 DEF Saving
    <2>2. ASSUME NEW v \in Writers, v # w, save[v].at # "idle"
          PROVE  ~alone'[v]
      BY <1>3, <2>2 DEF Saving
    <2>3. reply'[w] = FALSE /\ \A v \in Writers : v # w => reply'[v] = reply[v]
      BY <1>1, <1>3
    <2>4. alone'[w] => Saving = {}
      BY <1>3
    <2> QED BY <1>3, <1>5, <2>1, <2>2, <2>3, <2>4 DEF IInv, SavesOK
  <1>9. Neighbours(slot)'
    BY <1>3 DEF IInv, Neighbours
  <1>10. Store!Begin(w, r)
    <2>1. \A v \in Writers : save[v].record # NoRecord <=> v \in Saving
      BY NoSaveType, JournalAssumption DEF IInv, SavesOK, Saving
    <2>2. save[w].record = NoRecord
      BY <1>3, NoSaveType DEF IInv, SavesOK
    <2>3. [v \in Writers |-> save'[v].record] = [[v \in Writers |-> save[v].record] EXCEPT ![w] = r]
      BY <1>5
    <2>4. [v \in Writers |-> save'[v].since]
             = [[v \in Writers |-> save[v].since] EXCEPT ![w] = {Load(slot)}]
      BY <1>5
    <2>5. Store!Busy = Saving
      BY <2>1 DEF Store!Busy, Saving
    <2>6. Load(slot)' = Load(slot)
      BY <1>3
    <2> QED BY <1>3, <2>2, <2>3, <2>4, <2>5, <2>6 DEF Store!Begin
  <1> QED BY <1>6, <1>7, <1>8, <1>9, <1>10 DEF IInv

\* The saves in progress of the abstract store are those of the journal.
LEMMA BusyIs ==
  ASSUME IInv
  PROVE  Store!Busy = Saving /\ \A w \in Saving : save[w].record \in Contents
  <1>1. \A w \in Writers : save[w].record # NoRecord <=> w \in Saving
    BY NoSaveType, JournalAssumption DEF IInv, SavesOK, Saving
  <1> QED BY <1>1, NoSaveType DEF Store!Busy, Saving, IInv, SavesOK

\* A save that could not read the journal leaves it alone.
LEMMA RefuseHolds ==
  ASSUME IInv, NEW w \in Writers, Refuse(w)
  PROVE  IInv' /\ Store!Return(w, FALSE)
  <1>1. /\ slot \in Copies /\ save \in [Writers -> SaveType]
        /\ alone \in [Writers -> BOOLEAN] /\ reply \in [Writers -> BOOLEAN]
    BY TypeOKIs DEF IInv
  <1>2. /\ save[w].at = "refused" /\ save' = [save EXCEPT ![w] = NoSave]
        /\ slot' = slot /\ alone' = alone /\ reply' = reply
    BY DEF Refuse
  <1>3. /\ save' \in [Writers -> SaveType] /\ save'[w] = NoSave
        /\ \A v \in Writers : v # w => save'[v] = save[v]
    BY <1>1, <1>2, NoSaveType
  <1>4. TypeOK'
    BY <1>1, <1>2, <1>3, TypeOKIs DEF TypeOK, Copies, Blobs, SaveType, Generations
  <1>5. Standing'
    <2>1. ASSUME NEW v \in Writers, (save[v].at = "write")'
          PROVE  (IF Valid(slot) = {} THEN First(v) ELSE Fresh(v) \/ Once(v) \/ Twice(v))'
      BY <1>2, <1>3, <2>1, NoSaveType, SameStanding
    <2> QED BY <2>1 DEF Standing
  <1>6. w \in Saving /\ Saving' = Saving \ {w}
    BY <1>2, <1>3, NoSaveType DEF Saving
  <1>7. SavesOK'
    BY <1>2, <1>3, <1>6, NoSaveType DEF IInv, SavesOK, Saving
  <1>8. Neighbours(slot)'
    BY <1>2 DEF IInv, Neighbours
  <1>9. Store!Return(w, FALSE)
    <2>1. save[w].record # NoRecord /\ reply[w] = FALSE
      BY <1>2, JournalAssumption DEF IInv, SavesOK
    <2>2. Store!Busy = Saving
      BY BusyIs
    <2>3. [v \in Writers |-> save'[v].record]
             = [[v \in Writers |-> save[v].record] EXCEPT ![w] = NoRecord]
      BY <1>3, NoSaveType
    <2>4. \A v \in Saving \ {w} : save'[v].since = save[v].since \cup {Load(slot)} \cup {}
      BY <1>3 DEF IInv, SavesOK, Saving
    <2>5. \A v \in Writers : v \notin Saving \ {w} => save'[v].since = {}
      BY <1>3, NoSaveType DEF IInv, SavesOK, Saving
    <2>6. reply = [reply EXCEPT ![w] = FALSE]
      BY <1>1, <2>1
    <2>7. [v \in Writers |-> save'[v].since]
             = [v \in Writers |-> IF v \in Saving \ {w}
                                  THEN [u \in Writers |-> save[u].since][v] \cup {Load(slot)} \cup {}
                                  ELSE {}]
      BY <2>4, <2>5
    <2>8. Load(slot)' = Load(slot)
      BY <1>2
    <2> QED BY <1>2, <2>1, <2>2, <2>3, <2>6, <2>7, <2>8 DEF Store!Return
  <1> QED BY <1>4, <1>5, <1>7, <1>8, <1>9 DEF IInv

\* What a write of save w makes of the copies.
LEMMA WrittenIs ==
  ASSUME IInv, NEW w \in Writers, save[w].at = "write", NEW new, new = Written(w)
  PROVE  /\ new \in Copies /\ Neighbours(new) /\ Valid(new) # {}
         /\ Load(new) \in {Load(slot), save[w].record}
         /\ alone[w] => Load(new) = save[w].record
  <1> DEFINE g == save[w].generation
             t == save[w].target
             r == save[w].record
  <1>1. slot \in Copies /\ Neighbours(slot) /\ t \in Slots /\ g \in Generations /\ r \in Contents
    BY TypeOKIs, SaveFields DEF IInv, SavesOK
  <1>2. new = Put(slot, t, Blob(g, r))
    BY DEF Written, Put
  <1>3. save[w].overtaken \in Nat /\ (alone[w] => save[w].overtaken = 0)
    BY SaveFields DEF IInv, SavesOK
  <1>4. CASE Valid(slot) = {}
    <2>1. slot = [x \in Slots |-> Missing] /\ t = "a" /\ g = 1
      BY <1>4 DEF IInv, Standing, First
    <2> HIDE DEF g, t, r
    <2>2. new = Put(slot, "a", Blob(1, r))
      BY <1>2, <2>1
    <2>3. slot \in Copies /\ slot = [x \in Slots |-> Missing] /\ r \in Contents
      BY <1>1, <2>1
    <2>4. /\ new \in Copies /\ Neighbours(new) /\ Valid(new) # {} /\ Load(new) = r
      BY <2>2, <2>3, WriteFirst
    <2> QED BY <2>4 DEF r
  <1>5. CASE Valid(slot) # {} /\ Fresh(w)
    <2>1. t = Other(Newest(slot)) /\ g = Succ(slot[Newest(slot)].generation)
      BY <1>5 DEF Fresh
    <2> HIDE DEF g, t, r
    <2> QED BY <1>1, <1>2, <1>5, <2>1, WriteFresh DEF r
  <1>6. CASE Valid(slot) # {} /\ Once(w)
    <2>1. t = Newest(slot) /\ g = slot[Newest(slot)].generation
      BY <1>6 DEF Once
    <2> HIDE DEF g, t, r
    <2>2. new = Put(slot, Newest(slot), Blob(slot[Newest(slot)].generation, r))
      BY <1>2, <2>1
    <2> QED BY <1>1, <1>6, <2>2, WriteOnce DEF r
  <1>7. CASE Valid(slot) # {} /\ Twice(w)
    <2>1. t = Other(Newest(slot)) /\ Succ(g) = slot[Newest(slot)].generation /\ ~alone[w]
      BY <1>3, <1>7 DEF Twice
    <2> HIDE DEF g, t, r
    <2>2. new = Put(slot, Other(Newest(slot)), Blob(g, r))
      BY <1>2, <2>1
    <2>3. /\ new \in Copies /\ Neighbours(new) /\ Valid(new) # {}
          /\ Load(new) = Load(slot)
      BY <1>1, <1>7, <2>1, <2>2, WriteTwice
    <2> QED BY <2>1, <2>3 DEF r
  <1> QED BY <1>4, <1>5, <1>6, <1>7 DEF IInv, Standing

\* Another save in progress is overtaken once more by the write of w: the copy that
\* was the newest is the second now, or stays the newest.
LEMMA OvertakenStands ==
  ASSUME IInv, NEW w \in Writers, save[w].at = "write", slot' = Written(w),
         NEW v \in Writers, v # w, save[v].at = "write", save[v].overtaken < MaxOvertakes,
         save'[v].target = save[v].target, save'[v].generation = save[v].generation,
         save'[v].overtaken = save[v].overtaken + 1,
         save'[v].since = save[v].since \cup {Load(slot'), save[w].record}
  PROVE  Valid(slot') # {} /\ (Fresh(v) \/ Once(v) \/ Twice(v))'
  <1> DEFINE g == save[w].generation
             t == save[w].target
             r == save[w].record
  <1>1. slot \in Copies /\ Neighbours(slot) /\ t \in Slots /\ g \in Generations /\ r \in Contents
    BY TypeOKIs, SaveFields DEF IInv, SavesOK
  <1>2. slot' = Put(slot, t, Blob(g, r))
    BY DEF Written, Put
  <1>3. save[v].overtaken \in {0, 1}
    BY SaveFields DEF IInv
  <1>4. save'[v].overtaken >= 1 /\ (save[v].overtaken >= 1 => save'[v].overtaken >= 2)
    BY <1>3
  <1>5. Load(slot) \in save'[v].since /\ r \in save'[v].since
    BY DEF IInv, SavesOK
  <1>6. Valid(slot) # {} => Newest(slot) \in Slots /\ Other(Other(Newest(slot))) = Newest(slot)
    BY <1>1, NewestIs, OtherSlot
  <1>7. CASE Valid(slot) = {}
    <2>1. slot = [x \in Slots |-> Missing] /\ t = "a" /\ g = 1
      BY <1>7 DEF IInv, Standing, First
    <2>2. save[v].target = "a" /\ save[v].generation = 1
      BY <1>7 DEF IInv, Standing, First
    <2>3. Load(slot) = NoRecord
      BY <1>7 DEF Load
    <2> HIDE DEF g, t, r
    <2>4. slot' = Put(slot, "a", Blob(1, r))
      BY <1>2, <2>1
    <2>5. /\ Valid(slot') # {} /\ Newest(slot') = "a"
          /\ slot'["a"].generation = 1 /\ Second(slot') = NoRecord
      BY <1>1, <2>1, <2>4, WriteFirst
    <2> QED BY <1>4, <1>5, <2>2, <2>3, <2>5 DEF Once
  <1>8. CASE Valid(slot) # {} /\ Fresh(w)
    <2>1. t = Other(Newest(slot)) /\ g = Succ(slot[Newest(slot)].generation)
      BY <1>8 DEF Fresh
    <2> HIDE DEF g, t, r
    <2>2. slot' = Put(slot, Other(Newest(slot)), Blob(Succ(slot[Newest(slot)].generation), r))
      BY <1>2, <2>1
    <2>3. /\ Valid(slot') # {} /\ Newest(slot') = Other(Newest(slot))
          /\ slot'[Newest(slot')].generation = Succ(slot[Newest(slot)].generation)
          /\ Second(slot') = Load(slot)
      BY <1>1, <1>8, <2>2, WriteFresh
    <2>4. CASE Fresh(v)
      BY <1>4, <1>5, <2>3, <2>4 DEF Fresh, Once
    <2>5. CASE Once(v)
      BY <1>4, <1>6, <1>8, <2>3, <2>5 DEF Once, Twice
    <2>6. ~Twice(v)
      BY <1>3 DEF Twice
    <2> QED BY <1>8, <2>3, <2>4, <2>5, <2>6 DEF IInv, Standing
  <1>9. CASE Valid(slot) # {} /\ Once(w)
    <2>1. t = Newest(slot) /\ g = slot[Newest(slot)].generation
      BY <1>9 DEF Once
    <2> HIDE DEF g, t, r
    <2>2. slot' = Put(slot, Newest(slot), Blob(slot[Newest(slot)].generation, r))
      BY <1>2, <2>1
    <2>3. /\ Valid(slot') # {} /\ Newest(slot') = Newest(slot)
          /\ slot'[Newest(slot')].generation = slot[Newest(slot)].generation
          /\ Second(slot') = Second(slot)
      BY <1>1, <1>9, <2>2, WriteOnce
    <2>4. CASE Fresh(v)
      BY <2>3, <2>4 DEF Fresh
    <2>5. CASE Once(v)
      BY <1>4, <2>3, <2>5 DEF Once
    <2>6. ~Twice(v)
      BY <1>3 DEF Twice
    <2> QED BY <1>9, <2>3, <2>4, <2>5, <2>6 DEF IInv, Standing
  <1>10. CASE Valid(slot) # {} /\ Twice(w)
    <2>1. t = Other(Newest(slot)) /\ Succ(g) = slot[Newest(slot)].generation
      BY <1>10 DEF Twice
    <2> HIDE DEF g, t, r
    <2>2. slot' = Put(slot, Other(Newest(slot)), Blob(g, r))
      BY <1>2, <2>1
    <2>3. /\ Valid(slot') # {} /\ Newest(slot') = Newest(slot)
          /\ slot'[Newest(slot')].generation = slot[Newest(slot)].generation
          /\ Second(slot') = r
      BY <1>1, <1>10, <2>1, <2>2, WriteTwice
    <2>4. CASE Fresh(v)
      BY <2>3, <2>4 DEF Fresh
    <2>5. CASE Once(v)
      BY <1>4, <1>5, <2>3, <2>5 DEF Once
    <2>6. ~Twice(v)
      BY <1>3 DEF Twice
    <2> QED BY <1>10, <2>3, <2>4, <2>5, <2>6 DEF IInv, Standing
  <1> QED BY <1>7, <1>8, <1>9, <1>10 DEF IInv, Standing

\* A write that returns: it was made or, when it answers false, perhaps not.
LEMMA WriteHolds ==
  ASSUME IInv, NEW w \in Writers, WriteSlot(w)
  PROVE  IInv' /\ \E ok \in BOOLEAN : Store!Return(w, ok)
  <1>1. /\ slot \in Copies /\ save \in [Writers -> SaveType]
        /\ alone \in [Writers -> BOOLEAN] /\ reply \in [Writers -> BOOLEAN]
    BY TypeOKIs DEF IInv
  <1>2. PICK ok \in BOOLEAN : /\ slot' \in (IF ok THEN {Written(w)} ELSE {slot, Written(w)})
                              /\ reply' = [reply EXCEPT ![w] = ok]
    BY DEF WriteSlot
  <1>3. /\ save[w].at = "write" /\ save' = Returned(w) /\ alone' = alone /\ MayReturn(w)
    BY DEF WriteSlot
  <1>4. w \in Saving /\ save[w].record \in Contents /\ save[w].record # NoRecord
    BY <1>3, JournalAssumption DEF Saving, IInv, SavesOK
  <1>5. /\ slot' \in Copies /\ Neighbours(slot') /\ Load(slot') \in {Load(slot), save[w].record}
        /\ (ok /\ alone[w] => Load(slot') = save[w].record)
    <2>1. Neighbours(slot)
      BY DEF IInv
    <2> QED BY <1>1, <1>2, <1>3, <2>1, WrittenIs
  <1>6. /\ save'[w] = NoSave
        /\ \A v \in Writers : v # w /\ v \notin Saving => save'[v] = save[v]
    BY <1>3 DEF Returned
  <1>7. ASSUME NEW v \in Writers, v # w, v \in Saving
        PROVE  /\ save'[v] \in SaveType /\ save'[v].at = save[v].at
               /\ save'[v].record = save[v].record
               /\ save'[v].target = save[v].target
               /\ save'[v].generation = save[v].generation
               /\ save'[v].since = save[v].since \cup {Load(slot'), save[w].record}
               /\ save[v].at = "write" => /\ save[v].overtaken < MaxOvertakes
                                          /\ save'[v].overtaken = save[v].overtaken + 1
    <2> DEFINE o == IF save[v].at = "write" THEN save[v].overtaken + 1 ELSE save[v].overtaken
               q == save[v].since \cup {Load(slot'), save[w].record}
               e == [save[v] EXCEPT !.since = q, !.overtaken = o]
    <2>1. save'[v] = e
      BY <1>3, <1>7 DEF Returned
    <2>2. save[v].at = "write" => save[v].overtaken < MaxOvertakes
      BY <1>3, <1>7 DEF MayReturn
    <2>3. o \in 0 .. MaxOvertakes
      BY <2>2, SaveFields DEF IInv
    <2>4. q \in SUBSET (Contents \cup {NoRecord})
      BY <1>1, <1>4, <1>5, LoadType DEF SaveType
    <2> HIDE DEF o, q
    <2>5. save[v] \in SaveType
      BY <1>1
    <2>6. /\ e \in SaveType /\ e.at = save[v].at /\ e.record = save[v].record
          /\ e.target = save[v].target /\ e.generation = save[v].generation
          /\ e.since = q /\ e.overtaken = o
      BY <2>3, <2>4, <2>5 DEF SaveType
    <2> QED BY <2>1, <2>2, <2>6 DEF o, q
  <1>8. \A v \in Writers : save'[v] \in SaveType
    BY <1>1, <1>6, <1>7, NoSaveType
  <1>9. TypeOK'
    <2>1. save' \in [Writers -> SaveType]
      BY <1>3, <1>8 DEF Returned
    <2>2. reply' \in [Writers -> BOOLEAN]
      BY <1>1, <1>2
    <2> QED BY <1>1, <1>3, <1>5, <2>1, <2>2, TypeOKIs DEF TypeOK, Copies, Blobs, SaveType, Generations
  <1>10. \A v \in Writers : save'[v].at # "idle" => v # w /\ v \in Saving /\ save'[v].at = save[v].at
    BY <1>6, <1>7, NoSaveType DEF Saving
  <1>11. Standing'
    <2>1. ASSUME NEW v \in Writers, (save[v].at = "write")'
          PROVE  (IF Valid(slot) = {} THEN First(v) ELSE Fresh(v) \/ Once(v) \/ Twice(v))'
      <3>1. v # w /\ v \in Saving /\ save[v].at = "write"
        BY <1>10, <2>1
      <3>2. CASE slot' = Written(w)
        BY <1>3, <1>7, <3>1, <3>2, OvertakenStands
      <3>3. CASE slot' = slot
        <4>1. save[v].overtaken \in Nat
          BY SaveFields DEF IInv
        <4>2. IF Valid(slot) = {} THEN First(v) ELSE Fresh(v) \/ Once(v) \/ Twice(v)
          BY <3>1 DEF IInv, Standing
        <4> QED BY <1>7, <3>1, <3>3, <4>1, <4>2 DEF First, Fresh, Once, Twice
      <3> QED BY <1>2, <3>2, <3>3
    <2> QED BY <2>1 DEF Standing
  <1>12. SavesOK'
    <2>1. \A v \in Writers : v # w /\ v \in Saving => ~alone[v]
      BY <1>4 DEF IInv, SavesOK, Saving
    <2>2. \A v \in Writers : v # w => reply'[v] = reply[v]
      BY <1>1, <1>2
    <2>3. \A v \in Writers : save'[v].at = "idle" => save'[v] = NoSave
      <3>1. \A v \in Writers : v # w /\ v \notin Saving => save'[v] = NoSave
        BY <1>6 DEF IInv, SavesOK, Saving
      <3>2. \A v \in Writers : v # w /\ v \in Saving => save'[v].at # "idle"
        BY <1>7 DEF Saving
      <3> QED BY <1>6, <3>1, <3>2
    <2>4. ASSUME NEW v \in Writers, save'[v].at # "idle"
          PROVE  /\ save'[v].record \in Contents /\ Load(slot') \in save'[v].since
                 /\ ~reply'[v] /\ ~alone'[v]
      <3>1. v # w /\ v \in Saving
        BY <1>10, <2>4
      <3> QED BY <1>3, <1>7, <2>1, <2>2, <3>1 DEF IInv, SavesOK, Saving
    <2> QED BY <2>3, <2>4 DEF SavesOK
  <1>13. Store!Return(w, ok)
    <2>1. Store!Busy = Saving
      BY BusyIs
    <2>2. \A v \in Writers : v # w /\ v \notin Saving => save'[v] = NoSave
      BY <1>6 DEF IInv, SavesOK, Saving
    <2>3. [v \in Writers |-> save'[v].record]
             = [[v \in Writers |-> save[v].record] EXCEPT ![w] = NoRecord]
      BY <1>6, <1>7, NoSaveType
    <2>4. [v \in Writers |-> save'[v].since]
             = [v \in Writers |-> IF v \in Saving \ {w}
                                  THEN [u \in Writers |-> save[u].since][v]
                                          \cup {Load(slot')} \cup {[u \in Writers |-> save[u].record][w]}
                                  ELSE {}]
      <3>1. \A v \in Writers : v \in Saving \ {w} =>
               save'[v].since = save[v].since \cup {Load(slot')} \cup {save[w].record}
        BY <1>7
      <3>2. \A v \in Writers : v \notin Saving \ {w} => save'[v].since = {}
        BY <1>6, <2>2, NoSaveType
      <3> QED BY <3>1, <3>2
    <2>5. Load(slot)' = Load(slot')
      OBVIOUS
    <2> QED BY <1>2, <1>3, <1>4, <1>5, <2>1, <2>3, <2>4, <2>5 DEF Store!Return
  <1>14. Neighbours(slot)'
    BY <1>5
  <1> QED BY <1>9, <1>11, <1>12, <1>13, <1>14 DEF IInv

\* A torn write costs at most the copy it was made over: a load returns what it
\* did, or what that save has seen, which then did not run alone.
LEMMA TornIs ==
  ASSUME IInv, NEW w \in Writers, save[w].at = "write", NEW new,
         new = [slot EXCEPT ![save[w].target] = Corrupt]
  PROVE  /\ new \in Copies /\ Neighbours(new)
         /\ Load(new) = Load(slot) \/ (Load(new) \in save[w].since /\ ~alone[w])
         /\ alone[w] /\ Valid(slot) # {} => Valid(new) # {}
  <1> DEFINE t == save[w].target
  <1>1. slot \in Copies /\ t \in Slots /\ save[w].overtaken \in Nat
    BY TypeOKIs, SaveFields DEF IInv
  <1>2. alone[w] => save[w].overtaken = 0
    BY DEF IInv, SavesOK
  <1>3. new = Put(slot, t, Corrupt)
    BY DEF Put
  <1>4. /\ new \in Copies /\ Neighbours(new)
        /\ Valid(slot) # {} /\ t = Other(Newest(slot)) =>
              Valid(new) # {} /\ Load(new) = Load(slot)
        /\ Valid(slot) # {} /\ t = Newest(slot) => Load(new) = Second(slot)
        /\ Valid(slot) = {} => Load(new) = NoRecord
    <2> HIDE DEF t
    <2> QED BY <1>1, <1>3, TornLoad
  <1>5. CASE Valid(slot) = {}
    BY <1>4, <1>5 DEF Load
  <1>6. CASE Valid(slot) # {} /\ (Fresh(w) \/ Twice(w))
    BY <1>4, <1>6 DEF Fresh, Twice
  <1>7. CASE Valid(slot) # {} /\ Once(w)
    <2>1. save[w].overtaken # 0 /\ t = Newest(slot) /\ Second(slot) \in save[w].since
      BY <1>1, <1>7 DEF Once
    <2>2. ~alone[w]
      BY <1>2, <2>1
    <2>3. Load(new) \in save[w].since
      BY <1>4, <1>7, <2>1
    <2> QED BY <1>4, <2>2, <2>3
  <1> QED BY <1>4, <1>5, <1>6, <1>7 DEF IInv, Standing

LEMMA ResetHolds ==
  ASSUME IInv, Reset
  PROVE  IInv' /\ Store!Reset
  <1>1. slot \in Copies
    BY TypeOKIs DEF IInv
  <1>2. /\ save' = [w \in Writers |-> NoSave]
        /\ alone' = [w \in Writers |-> TRUE]
        /\ reply' = [w \in Writers |-> FALSE]
    BY DEF Reset
  <1>3. Store!Busy = Saving
    BY BusyIs
  <1>4. /\ slot' \in Copies /\ Neighbours(slot')
        /\ \/ Load(slot') = Load(slot)
           \/ \E w \in Saving : Load(slot') = save[w].record
           \/ \E w \in Saving : ~alone[w] /\ Load(slot') \in save[w].since
    <2>1. CASE slot' = slot
      BY <1>1, <2>1 DEF IInv
    <2>2. ASSUME NEW w \in Writers, save[w].at = "write", slot' = Written(w)
          PROVE  /\ slot' \in Copies /\ Neighbours(slot')
                 /\ Load(slot') = Load(slot) \/ Load(slot') = save[w].record
                 /\ w \in Saving
      BY <2>2, WrittenIs DEF Saving
    <2>3. ASSUME NEW w \in Writers, save[w].at = "write",
                 slot' = [slot EXCEPT ![save[w].target] = Corrupt]
          PROVE  /\ slot' \in Copies /\ Neighbours(slot')
                 /\ Load(slot') = Load(slot) \/ (Load(slot') \in save[w].since /\ ~alone[w])
                 /\ w \in Saving
      BY <2>3, TornIs DEF Saving
    <2>4. \/ slot' = slot
          \/ \E w \in Writers : save[w].at = "write" /\ slot' = Written(w)
          \/ \E w \in Writers : /\ save[w].at = "write"
                                /\ slot' = [slot EXCEPT ![save[w].target] = Corrupt]
      BY DEF Reset
    <2> QED BY <2>1, <2>2, <2>3, <2>4
  <1>5. TypeOK'
    BY <1>2, <1>4, NoSaveType, TypeOKIs DEF TypeOK, Copies, Blobs, SaveType, Generations
  <1>6. Standing' /\ SavesOK'
    BY <1>2, NoSaveType DEF Standing, SavesOK
  <1>7. Store!Reset
    <2>1. [w \in Writers |-> save'[w].record] = [w \in Writers |-> NoRecord]
      BY <1>2, NoSaveType
    <2>2. [w \in Writers |-> save'[w].since] = [w \in Writers |-> {}]
      BY <1>2, NoSaveType
    <2>3. Load(slot') \in {Load(slot)}
             \cup {[v \in Writers |-> save[v].record][w] : w \in Saving}
             \cup UNION {[v \in Writers |-> save[v].since][w] : w \in {v \in Saving : ~alone[v]}}
      <3>1. Saving \subseteq Writers
        BY DEF Saving
      <3>2. CASE Load(slot') = Load(slot)
        BY <3>2
      <3>3. CASE \E w \in Saving : Load(slot') = save[w].record
        BY <3>1, <3>3
      <3>4. CASE \E w \in Saving : ~alone[w] /\ Load(slot') \in save[w].since
        BY <3>1, <3>4
      <3> QED BY <1>4, <3>2, <3>3, <3>4
    <2> QED BY <1>2, <1>3, <2>1, <2>2, <2>3 DEF Store!Reset
  <1>8. Neighbours(slot)'
    BY <1>4
  <1> QED BY <1>5, <1>6, <1>7, <1>8 DEF IInv

(***************************************************************************)
(* The theorems.                                                           *)
(***************************************************************************)
LEMMA InitHolds ==
  ASSUME Init
  PROVE  IInv /\ Store!Init
  <1>1. /\ slot = [x \in Slots |-> Missing] /\ save = [w \in Writers |-> NoSave]
        /\ alone = [w \in Writers |-> TRUE] /\ reply = [w \in Writers |-> FALSE]
    BY DEF Init
  <1>2. slot \in Copies /\ Valid(slot) = {}
    BY <1>1 DEF Copies, Valid, Missing
  <1>3. TypeOK
    BY <1>1, <1>2, NoSaveType, TypeOKIs
  <1>4. Standing /\ SavesOK /\ Neighbours(slot)
    BY <1>1, <1>2, NoSaveType DEF Standing, SavesOK, Neighbours, Slots
  <1>5. Store!Init
    <2>1. Load(slot) = NoRecord
      BY <1>2 DEF Load
    <2>2. [w \in Writers |-> save[w].record] = [w \in Writers |-> NoRecord]
      BY <1>1, NoSaveType
    <2>3. [w \in Writers |-> save[w].since] = [w \in Writers |-> {}]
      BY <1>1, NoSaveType
    <2> QED BY <1>1, <2>1, <2>2, <2>3 DEF Store!Init
  <1> QED BY <1>3, <1>4, <1>5 DEF IInv

LEMMA NextHolds ==
  ASSUME IInv, [Next]_vars
  PROVE  IInv' /\ [Store!Next]_Store!vars
  <1>1. ASSUME NEW w \in Writers, NEW r \in Contents, BeginSave(w, r)
        PROVE  IInv' /\ Store!Next
    BY <1>1, BeginHolds DEF Store!Next
  <1>2. ASSUME NEW w \in Writers, Refuse(w)
        PROVE  IInv' /\ Store!Next
    BY <1>2, RefuseHolds DEF Store!Next
  <1>3. ASSUME NEW w \in Writers, WriteSlot(w)
        PROVE  IInv' /\ Store!Next
    BY <1>3, WriteHolds DEF Store!Next
  <1>4. ASSUME Reset
        PROVE  IInv' /\ Store!Next
    BY <1>4, ResetHolds DEF Store!Next
  <1>5. CASE UNCHANGED vars
    <2>1. slot' = slot /\ save' = save /\ alone' = alone /\ reply' = reply
      BY <1>5 DEF vars
    <2>2. TypeOK'
      BY <2>1 DEF IInv, TypeOK
    <2>3. Neighbours(slot)' /\ Standing' /\ SavesOK'
      BY <2>1 DEF IInv, Neighbours, Standing, First, Fresh, Once, Twice, SavesOK, Saving
    <2>4. UNCHANGED Store!vars
      BY <2>1 DEF Store!vars
    <2> QED BY <2>2, <2>3, <2>4 DEF IInv
  <1> QED BY <1>1, <1>2, <1>3, <1>4, <1>5 DEF Next

\* Every step of the journal keeps a readable copy when no saves overlap.
LEMMA NextKeepsACopy ==
  ASSUME IInv, [Next]_vars, LoadStatus(slot) = "valid", \A w \in Saving : alone[w]
  PROVE  LoadStatus(slot)' = "valid"
  <1>1. slot \in Copies /\ Valid(slot) # {}
    BY TypeOKIs DEF IInv, LoadStatus
  <1>2. SUFFICES Valid(slot') # {}
    BY DEF LoadStatus
  <1>3. ASSUME NEW w \in Writers, save[w].at = "write", slot' = Written(w)
        PROVE  Valid(slot') # {}
    BY <1>3, WrittenIs
  <1>4. ASSUME NEW w \in Writers, save[w].at = "write",
               slot' = [slot EXCEPT ![save[w].target] = Corrupt]
        PROVE  Valid(slot') # {}
    <2>1. alone[w]
      BY <1>4 DEF Saving
    <2> QED BY <1>1, <1>4, <2>1, TornIs
  <1>5. \/ slot' = slot
        \/ \E w \in Writers : save[w].at = "write" /\ slot' = Written(w)
        \/ \E w \in Writers : /\ save[w].at = "write"
                              /\ slot' = [slot EXCEPT ![save[w].target] = Corrupt]
    BY DEF Next, vars, BeginSave, Refuse, WriteSlot, Reset
  <1> QED BY <1>1, <1>3, <1>4, <1>5

\* The signed difference of the generations always tells which copy is the newer
\* one, whatever the writers overlap, the resets tear and the counter wraps.
THEOREM CopiesAreNeighbours == Spec => [](TypeOK /\ Neighbours(slot))
  <1>1. Init => IInv
    BY InitHolds
  <1>2. IInv /\ [Next]_vars => IInv'
    BY NextHolds
  <1>3. IInv => TypeOK /\ Neighbours(slot)
    BY DEF IInv
  <1> QED BY <1>1, <1>2, <1>3, PTL DEF Spec

\* The journal is one durable record: every step of SaveOtaUpdateRecord, of any
\* number of writers, and every reset is a step of the store or none.
THEOREM JournalImplementsStore == Spec => StoreImplemented
  <1>1. Init => IInv /\ Store!Init
    BY InitHolds
  <1>2. IInv /\ [Next]_vars => IInv' /\ [Store!Next]_Store!vars
    BY NextHolds
  <1> QED BY <1>1, <1>2, PTL DEF Spec, StoreImplemented, Store!Spec

\* Once a record is stored, no reset that cuts a save running alone makes the
\* journal unreadable.
THEOREM JournalNeverLost == Spec => NeverLost
  <1>1. Init => IInv
    BY InitHolds
  <1>2. IInv /\ [Next]_vars => IInv'
    BY NextHolds
  <1>3. IInv /\ [Next]_vars =>
           [LoadStatus(slot) = "valid" /\ (\A w \in Saving : alone[w])
               => LoadStatus(slot)' = "valid"]_vars
    BY NextKeepsACopy
  <1> QED BY <1>1, <1>2, <1>3, PTL DEF Spec, NeverLost
=============================================================================
