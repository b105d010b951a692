-------------------------- MODULE Appearance_proof --------------------------
(***************************************************************************)
(* What TLAPS proves of the appearance service, for any set of deployments *)
(* and any bounds: the release a boot falls back to is complete, nothing   *)
(* stale waits for a boot, no download runs beside a boot or a trial, a    *)
(* package on the screen is the adopted one or a recorded trial, and what  *)
(* was tried in vain is not shown again.                                   *)
(*                                                                         *)
(* Inv is the inductive invariant of the first five; Refusals adds, for    *)
(* the last, what both records say of the releases in tried.               *)
(***************************************************************************)
EXTENDS Appearance, TLAPS

Kept    == Releases \cup {NoRelease}
Records == [active : Kept, pending : Kept, previous : Kept, trial : Revisions \cup {0},
            rejected : Revisions \cup {0}, latest : Revisions \cup {0}, key : Keys \cup {NoKey}]
Content == Packages \cup {NoDeployment}
Known   == Deployments \cup {NoDeployment}

RecordTypes == mem \in Records /\ nvs \in Records
FileTypes   == files \in [Slots -> [rap : Content, manifest : Content, partial : Content]]
BootTypes ==
    boot \in [task : {"none", "read", "reject", "again", "publish", "end"}, running : BOOLEAN,
              playing : BOOLEAN, abandoned : BOOLEAN, late : BOOLEAN, candidate : BOOLEAN,
              selected : Revisions \cup {0}, target : Kept, active : Kept,
              found : Known, assets : Known]
UiTypes ==
    ui \in [pc : {"load", "begin", "wait", "waiting", "show", "loop"}, shown : Known,
            animating : BOOLEAN, confirm : BOOLEAN]
JobTypes ==
    /\ desired \in Known /\ status \in {"other", "failed", "superseded"}
    /\ failures \in 0 .. Delays + 1 /\ waiting \in BOOLEAN
WantTypes == publisher \in Keys \cup {NoKey} /\ requested \in BOOLEAN
Ends == {"none", "start", "fetch", "pick", "stop", "supersede", "fail", "defer", "clear"}
WorkerTypes ==
    worker \in [pc : Ends \cup Downloading, job : Known, handled : Revisions \cup {0},
                slot : Slots \cup {""}, ok : BOOLEAN]
TriedTypes == tried \subseteq Deployments

OtherTypes == /\ FileTypes /\ BootTypes /\ UiTypes /\ JobTypes /\ WantTypes
              /\ WorkerTypes /\ TriedTypes
Types == RecordTypes /\ OtherTypes

\* What every record satisfies, in RAM and in NVS.
RecordOK(r) ==
    /\ r.pending # NoRelease => /\ r.pending.of.rev > r.active.of.rev
                                /\ r.pending.of.rev > r.rejected
    /\ r.trial # 0 => /\ r.previous = r.active /\ r.pending # NoRelease
                      /\ r.trial = r.pending.of.rev
RecordsOK == RecordOK(mem) /\ RecordOK(nvs)

\* The order of a boot: the loading task, then the main loop, then the worker.
PhasesOK ==
    /\ (worker.pc # "none" \/ desired # NoDeployment \/ publisher # NoKey) => ui.pc = "loop"
    /\ boot.running <=> boot.task # "none"
    /\ ui.pc = "load" => mem = Blank
    /\ ui.pc \in {"load", "begin"} =>
          /\ boot.task = "none" /\ boot.found = NoDeployment /\ boot.assets = NoDeployment
          /\ mem.trial = 0
    /\ mem.trial # 0 => ~boot.running /\ publisher = NoKey
    /\ worker.pc \in {"fetch", "pick"} \cup Downloading => MayDownload

\* What the worker is about to install is newer than what is adopted or refused, and
\* what is wanted also than what is on trial or about to be refused.
Newer(d) == d.key = mem.key => d.rev > mem.active.of.rev /\ d.rev > mem.rejected

DownloadOK ==
    /\ desired # NoDeployment =>
          /\ Newer(desired)
          /\ desired.key = mem.key /\ (mem.trial # 0 \/ boot.running) =>
                desired.rev > mem.pending.of.rev
    /\ worker.pc \in Downloading => worker.job # NoDeployment /\ Newer(worker.job)

\* What the boot found is what it was to look for, and it is complete in its slot.
Intact(r) == r.of \in Packages => files[r.slot].rap = r.of /\ files[r.slot].manifest = r.of

Found(d) == d # NoDeployment => d = Target(mem).of /\ Intact(Target(mem))

BootOK ==
    /\ boot.task \in {"reject", "again"} => boot.found = NoDeployment
    /\ boot.task = "again" => mem.pending = NoRelease
    /\ boot.task \in {"read", "reject", "again", "publish"} => boot.assets = NoDeployment
    /\ ui.pc \in {"begin", "wait", "waiting"} => Found(boot.found) /\ Found(boot.assets)

\* What the loading task copied is still what RAM says when it refuses the target: the
\* only writers of the record are then the task itself and app_main, which waits.
Captured ==
    /\ boot.task \in {"reject", "again"} => boot.active = mem.active
    /\ boot.task = "reject" => boot.target = mem.pending
    /\ boot.running => publisher = NoKey

\* RAM knows the release that NVS would fall back to, unless its record could not be
\* read or a new epoch was begun over it.
NvsKnown ==
    \/ nvs.active \in {mem.active, NoRelease}
    \/ mem.trial # 0 /\ nvs.active = mem.pending
    \/ mem.active = NoRelease /\ mem.key = NoKey

NvsBooted ==
    ui.pc \in {"begin", "wait", "waiting", "show"} =>
        /\ \/ nvs.active = mem.active
           \/ mem.active = NoRelease /\ mem.pending = NoRelease
        /\ mem.trial # 0 => nvs = mem

\* The releases that are in use are complete, and the worker writes to another slot.
IntactOK ==
    /\ Intact(mem.active) /\ Intact(nvs.active)
    /\ mem.trial # 0 => Intact(mem.pending)

Writing == Downloading \ {"prepare"}
SlotOK ==
    /\ worker.pc \in Writing =>
          worker.slot \in Slots \ {mem.active.slot, nvs.active.slot}
    /\ worker.pc \in Writing \ {"request", "commit"} => worker.job.mode = Custom

Inv == /\ Types /\ RecordsOK /\ PhasesOK /\ DownloadOK /\ BootOK /\ NvsKnown /\ NvsBooted
       /\ IntactOK /\ SlotOK

(***************************************************************************)
(* Deployments, releases and records.                                      *)
(***************************************************************************)
LEMMA RevisionFacts == Revisions \subseteq Nat \ {0} /\ 0 \notin Revisions
  BY AppearanceAssumption DEF Revisions

LEMMA RevisionsAreNat ==
    ASSUME NEW n \in Revisions \cup {0}
    PROVE  n \in Nat
  BY RevisionFacts

LEMMA DeploymentFacts ==
    ASSUME NEW d \in Deployments
    PROVE  /\ d.key \in Keys /\ d.key # NoKey /\ d # NoDeployment
           /\ d.rev \in Revisions /\ d.rev \in Nat /\ d.rev > 0
           /\ d.mode \in {Builtin, Custom}
<1>1. d.key \in Keys /\ d.rev \in Revisions
  BY DEF Keys, Revisions
<1>2. d.key # NoKey /\ d.mode \in {Builtin, Custom}
  BY <1>1, AppearanceAssumption
<1>3. d # NoDeployment
  <2>1. NoDeployment.key = NoKey
    BY DEF NoDeployment
  <2> QED BY <1>2, <2>1
<1>4. d.rev \in Nat /\ d.rev # 0
  BY <1>1, RevisionFacts
<1>5. d.rev > 0
  BY <1>4
<1> QED BY <1>1, <1>2, <1>3, <1>4, <1>5

LEMMA NoDeploymentFacts ==
    /\ NoDeployment \notin Deployments
    /\ NoDeployment.rev = 0 /\ NoDeployment.key = NoKey /\ NoDeployment.mode = ""
    /\ NoRelease.of = NoDeployment /\ NoRelease.slot = ""
    /\ NoRelease \notin Releases
<1>1. NoDeployment \notin Deployments
  BY DeploymentFacts
<1>2. NoRelease \notin Releases
  BY <1>1 DEF NoRelease, Releases
<1> QED BY <1>1, <1>2 DEF NoDeployment, NoRelease

LEMMA KnownFacts ==
    ASSUME NEW d \in Known
    PROVE  /\ d.rev \in Revisions \cup {0} /\ d.rev \in Nat
           /\ d.key \in Keys \cup {NoKey}
           /\ d # NoDeployment => d \in Deployments
           /\ d.mode = Custom => d \in Packages
           /\ d \in Packages => d.mode = Custom
<1>1. CASE d \in Deployments
  <2>1. /\ d.key \in Keys /\ d.rev \in Revisions /\ d.rev \in Nat
        /\ d.mode \in {Builtin, Custom}
    BY <1>1, DeploymentFacts
  <2>2. d \in Packages <=> d.mode = Custom
    BY <1>1 DEF Packages
  <2> QED BY <1>1, <2>1, <2>2
<1>2. CASE d = NoDeployment
  <2>1. d \notin Packages /\ d.mode # Custom
    BY <1>2, NoDeploymentFacts DEF Packages, Custom
  <2>2. d.rev = 0 /\ d.key = NoKey
    BY <1>2, NoDeploymentFacts
  <2>3. d.rev \in Revisions \cup {0} /\ d.rev \in Nat
    BY <2>2
  <2> QED BY <1>2, <2>1, <2>2, <2>3
<1> QED BY <1>1, <1>2 DEF Known

LEMMA KeptFacts ==
    ASSUME NEW r \in Kept
    PROVE  /\ r.of \in Known /\ r.of.rev \in Revisions \cup {0} /\ r.of.rev \in Nat
           /\ r.slot \in Slots \cup {""}
           /\ r = NoRelease <=> r.of = NoDeployment
           /\ r.of.rev = 0 => r = NoRelease
           /\ r.of.mode = Custom => r.of \in Packages /\ r.slot \in Slots
           /\ r.of \in Packages => r.of.mode = Custom /\ r.slot \in Slots
<1>1. CASE r = NoRelease
  <2>1. /\ r.of = NoDeployment /\ r.slot = "" /\ r.of.rev = 0 /\ r.of \notin Deployments
        /\ r.of.mode = ""
    BY <1>1, NoDeploymentFacts
  <2>2. r.of \notin Packages /\ r.of.mode # Custom /\ r.of \in Known
    BY <2>1 DEF Packages, Custom, Known
  <2>3. r.of.rev = 0
    BY <2>1
  <2>4. r.of.rev \in Revisions \cup {0} /\ r.of.rev \in Nat
    BY <2>3
  <2> QED BY <1>1, <2>1, <2>2, <2>4
<1>2. CASE r \in Releases
  <2>1. r.of \in Deployments /\ r.slot \in Slots \cup {""} /\ (r.slot = "" <=> r.of.mode = Builtin)
    BY <1>2 DEF Releases
  <2>2. r.of.mode = Custom => r.slot \in Slots
    BY <2>1 DEF Custom, Builtin
  <2>3. /\ r.of.rev \in Revisions /\ r.of.rev \in Nat /\ r.of.rev > 0
        /\ r.of # NoDeployment /\ r # NoRelease
    BY <1>2, <2>1, DeploymentFacts, NoDeploymentFacts
  <2>4. r.of \in Known /\ (r.of \in Packages <=> r.of.mode = Custom)
    BY <2>1 DEF Known, Packages
  <2>5. r.of.rev \in Revisions \cup {0} /\ r.of.rev \in Nat /\ r.of.rev # 0
    BY <2>3
  <2> QED BY <2>1, <2>2, <2>3, <2>4, <2>5
<1> QED BY <1>1, <1>2 DEF Kept

LEMMA ReleaseFacts ==
    ASSUME NEW d \in Deployments, NEW slot, d.mode = Custom => slot \in Slots
    PROVE  /\ Release(d, slot) \in Kept /\ Release(d, slot) # NoRelease
           /\ Release(d, slot).of = d
<1>1. d.mode \in {Builtin, Custom}
  BY DeploymentFacts
<1>2. Release(d, slot) \in Releases
  BY <1>1 DEF Release, Releases, Builtin, Custom, Slots
<1> QED BY <1>2, NoDeploymentFacts DEF Kept, Release

LEMMA SlotFacts ==
    ASSUME NEW r \in Kept, r.of \in Packages
    PROVE  r.slot \in Slots
  BY KeptFacts

LEMMA LargerFacts ==
    ASSUME NEW m \in Revisions \cup {0}, NEW n \in Revisions \cup {0}
    PROVE  /\ Larger(m, n) \in Revisions \cup {0}
           /\ Larger(m, n) >= m /\ Larger(m, n) >= n
<1>1. m \in Nat /\ n \in Nat
  BY RevisionsAreNat
<1>2. Larger(m, n) \in {m, n}
  BY DEF Larger
<1>3. Larger(m, n) >= m /\ Larger(m, n) >= n
  BY <1>1 DEF Larger
<1> QED BY <1>2, <1>3

LEMMA BlankFacts ==
    /\ Blank \in Records /\ RecordOK(Blank)
    /\ Blank.active = NoRelease /\ Blank.pending = NoRelease /\ Blank.trial = 0
    /\ Blank.key = NoKey /\ Blank.rejected = 0 /\ Blank.latest = 0
<1>1. NoRelease \in Kept
  BY DEF Kept
<1>2. Blank \in Records
  BY <1>1 DEF Blank, Records
<1>3. /\ Blank.active = NoRelease /\ Blank.pending = NoRelease /\ Blank.trial = 0
      /\ Blank.key = NoKey /\ Blank.rejected = 0 /\ Blank.latest = 0
  BY DEF Blank
<1> QED BY <1>2, <1>3 DEF RecordOK

LEMMA RecordFacts ==
    ASSUME NEW m \in Records
    PROVE  /\ m.active \in Kept /\ m.pending \in Kept /\ m.previous \in Kept
           /\ m.trial \in Revisions \cup {0} /\ m.rejected \in Revisions \cup {0}
           /\ m.latest \in Revisions \cup {0} /\ m.key \in Keys \cup {NoKey}
           /\ m.trial \in Nat /\ m.rejected \in Nat /\ m.latest \in Nat
           /\ m.active.of.rev \in Nat /\ m.pending.of.rev \in Nat
<1>1. /\ m.active \in Kept /\ m.pending \in Kept /\ m.previous \in Kept
      /\ m.trial \in Revisions \cup {0} /\ m.rejected \in Revisions \cup {0}
      /\ m.latest \in Revisions \cup {0} /\ m.key \in Keys \cup {NoKey}
  BY DEF Records
<1>2. m.trial \in Nat /\ m.rejected \in Nat /\ m.latest \in Nat
  BY <1>1, RevisionsAreNat
<1>3. m.active.of.rev \in Nat /\ m.pending.of.rev \in Nat
  BY <1>1, KeptFacts
<1> QED BY <1>1, <1>2, <1>3

LEMMA RecoverFacts ==
    ASSUME NEW m \in Records, RecordOK(m)
    PROVE  LET r == RecoverTrial(m) IN
           /\ r \in Records /\ RecordOK(r)
           /\ r.active = m.active /\ r.trial = 0 /\ r.key = m.key /\ r.rejected >= m.rejected
           /\ m.trial = 0 => r = m
           /\ m.trial # 0 => r.pending = NoRelease /\ r.rejected >= m.trial
<1>1. CASE m.trial = 0
  BY <1>1, RecordFacts DEF RecoverTrial
<1>2. CASE m.trial # 0
  <2> DEFINE rejected == Larger(m.trial, m.rejected)
             r == [m EXCEPT !.active = m.previous, !.pending = NoRelease, !.trial = 0,
                            !.rejected = rejected]
  <2>1. RecoverTrial(m) = r
    BY <1>2 DEF RecoverTrial
  <2>2. rejected \in Revisions \cup {0} /\ rejected >= m.trial /\ rejected >= m.rejected
    BY RecordFacts, LargerFacts
  <2>3. NoRelease \in Kept /\ m.previous = m.active
    BY <1>2 DEF Kept, RecordOK
  <2> HIDE DEF rejected
  <2>4. /\ r.active = m.active /\ r.trial = 0 /\ r.key = m.key /\ r.rejected = rejected
        /\ r.pending = NoRelease
    BY <2>3 DEF Records
  <2>5. r \in Records
    BY <2>2, <2>3 DEF Records
  <2>6. RecordOK(r)
    BY <2>4 DEF RecordOK
  <2> HIDE DEF r
  <2> QED BY <1>2, <2>1, <2>2, <2>4, <2>5, <2>6
<1> QED BY <1>1, <1>2

LEMMA DecodedFacts ==
    ASSUME NEW m \in Records, RecordOK(m)
    PROVE  LET r == Decoded(m) IN
           /\ r \in Records /\ RecordOK(r)
           /\ r.active = m.active /\ r.pending = m.pending /\ r.previous = m.previous
           /\ r.trial = m.trial /\ r.rejected = m.rejected /\ r.key = m.key
<1> DEFINE latest == Larger(m.latest, Larger(m.active.of.rev, m.pending.of.rev))
           r == [m EXCEPT !.latest = latest]
<1>1. Decoded(m) = r
  BY DEF Decoded, Records
<1>2. latest \in Revisions \cup {0}
  <2>1. Larger(m.active.of.rev, m.pending.of.rev) \in Revisions \cup {0}
    BY RecordFacts, KeptFacts, LargerFacts
  <2> QED BY <2>1, RecordFacts, LargerFacts
<1> HIDE DEF latest
<1>3. r \in Records
  BY <1>2 DEF Records
<1>4. /\ r.active = m.active /\ r.pending = m.pending /\ r.previous = m.previous
      /\ r.trial = m.trial /\ r.rejected = m.rejected /\ r.key = m.key
  BY DEF Records
<1>5. RecordOK(r)
  BY <1>4 DEF RecordOK
<1> HIDE DEF r
<1> QED BY <1>1, <1>3, <1>4, <1>5

LEMMA BeginTrialFacts ==
    ASSUME NEW m \in Records, RecordOK(m), m.pending # NoRelease
    PROVE  LET r == BeginTrial(m) IN
           /\ r \in Records /\ RecordOK(r)
           /\ r.active = m.active /\ r.pending = m.pending /\ r.rejected = m.rejected
           /\ r.previous = m.active /\ r.trial = m.pending.of.rev /\ r.key = m.key
<1> DEFINE r == [m EXCEPT !.previous = m.active, !.trial = m.pending.of.rev]
<1>0. BeginTrial(m) = r
  BY DEF BeginTrial
<1>a. m.active \in Kept /\ m.pending.of.rev \in Revisions \cup {0}
  BY RecordFacts, KeptFacts
<1>1. r \in Records
  BY <1>a DEF Records
<1>2. /\ r.active = m.active /\ r.pending = m.pending /\ r.rejected = m.rejected
      /\ r.previous = m.active /\ r.trial = m.pending.of.rev /\ r.key = m.key
  BY <1>a DEF Records
<1>3. RecordOK(r)
  BY <1>2 DEF RecordOK
<1> HIDE DEF r
<1> QED BY <1>0, <1>1, <1>2, <1>3

LEMMA UnsavedTrialFacts ==
    ASSUME NEW m \in Records, RecordOK(m), m.trial = 0
    PROVE  LET r == [m EXCEPT !.previous = m.active] IN
           /\ r \in Records /\ RecordOK(r)
           /\ r.active = m.active /\ r.pending = m.pending /\ r.rejected = m.rejected
           /\ r.trial = 0 /\ r.key = m.key
<1> DEFINE r == [m EXCEPT !.previous = m.active]
<1>0. [m EXCEPT !.previous = m.active] = r
  BY Zenon
<1>a. m.active \in Kept
  BY RecordFacts
<1>1. r \in Records
  BY <1>a DEF Records
<1>2. /\ r.active = m.active /\ r.pending = m.pending /\ r.rejected = m.rejected
      /\ r.trial = 0 /\ r.key = m.key
  BY <1>a DEF Records
<1>3. RecordOK(r)
  BY <1>2 DEF RecordOK
<1> HIDE DEF r
<1> QED BY <1>0, <1>1, <1>2, <1>3

LEMMA ConfirmTrialFacts ==
    ASSUME NEW m \in Records, RecordOK(m)
    PROVE  LET r == ConfirmTrial(m) IN
           /\ r \in Records /\ RecordOK(r)
           /\ r.active = m.pending /\ r.pending = NoRelease /\ r.rejected = m.rejected
           /\ r.trial = 0 /\ r.key = m.key
<1> DEFINE r == [m EXCEPT !.active = m.pending, !.pending = NoRelease, !.trial = 0]
<1>0. ConfirmTrial(m) = r
  BY DEF ConfirmTrial
<1>a. m.pending \in Kept /\ NoRelease \in Kept
  BY RecordFacts DEF Kept
<1>1. r \in Records
  BY <1>a DEF Records
<1>2. /\ r.active = m.pending /\ r.pending = NoRelease /\ r.rejected = m.rejected
      /\ r.trial = 0 /\ r.key = m.key
  BY <1>a DEF Records
<1>3. RecordOK(r)
  BY <1>2 DEF RecordOK
<1> HIDE DEF r
<1> QED BY <1>0, <1>1, <1>2, <1>3

LEMMA RejectPendingFacts ==
    ASSUME NEW m \in Records, RecordOK(m)
    PROVE  LET r == RejectPending(m, m.pending.of.rev) IN
           /\ r \in Records /\ RecordOK(r)
           /\ r.active = m.active /\ r.pending = NoRelease
           /\ r.rejected = Larger(m.pending.of.rev, m.rejected)
           /\ r.trial = 0 /\ r.key = m.key
<1> DEFINE rejected == Larger(m.pending.of.rev, m.rejected)
           r == [m EXCEPT !.pending = NoRelease, !.trial = 0, !.rejected = rejected]
<1>0. RejectPending(m, m.pending.of.rev) = r
  BY DEF RejectPending
<1>a. NoRelease \in Kept /\ rejected \in Revisions \cup {0} /\ rejected >= m.rejected
  BY RecordFacts, KeptFacts, LargerFacts DEF Kept
<1> HIDE DEF rejected
<1>1. r \in Records
  BY <1>a DEF Records
<1>2. /\ r.active = m.active /\ r.pending = NoRelease /\ r.rejected = rejected
      /\ r.trial = 0 /\ r.key = m.key
  BY <1>a DEF Records
<1>3. RecordOK(r)
  BY <1>2 DEF RecordOK
<1> HIDE DEF r
<1> QED BY <1>0, <1>1, <1>2, <1>3 DEF rejected

LEMMA PendingFacts ==
    ASSUME NEW m \in Records, m.trial = 0, NEW p \in Kept,
           p.of.rev > m.active.of.rev, p.of.rev > m.rejected
    PROVE  LET r == [m EXCEPT !.pending = p] IN
           /\ r \in Records /\ RecordOK(r)
           /\ r.active = m.active /\ r.pending = p /\ r.rejected = m.rejected
           /\ r.trial = 0 /\ r.key = m.key
<1> DEFINE r == [m EXCEPT !.pending = p]
<1>0. [m EXCEPT !.pending = p] = r
  BY Zenon
<1>1. r \in Records
  BY DEF Records
<1>2. /\ r.active = m.active /\ r.pending = p /\ r.rejected = m.rejected
      /\ r.trial = 0 /\ r.key = m.key
  BY DEF Records
<1>3. RecordOK(r)
  BY <1>2 DEF RecordOK
<1> HIDE DEF r
<1> QED BY <1>0, <1>1, <1>2, <1>3

LEMMA ForgetFacts ==
    ASSUME NEW m \in Records, RecordOK(m)
    PROVE  LET r == [m EXCEPT !.key = NoKey] IN
           /\ r \in Records /\ RecordOK(r)
           /\ r.active = m.active /\ r.pending = m.pending /\ r.rejected = m.rejected
           /\ r.previous = m.previous /\ r.trial = m.trial /\ r.key = NoKey
<1> DEFINE r == [m EXCEPT !.key = NoKey]
<1>0. [m EXCEPT !.key = NoKey] = r
  BY Zenon
<1>1. r \in Records
  BY DEF Records
<1>2. /\ r.active = m.active /\ r.pending = m.pending /\ r.rejected = m.rejected
      /\ r.previous = m.previous /\ r.trial = m.trial /\ r.key = NoKey
  BY DEF Records
<1>3. RecordOK(r)
  BY <1>2 DEF RecordOK
<1> HIDE DEF r
<1> QED BY <1>0, <1>1, <1>2, <1>3

LEMMA LatestFacts ==
    ASSUME NEW m \in Records, RecordOK(m), NEW d \in Deployments
    PROVE  LET r == [m EXCEPT !.latest = d.rev] IN
           /\ r \in Records /\ RecordOK(r)
           /\ r.active = m.active /\ r.pending = m.pending /\ r.rejected = m.rejected
           /\ r.previous = m.previous /\ r.trial = m.trial /\ r.key = m.key
           /\ r.latest = d.rev
<1> DEFINE r == [m EXCEPT !.latest = d.rev]
<1>0. [m EXCEPT !.latest = d.rev] = r
  BY Zenon
<1>a. d.rev \in Revisions
  BY DeploymentFacts
<1>1. r \in Records
  BY <1>a DEF Records
<1>2. /\ r.active = m.active /\ r.pending = m.pending /\ r.rejected = m.rejected
      /\ r.previous = m.previous /\ r.trial = m.trial /\ r.key = m.key
      /\ r.latest = d.rev
  BY <1>a DEF Records
<1>3. RecordOK(r)
  BY <1>2 DEF RecordOK
<1> HIDE DEF r
<1> QED BY <1>0, <1>1, <1>2, <1>3

LEMMA NewEpochFacts ==
    ASSUME NEW d \in Known, publisher \in Keys \cup {NoKey}
    PROVE  LET r == NewEpoch(d) IN
           /\ r \in Records /\ RecordOK(r)
           /\ r.active = NoRelease /\ r.pending = NoRelease /\ r.rejected = 0
           /\ r.trial = 0 /\ r.key = publisher
<1> DEFINE latest == IF d.key = publisher THEN d.rev ELSE 0
           r == [Blank EXCEPT !.key = publisher, !.latest = latest]
<1>0. NewEpoch(d) = r
  BY DEF NewEpoch
<1>1. latest \in Revisions \cup {0}
  BY KnownFacts
<1> HIDE DEF latest
<1>2. r \in Records
  BY <1>1, BlankFacts DEF Records
<1>3. /\ r.active = NoRelease /\ r.pending = NoRelease /\ r.rejected = 0
      /\ r.trial = 0 /\ r.key = publisher
  BY BlankFacts DEF Records
<1>4. RecordOK(r)
  BY <1>3 DEF RecordOK
<1> HIDE DEF r
<1> QED BY <1>0, <1>2, <1>3, <1>4

LEMMA SaveFacts ==
    ASSUME NEW record, NEW ok \in BOOLEAN, SaveStateLocked(record, ok)
    PROVE  nvs' \in {record, nvs} /\ (ok => nvs' = record)
  BY DEF SaveStateLocked

LEMMA TargetFacts ==
    ASSUME NEW m \in Records
    PROVE  /\ Target(m) \in Kept /\ Target(m).of \in Known
           /\ Target(m).of.rev \in Revisions \cup {0}
           /\ Target(m) \in {m.pending, m.active}
<1>1. Target(m) \in {m.pending, m.active}
  BY DEF Target
<1>2. Target(m) \in Kept
  BY <1>1, RecordFacts
<1> QED BY <1>1, <1>2, KeptFacts

LEMMA ReadFacts ==
    ASSUME NEW r, NEW d \in ReadPackage(r)
    PROVE  /\ d \in Known
           /\ d # NoDeployment => d = r.of /\ d \in Packages /\ d.key = mem.key /\ Intact(r)
                                 /\ ~boot.abandoned /\ ~boot.late
  BY DEF ReadPackage, Packages, Known, Intact

(***************************************************************************)
(* What each action leaves in the variables it changes.                    *)
(***************************************************************************)
LEMMA InvTypes == Inv => Types
  BY DEF Inv

LEMMA TypesFrame ==
    /\ FileTypes /\ UNCHANGED files => FileTypes'
    /\ BootTypes /\ UNCHANGED boot => BootTypes'
    /\ UiTypes /\ UNCHANGED ui => UiTypes'
    /\ JobTypes /\ UNCHANGED <<desired, status, failures, waiting>> => JobTypes'
    /\ WantTypes /\ UNCHANGED <<publisher, requested>> => WantTypes'
    /\ WorkerTypes /\ UNCHANGED worker => WorkerTypes'
    /\ TriedTypes /\ UNCHANGED tried => TriedTypes'
<1>1. FileTypes /\ UNCHANGED files => FileTypes'
  BY DEF FileTypes
<1>2. BootTypes /\ UNCHANGED boot => BootTypes'
  BY DEF BootTypes
<1>3. UiTypes /\ UNCHANGED ui => UiTypes'
  BY DEF UiTypes
<1>4. JobTypes /\ UNCHANGED <<desired, status, failures, waiting>> => JobTypes'
  BY DEF JobTypes
<1>5. WantTypes /\ UNCHANGED <<publisher, requested>> => WantTypes'
  BY DEF WantTypes
<1>6. WorkerTypes /\ UNCHANGED worker => WorkerTypes'
  BY DEF WorkerTypes
<1>7. TriedTypes /\ UNCHANGED tried => TriedTypes'
  BY DEF TriedTypes
<1> QED BY <1>1, <1>2, <1>3, <1>4, <1>5, <1>6, <1>7

LEMMA DelayFacts == Delays \in Nat /\ 0 \in 0 .. Delays + 1
  BY AppearanceAssumption

\* What is installed is a package.
LEMMA InstalledFacts ==
    ASSUME Inv, worker.pc \in Writing \ {"request", "commit"}
    PROVE  worker.job \in Content
  BY KnownFacts DEF Inv, Types, OtherTypes, WorkerTypes, OtherTypes, SlotOK, Content

LEMMA LoadStateTypes ==
    ASSUME Inv, LoadState
    PROVE  OtherTypes'
<1>1. UiTypes'
  BY DEF LoadState, Fault, Inv, Types, OtherTypes, UiTypes, Known
<1>2. UNCHANGED <<files, boot, desired, status, failures, waiting, publisher, requested, worker,
                  tried>>
  BY DEF LoadState, jobs, wants
<1>3. FileTypes' /\ BootTypes' /\ JobTypes' /\ WantTypes' /\ WorkerTypes' /\ TriedTypes'
  BY <1>2, TypesFrame DEF Inv, Types, OtherTypes
<1> QED BY <1>1, <1>2, <1>3 DEF OtherTypes

LEMMA BeginBuiltinTypes ==
    ASSUME Inv, BeginBuiltin
    PROVE  UiTypes' /\ BootTypes'
<1>1. UiTypes'
  BY DEF BeginBuiltin, Target, Inv, Types, OtherTypes, UiTypes, Known
<1>2. BootTypes'
  <2>1. mem \in Records
    BY DEF Inv, Types, RecordTypes
  <2> DEFINE candidate == /\ Target(mem) # NoRelease
                          /\ mem.pending = NoRelease \/ mem'.trial # 0
  <2>2. boot' = [boot EXCEPT !.selected = Target(mem).of.rev, !.assets = Target(mem).of,
                             !.candidate = candidate]
    BY DEF BeginBuiltin
  <2>3. candidate \in BOOLEAN
    OBVIOUS
  <2> HIDE DEF candidate
  <2> QED BY <2>1, <2>2, <2>3, TargetFacts DEF Inv, Types, OtherTypes, BootTypes
<1> QED BY <1>1, <1>2

LEMMA BeginCustomTypes ==
    ASSUME Inv, BeginCustom
    PROVE  UiTypes' /\ BootTypes'
<1>1. UiTypes'
  BY DEF BeginCustom, Fault, Done, Target, Inv, Types, OtherTypes, UiTypes, Known
<1>2. BootTypes'
  BY DEF BeginCustom, Fault, Done, Target, Inv, Types, OtherTypes, BootTypes, Known
<1> QED BY <1>1, <1>2

LEMMA BootReadTypes ==
    ASSUME Inv, BootRead
    PROVE  OtherTypes'
<1>1. BootTypes'
  <2>1. mem \in Records
    BY DEF Inv, Types, RecordTypes
  <2>2. PICK got \in ReadPackage(Target(mem)) :
           \E next \in {"reject", "publish"} :
              boot' = [boot EXCEPT !.found = got, !.target = Target(mem), !.active = mem.active,
                                   !.task = next]
    BY DEF BootRead, BootStep
  <2>3. got \in Known /\ Target(mem) \in Kept /\ mem.active \in Kept
    BY <2>1, ReadFacts, TargetFacts, RecordFacts
  <2> QED BY <2>2, <2>3 DEF Inv, Types, OtherTypes, BootTypes
<1>2. UNCHANGED <<files, ui, desired, status, failures, waiting, publisher, requested, worker, tried>>
  BY DEF BootRead, BootStep, durable, jobs, wants, InstallStep, Go
<1>3. FileTypes' /\ UiTypes' /\ JobTypes' /\ WantTypes' /\ WorkerTypes' /\ TriedTypes'
  BY <1>2, TypesFrame DEF Inv, Types, OtherTypes
<1> QED BY <1>1, <1>2, <1>3 DEF OtherTypes

LEMMA BootRejectTypes ==
    ASSUME Inv, BootReject
    PROVE  OtherTypes'
<1>1. BootTypes'
  BY DEF BootReject, BootStep, Inv, Types, OtherTypes, BootTypes, Known
<1>2. UNCHANGED <<files, ui, desired, status, failures, waiting, publisher, requested, worker, tried>>
  BY DEF BootReject, BootStep, durable, jobs, wants, InstallStep, Go
<1>3. FileTypes' /\ UiTypes' /\ JobTypes' /\ WantTypes' /\ WorkerTypes' /\ TriedTypes'
  BY <1>2, TypesFrame DEF Inv, Types, OtherTypes
<1> QED BY <1>1, <1>2, <1>3 DEF OtherTypes

LEMMA BootReadActiveTypes ==
    ASSUME Inv, BootReadActive
    PROVE  OtherTypes'
<1>1. BootTypes'
  <2>1. boot.active \in Kept
    BY DEF Inv, Types, OtherTypes, BootTypes
  <2>2. PICK got \in {boot.active.of} \cup ReadPackage(boot.active) :
           boot' = [boot EXCEPT !.found = got, !.task = "publish"]
    BY DEF BootReadActive, BootStep
  <2>3. got \in Known
    BY <2>1, <2>2, ReadFacts, KeptFacts
  <2> QED BY <2>2, <2>3 DEF Inv, Types, OtherTypes, BootTypes
<1>2. UNCHANGED <<files, ui, desired, status, failures, waiting, publisher, requested, worker, tried>>
  BY DEF BootReadActive, BootStep, durable, jobs, wants, InstallStep, Go
<1>3. FileTypes' /\ UiTypes' /\ JobTypes' /\ WantTypes' /\ WorkerTypes' /\ TriedTypes'
  BY <1>2, TypesFrame DEF Inv, Types, OtherTypes
<1> QED BY <1>1, <1>2, <1>3 DEF OtherTypes

LEMMA BootPublishTypes ==
    ASSUME Inv, BootPublish
    PROVE  OtherTypes'
<1>1. BootTypes'
  <2>1. boot.found \in Known /\ boot.found.rev \in Revisions \cup {0}
    BY KnownFacts DEF Inv, Types, OtherTypes, BootTypes
  <2>2. NoDeployment \in Known /\ NoRelease \in Kept
    BY DEF Known, Kept
  <2>3. \/ boot' = [boot EXCEPT !.task = "end", !.found = NoDeployment,
                                !.target = NoRelease, !.active = NoRelease]
        \/ \E playing \in BOOLEAN :
              boot' = [boot EXCEPT !.task = "end", !.found = NoDeployment,
                                   !.target = NoRelease, !.active = NoRelease,
                                   !.selected = boot.found.rev, !.assets = boot.found,
                                   !.candidate = TRUE, !.playing = playing]
    BY DEF BootPublish, BootStep
  <2> QED BY <2>1, <2>2, <2>3 DEF Inv, Types, OtherTypes, BootTypes
<1>2. UNCHANGED <<files, ui, desired, status, failures, waiting, publisher, requested, worker, tried>>
  BY DEF BootPublish, BootStep, durable, jobs, wants, InstallStep, Go
<1>3. FileTypes' /\ UiTypes' /\ JobTypes' /\ WantTypes' /\ WorkerTypes' /\ TriedTypes'
  BY <1>2, TypesFrame DEF Inv, Types, OtherTypes
<1> QED BY <1>1, <1>2, <1>3 DEF OtherTypes

LEMMA BootEndTypes ==
    ASSUME Inv, BootEnd
    PROVE  OtherTypes'
<1>1. BootTypes'
  BY DEF BootEnd, BootStep, Inv, Types, OtherTypes, BootTypes, Known
<1>2. UNCHANGED <<files, ui, desired, status, failures, waiting, publisher, requested, worker, tried>>
  BY DEF BootEnd, BootStep, durable, jobs, wants, InstallStep, Go
<1>3. FileTypes' /\ UiTypes' /\ JobTypes' /\ WantTypes' /\ WorkerTypes' /\ TriedTypes'
  BY <1>2, TypesFrame DEF Inv, Types, OtherTypes
<1> QED BY <1>1, <1>2, <1>3 DEF OtherTypes

LEMMA BudgetEndsTypes ==
    ASSUME Inv, BudgetEnds
    PROVE  OtherTypes'
<1>1. BootTypes'
  BY DEF BudgetEnds, BootStep, Inv, Types, OtherTypes, BootTypes, Known
<1>2. UNCHANGED <<files, ui, desired, status, failures, waiting, publisher, requested, worker, tried>>
  BY DEF BudgetEnds, BootStep, durable, jobs, wants, InstallStep, Go
<1>3. FileTypes' /\ UiTypes' /\ JobTypes' /\ WantTypes' /\ WorkerTypes' /\ TriedTypes'
  BY <1>2, TypesFrame DEF Inv, Types, OtherTypes
<1> QED BY <1>1, <1>2, <1>3 DEF OtherTypes

LEMMA WaitBootAssetsTypes ==
    ASSUME Inv, WaitBootAssets
    PROVE  OtherTypes'
<1>1. UiTypes'
  BY DEF WaitBootAssets, Target, Inv, Types, OtherTypes, BootTypes, UiTypes, Known
<1>2. UNCHANGED <<files, boot, desired, status, failures, waiting, publisher, requested, worker,
                  tried>>
  BY DEF WaitBootAssets, durable, jobs, wants
<1>3. FileTypes' /\ BootTypes' /\ JobTypes' /\ WantTypes' /\ WorkerTypes' /\ TriedTypes'
  BY <1>2, TypesFrame DEF Inv, Types, OtherTypes
<1> QED BY <1>1, <1>2, <1>3 DEF OtherTypes

LEMMA TakeBootAssetsTypes ==
    ASSUME Inv, TakeBootAssets
    PROVE  OtherTypes'
<1>1. BootTypes'
  BY DEF TakeBootAssets, NoAssets, Inv, Types, OtherTypes, BootTypes, Known
<1>2. UiTypes'
  BY DEF TakeBootAssets, NoAssets, Inv, Types, OtherTypes, BootTypes, UiTypes, Known
<1>3. UNCHANGED <<files, desired, status, failures, waiting, publisher, requested, worker, tried>>
  BY DEF TakeBootAssets, jobs, wants
<1>4. FileTypes' /\ JobTypes' /\ WantTypes' /\ WorkerTypes' /\ TriedTypes'
  BY <1>3, TypesFrame DEF Inv, Types, OtherTypes
<1> QED BY <1>1, <1>2, <1>3, <1>4 DEF OtherTypes

LEMMA StartAnimationTypes ==
    ASSUME Inv, StartAnimation
    PROVE  OtherTypes'
<1>1. BootTypes'
  BY DEF StartAnimation, Animate, RejectBootCandidate, NoAssets, Inv, Types, OtherTypes,
    BootTypes, Known
<1>2. UiTypes'
  BY DEF StartAnimation, Animate, RejectBootCandidate, NoAssets, Inv, Types, OtherTypes,
    BootTypes, UiTypes, Known
<1>3. UNCHANGED <<files, desired, status, failures, waiting, publisher, requested, worker, tried>>
  BY DEF StartAnimation, durable, jobs, wants, InstallStep, Go
<1>4. FileTypes' /\ JobTypes' /\ WantTypes' /\ WorkerTypes' /\ TriedTypes'
  BY <1>3, TypesFrame DEF Inv, Types, OtherTypes
<1> QED BY <1>1, <1>2, <1>3, <1>4 DEF OtherTypes

LEMMA AnimationDoneTypes ==
    ASSUME Inv, AnimationDone
    PROVE  OtherTypes'
<1>1. UiTypes'
  BY DEF AnimationDone, Inv, Types, OtherTypes, UiTypes, Known
<1>2. BootTypes'
  BY DEF AnimationDone, Inv, Types, OtherTypes, BootTypes, Known
<1>3. UNCHANGED <<files, desired, status, failures, waiting, publisher, requested, worker, tried>>
  BY DEF AnimationDone, durable, jobs, wants
<1>4. FileTypes' /\ JobTypes' /\ WantTypes' /\ WorkerTypes' /\ TriedTypes'
  BY <1>3, TypesFrame DEF Inv, Types, OtherTypes
<1> QED BY <1>1, <1>2, <1>3, <1>4 DEF OtherTypes

LEMMA ConfirmBootHealthyTypes ==
    ASSUME Inv, ConfirmBootHealthy
    PROVE  OtherTypes'
<1>1. UiTypes'
  BY DEF ConfirmBootHealthy, Inv, Types, OtherTypes, UiTypes, Known
<1>2. JobTypes'
  BY DEF ConfirmBootHealthy, Inv, Types, OtherTypes, JobTypes, Known
<1>3. UNCHANGED <<files, boot, publisher, requested, worker, tried>>
  BY DEF ConfirmBootHealthy, wants
<1>4. FileTypes' /\ BootTypes' /\ WantTypes' /\ WorkerTypes' /\ TriedTypes'
  BY <1>3, TypesFrame DEF Inv, Types, OtherTypes
<1> QED BY <1>1, <1>2, <1>3, <1>4 DEF OtherTypes

\* A new worker, or none; a task that cannot be created leaves its mark in the status.
LEMMA CreateTypes ==
    ASSUME NEW state, CreateWorker(state)
    PROVE  WorkerTypes' /\ status' \in {state, "other"}
<1>1. PICK created \in BOOLEAN :
         /\ worker' = IF created THEN [NoWorker EXCEPT !.pc = "start"] ELSE NoWorker
         /\ status' = IF created THEN state ELSE "other"
  BY DEF CreateWorker
<1>2. CASE created
  BY <1>1, <1>2 DEF NoWorker, WorkerTypes, Ends, Known
<1>3. CASE ~created
  BY <1>1, <1>3 DEF NoWorker, WorkerTypes, Ends, Known
<1> QED BY <1>2, <1>3

LEMMA ScheduleTypes ==
    ASSUME Inv, NEW state, ScheduleWorker(state)
    PROVE  WorkerTypes' /\ status' \in {state, "other"}
<1>1. CASE CreateWorker(state)
  BY <1>1, CreateTypes
<1>2. CASE worker' = worker /\ status' = state
  BY <1>2 DEF Inv, Types, OtherTypes, WorkerTypes
<1> QED BY <1>1, <1>2 DEF ScheduleWorker

LEMMA ApplyDesiredTypes ==
    ASSUME Inv, ApplyDesired
    PROVE  OtherTypes'
<1>1. WorkerTypes' /\ status' = "other"
  BY ScheduleTypes DEF ApplyDesired
<1>2. JobTypes'
  BY <1>1, DelayFacts DEF ApplyDesired, JobTypes, OtherTypes, Known
<1>3. WantTypes'
  BY DEF ApplyDesired, Inv, Types, OtherTypes, WantTypes
<1>4. UNCHANGED <<files, boot, ui, tried>>
  BY DEF ApplyDesired, Settled, durable
<1>5. FileTypes' /\ BootTypes' /\ UiTypes' /\ TriedTypes'
  BY <1>4, TypesFrame DEF Inv, Types, OtherTypes
<1> QED BY <1>1, <1>2, <1>3, <1>5 DEF OtherTypes

LEMMA OnNetworkReadyTypes ==
    ASSUME Inv, OnNetworkReady
    PROVE  OtherTypes'
<1>1. WorkerTypes' /\ status' \in {status, "other"}
  BY ScheduleTypes DEF OnNetworkReady
<1>2. JobTypes'
  BY <1>1 DEF OnNetworkReady, Inv, Types, OtherTypes, JobTypes
<1>3. WantTypes'
  BY DEF OnNetworkReady, Inv, Types, OtherTypes, WantTypes
<1>4. UNCHANGED <<files, boot, ui, tried>>
  BY DEF OnNetworkReady, Settled, durable
<1>5. FileTypes' /\ BootTypes' /\ UiTypes' /\ TriedTypes'
  BY <1>4, TypesFrame DEF Inv, Types, OtherTypes
<1> QED BY <1>1, <1>2, <1>3, <1>5 DEF OtherTypes

LEMMA RequestPublisherTypes ==
    ASSUME Inv, RequestPublisher
    PROVE  OtherTypes'
<1>1. WorkerTypes' /\ status' \in {status, "other"}
  BY ScheduleTypes DEF RequestPublisher
<1>2. JobTypes'
  BY <1>1 DEF RequestPublisher, Inv, Types, OtherTypes, JobTypes
<1>3. WantTypes'
  BY DEF RequestPublisher, Inv, Types, OtherTypes, WantTypes
<1>4. UNCHANGED <<files, boot, ui, tried>>
  BY DEF RequestPublisher, Settled, durable
<1>5. FileTypes' /\ BootTypes' /\ UiTypes' /\ TriedTypes'
  BY <1>4, TypesFrame DEF Inv, Types, OtherTypes
<1> QED BY <1>1, <1>2, <1>3, <1>5 DEF OtherTypes

LEMMA ConfirmPublisherTypes ==
    ASSUME Inv, ConfirmPublisher
    PROVE  OtherTypes'
<1>1. /\ desired' \in {desired, NoDeployment} /\ tried' \in {tried, {}}
      /\ failures' = failures /\ waiting' = waiting
  BY DEF ConfirmPublisher, jobs
<1>2. TriedTypes'
  BY <1>1 DEF Inv, Types, OtherTypes, TriedTypes
<1>3. WorkerTypes' /\ status' \in {status, "other"}
  <2>1. CASE ScheduleWorker("other")
    BY <2>1, ScheduleTypes
  <2>2. CASE ScheduleWorker(status)
    BY <2>2, ScheduleTypes
  <2>3. CASE UNCHANGED <<jobs, worker>>
    BY <2>3 DEF jobs, Inv, Types, OtherTypes, WorkerTypes
  <2> QED BY <2>1, <2>2, <2>3 DEF ConfirmPublisher
<1>4. JobTypes'
  BY <1>1, <1>3 DEF Inv, Types, OtherTypes, JobTypes, Known
<1>5. UNCHANGED <<files, boot, ui, publisher, requested>>
  BY DEF ConfirmPublisher, wants
<1>6. FileTypes' /\ BootTypes' /\ UiTypes' /\ WantTypes'
  BY <1>5, TypesFrame DEF Inv, Types, OtherTypes
<1> QED BY <1>2, <1>3, <1>4, <1>6 DEF OtherTypes

LEMMA WorkerDefersTypes ==
    ASSUME Inv, WorkerDefers
    PROVE  OtherTypes'
<1>1. WorkerTypes'
  <2>1. mem.latest \in Revisions \cup {0}
    BY RecordFacts DEF Inv, Types, RecordTypes
  <2> QED BY <2>1 DEF WorkerDefers, StartWorker, Inv, Types, OtherTypes, WorkerTypes, OtherTypes, Ends
<1>2. JobTypes'
  BY DEF WorkerDefers, Still, StartWorker, Inv, Types, OtherTypes, JobTypes, Known
<1>3. UNCHANGED <<files, boot, ui, publisher, requested, tried>>
  BY DEF WorkerDefers, Still, durable, jobs, wants, StartWorker, InstallStep, Go
<1>4. FileTypes' /\ BootTypes' /\ UiTypes' /\ WantTypes' /\ TriedTypes'
  BY <1>3, TypesFrame DEF Inv, Types, OtherTypes
<1> QED BY <1>1, <1>2, <1>3, <1>4 DEF OtherTypes

LEMMA WorkerPassesTypes ==
    ASSUME Inv, WorkerPasses
    PROVE  OtherTypes'
<1>1. WorkerTypes'
  <2>1. mem.latest \in Revisions \cup {0}
    BY RecordFacts DEF Inv, Types, RecordTypes
  <2> QED BY <2>1 DEF WorkerPasses, StartWorker, Inv, Types, OtherTypes, WorkerTypes, OtherTypes, Ends
<1>2. WantTypes'
  BY DEF WorkerPasses, Still, StartWorker, Inv, Types, OtherTypes, WantTypes
<1>3. UNCHANGED <<files, boot, ui, desired, status, failures, waiting, tried>>
  BY DEF WorkerPasses, Still, durable, jobs, wants, StartWorker, InstallStep, Go
<1>4. FileTypes' /\ BootTypes' /\ UiTypes' /\ JobTypes' /\ TriedTypes'
  BY <1>3, TypesFrame DEF Inv, Types, OtherTypes
<1> QED BY <1>1, <1>2, <1>3, <1>4 DEF OtherTypes

LEMMA FetchPublisherTypes ==
    ASSUME Inv, FetchPublisher
    PROVE  OtherTypes'
<1>1. WorkerTypes'
  BY DEF FetchPublisher, Go, Still, Inv, Types, OtherTypes, WorkerTypes, Ends, Downloading,
    Slots, Known
<1>2. WantTypes'
  BY DEF FetchPublisher, Go, Still, Inv, Types, OtherTypes, WantTypes
<1>3. UNCHANGED <<files, boot, ui, desired, status, failures, waiting, tried>>
  BY DEF FetchPublisher, Still, durable, jobs, wants, InstallStep, Go
<1>4. FileTypes' /\ BootTypes' /\ UiTypes' /\ JobTypes' /\ TriedTypes'
  BY <1>3, TypesFrame DEF Inv, Types, OtherTypes
<1> QED BY <1>1, <1>2, <1>3, <1>4 DEF OtherTypes

LEMMA WorkerPicksTypes ==
    ASSUME Inv, WorkerPicks
    PROVE  OtherTypes'
<1>1. WorkerTypes'
  BY DEF WorkerPicks, Inv, Types, OtherTypes, WorkerTypes, OtherTypes, JobTypes, OtherTypes, Ends,
    Downloading
<1>2. UNCHANGED <<files, boot, ui, desired, status, failures, waiting, publisher, requested, tried>>
  BY DEF WorkerPicks, Still, durable, jobs, wants, InstallStep, Go
<1>3. FileTypes' /\ BootTypes' /\ UiTypes' /\ JobTypes' /\ WantTypes' /\ TriedTypes'
  BY <1>2, TypesFrame DEF Inv, Types, OtherTypes
<1> QED BY <1>1, <1>2, <1>3 DEF OtherTypes

LEMMA SupersedeTypes ==
    ASSUME Inv, Supersede
    PROVE  OtherTypes'
<1>1. WorkerTypes'
  BY DEF Supersede, Go, Still, Inv, Types, OtherTypes, WorkerTypes, Ends, Downloading, Slots,
    Known
<1>2. JobTypes'
  BY DEF Supersede, Go, Still, Inv, Types, OtherTypes, JobTypes, Known
<1>3. UNCHANGED <<files, boot, ui, publisher, requested, tried>>
  BY DEF Supersede, Still, durable, jobs, wants, InstallStep, Go
<1>4. FileTypes' /\ BootTypes' /\ UiTypes' /\ WantTypes' /\ TriedTypes'
  BY <1>3, TypesFrame DEF Inv, Types, OtherTypes
<1> QED BY <1>1, <1>2, <1>3, <1>4 DEF OtherTypes

LEMMA FailTypes ==
    ASSUME Inv, Fail
    PROVE  OtherTypes'
<1>1. WorkerTypes'
  BY DEF Fail, Go, Still, Inv, Types, OtherTypes, WorkerTypes, Ends, Downloading, Slots, Known
<1>2. JobTypes'
  BY DEF Fail, Go, Still, Inv, Types, OtherTypes, JobTypes, Known
<1>3. UNCHANGED <<files, boot, ui, publisher, requested, tried>>
  BY DEF Fail, Still, durable, jobs, wants, InstallStep, Go
<1>4. FileTypes' /\ BootTypes' /\ UiTypes' /\ WantTypes' /\ TriedTypes'
  BY <1>3, TypesFrame DEF Inv, Types, OtherTypes
<1> QED BY <1>1, <1>2, <1>3, <1>4 DEF OtherTypes

LEMMA DeferDownloadTypes ==
    ASSUME Inv, DeferDownload
    PROVE  OtherTypes'
<1>1. WorkerTypes'
  BY DEF DeferDownload, Go, Still, Inv, Types, OtherTypes, WorkerTypes, Ends, Downloading,
    Slots, Known
<1>2. JobTypes'
  <2>1. failures' \in 0 .. Delays + 1
    BY DelayFacts DEF DeferDownload, Inv, Types, OtherTypes, JobTypes
  <2>2. waiting' \in {waiting, TRUE} /\ status' \in {"other", "failed"} /\ desired' = desired
    BY DEF DeferDownload
  <2> QED BY <2>1, <2>2 DEF Inv, Types, OtherTypes, JobTypes
<1>3. UNCHANGED <<files, boot, ui, publisher, requested, tried>>
  BY DEF DeferDownload, Still, durable, jobs, wants, InstallStep, Go
<1>4. FileTypes' /\ BootTypes' /\ UiTypes' /\ WantTypes' /\ TriedTypes'
  BY <1>3, TypesFrame DEF Inv, Types, OtherTypes
<1> QED BY <1>1, <1>2, <1>3, <1>4 DEF OtherTypes

LEMMA RequestFailsTypes ==
    ASSUME Inv, RequestFails
    PROVE  OtherTypes'
<1>1. WorkerTypes'
  BY DEF RequestFails, Go, Still, Fault, CanContinue, Inv, Types, OtherTypes, WorkerTypes,
    Ends, Downloading, Slots, Known
<1>2. UNCHANGED <<files, boot, ui, desired, status, failures, waiting, publisher, requested, tried>>
  BY DEF RequestFails, Still, durable, jobs, wants, InstallStep, Go
<1>3. FileTypes' /\ BootTypes' /\ UiTypes' /\ JobTypes' /\ WantTypes' /\ TriedTypes'
  BY <1>2, TypesFrame DEF Inv, Types, OtherTypes
<1> QED BY <1>1, <1>2, <1>3 DEF OtherTypes

LEMMA ChooseSlotTypes ==
    ASSUME Inv, ChooseSlot
    PROVE  OtherTypes'
<1>1. WorkerTypes'
  BY DEF ChooseSlot, Go, Still, FreeSlot, Inv, Types, OtherTypes, WorkerTypes, Ends,
    Downloading, Slots, Known
<1>2. JobTypes'
  BY DEF ChooseSlot, Go, Still, FreeSlot, Inv, Types, OtherTypes, JobTypes, Known
<1>3. UNCHANGED <<files, boot, ui, publisher, requested, tried>>
  BY DEF ChooseSlot, Still, durable, jobs, wants, InstallStep, Go
<1>4. FileTypes' /\ BootTypes' /\ UiTypes' /\ WantTypes' /\ TriedTypes'
  BY <1>3, TypesFrame DEF Inv, Types, OtherTypes
<1> QED BY <1>1, <1>2, <1>3, <1>4 DEF OtherTypes

LEMMA ManifestVerifiedTypes ==
    ASSUME Inv, ManifestVerified
    PROVE  OtherTypes'
<1>1. WorkerTypes'
  BY DEF ManifestVerified, Go, Still, CanContinue, Inv, Types, OtherTypes, WorkerTypes, Ends,
    Downloading, Slots, Known
<1>2. UNCHANGED <<files, boot, ui, desired, status, failures, waiting, publisher, requested, tried>>
  BY DEF ManifestVerified, Still, durable, jobs, wants, InstallStep, Go
<1>3. FileTypes' /\ BootTypes' /\ UiTypes' /\ JobTypes' /\ WantTypes' /\ TriedTypes'
  BY <1>2, TypesFrame DEF Inv, Types, OtherTypes
<1> QED BY <1>1, <1>2, <1>3 DEF OtherTypes

LEMMA ManifestRefusedTypes ==
    ASSUME Inv, ManifestRefused
    PROVE  OtherTypes'
<1>1. WorkerTypes'
  BY DEF ManifestRefused, Go, Still, Discarded, CanContinue, Inv, Types, OtherTypes,
    WorkerTypes, Ends, Downloading, Slots, Known
<1>2. FileTypes'
  BY DEF ManifestRefused, Go, Still, Discarded, CanContinue, Inv, Types, OtherTypes,
    FileTypes, Slots, Content
<1>3. UNCHANGED <<boot, ui, desired, status, failures, waiting, publisher, requested, tried>>
  BY DEF ManifestRefused, Still, durable, jobs, wants, InstallStep, Go
<1>4. BootTypes' /\ UiTypes' /\ JobTypes' /\ WantTypes' /\ TriedTypes'
  BY <1>3, TypesFrame DEF Inv, Types, OtherTypes
<1> QED BY <1>1, <1>2, <1>3, <1>4 DEF OtherTypes

LEMMA OpenPartialTypes ==
    ASSUME Inv, OpenPartial
    PROVE  OtherTypes'
<1>1. WorkerTypes'
  BY DEF OpenPartial, Go, Still, Discarded, SamePartial, MetaReplaced, Fault, Inv, Types,
    OtherTypes, WorkerTypes, Ends, Downloading, Slots, Known
<1>2. FileTypes'
  BY DEF OpenPartial, Go, Still, Discarded, SamePartial, MetaReplaced, Fault, Inv, Types,
    OtherTypes, FileTypes, Slots, Content
<1>3. UNCHANGED <<boot, ui, desired, status, failures, waiting, publisher, requested, tried>>
  BY DEF OpenPartial, Still, durable, jobs, wants, InstallStep, Go
<1>4. BootTypes' /\ UiTypes' /\ JobTypes' /\ WantTypes' /\ TriedTypes'
  BY <1>3, TypesFrame DEF Inv, Types, OtherTypes
<1> QED BY <1>1, <1>2, <1>3, <1>4 DEF OtherTypes

LEMMA ReceiveArtifactTypes ==
    ASSUME Inv, ReceiveArtifact
    PROVE  OtherTypes'
<1>1. WorkerTypes'
  BY DEF ReceiveArtifact, Go, Still, Discarded, Received, Interrupted, Dropped, Fault,
    StillTrusted, Inv, Types, OtherTypes, WorkerTypes, Ends, Downloading, Slots, Known
<1>2. FileTypes'
  <2>1. worker.job \in Content
    BY InstalledFacts DEF ReceiveArtifact, Writing, Downloading
  <2>2. NoDeployment \in Content
    BY DEF Content
  <2>3. \E d \in Content :
           files' = files \/ files' = [files EXCEPT ![worker.slot].partial = d]
    BY <2>1, <2>2 DEF ReceiveArtifact, Received, Interrupted, Dropped, Discarded
  <2> QED BY <2>3 DEF Inv, Types, OtherTypes, FileTypes
<1>3. UNCHANGED <<boot, ui, desired, status, failures, waiting, publisher, requested, tried>>
  BY DEF ReceiveArtifact, Still, durable, jobs, wants, InstallStep, Go
<1>4. BootTypes' /\ UiTypes' /\ JobTypes' /\ WantTypes' /\ TriedTypes'
  BY <1>3, TypesFrame DEF Inv, Types, OtherTypes
<1> QED BY <1>1, <1>2, <1>3, <1>4 DEF OtherTypes

LEMMA UnlinkRapTypes ==
    ASSUME Inv, UnlinkRap
    PROVE  OtherTypes'
<1>1. WorkerTypes'
  BY DEF UnlinkRap, Go, Still, Slot, SlotBecomes, InstallStep, Inv, Types, OtherTypes,
    WorkerTypes, Ends, Downloading, Slots, Known
<1>2. FileTypes'
  BY DEF UnlinkRap, Go, Still, Slot, SlotBecomes, InstallStep, Inv, Types, OtherTypes,
    FileTypes, Slots, Content
<1>3. UNCHANGED <<boot, ui, desired, status, failures, waiting, publisher, requested, tried>>
  BY DEF UnlinkRap, durable, jobs, wants, InstallStep, Go, Still, SlotBecomes
<1>4. BootTypes' /\ UiTypes' /\ JobTypes' /\ WantTypes' /\ TriedTypes'
  BY <1>3, TypesFrame DEF Inv, Types, OtherTypes
<1> QED BY <1>1, <1>2, <1>3, <1>4 DEF OtherTypes

LEMMA UnlinkManifestTypes ==
    ASSUME Inv, UnlinkManifest
    PROVE  OtherTypes'
<1>1. WorkerTypes'
  BY DEF UnlinkManifest, Go, Still, Slot, SlotBecomes, InstallStep, Inv, Types, OtherTypes,
    WorkerTypes, Ends, Downloading, Slots, Known
<1>2. FileTypes'
  BY DEF UnlinkManifest, Go, Still, Slot, SlotBecomes, InstallStep, Inv, Types, OtherTypes,
    FileTypes, Slots, Content
<1>3. UNCHANGED <<boot, ui, desired, status, failures, waiting, publisher, requested, tried>>
  BY DEF UnlinkManifest, durable, jobs, wants, InstallStep, Go, Still, SlotBecomes
<1>4. BootTypes' /\ UiTypes' /\ JobTypes' /\ WantTypes' /\ TriedTypes'
  BY <1>3, TypesFrame DEF Inv, Types, OtherTypes
<1> QED BY <1>1, <1>2, <1>3, <1>4 DEF OtherTypes

LEMMA RenameRapTypes ==
    ASSUME Inv, RenameRap
    PROVE  OtherTypes'
<1>1. WorkerTypes'
  BY DEF RenameRap, Go, Still, Slot, SlotBecomes, InstallStep, Inv, Types, OtherTypes,
    WorkerTypes, Ends, Downloading, Slots, Known
<1>2. FileTypes'
  BY DEF RenameRap, Go, Still, Slot, SlotBecomes, InstallStep, Inv, Types, OtherTypes,
    FileTypes, Slots, Content
<1>3. UNCHANGED <<boot, ui, desired, status, failures, waiting, publisher, requested, tried>>
  BY DEF RenameRap, durable, jobs, wants, InstallStep, Go, Still, SlotBecomes
<1>4. BootTypes' /\ UiTypes' /\ JobTypes' /\ WantTypes' /\ TriedTypes'
  BY <1>3, TypesFrame DEF Inv, Types, OtherTypes
<1> QED BY <1>1, <1>2, <1>3, <1>4 DEF OtherTypes

LEMMA RenameManifestTypes ==
    ASSUME Inv, RenameManifest
    PROVE  OtherTypes'
<1>1. WorkerTypes'
  BY DEF RenameManifest, Go, Still, Slot, SlotBecomes, InstallStep, Inv, Types, OtherTypes,
    WorkerTypes, Ends, Downloading, Slots, Known
<1>2. FileTypes'
  <2>1. worker.job \in Content
    BY InstalledFacts DEF RenameManifest, InstallStep, Writing, Downloading
  <2>2. worker.slot \in Slots
    BY DEF RenameManifest, InstallStep, Inv, SlotOK, Writing, Downloading
  <2> QED BY <2>1, <2>2 DEF RenameManifest, InstallStep, SlotBecomes, Slot, Inv, Types,
    OtherTypes, FileTypes
<1>3. UNCHANGED <<boot, ui, desired, status, failures, waiting, publisher, requested, tried>>
  BY DEF RenameManifest, durable, jobs, wants, InstallStep, Go, Still, SlotBecomes
<1>4. BootTypes' /\ UiTypes' /\ JobTypes' /\ WantTypes' /\ TriedTypes'
  BY <1>3, TypesFrame DEF Inv, Types, OtherTypes
<1> QED BY <1>1, <1>2, <1>3, <1>4 DEF OtherTypes

LEMMA RenameFailsTypes ==
    ASSUME Inv, RenameFails
    PROVE  OtherTypes'
<1>1. WorkerTypes'
  BY DEF RenameFails, Go, Still, Slot, SlotBecomes, Fault, Inv, Types, OtherTypes,
    WorkerTypes, Ends, Downloading, Slots, Known
<1>2. FileTypes'
  BY DEF RenameFails, Go, Still, Slot, SlotBecomes, Fault, Inv, Types, OtherTypes, FileTypes,
    Slots, Content
<1>3. UNCHANGED <<boot, ui, desired, status, failures, waiting, publisher, requested, tried>>
  BY DEF RenameFails, Still, durable, jobs, wants, InstallStep, SlotBecomes, Go
<1>4. BootTypes' /\ UiTypes' /\ JobTypes' /\ WantTypes' /\ TriedTypes'
  BY <1>3, TypesFrame DEF Inv, Types, OtherTypes
<1> QED BY <1>1, <1>2, <1>3, <1>4 DEF OtherTypes

LEMMA CommitPendingTypes ==
    ASSUME Inv, CommitPending
    PROVE  OtherTypes'
<1>1. JobTypes'
  BY DEF CommitPending, Go, StillTrusted, Inv, Types, OtherTypes, JobTypes, Known
<1>2. WorkerTypes'
  BY DEF CommitPending, Go, StillTrusted, Inv, Types, OtherTypes, WorkerTypes, Ends,
    Downloading, Slots, Known
<1>3. UNCHANGED <<files, boot, ui, publisher, requested, tried>>
  BY DEF CommitPending, wants, Go
<1>4. FileTypes' /\ BootTypes' /\ UiTypes' /\ WantTypes' /\ TriedTypes'
  BY <1>3, TypesFrame DEF Inv, Types, OtherTypes
<1> QED BY <1>1, <1>2, <1>3, <1>4 DEF OtherTypes

LEMMA WorkerClearsTypes ==
    ASSUME Inv, WorkerClears
    PROVE  OtherTypes'
<1>1. WorkerTypes'
  BY DEF WorkerClears, Go, Still, Finished, Inv, Types, OtherTypes, WorkerTypes, Ends,
    Downloading, Slots, Known
<1>2. JobTypes'
  BY DEF WorkerClears, Go, Still, Finished, Inv, Types, OtherTypes, JobTypes, Known
<1>3. UNCHANGED <<files, boot, ui, publisher, requested, tried>>
  BY DEF WorkerClears, Still, durable, jobs, wants, InstallStep, Go
<1>4. FileTypes' /\ BootTypes' /\ UiTypes' /\ WantTypes' /\ TriedTypes'
  BY <1>3, TypesFrame DEF Inv, Types, OtherTypes
<1> QED BY <1>1, <1>2, <1>3, <1>4 DEF OtherTypes

LEMMA WorkerStopsTypes ==
    ASSUME Inv, WorkerStops
    PROVE  OtherTypes'
<1>1. WorkerTypes' /\ status' \in {status, "other"}
  <2>1. CASE CreateWorker(status)
    BY <2>1, CreateTypes
  <2>2. CASE worker' = NoWorker /\ status' = status
    BY <2>2 DEF NoWorker, WorkerTypes, Ends, Known
  <2> QED BY <2>1, <2>2 DEF WorkerStops
<1>2. JobTypes'
  BY <1>1 DEF WorkerStops, Inv, Types, OtherTypes, JobTypes
<1>3. UNCHANGED <<files, boot, ui, publisher, requested, tried>>
  BY DEF WorkerStops, Still, durable, wants
<1>4. FileTypes' /\ BootTypes' /\ UiTypes' /\ WantTypes' /\ TriedTypes'
  BY <1>3, TypesFrame DEF Inv, Types, OtherTypes
<1> QED BY <1>1, <1>2, <1>4 DEF OtherTypes

LEMMA DelayElapsesTypes ==
    ASSUME Inv, DelayElapses
    PROVE  OtherTypes'
<1>1. JobTypes'
  BY DEF DelayElapses, Still, Inv, Types, OtherTypes, JobTypes, Known
<1>2. UNCHANGED <<files, boot, ui, publisher, requested, worker, tried>>
  BY DEF DelayElapses, Still, durable, jobs, wants, InstallStep, Go
<1>3. FileTypes' /\ BootTypes' /\ UiTypes' /\ WantTypes' /\ WorkerTypes' /\ TriedTypes'
  BY <1>2, TypesFrame DEF Inv, Types, OtherTypes
<1> QED BY <1>1, <1>2, <1>3 DEF OtherTypes

LEMMA RestartTypes ==
    ASSUME Inv, Restart
    PROVE  OtherTypes'
<1>1. FileTypes'
  <2>1. files' # files => worker.job \in Content
    BY InstalledFacts DEF Restart, Writing, Downloading
  <2>2. files' = files \/ files' = [files EXCEPT ![worker.slot].partial = worker.job]
    BY DEF Restart
  <2> QED BY <2>1, <2>2 DEF Inv, Types, OtherTypes, FileTypes
<1>2. BootTypes'
  BY DEF Restart, ColdBoot, ColdUi, NoWorker, Inv, Types, OtherTypes, BootTypes, Known, Kept
<1>3. UiTypes'
  BY DEF Restart, ColdBoot, ColdUi, NoWorker, Inv, Types, OtherTypes, UiTypes, Known
<1>4. JobTypes'
  BY DelayFacts DEF Restart, JobTypes, OtherTypes, Known
<1>5. WantTypes'
  BY DEF Restart, ColdBoot, ColdUi, NoWorker, Inv, Types, OtherTypes, WantTypes
<1>6. WorkerTypes'
  BY DEF Restart, ColdBoot, ColdUi, NoWorker, Inv, Types, OtherTypes, WorkerTypes, Ends,
    Downloading, Slots, Known
<1>7. TriedTypes'
  <2>1. mem \in Records /\ (mem.trial # 0 => mem.pending.of \in Deployments)
    BY RecordFacts, KeptFacts, KnownFacts DEF Inv, Types, RecordTypes, OtherTypes, RecordsOK, RecordOK
  <2> QED BY <2>1 DEF Restart, Inv, Types, OtherTypes, TriedTypes
<1> QED BY <1>1, <1>2, <1>3, <1>4, <1>5, <1>6, <1>7 DEF OtherTypes

(***************************************************************************)
(* Steps of the worker.                                                    *)
(***************************************************************************)
\* Only the download prefixes change.
PrefixOnly ==
    \A s \in Slots : files'[s].rap = files[s].rap /\ files'[s].manifest = files[s].manifest

LEMMA PrefixFacts ==
    ASSUME FileTypes, files' = files \/ \E slot, d : files' = [files EXCEPT ![slot].partial = d]
    PROVE  PrefixOnly
  BY DEF FileTypes, PrefixOnly

LEMMA PrefixKeeps ==
    ASSUME Inv, UNCHANGED <<mem, nvs>>, PrefixOnly
    PROVE  IntactOK'
<1>1. mem \in Records /\ nvs \in Records
  BY DEF Inv, Types, RecordTypes
<1>2. ASSUME NEW r \in Kept, Intact(r)
      PROVE  Intact(r)'
  BY <1>2, SlotFacts DEF Intact, PrefixOnly
<1>3. Intact(mem.active)' /\ Intact(nvs.active)'
  BY <1>1, <1>2, RecordFacts DEF Inv, IntactOK
<1>4. mem.trial # 0 => Intact(mem.pending)'
  BY <1>1, <1>2, RecordFacts DEF Inv, IntactOK
<1> QED BY <1>3, <1>4 DEF IntactOK

\* What a step that leaves the record and the screen alone has to keep.
LEMMA WorkerStepKeeps ==
    ASSUME Inv, OtherTypes', UNCHANGED <<mem, nvs, boot, ui>>, ui.pc = "loop",
           desired' \in {desired, NoDeployment},
           publisher' = publisher \/ mem.trial = 0,
           worker'.pc \in {"fetch", "pick"} \cup Downloading => MayDownload,
           worker'.pc \in Downloading => worker'.job # NoDeployment /\ Newer(worker'.job),
           IntactOK', SlotOK'
    PROVE  Inv'
<1>1. Types'
  BY DEF Inv, Types, RecordTypes
<1>2. RecordsOK'
  BY DEF Inv, RecordsOK
<1>3. PhasesOK'
  BY DEF Inv, PhasesOK, MayDownload
<1>4. DownloadOK'
  BY DEF Inv, DownloadOK, Newer
<1>5. BootOK'
  BY DEF Inv, BootOK
<1>6. NvsKnown' /\ NvsBooted'
  BY DEF Inv, NvsKnown, NvsBooted
<1> QED BY <1>1, <1>2, <1>3, <1>4, <1>5, <1>6 DEF Inv

\* The worker goes on with the same job, or ends it.
LEMMA WorkerGoes ==
    ASSUME Inv, OtherTypes', UNCHANGED <<mem, nvs, boot, ui>>, worker.pc # "none",
           desired' \in {desired, NoDeployment}, publisher' = publisher,
           PrefixOnly,
           worker'.job = worker.job, worker'.slot = worker.slot,
           \/ worker'.pc \in Ends \ {"fetch", "pick"}
           \/ /\ worker.pc \in Writing /\ worker'.pc \in Writing
              /\ worker'.pc \in {"request", "commit"} \/ worker.job.mode = Custom
    PROVE  Inv'
<1>1. ui.pc = "loop"
  BY DEF Inv, PhasesOK
<1>2. IntactOK'
  BY PrefixKeeps
<1>3. CASE worker'.pc \in Ends \ {"fetch", "pick"}
  <2>1. worker'.pc \notin {"fetch", "pick"} \cup Downloading
    BY <1>3 DEF Ends, Downloading
  <2>2. SlotOK'
    BY <2>1 DEF SlotOK, Writing
  <2> QED BY <1>1, <1>2, <2>1, <2>2, WorkerStepKeeps
<1>4. CASE /\ worker.pc \in Writing /\ worker'.pc \in Writing
           /\ worker'.pc \in {"request", "commit"} \/ worker.job.mode = Custom
  <2>1. worker.pc \in Downloading /\ worker'.pc \in Downloading
    BY <1>4 DEF Writing
  <2>2. MayDownload /\ worker'.job # NoDeployment /\ Newer(worker'.job)
    BY <2>1 DEF Inv, PhasesOK, DownloadOK
  <2>3. SlotOK'
    BY <1>4 DEF Inv, SlotOK
  <2> QED BY <1>1, <1>2, <2>1, <2>2, <2>3, WorkerStepKeeps
<1> QED BY <1>3, <1>4

LEMMA SupersedeKeeps ==
    ASSUME Inv, Supersede
    PROVE  Inv'
<1>1. UNCHANGED <<mem, nvs, boot, ui, publisher, desired>>
  BY DEF Supersede, Go, Still, durable, wants
<1>2. /\ worker.pc = "supersede"
      /\ \E to : worker' = [worker EXCEPT !.pc = to]
  BY DEF Supersede, Go, Still, durable, wants
<1>3. worker'.pc = "clear"
  BY DEF Supersede, Go, Still, durable, wants, Inv, Types, OtherTypes, WorkerTypes
<1>4. worker'.job = worker.job /\ worker'.slot = worker.slot
  BY <1>2 DEF Inv, Types, OtherTypes, WorkerTypes
<1>5. PrefixOnly
  <2>1. files' = files
    BY DEF Supersede, Go, Still, durable, wants
  <2> QED BY <2>1, PrefixFacts DEF Inv, Types, OtherTypes
<1> QED BY <1>1, <1>2, <1>3, <1>4, <1>5, SupersedeTypes, WorkerGoes DEF Ends

LEMMA FailKeeps ==
    ASSUME Inv, Fail
    PROVE  Inv'
<1>1. UNCHANGED <<mem, nvs, boot, ui, publisher, desired>>
  BY DEF Fail, Go, Still, durable, wants
<1>2. /\ worker.pc = "fail"
      /\ \E to : worker' = [worker EXCEPT !.pc = to]
  BY DEF Fail, Go, Still, durable, wants
<1>3. worker'.pc = "clear"
  BY DEF Fail, Go, Still, durable, wants, Inv, Types, OtherTypes, WorkerTypes
<1>4. worker'.job = worker.job /\ worker'.slot = worker.slot
  BY <1>2 DEF Inv, Types, OtherTypes, WorkerTypes
<1>5. PrefixOnly
  <2>1. files' = files
    BY DEF Fail, Go, Still, durable, wants
  <2> QED BY <2>1, PrefixFacts DEF Inv, Types, OtherTypes
<1> QED BY <1>1, <1>2, <1>3, <1>4, <1>5, FailTypes, WorkerGoes DEF Ends

LEMMA DeferDownloadKeeps ==
    ASSUME Inv, DeferDownload
    PROVE  Inv'
<1>1. UNCHANGED <<mem, nvs, boot, ui, publisher, desired>>
  BY DEF DeferDownload, Go, Still, durable, wants
<1>2. /\ worker.pc = "defer"
      /\ \E to : worker' = [worker EXCEPT !.pc = to]
  BY DEF DeferDownload, Go, Still, durable, wants
<1>3. worker'.pc = "clear"
  BY DEF DeferDownload, Go, Still, durable, wants, Inv, Types, OtherTypes, WorkerTypes
<1>4. worker'.job = worker.job /\ worker'.slot = worker.slot
  BY <1>2 DEF Inv, Types, OtherTypes, WorkerTypes
<1>5. PrefixOnly
  <2>1. files' = files
    BY DEF DeferDownload, Go, Still, durable, wants
  <2> QED BY <2>1, PrefixFacts DEF Inv, Types, OtherTypes
<1> QED BY <1>1, <1>2, <1>3, <1>4, <1>5, DeferDownloadTypes, WorkerGoes DEF Ends

LEMMA RequestFailsKeeps ==
    ASSUME Inv, RequestFails
    PROVE  Inv'
<1>1. UNCHANGED <<mem, nvs, boot, ui, publisher, desired>>
  BY DEF RequestFails, Go, Still, durable, jobs, wants
<1>2. /\ worker.pc \in {"prepare", "request"}
      /\ \E to : worker' = [worker EXCEPT !.pc = to]
  BY DEF RequestFails, Go, Still, durable, jobs, wants
<1>3. worker'.pc \in {"defer", "fail", "supersede"}
  BY DEF RequestFails, Go, Still, durable, jobs, wants, Inv, Types, OtherTypes, WorkerTypes
<1>4. worker'.job = worker.job /\ worker'.slot = worker.slot
  BY <1>2 DEF Inv, Types, OtherTypes, WorkerTypes
<1>5. PrefixOnly
  <2>1. files' = files
    BY DEF RequestFails, Go, Still, durable, jobs, wants
  <2> QED BY <2>1, PrefixFacts DEF Inv, Types, OtherTypes
<1> QED BY <1>1, <1>2, <1>3, <1>4, <1>5, RequestFailsTypes, WorkerGoes DEF Ends

LEMMA ManifestVerifiedKeeps ==
    ASSUME Inv, ManifestVerified
    PROVE  Inv'
<1>1. UNCHANGED <<mem, nvs, boot, ui, publisher, desired>>
  BY DEF ManifestVerified, Go, Still, durable, jobs, wants
<1>2. /\ worker.pc = "request"
      /\ \E to : worker' = [worker EXCEPT !.pc = to]
  BY DEF ManifestVerified, Go, Still, durable, jobs, wants
<1>3. worker'.pc \in {"store", "commit"} /\ (worker'.pc = "store" => worker.job.mode = Custom)
  BY DEF ManifestVerified, Go, Still, durable, jobs, wants, Inv, Types, OtherTypes, WorkerTypes
<1>4. worker'.job = worker.job /\ worker'.slot = worker.slot
  BY <1>2 DEF Inv, Types, OtherTypes, WorkerTypes
<1>5. PrefixOnly
  <2>1. files' = files
    BY DEF ManifestVerified, Go, Still, durable, jobs, wants
  <2> QED BY <2>1, PrefixFacts DEF Inv, Types, OtherTypes
<1>6. worker.pc \in Writing /\ worker'.pc \in Writing
  BY <1>2, <1>3 DEF Writing, Downloading
<1>7. worker'.pc \in {"request", "commit"} \/ worker.job.mode = Custom
  BY <1>3
<1> QED BY <1>1, <1>2, <1>3, <1>4, <1>5, <1>6, <1>7, ManifestVerifiedTypes, WorkerGoes DEF Ends

LEMMA ManifestRefusedKeeps ==
    ASSUME Inv, ManifestRefused
    PROVE  Inv'
<1>1. UNCHANGED <<mem, nvs, boot, ui, publisher, desired>>
  BY DEF ManifestRefused, Go, Still, jobs, wants, Discarded
<1>2. /\ worker.pc = "request"
      /\ \E to : worker' = [worker EXCEPT !.pc = to]
  BY DEF ManifestRefused, Go, Still, jobs, wants, Discarded
<1>3. worker'.pc = "fail"
  BY DEF ManifestRefused, Go, Still, jobs, wants, Discarded, Inv, Types, OtherTypes, WorkerTypes
<1>4. worker'.job = worker.job /\ worker'.slot = worker.slot
  BY <1>2 DEF Inv, Types, OtherTypes, WorkerTypes
<1>5. PrefixOnly
  <2>1. files' = files \/ \E slot, d : files' = [files EXCEPT ![slot].partial = d]
    BY DEF ManifestRefused, Go, Still, jobs, wants, Discarded
  <2> QED BY <2>1, PrefixFacts DEF Inv, Types, OtherTypes
<1> QED BY <1>1, <1>2, <1>3, <1>4, <1>5, ManifestRefusedTypes, WorkerGoes DEF Ends

LEMMA OpenPartialKeeps ==
    ASSUME Inv, OpenPartial
    PROVE  Inv'
<1>1. UNCHANGED <<mem, nvs, boot, ui, publisher, desired>>
  BY DEF OpenPartial, Go, Still, jobs, wants, Discarded
<1>2. /\ worker.pc = "store"
      /\ \E to : worker' = [worker EXCEPT !.pc = to]
  BY DEF OpenPartial, Go, Still, jobs, wants, Discarded
<1>3. worker'.pc \in {"receive", "fail"}
  BY DEF OpenPartial, Go, Still, jobs, wants, Discarded, Inv, Types, OtherTypes, WorkerTypes
<1>4. worker'.job = worker.job /\ worker'.slot = worker.slot
  BY <1>2 DEF Inv, Types, OtherTypes, WorkerTypes
<1>5. PrefixOnly
  <2>1. files' = files \/ \E slot, d : files' = [files EXCEPT ![slot].partial = d]
    BY DEF OpenPartial, Go, Still, jobs, wants, Discarded
  <2> QED BY <2>1, PrefixFacts DEF Inv, Types, OtherTypes
<1>6. worker.pc \in Writing /\ worker.job.mode = Custom
  BY <1>2 DEF Inv, SlotOK, Writing, Downloading
<1>7. worker'.pc = "receive" => worker'.pc \in Writing
  BY DEF Writing, Downloading
<1> QED BY <1>1, <1>2, <1>3, <1>4, <1>5, <1>6, <1>7, OpenPartialTypes, WorkerGoes DEF Ends

LEMMA ReceiveArtifactKeeps ==
    ASSUME Inv, ReceiveArtifact
    PROVE  Inv'
<1>1. UNCHANGED <<mem, nvs, boot, ui, publisher, desired>>
  BY DEF ReceiveArtifact, Go, Still, jobs, wants, Received, Interrupted, Dropped, Discarded
<1>2. /\ worker.pc = "receive"
      /\ \E to : worker' = [worker EXCEPT !.pc = to]
  BY DEF ReceiveArtifact, Go, Still, jobs, wants, Received, Interrupted, Dropped, Discarded
<1>3. worker'.pc \in {"unlinkRap", "defer", "fail", "supersede"}
  BY DEF ReceiveArtifact, Go, Still, jobs, wants, Received, Interrupted, Dropped, Discarded, Inv,
    Types, OtherTypes, WorkerTypes
<1>4. worker'.job = worker.job /\ worker'.slot = worker.slot
  BY <1>2 DEF Inv, Types, OtherTypes, WorkerTypes
<1>5. PrefixOnly
  <2>1. files' = files \/ \E slot, d : files' = [files EXCEPT ![slot].partial = d]
    BY DEF ReceiveArtifact, Go, Still, jobs, wants, Received, Interrupted, Dropped, Discarded
  <2> QED BY <2>1, PrefixFacts DEF Inv, Types, OtherTypes
<1>6. worker.pc \in Writing /\ worker.job.mode = Custom
  BY <1>2 DEF Inv, SlotOK, Writing, Downloading
<1>7. worker'.pc = "unlinkRap" => worker'.pc \in Writing
  BY DEF Writing, Downloading
<1> QED BY <1>1, <1>2, <1>3, <1>4, <1>5, <1>6, <1>7, ReceiveArtifactTypes, WorkerGoes DEF Ends

LEMMA WorkerClearsKeeps ==
    ASSUME Inv, WorkerClears
    PROVE  Inv'
<1>1. UNCHANGED <<mem, nvs, boot, ui, publisher>>
  BY DEF WorkerClears, Go, Still, durable, wants
<1>2. /\ worker.pc = "clear"
      /\ \E to : worker' = [worker EXCEPT !.pc = to]
  BY DEF WorkerClears, Go, Still, durable, wants
<1>3. worker'.pc = "stop"
  BY DEF WorkerClears, Go, Still, durable, wants, Inv, Types, OtherTypes, WorkerTypes
<1>4. worker'.job = worker.job /\ worker'.slot = worker.slot
  BY <1>2 DEF Inv, Types, OtherTypes, WorkerTypes
<1>5. PrefixOnly
  <2>1. files' = files
    BY DEF WorkerClears, Go, Still, durable, wants
  <2> QED BY <2>1, PrefixFacts DEF Inv, Types, OtherTypes
<1>6. desired' \in {desired, NoDeployment}
  BY DEF WorkerClears
<1> QED BY <1>1, <1>2, <1>3, <1>4, <1>5, <1>6, WorkerClearsTypes, WorkerGoes DEF Ends

LEMMA RenameFailsKeeps ==
    ASSUME Inv, RenameFails
    PROVE  Inv'
<1>1. UNCHANGED <<mem, nvs, boot, ui, publisher, desired>>
  BY DEF RenameFails, Go, Still, jobs, wants
<1>2. worker.pc # "none" /\ worker' = [worker EXCEPT !.pc = "fail"]
  BY DEF RenameFails, Go
<1>3. worker'.pc = "fail" /\ worker'.job = worker.job /\ worker'.slot = worker.slot
  BY <1>2 DEF Inv, Types, OtherTypes, WorkerTypes
<1>4. PrefixOnly
  BY DEF RenameFails, SlotBecomes, Slot, PrefixOnly, Inv, Types, OtherTypes, FileTypes
<1> QED BY <1>1, <1>2, <1>3, <1>4, RenameFailsTypes, WorkerGoes DEF Ends

LEMMA NewWorkerFacts == [NoWorker EXCEPT !.pc = "start"].pc = "start" /\ NoWorker.pc = "none"
  BY DEF NoWorker

\* The files, the record and what is wanted stay: only the worker moves.
LEMMA WorkerMoves ==
    ASSUME Inv, OtherTypes', UNCHANGED <<mem, nvs, files, boot, ui, desired>>, ui.pc = "loop",
           publisher' = publisher \/ mem.trial = 0,
           worker'.pc \notin Downloading,
           worker'.pc \in {"fetch", "pick"} => MayDownload
    PROVE  Inv'
<1>1. IntactOK'
  BY DEF Inv, IntactOK, Intact
<1>2. SlotOK'
  BY DEF SlotOK, Writing
<1> QED BY <1>1, <1>2, WorkerStepKeeps

LEMMA WorkerDefersKeeps ==
    ASSUME Inv, WorkerDefers
    PROVE  Inv'
<1>1. UNCHANGED <<mem, nvs, files, boot, ui, desired, publisher>>
  BY DEF WorkerDefers, Still, durable, wants
<1>2. worker.pc = "start" /\ worker' = [worker EXCEPT !.pc = "stop", !.handled = mem.latest]
  BY DEF WorkerDefers, StartWorker
<1>3. worker'.pc = "stop"
  BY <1>2 DEF Inv, Types, OtherTypes, WorkerTypes
<1>4. ui.pc = "loop"
  BY <1>2 DEF Inv, PhasesOK
<1> QED BY <1>1, <1>3, <1>4, WorkerDefersTypes, WorkerMoves DEF Downloading

LEMMA WorkerPassesKeeps ==
    ASSUME Inv, WorkerPasses
    PROVE  Inv'
<1>1. UNCHANGED <<mem, nvs, files, boot, ui, desired, publisher>>
  BY DEF WorkerPasses, Still, durable, jobs
<1>2. /\ worker.pc = "start" /\ MayDownload
      /\ worker' = [worker EXCEPT !.pc = IF requested THEN "fetch" ELSE "pick",
                                  !.handled = mem.latest]
  BY DEF WorkerPasses, StartWorker
<1>3. worker'.pc \in {"fetch", "pick"}
  BY <1>2 DEF Inv, Types, OtherTypes, WorkerTypes
<1>4. ui.pc = "loop"
  BY <1>2 DEF Inv, PhasesOK
<1> QED BY <1>1, <1>2, <1>3, <1>4, WorkerPassesTypes, WorkerMoves DEF Downloading

LEMMA FetchPublisherKeeps ==
    ASSUME Inv, FetchPublisher
    PROVE  Inv'
<1>1. UNCHANGED <<mem, nvs, files, boot, ui, desired>>
  BY DEF FetchPublisher, Still, durable, jobs
<1>2. worker.pc = "fetch" /\ worker' = [worker EXCEPT !.pc = "pick"]
  BY DEF FetchPublisher, Go
<1>3. worker'.pc = "pick"
  BY <1>2 DEF Inv, Types, OtherTypes, WorkerTypes
<1>4. ui.pc = "loop" /\ MayDownload
  BY <1>2 DEF Inv, PhasesOK
<1>5. mem.trial = 0
  BY <1>4 DEF MayDownload
<1> QED BY <1>1, <1>3, <1>4, <1>5, FetchPublisherTypes, WorkerMoves DEF Downloading

LEMMA WorkerStopsKeeps ==
    ASSUME Inv, WorkerStops
    PROVE  Inv'
<1>1. UNCHANGED <<mem, nvs, files, boot, ui, desired, publisher>>
  BY DEF WorkerStops, Still, durable, wants
<1>2. worker.pc = "stop" /\ worker' \in {[NoWorker EXCEPT !.pc = "start"], NoWorker}
  BY DEF WorkerStops, CreateWorker
<1>3. worker'.pc \in {"start", "none"}
  BY <1>2, NewWorkerFacts
<1>4. ui.pc = "loop"
  BY <1>2 DEF Inv, PhasesOK
<1> QED BY <1>1, <1>3, <1>4, WorkerStopsTypes, WorkerMoves DEF Downloading

\* ScheduleWorker leaves the worker that runs as it is.
LEMMA ScheduleFacts ==
    ASSUME NEW state, ScheduleWorker(state)
    PROVE  worker' = worker \/ (worker.pc = "none" /\ worker'.pc \in {"none", "start"})
<1>1. CASE worker.pc = "none" /\ CreateWorker(state)
  <2>1. worker' \in {NoWorker, [NoWorker EXCEPT !.pc = "start"]}
    BY <1>1 DEF CreateWorker
  <2> QED BY <1>1, <2>1, NewWorkerFacts
<1> QED BY <1>1 DEF ScheduleWorker

LEMMA ScheduleKeeps ==
    ASSUME Inv, OtherTypes', UNCHANGED <<mem, nvs, files, boot, ui, desired>>,
           NEW state, ScheduleWorker(state), publisher' = publisher, ui.pc = "loop"
    PROVE  Inv'
<1>1. CASE worker' = worker
  <2>1. IntactOK' /\ SlotOK'
    BY <1>1 DEF Inv, IntactOK, Intact, SlotOK
  <2>2. /\ worker'.pc \in {"fetch", "pick"} \cup Downloading => MayDownload
        /\ worker'.pc \in Downloading => worker'.job # NoDeployment /\ Newer(worker'.job)
    BY <1>1 DEF Inv, PhasesOK, DownloadOK
  <2> QED BY <2>1, <2>2, WorkerStepKeeps
<1>2. CASE worker'.pc \in {"none", "start"}
  BY <1>2, WorkerMoves DEF Downloading
<1> QED BY <1>1, <1>2, ScheduleFacts

LEMMA OnNetworkReadyKeeps ==
    ASSUME Inv, OnNetworkReady
    PROVE  Inv'
<1>1. /\ UNCHANGED <<mem, nvs, files, boot, ui, desired, publisher>>
      /\ ScheduleWorker(status) /\ ui.pc = "loop"
  BY DEF OnNetworkReady, Settled, durable
<1> QED BY <1>1, OnNetworkReadyTypes, ScheduleKeeps

LEMMA RequestPublisherKeeps ==
    ASSUME Inv, RequestPublisher
    PROVE  Inv'
<1>1. /\ UNCHANGED <<mem, nvs, files, boot, ui, desired, publisher>>
      /\ ScheduleWorker(status) /\ ui.pc = "loop"
  BY DEF RequestPublisher, Settled, durable
<1> QED BY <1>1, RequestPublisherTypes, ScheduleKeeps

LEMMA DelayElapsesKeeps ==
    ASSUME Inv, DelayElapses
    PROVE  Inv'
<1>1. UNCHANGED <<mem, nvs, files, boot, ui, desired, publisher, worker>>
  BY DEF DelayElapses, Still, durable, wants
<1>2. Types'
  BY <1>1, DelayElapsesTypes DEF Inv, Types, RecordTypes
<1>3. RecordsOK' /\ PhasesOK' /\ DownloadOK' /\ NvsKnown' /\ NvsBooted'
  BY <1>1 DEF Inv, RecordsOK, PhasesOK, MayDownload, DownloadOK, Newer, NvsKnown, NvsBooted
<1>4. BootOK' /\ IntactOK' /\ SlotOK'
  BY <1>1 DEF Inv, BootOK, Found, Intact, IntactOK, SlotOK
<1> QED BY <1>2, <1>3, <1>4 DEF Inv

LEMMA WorkerPicksKeeps ==
    ASSUME Inv, WorkerPicks
    PROVE  Inv'
<1>1. UNCHANGED <<mem, nvs, files, boot, ui, desired, publisher>>
  BY DEF WorkerPicks, Still, durable, jobs, wants
<1>2. /\ worker.pc = "pick"
      /\ worker' = [worker EXCEPT !.job = desired,
                                  !.pc = IF desired = NoDeployment THEN "stop" ELSE "prepare"]
  BY DEF WorkerPicks
<1>3. /\ worker'.job = desired
      /\ worker'.pc = IF desired = NoDeployment THEN "stop" ELSE "prepare"
  BY <1>2 DEF Inv, Types, OtherTypes, WorkerTypes
<1>4. ui.pc = "loop" /\ MayDownload
  BY <1>2 DEF Inv, PhasesOK
<1>5. desired # NoDeployment => Newer(desired)
  BY DEF Inv, DownloadOK
<1>6. worker'.pc \in Downloading => worker'.job # NoDeployment /\ Newer(worker'.job)
  BY <1>3, <1>5 DEF Downloading
<1>7. IntactOK'
  BY <1>1 DEF Inv, IntactOK, Intact
<1>8. SlotOK'
  BY <1>3 DEF SlotOK, Writing, Downloading
<1> QED BY <1>1, <1>4, <1>6, <1>7, <1>8, WorkerPicksTypes, WorkerStepKeeps

\* A publisher is trusted, and no trial is open: NVS holds the active release or none.
LEMMA ChooseSlotKeeps ==
    ASSUME Inv, ChooseSlot
    PROVE  Inv'
<1>1. UNCHANGED <<mem, nvs, files, boot, ui, desired, publisher>>
  BY DEF ChooseSlot, Still, durable, wants
<1>2. worker.pc = "prepare" /\ worker.pc \in Downloading
  BY DEF ChooseSlot, Downloading
<1>3. ui.pc = "loop" /\ MayDownload /\ worker.job # NoDeployment /\ Newer(worker.job)
  BY <1>2 DEF Inv, PhasesOK, DownloadOK
<1>4. IntactOK'
  BY <1>1 DEF Inv, IntactOK, Intact
<1>5. CASE worker.job.key = mem.key
  <2>1. worker' = [worker EXCEPT !.pc = "request", !.slot = FreeSlot(mem)]
    BY <1>5 DEF ChooseSlot
  <2>2. worker'.pc = "request" /\ worker'.slot = FreeSlot(mem) /\ worker'.job = worker.job
    BY <2>1 DEF Inv, Types, OtherTypes, WorkerTypes
  <2>3. mem.key # NoKey
    <3>1. worker.job \in Known
      BY DEF Inv, Types, OtherTypes, WorkerTypes
    <3> QED BY <1>3, <1>5, <3>1, KnownFacts, DeploymentFacts
  <2>4. nvs.active \in {mem.active, NoRelease}
    BY <1>3, <2>3 DEF Inv, NvsKnown, MayDownload
  <2>5. FreeSlot(mem) \in Slots \ {mem.active.slot, ""}
    BY DEF FreeSlot, Slots
  <2>6. FreeSlot(mem) \in Slots \ {mem.active.slot, nvs.active.slot}
    BY <2>4, <2>5, NoDeploymentFacts
  <2>7. SlotOK'
    BY <1>1, <2>2, <2>6 DEF SlotOK
  <2>8. worker'.pc \in {"fetch", "pick"} \cup Downloading => MayDownload
    BY <1>3
  <2> QED BY <1>1, <1>3, <1>4, <2>2, <2>7, <2>8, ChooseSlotTypes, WorkerStepKeeps
<1>6. CASE worker.job.key # mem.key
  <2>1. worker' = [worker EXCEPT !.pc = "clear"]
    BY <1>6 DEF ChooseSlot, Go
  <2>2. worker'.pc = "clear"
    BY <2>1 DEF Inv, Types, OtherTypes, WorkerTypes
  <2> QED BY <1>1, <1>3, <2>2, ChooseSlotTypes, WorkerMoves DEF Downloading
<1> QED BY <1>5, <1>6

\* Installation writes to one slot, which no release in use has.
LEMMA InstallKeeps ==
    ASSUME Inv, OtherTypes', NEW from \in Writing \ {"request", "commit"}, NEW to \in Writing,
           NEW record, InstallStep(from, to, record)
    PROVE  Inv'
<1>1. UNCHANGED <<mem, nvs, boot, ui, desired, publisher>>
  BY DEF InstallStep, Still, jobs, wants
<1>2. /\ worker.pc = from /\ worker' = [worker EXCEPT !.pc = to]
      /\ files' = [files EXCEPT ![worker.slot] = record]
  BY DEF InstallStep, Go, SlotBecomes
<1>3. worker'.pc = to /\ worker'.job = worker.job /\ worker'.slot = worker.slot
  BY <1>2 DEF Inv, Types, OtherTypes, WorkerTypes
<1>4. from \in Downloading /\ to \in Downloading
  BY DEF Writing
<1>5. MayDownload /\ worker.job # NoDeployment /\ Newer(worker.job) /\ ui.pc = "loop"
  BY <1>2, <1>4 DEF Inv, PhasesOK, DownloadOK, Downloading
<1>6. worker.slot \in Slots \ {mem.active.slot, nvs.active.slot} /\ worker.job.mode = Custom
  BY <1>2 DEF Inv, SlotOK
<1>7. SlotOK'
  BY <1>1, <1>3, <1>6 DEF SlotOK
<1>8. IntactOK'
  <2>1. mem \in Records /\ nvs \in Records
    BY DEF Inv, Types, RecordTypes
  <2>2. \A s \in Slots \ {worker.slot} : files'[s] = files[s]
    BY <1>2 DEF Inv, Types, OtherTypes, FileTypes
  <2>3. ASSUME NEW r \in Kept, Intact(r), r.slot # worker.slot
        PROVE  Intact(r)'
    BY <2>2, <2>3, SlotFacts DEF Intact
  <2>4. Intact(mem.active)' /\ Intact(nvs.active)'
    BY <1>1, <1>6, <2>1, <2>3, RecordFacts DEF Inv, IntactOK
  <2>5. mem'.trial = 0
    BY <1>1, <1>5 DEF MayDownload
  <2> QED BY <2>4, <2>5 DEF IntactOK
<1> QED BY <1>1, <1>3, <1>5, <1>7, <1>8, WorkerStepKeeps

LEMMA InstallationKeeps ==
    ASSUME Inv, UnlinkRap \/ UnlinkManifest \/ RenameRap \/ RenameManifest
    PROVE  Inv'
<1>0. /\ {"unlinkRap", "unlinkManifest", "renameRap", "renameManifest"}
            \subseteq Writing \ {"request", "commit"}
      /\ "commit" \in Writing
  BY DEF Writing, Downloading
<1>1. CASE UnlinkRap
  <2>1. OtherTypes'
    BY <1>1, UnlinkRapTypes
  <2>2. \E record : InstallStep("unlinkRap", "unlinkManifest", record)
    BY <1>1 DEF UnlinkRap
  <2> QED BY <1>0, <2>1, <2>2, InstallKeeps
<1>2. CASE UnlinkManifest
  <2>1. OtherTypes'
    BY <1>2, UnlinkManifestTypes
  <2>2. \E record : InstallStep("unlinkManifest", "renameRap", record)
    BY <1>2 DEF UnlinkManifest
  <2> QED BY <1>0, <2>1, <2>2, InstallKeeps
<1>3. CASE RenameRap
  <2>1. OtherTypes'
    BY <1>3, RenameRapTypes
  <2>2. \E record : InstallStep("renameRap", "renameManifest", record)
    BY <1>3 DEF RenameRap
  <2> QED BY <1>0, <2>1, <2>2, InstallKeeps
<1>4. CASE RenameManifest
  <2>1. OtherTypes'
    BY <1>4, RenameManifestTypes
  <2>2. \E record : InstallStep("renameManifest", "commit", record)
    BY <1>4 DEF RenameManifest
  <2> QED BY <1>0, <2>1, <2>2, InstallKeeps
<1> QED BY <1>1, <1>2, <1>3, <1>4

(***************************************************************************)
(* Steps of the boot that leave the record alone.                          *)
(***************************************************************************)
BeforeLoop == {"begin", "wait", "waiting", "show"}

LEMMA BootStepKeeps ==
    ASSUME Inv, OtherTypes', UNCHANGED <<mem, nvs, files, desired, publisher, worker>>,
           PhasesOK', BootOK', boot'.running => boot.running \/ desired = NoDeployment,
           ui'.pc \in BeforeLoop => ui.pc \in BeforeLoop
    PROVE  Inv'
<1>1. Types'
  BY DEF Inv, Types, RecordTypes
<1>2. RecordsOK' /\ NvsKnown'
  BY DEF Inv, RecordsOK, NvsKnown
<1>3. DownloadOK'
  BY DEF Inv, DownloadOK, Newer
<1>4. NvsBooted'
  BY DEF Inv, NvsBooted, BeforeLoop
<1>5. IntactOK' /\ SlotOK'
  BY DEF Inv, IntactOK, Intact, SlotOK
<1> QED BY <1>1, <1>2, <1>3, <1>4, <1>5 DEF Inv

\* What was found stays found.
LEMMA FoundFrame ==
    ASSUME UNCHANGED <<mem, files>>
    PROVE  /\ Target(mem)' = Target(mem)
           /\ Intact(Target(mem)) => Intact(Target(mem))'
  BY DEF Intact, Target

LEMMA FoundStays ==
    ASSUME UNCHANGED <<mem, files>>, NEW d, Found(d)
    PROVE  Found(d)'
  BY FoundFrame DEF Found

\* While the boot task runs, nothing is wanted and nothing downloads.
LEMMA NoDownloadYet ==
    ASSUME Inv, boot.running
    PROVE  worker.pc \notin {"fetch", "pick"} \cup Downloading
  BY DEF Inv, PhasesOK, MayDownload

\* A step of the boot task moves nothing but the task and what it has found.
LEMMA BootPhases ==
    ASSUME Inv, UNCHANGED <<mem, ui, worker, desired, publisher>>,
           boot.running, boot'.running <=> boot'.task # "none"
    PROVE  PhasesOK'
<1>1. boot.task # "none" /\ ui.pc \notin {"load", "begin"} /\ mem.trial = 0
  BY DEF Inv, PhasesOK
<1> QED BY <1>1, NoDownloadYet DEF Inv, PhasesOK

LEMMA BootReadKeeps ==
    ASSUME Inv, BootRead
    PROVE  Inv'
<1>1. UNCHANGED <<mem, nvs, files, desired, publisher, worker, ui>>
  BY DEF BootRead, BootStep, jobs, wants
<1>2. boot.task = "read" /\ boot.running /\ boot.assets = NoDeployment
  BY DEF BootRead, Inv, PhasesOK, BootOK
<1>3. PICK got \in ReadPackage(Target(mem)), next \in {"reject", "publish"} :
         /\ boot' = [boot EXCEPT !.found = got, !.target = Target(mem), !.active = mem.active,
                                 !.task = next]
         /\ next = "reject" => got = NoDeployment
  BY DEF BootRead, BootStep
<1>4. /\ boot'.found = got /\ boot'.task = next
      /\ boot'.running = boot.running /\ boot'.assets = boot.assets
  BY <1>3 DEF Inv, Types, OtherTypes, BootTypes
<1>5. PhasesOK'
  BY <1>1, <1>2, <1>4, BootPhases
<1>6. Found(got) /\ Found(NoDeployment)
  BY ReadFacts DEF Found
<1>7. Found(got)' /\ Found(NoDeployment)'
  BY <1>1, <1>6, FoundStays
<1>8. BootOK'
  BY <1>2, <1>3, <1>4, <1>7 DEF BootOK
<1> QED BY <1>1, <1>2, <1>5, <1>8, BootReadTypes, BootStepKeeps

LEMMA BootReadActiveKeeps ==
    ASSUME Inv, Captured, BootReadActive
    PROVE  Inv'
<1>1. UNCHANGED <<mem, nvs, files, desired, publisher, worker, ui>>
  BY DEF BootReadActive, BootStep, jobs, wants
<1>2. /\ boot.task = "again" /\ boot.running /\ boot.assets = NoDeployment
      /\ mem.pending = NoRelease /\ boot.active = mem.active
  BY DEF BootReadActive, Inv, PhasesOK, BootOK, Captured
<1>3. PICK got \in (IF mem.active.of.mode = Builtin THEN {mem.active.of}
                    ELSE ReadPackage(mem.active)) :
         boot' = [boot EXCEPT !.found = got, !.task = "publish"]
  BY <1>2 DEF BootReadActive, BootStep
<1>4. /\ boot'.found = got /\ boot'.task = "publish"
      /\ boot'.running = boot.running /\ boot'.assets = boot.assets
  BY <1>3 DEF Inv, Types, OtherTypes, BootTypes
<1>5. PhasesOK'
  BY <1>1, <1>2, <1>4, BootPhases
<1>6. Found(got)
  <2>1. Target(mem) = mem.active
    BY <1>2 DEF Target
  <2>2. CASE mem.active.of.mode = Builtin
    BY <1>3, <2>1, <2>2 DEF Found, Intact, Packages, Builtin, Custom
  <2>3. CASE mem.active.of.mode # Builtin
    <3>1. got \in ReadPackage(mem.active)
      BY <1>3, <2>3
    <3> QED BY <2>1, <3>1, ReadFacts DEF Found
  <2> QED BY <2>2, <2>3
<1>7. Found(got)' /\ Found(NoDeployment)'
  BY <1>1, <1>6, FoundStays DEF Found
<1>8. BootOK'
  BY <1>2, <1>4, <1>7 DEF BootOK
<1> QED BY <1>1, <1>2, <1>5, <1>8, BootReadActiveTypes, BootStepKeeps

LEMMA BootPublishKeeps ==
    ASSUME Inv, BootPublish
    PROVE  Inv'
<1>1. UNCHANGED <<mem, nvs, files, desired, publisher, worker, ui>>
  BY DEF BootPublish, BootStep, jobs, wants
<1>2. boot.task = "publish" /\ boot.running /\ boot.assets = NoDeployment
  BY DEF BootPublish, Inv, PhasesOK, BootOK
<1>3. /\ boot'.found = NoDeployment /\ boot'.task = "end"
      /\ boot'.running = boot.running /\ boot'.assets \in {boot.assets, boot.found}
  BY DEF BootPublish, BootStep, Inv, Types, OtherTypes, BootTypes
<1>4. PhasesOK'
  BY <1>1, <1>2, <1>3, BootPhases
<1>5. ui'.pc \in {"begin", "wait", "waiting"} => Found(boot.found)' /\ Found(boot.assets)'
  <2>1. ui.pc \in {"begin", "wait", "waiting"} => Found(boot.found)
    BY DEF Inv, BootOK
  <2>2. Target(mem)' = Target(mem) /\ (Intact(Target(mem)) => Intact(Target(mem))')
    BY <1>1, FoundFrame
  <2>3. CASE boot'.assets = boot.found
    BY <1>1, <1>3, <2>1, <2>2, <2>3 DEF Found
  <2>4. CASE boot'.assets = NoDeployment
    BY <1>3, <2>4 DEF Found
  <2> QED BY <1>2, <1>3, <2>3, <2>4
<1>6. BootOK'
  BY <1>3, <1>5 DEF BootOK
<1> QED BY <1>1, <1>2, <1>4, <1>6, BootPublishTypes, BootStepKeeps

LEMMA BootEndKeeps ==
    ASSUME Inv, BootEnd
    PROVE  Inv'
<1>1. UNCHANGED <<mem, nvs, files, desired, publisher, worker, ui>>
  BY DEF BootEnd, BootStep, jobs, wants
<1>2. boot.task = "end" /\ boot.running
  BY DEF BootEnd, Inv, PhasesOK
<1>3. /\ boot'.found = boot.found /\ boot'.task = "none" /\ ~boot'.running
      /\ boot'.assets = boot.assets
  BY DEF BootEnd, BootStep, Inv, Types, OtherTypes, BootTypes
<1>4. PhasesOK'
  BY <1>1, <1>2, <1>3, BootPhases
<1>5. BootOK'
  BY <1>1, <1>3, FoundFrame DEF Inv, BootOK, Found
<1> QED BY <1>1, <1>2, <1>3, <1>4, <1>5, BootEndTypes, BootStepKeeps

LEMMA BudgetEndsKeeps ==
    ASSUME Inv, BudgetEnds
    PROVE  Inv'
<1>1. UNCHANGED <<mem, nvs, files, desired, publisher, worker, ui>>
  BY DEF BudgetEnds, BootStep, jobs, wants
<1>2. /\ boot'.found = boot.found /\ boot'.task = boot.task /\ boot'.running = boot.running
      /\ boot'.assets = boot.assets /\ boot'.playing = boot.playing
  BY DEF BudgetEnds, BootStep, Inv, Types, OtherTypes, BootTypes
<1>3. PhasesOK'
  BY <1>1, <1>2 DEF Inv, PhasesOK, MayDownload
<1>4. BootOK'
  BY <1>1, <1>2, FoundFrame DEF Inv, BootOK, Found
<1> QED BY <1>1, <1>2, <1>3, <1>4, BudgetEndsTypes, BootStepKeeps

\* Before the main loop nothing is wanted.
LEMMA NothingWantedYet ==
    ASSUME Inv, ui.pc # "loop"
    PROVE  worker.pc = "none" /\ desired = NoDeployment /\ publisher = NoKey
  BY DEF Inv, PhasesOK

LEMMA BeginCustomKeeps ==
    ASSUME Inv, BeginBootLoad, BeginCustom
    PROVE  Inv'
<1>1. UNCHANGED <<mem, nvs, files, desired, status, failures, waiting, publisher, requested,
                  worker, tried>> /\ ui.pc = "begin"
  BY DEF BeginBootLoad, BeginCustom, jobs, wants
<1>2. OtherTypes'
  BY <1>1, BeginCustomTypes, TypesFrame DEF Inv, Types, OtherTypes
<1>3. ui'.pc = "wait"
  BY DEF BeginCustom, Inv, Types, OtherTypes, UiTypes
<1>4. boot' \in {boot, [boot EXCEPT !.running = TRUE, !.task = "read"]}
  BY DEF BeginCustom
<1>5. /\ boot'.found = boot.found /\ boot'.assets = boot.assets
      /\ boot'.task \in {boot.task, "read"} /\ boot'.playing = boot.playing
      /\ \/ boot'.task = "read" /\ boot'.running
         \/ boot'.task = boot.task /\ boot'.running = boot.running
  BY <1>4 DEF Inv, Types, OtherTypes, BootTypes
<1>6. /\ boot.task = "none" /\ ~boot.running /\ boot.assets = NoDeployment /\ mem.trial = 0
      /\ worker.pc = "none" /\ desired = NoDeployment /\ publisher = NoKey
  BY <1>1, NothingWantedYet DEF Inv, PhasesOK
<1>7. PhasesOK'
  BY <1>1, <1>3, <1>5, <1>6 DEF PhasesOK, Downloading
<1>8. BootOK'
  <2>1. Found(boot.found) /\ Found(boot.assets)
    BY <1>1 DEF Inv, BootOK
  <2> QED BY <1>1, <1>5, <1>6, <2>1, FoundFrame DEF BootOK, Found
<1> QED BY <1>1, <1>2, <1>6, <1>7, <1>8, BootStepKeeps DEF BeforeLoop

LEMMA WaitBootAssetsKeeps ==
    ASSUME Inv, WaitBootAssets
    PROVE  Inv'
<1>1. UNCHANGED <<mem, nvs, files, desired, publisher, worker, boot>> /\ ui.pc = "wait"
  BY DEF WaitBootAssets, durable, jobs, wants
<1>2. ui'.pc \in {"show", "waiting"}
  BY DEF WaitBootAssets, Inv, Types, OtherTypes, UiTypes
<1>3. PhasesOK'
  BY <1>1, <1>2 DEF Inv, PhasesOK, MayDownload
<1>4. BootOK'
  BY <1>1, <1>2, FoundFrame DEF Inv, BootOK, Found
<1> QED BY <1>1, <1>3, <1>4, WaitBootAssetsTypes, BootStepKeeps DEF BeforeLoop

LEMMA AnimateKeeps ==
    ASSUME Inv, StartAnimation, NEW started, Animate(started), UNCHANGED <<mem, nvs, boot>>
    PROVE  Inv'
<1>1. UNCHANGED <<mem, nvs, files, desired, publisher, worker, boot>> /\ ui.pc = "show"
  BY DEF StartAnimation, jobs, wants
<1>2. ui'.pc = "loop"
  BY DEF Animate, Inv, Types, OtherTypes, UiTypes
<1>3. PhasesOK'
  BY <1>1, <1>2 DEF Inv, PhasesOK, MayDownload
<1>4. BootOK'
  BY <1>1, <1>2 DEF Inv, BootOK
<1> QED BY <1>1, <1>2, <1>3, <1>4, StartAnimationTypes, BootStepKeeps DEF BeforeLoop

LEMMA AnimationDoneKeeps ==
    ASSUME Inv, AnimationDone
    PROVE  Inv'
<1>1. UNCHANGED <<mem, nvs, files, desired, publisher, worker>> /\ ui.pc = "loop"
  BY DEF AnimationDone, durable, jobs, wants
<1>2. ui'.pc = "loop"
  BY <1>1 DEF AnimationDone, Inv, Types, OtherTypes, UiTypes
<1>3. /\ boot'.found = boot.found /\ boot'.task = boot.task /\ boot'.running = boot.running
      /\ boot'.assets = boot.assets /\ ~boot'.playing
  BY DEF AnimationDone, Inv, Types, OtherTypes, BootTypes
<1>4. PhasesOK'
  BY <1>1, <1>2, <1>3 DEF Inv, PhasesOK, MayDownload
<1>5. BootOK'
  BY <1>1, <1>2, <1>3 DEF Inv, BootOK
<1> QED BY <1>1, <1>2, <1>3, <1>4, <1>5, AnimationDoneTypes, BootStepKeeps DEF BeforeLoop

(***************************************************************************)
(* Steps of the boot that change the record.                               *)
(***************************************************************************)
LEMMA BootRecordKeeps ==
    ASSUME Inv, OtherTypes', ui.pc # "loop", UNCHANGED <<files, desired, publisher, worker>>,
           RecordTypes', RecordsOK', PhasesOK', BootOK', NvsKnown', NvsBooted', IntactOK'
    PROVE  Inv'
<1>1. worker'.pc = "none" /\ desired' = NoDeployment
  BY NothingWantedYet
<1>2. DownloadOK' /\ SlotOK'
  BY <1>1 DEF DownloadOK, SlotOK, Writing, Downloading
<1> QED BY <1>2 DEF Inv, Types

LEMMA InvRecords ==
    ASSUME Inv
    PROVE  mem \in Records /\ nvs \in Records /\ RecordOK(mem) /\ RecordOK(nvs)
  BY DEF Inv, Types, RecordTypes, RecordsOK

LEMMA IntactStays ==
    ASSUME UNCHANGED files, NEW r, Intact(r)
    PROVE  Intact(r)'
  BY DEF Intact

LEMMA NoReleaseIntact == Intact(NoRelease)
  BY NoDeploymentFacts DEF Intact, Packages

\* The files stay: every release in use was in use before, or is none.
LEMMA IntactKeeps ==
    ASSUME Inv, UNCHANGED files,
           mem'.active \in {mem.active, nvs.active, NoRelease},
           nvs'.active \in {mem.active, nvs.active, NoRelease},
           mem'.trial = 0 \/ (mem.trial # 0 /\ mem'.pending = mem.pending)
    PROVE  IntactOK'
<1>1. \A r \in {mem.active, nvs.active, NoRelease} : Intact(r)
  BY NoReleaseIntact DEF Inv, IntactOK
<1>2. \A r \in {mem.active, nvs.active, NoRelease} : Intact(r)'
  BY <1>1, IntactStays
<1>3. Intact(mem.active)' /\ Intact(nvs.active)'
  BY <1>2
<1>4. mem'.trial # 0 => Intact(mem.pending)'
  BY IntactStays DEF Inv, IntactOK
<1> QED BY <1>3, <1>4 DEF IntactOK

LEMMA LoadStateKeeps ==
    ASSUME Inv, LoadState
    PROVE  Inv'
<1>1. UNCHANGED <<files, desired, publisher, worker, boot>> /\ ui.pc = "load"
  BY DEF LoadState, jobs, wants
<1>2. ui'.pc = "begin"
  BY DEF LoadState, Inv, Types, OtherTypes, UiTypes
<1>3. /\ mem' \in Records /\ RecordOK(mem') /\ mem'.trial = 0
      /\ nvs' \in {nvs, mem'}
      /\ nvs'.active = mem'.active \/ (mem' = Blank /\ nvs' = nvs)
      /\ mem'.active \in {nvs.active, NoRelease}
  <2>1. CASE mem' = Blank /\ nvs' = nvs
    BY <2>1, BlankFacts
  <2>2. CASE mem' = RecoverTrial(Decoded(nvs)) /\ nvs' \in {nvs, mem'}
    <3>1. Decoded(nvs) \in Records /\ RecordOK(Decoded(nvs)) /\ Decoded(nvs).active = nvs.active
      BY InvRecords, DecodedFacts
    <3>2. mem' \in Records /\ RecordOK(mem') /\ mem'.trial = 0 /\ mem'.active = nvs.active
      BY <2>2, <3>1, RecoverFacts
    <3> QED BY <2>2, <3>2
  <2>3. \/ mem' = Blank /\ nvs' = nvs
        \/ mem' = RecoverTrial(Decoded(nvs)) /\ nvs' \in {nvs, mem'}
    BY DEF LoadState, SaveStateLocked
  <2> QED BY <2>1, <2>2, <2>3
<1>4. RecordTypes' /\ RecordsOK'
  BY <1>3, InvRecords DEF RecordTypes, RecordsOK
<1>5. PhasesOK'
  <2>1. /\ worker'.pc = "none" /\ desired' = NoDeployment /\ publisher' = NoKey
        /\ boot.task = "none" /\ ~boot.running /\ boot.assets = NoDeployment
        /\ boot.found = NoDeployment
    BY <1>1, NothingWantedYet DEF Inv, PhasesOK
  <2> QED BY <1>1, <1>2, <1>3, <2>1 DEF PhasesOK, Downloading
<1>6. BootOK'
  <2>1. boot'.task = "none" /\ boot'.assets = NoDeployment /\ boot'.found = NoDeployment
    BY <1>1 DEF Inv, PhasesOK
  <2> QED BY <2>1 DEF BootOK, Found
<1>7. NvsKnown' /\ NvsBooted'
  BY <1>3, BlankFacts DEF NvsKnown, NvsBooted
<1>8. IntactOK'
  BY <1>1, <1>3, IntactKeeps
<1> QED BY <1>1, <1>4, <1>5, <1>6, <1>7, <1>8, LoadStateTypes, BootRecordKeeps

\* A trial begins, or its record could not be saved.
LEMMA TrialKeeps ==
    ASSUME Inv, OtherTypes', ui.pc \in {"begin", "waiting"}, ui'.pc \in {"wait", "show"},
           UNCHANGED <<files, desired, publisher, worker>>,
           mem' \in Records, RecordOK(mem'), mem'.active = mem.active,
           mem'.pending = mem.pending, mem'.key = mem.key,
           nvs' \in {nvs, mem'} \/ (nvs' = BeginTrial(mem) /\ mem.pending # NoRelease),
           \/ mem'.trial = 0 /\ mem.trial = 0
           \/ mem' = mem /\ nvs' = nvs
           \/ mem'.trial # 0 /\ nvs' = mem' /\ ~boot.running /\ Intact(mem.pending),
           boot'.task = boot.task, boot'.running = boot.running, BootOK'
    PROVE  Inv'
<1>1. /\ mem \in Records /\ RecordOK(mem) /\ nvs \in Records /\ RecordOK(nvs)
      /\ worker.pc = "none" /\ desired = NoDeployment /\ publisher = NoKey
  BY InvRecords, NothingWantedYet
<1>2. /\ nvs' \in Records /\ RecordOK(nvs')
      /\ nvs'.active \in {mem.active, nvs.active} /\ (nvs' # nvs => nvs'.active = mem.active)
  BY <1>1, BeginTrialFacts
<1>3. RecordTypes' /\ RecordsOK'
  BY <1>2 DEF RecordTypes, RecordsOK
<1>4. PhasesOK'
  BY <1>1 DEF Inv, PhasesOK, Downloading
<1>5. NvsKnown'
  <2>1. CASE nvs' # nvs
    BY <1>2, <2>1 DEF NvsKnown
  <2>2. CASE nvs' = nvs
    BY <2>2 DEF Inv, NvsKnown, NvsBooted
  <2> QED BY <2>1, <2>2
<1>6. NvsBooted'
  <2>1. nvs.active = mem.active \/ (mem.active = NoRelease /\ mem.pending = NoRelease)
    BY DEF Inv, NvsBooted
  <2>2. mem'.trial # 0 => nvs' = mem'
    BY DEF Inv, NvsBooted
  <2> QED BY <1>2, <2>1, <2>2 DEF NvsBooted
<1>7. IntactOK'
  <2>1. Intact(mem.active) /\ Intact(nvs.active) /\ (mem'.trial # 0 => Intact(mem.pending))
    BY DEF Inv, IntactOK
  <2>2. Intact(mem.active)' /\ Intact(nvs.active)' /\ (mem'.trial # 0 => Intact(mem.pending)')
    BY <1>2, <2>1 DEF Intact
  <2> QED BY <2>2 DEF IntactOK
<1> QED BY <1>3, <1>4, <1>5, <1>6, <1>7, BootRecordKeeps

LEMMA BeginBuiltinKeeps ==
    ASSUME Inv, BeginBootLoad, BeginBuiltin
    PROVE  Inv'
<1>1. UNCHANGED <<files, desired, status, failures, waiting, publisher, requested,
                  worker, tried>> /\ ui.pc = "begin"
  BY DEF BeginBootLoad, jobs, wants
<1>2. OtherTypes'
  BY <1>1, BeginBuiltinTypes, TypesFrame DEF Inv, Types, OtherTypes
<1>3. ui'.pc = "wait"
  BY DEF BeginBuiltin, Inv, Types, OtherTypes, UiTypes
<1>4. /\ boot'.assets = Target(mem).of /\ boot'.found = NoDeployment
      /\ boot'.task = "none" /\ boot'.running = boot.running /\ ~boot.running
      /\ boot.task = "none"
  <2>1. boot.found = NoDeployment /\ boot.task = "none" /\ ~boot.running
    BY <1>1 DEF Inv, PhasesOK
  <2>2. \E s, c : boot' = [boot EXCEPT !.selected = s, !.assets = Target(mem).of,
                                       !.candidate = c]
    BY DEF BeginBuiltin
  <2> QED BY <2>1, <2>2 DEF Inv, Types, OtherTypes, BootTypes
<1>5. mem.trial = 0 /\ mem \in Records /\ RecordOK(mem)
  BY <1>1, InvRecords DEF Inv, PhasesOK
<1>6. Target(mem).of \notin Packages
  <2>1. Target(mem).of.mode # Custom
    BY DEF BeginBuiltin
  <2> QED BY <2>1 DEF Packages
<1>7. /\ mem' \in Records /\ RecordOK(mem') /\ mem'.active = mem.active
      /\ mem'.pending = mem.pending /\ mem'.key = mem.key
      /\ nvs' \in {nvs, mem'} \/ (nvs' = BeginTrial(mem) /\ mem.pending # NoRelease)
      /\ mem'.trial = 0 \/ (mem'.trial # 0 /\ nvs' = mem' /\ mem.pending # NoRelease)
  <2>1. CASE mem' = mem /\ nvs' = nvs
    BY <1>5, <2>1
  <2>2. CASE mem.pending # NoRelease /\ mem' = BeginTrial(mem) /\ nvs' = BeginTrial(mem)
    BY <1>5, <2>2, BeginTrialFacts
  <2>3. CASE /\ mem.pending # NoRelease /\ mem' = [mem EXCEPT !.previous = mem.active]
             /\ nvs' \in {nvs, BeginTrial(mem)}
    BY <1>5, <2>3, UnsavedTrialFacts
  <2>4. \/ mem' = mem /\ nvs' = nvs
        \/ mem.pending # NoRelease /\ mem' = BeginTrial(mem) /\ nvs' = BeginTrial(mem)
        \/ /\ mem.pending # NoRelease /\ mem' = [mem EXCEPT !.previous = mem.active]
           /\ nvs' \in {nvs, BeginTrial(mem)}
    BY DEF BeginBuiltin, SaveStateLocked
  <2> QED BY <2>1, <2>2, <2>3, <2>4
<1>8. mem.pending # NoRelease => Intact(mem.pending)
  BY <1>6 DEF Intact, Target
<1>9. BootOK'
  <2>1. Target(mem)' = Target(mem)
    BY <1>7 DEF Target
  <2>2. Found(boot.assets)' /\ Found(boot.found)'
    BY <1>4, <1>6, <2>1 DEF Found, Intact
  <2> QED BY <1>4, <2>2 DEF BootOK
<1> QED BY <1>1, <1>2, <1>3, <1>4, <1>5, <1>7, <1>8, <1>9, TrialKeeps

\* A newer release than the adopted one is a release.
LEMMA MayBeginFacts ==
    ASSUME Inv, MayBeginTrial(mem)
    PROVE  mem.trial = 0 /\ mem.pending # NoRelease
<1>1. mem \in Records
  BY InvRecords
<1>2. NoRelease.of.rev = 0 /\ mem.active.of.rev \in Nat
  BY <1>1, NoDeploymentFacts, RecordFacts
<1> QED BY <1>2 DEF MayBeginTrial

LEMMA TakeBootAssetsKeeps ==
    ASSUME Inv, TakeBootAssets
    PROVE  Inv'
<1>1. UNCHANGED <<files, desired, publisher, worker>> /\ ui.pc = "waiting"
  BY DEF TakeBootAssets, jobs, wants
<1>2. ui'.pc = "show"
  BY DEF TakeBootAssets, Inv, Types, OtherTypes, UiTypes
<1>3. mem \in Records /\ RecordOK(mem)
  BY InvRecords
<1>4. \/ mem' = mem /\ nvs' = nvs
      \/ /\ mem' = BeginTrial(mem) /\ nvs' = mem' /\ MayBeginTrial(mem)
         /\ ~boot.running /\ boot.assets # NoDeployment
      \/ mem' = mem /\ nvs' \in {nvs, BeginTrial(mem)} /\ MayBeginTrial(mem)
  BY DEF TakeBootAssets, SaveStateLocked
<1>5. /\ mem' \in Records /\ RecordOK(mem') /\ mem'.active = mem.active
      /\ mem'.pending = mem.pending /\ mem'.key = mem.key
      /\ nvs' \in {nvs, mem'} \/ (nvs' = BeginTrial(mem) /\ mem.pending # NoRelease)
  BY <1>3, <1>4, MayBeginFacts, BeginTrialFacts
<1>6. \/ mem'.trial = 0 /\ mem.trial = 0
      \/ mem' = mem /\ nvs' = nvs
      \/ mem'.trial # 0 /\ nvs' = mem' /\ ~boot.running /\ Intact(mem.pending)
  <2>1. CASE mem' = mem
    BY <1>4, <2>1, MayBeginFacts
  <2>2. CASE /\ mem' = BeginTrial(mem) /\ nvs' = mem' /\ MayBeginTrial(mem)
             /\ ~boot.running /\ boot.assets # NoDeployment
    <3>1. mem.trial = 0 /\ mem.pending # NoRelease
      BY <2>2, MayBeginFacts
    <3>2. Found(boot.assets)
      BY <1>1 DEF Inv, BootOK
    <3>3. Intact(mem.pending)
      BY <2>2, <3>1, <3>2 DEF Found, Target
    <3> QED BY <2>2, <3>1, <3>3
  <2> QED BY <1>4, <2>1, <2>2
<1>7. /\ boot'.task = boot.task /\ boot'.running = boot.running /\ boot'.found = boot.found
      /\ boot'.assets \in {boot.assets, NoDeployment}
  <2>1. boot' \in {boot, NoAssets(boot), [NoAssets(boot) EXCEPT !.abandoned = TRUE]}
    BY DEF TakeBootAssets
  <2> QED BY <2>1 DEF NoAssets, Inv, Types, OtherTypes, BootTypes
<1>8. BootOK'
  BY <1>2, <1>5, <1>7 DEF Inv, BootOK
<1> QED BY <1>1, <1>2, <1>5, <1>6, <1>7, <1>8, TakeBootAssetsTypes, TrialKeeps

LEMMA RejectBootCandidateKeeps ==
    ASSUME Inv, StartAnimation, RejectBootCandidate
    PROVE  Inv'
<1>1. UNCHANGED <<files, desired, publisher, worker>> /\ ui.pc = "show"
  BY DEF StartAnimation, jobs, wants
<1>2. ui'.pc = "loop"
  BY DEF RejectBootCandidate, Inv, Types, OtherTypes, UiTypes
<1>3. mem \in Records /\ RecordOK(mem) /\ nvs \in Records /\ RecordOK(nvs)
  BY InvRecords
<1>4. /\ mem' = RecoverTrial(mem)
      /\ nvs' \in {nvs, mem'}
  BY DEF RejectBootCandidate, SaveStateLocked
<1>5. /\ mem' \in Records /\ RecordOK(mem') /\ mem'.active = mem.active /\ mem'.trial = 0
      /\ mem'.key = mem.key /\ mem'.pending \in {mem.pending, NoRelease}
  BY <1>3, <1>4, RecoverFacts
<1>6. RecordTypes' /\ RecordsOK'
  BY <1>3, <1>4, <1>5 DEF RecordTypes, RecordsOK
<1>7. /\ boot'.task = boot.task /\ boot'.running = boot.running /\ boot'.found = boot.found
      /\ boot'.assets = NoDeployment
  <2>1. boot' = [NoAssets(boot) EXCEPT !.abandoned = TRUE]
    BY DEF RejectBootCandidate
  <2> QED BY <2>1 DEF NoAssets, Inv, Types, OtherTypes, BootTypes
<1>8. PhasesOK'
  <2>1. worker.pc = "none"
    BY <1>1, NothingWantedYet
  <2> QED BY <1>1, <1>2, <1>5, <1>7, <2>1 DEF Inv, PhasesOK, Downloading
<1>9. BootOK'
  BY <1>2, <1>5, <1>7 DEF Inv, BootOK
<1>10. NvsKnown'
  <2>1. CASE nvs' = mem'
    BY <2>1 DEF NvsKnown
  <2>2. CASE nvs' = nvs
    <3>1. nvs.active = mem.active \/ (mem.active = NoRelease /\ mem.pending = NoRelease)
      BY <1>1 DEF Inv, NvsBooted
    <3>2. mem.trial # 0 => mem.pending # NoRelease
      BY <1>3 DEF RecordOK
    <3> QED BY <1>5, <2>2, <3>1, <3>2 DEF Inv, NvsKnown
  <2> QED BY <1>4, <2>1, <2>2
<1>11. NvsBooted'
  BY <1>2 DEF NvsBooted
<1>12. IntactOK'
  BY <1>1, <1>4, <1>5, IntactKeeps
<1> QED BY <1>1, <1>6, <1>8, <1>9, <1>10, <1>11, <1>12, StartAnimationTypes, BootRecordKeeps

LEMMA StartAnimationKeeps ==
    ASSUME Inv, StartAnimation
    PROVE  Inv'
<1>1. CASE RejectBootCandidate
  BY <1>1, RejectBootCandidateKeeps
<1>2. CASE \E started : Animate(started) /\ UNCHANGED <<mem, nvs, boot>>
  BY <1>2, AnimateKeeps
<1> QED BY <1>1, <1>2 DEF StartAnimation

(***************************************************************************)
(* Steps beside the main loop that change the record.                      *)
(***************************************************************************)
LEMMA LoopRecordKeeps ==
    ASSUME Inv, OtherTypes', UNCHANGED files, ui.pc = "loop", ui'.pc = "loop",
           mem' \in Records, nvs' \in Records, RecordOK(mem'), RecordOK(nvs'),
           mem'.trial \in {0, mem.trial}, publisher' = publisher,
           UNCHANGED boot, boot.running => mem'.pending \in {mem.pending, NoRelease},
           worker'.pc \in {"fetch", "pick"} \cup Downloading => MayDownload,
           DownloadOK', NvsKnown', IntactOK', SlotOK'
    PROVE  Inv'
<1>1. Types' /\ RecordsOK'
  BY DEF Types, RecordTypes, RecordsOK
<1>2. PhasesOK'
  BY DEF Inv, PhasesOK, MayDownload
<1>3. BootOK'
  BY DEF Inv, BootOK, PhasesOK
<1>4. NvsBooted'
  BY DEF NvsBooted
<1> QED BY <1>1, <1>2, <1>3, <1>4 DEF Inv

LEMMA BootRejectKeeps ==
    ASSUME Inv, Captured, BootReject
    PROVE  Inv'
<1>1. UNCHANGED <<files, desired, publisher, worker, ui>>
  BY DEF BootReject, BootStep, jobs, wants
<1>2. /\ boot.task = "reject" /\ boot.running /\ boot.found = NoDeployment
      /\ boot.assets = NoDeployment /\ mem.trial = 0 /\ ui.pc \notin {"load", "begin"}
  BY DEF BootReject, Inv, PhasesOK, BootOK
<1>3. /\ boot'.found = NoDeployment /\ boot'.task = "again"
      /\ boot'.running /\ boot'.assets = NoDeployment
  BY <1>2 DEF BootReject, BootStep, Inv, Types, OtherTypes, BootTypes
<1>4. mem \in Records /\ RecordOK(mem) /\ nvs \in Records /\ RecordOK(nvs)
  BY InvRecords
<1>5. mem' = RejectPending(mem, mem.pending.of.rev) /\ nvs' \in {nvs, mem'}
  BY DEF BootReject, SaveStateLocked, Captured
<1>6. /\ mem' \in Records /\ RecordOK(mem') /\ mem'.active = mem.active
      /\ mem'.pending = NoRelease /\ mem'.trial = 0 /\ mem'.key = mem.key
      /\ mem'.rejected = Larger(mem.pending.of.rev, mem.rejected)
  BY <1>4, <1>5, RejectPendingFacts
<1>7. Types' /\ RecordsOK'
  BY <1>4, <1>5, <1>6, BootRejectTypes DEF Types, RecordTypes, RecordsOK
<1>8. worker.pc \notin {"fetch", "pick"} \cup Downloading
  BY <1>2, NoDownloadYet
<1>9. PhasesOK'
  BY <1>1, <1>2, <1>3, <1>6, <1>8 DEF Inv, PhasesOK
<1>10. DownloadOK'
  <2>1. ASSUME desired # NoDeployment, desired.key = mem.key
        PROVE  desired.rev > mem'.active.of.rev /\ desired.rev > mem'.rejected
    <3>1. /\ desired.rev > mem.active.of.rev /\ desired.rev > mem.rejected
          /\ desired.rev > mem.pending.of.rev
      BY <1>2, <2>1 DEF Inv, DownloadOK, Newer
    <3>2. mem'.rejected \in {mem.pending.of.rev, mem.rejected}
      BY <1>6 DEF Larger
    <3> QED BY <1>6, <3>1, <3>2
  <2>2. mem'.pending.of.rev = 0
    BY <1>6, NoDeploymentFacts
  <2>3. ASSUME desired # NoDeployment
        PROVE  desired.rev > 0
    <3>1. desired \in Known
      BY DEF Inv, Types, OtherTypes, JobTypes
    <3> QED BY <2>3, <3>1, DeploymentFacts DEF Known
  <2> QED BY <1>1, <1>6, <1>8, <2>1, <2>2, <2>3 DEF DownloadOK, Newer
<1>11. BootOK'
  BY <1>3, <1>6 DEF BootOK, Found
<1>12. NvsKnown' /\ NvsBooted'
  BY <1>1, <1>2, <1>5, <1>6 DEF Inv, NvsKnown, NvsBooted
<1>13. IntactOK'
  BY <1>1, <1>5, <1>6, IntactKeeps
<1>14. SlotOK'
  BY <1>1, <1>8 DEF SlotOK, Writing
<1> QED BY <1>7, <1>9, <1>10, <1>11, <1>12, <1>13, <1>14 DEF Inv

LEMMA ConfirmBootHealthyKeeps ==
    ASSUME Inv, ConfirmBootHealthy
    PROVE  Inv'
<1>1. UNCHANGED <<files, boot, desired, publisher, worker>> /\ ui.pc = "loop"
  BY DEF ConfirmBootHealthy, wants
<1>2. ui'.pc = "loop"
  BY <1>1 DEF ConfirmBootHealthy, Inv, Types, OtherTypes, UiTypes
<1>3. mem \in Records /\ RecordOK(mem) /\ nvs \in Records /\ RecordOK(nvs)
  BY InvRecords
<1>4. worker'.pc \in {"fetch", "pick"} \cup Downloading => MayDownload
  BY <1>1 DEF Inv, PhasesOK
<1>5. CASE mem' = mem /\ nvs' = nvs
  <2>1. DownloadOK' /\ NvsKnown' /\ SlotOK'
    BY <1>1, <1>5 DEF Inv, DownloadOK, Newer, NvsKnown, SlotOK
  <2>2. IntactOK'
    BY <1>1, <1>5, IntactKeeps
  <2> QED BY <1>1, <1>2, <1>3, <1>4, <1>5, <2>1, <2>2, ConfirmBootHealthyTypes, LoopRecordKeeps
<1>6. CASE /\ MayConfirmTrial(mem, boot.selected)
           /\ \/ mem' = ConfirmTrial(mem) /\ nvs' = mem'
              \/ mem' = mem /\ nvs' = ConfirmTrial(mem)
  <2> DEFINE next == ConfirmTrial(mem)
  <2>1. mem.trial # 0 /\ ~boot.running /\ Intact(mem.pending)
    BY <1>6 DEF MayConfirmTrial, Inv, PhasesOK, IntactOK
  <2>2. /\ next \in Records /\ RecordOK(next) /\ next.active = mem.pending
        /\ next.pending = NoRelease /\ next.trial = 0 /\ next.key = mem.key
        /\ next.rejected = mem.rejected
    BY <1>3, ConfirmTrialFacts
  <2>3. mem' \in {mem, next} /\ nvs' = next /\ (mem' = mem \/ mem' = next)
    BY <1>6
  <2> HIDE DEF next
  <2>4. worker.pc \notin {"fetch", "pick"} \cup Downloading
    BY <2>1 DEF Inv, PhasesOK, MayDownload
  <2>5. SlotOK'
    BY <1>1, <2>4 DEF SlotOK, Writing
  <2>6. NvsKnown'
    BY <2>1, <2>2, <2>3 DEF NvsKnown
  <2>7. IntactOK'
    <3>1. Intact(mem.active)' /\ Intact(nvs.active)'
      BY <1>1, <2>1, <2>2, <2>3 DEF Inv, IntactOK, Intact
    <3>2. mem'.trial # 0 => Intact(mem.pending)'
      BY <1>1, <2>1, <2>2, <2>3 DEF Intact
    <3> QED BY <3>1, <3>2 DEF IntactOK
  <2>8. DownloadOK'
    <3>1. CASE mem' = mem
      BY <1>1, <2>4, <3>1 DEF Inv, DownloadOK, Newer
    <3>2. CASE mem' = next
      BY <1>1, <2>1, <2>2, <2>4, <3>2 DEF Inv, DownloadOK, Newer
    <3> QED BY <2>3, <3>1, <3>2
  <2>9. /\ mem' \in Records /\ RecordOK(mem') /\ nvs' \in Records /\ RecordOK(nvs')
        /\ mem'.trial \in {0, mem.trial}
    BY <1>3, <2>2, <2>3
  <2> QED BY <1>1, <1>2, <1>4, <2>1, <2>5, <2>6, <2>7, <2>8, <2>9, ConfirmBootHealthyTypes,
             LoopRecordKeeps
<1> QED BY <1>5, <1>6 DEF ConfirmBootHealthy, SaveStateLocked

LEMMA ApplyDesiredKeeps ==
    ASSUME Inv, ApplyDesired
    PROVE  Inv'
<1>1. UNCHANGED <<nvs, files, boot, ui, publisher>> /\ ui.pc = "loop" /\ ScheduleWorker("other")
  BY DEF ApplyDesired, Settled, durable
<1>2. PICK d \in Deployments :
         ~Ignored(d) /\ mem' = [mem EXCEPT !.latest = d.rev] /\ desired' = d
  BY DEF ApplyDesired
<1>3. mem \in Records /\ RecordOK(mem) /\ nvs \in Records /\ RecordOK(nvs)
  BY InvRecords
<1>4. /\ mem' \in Records /\ RecordOK(mem') /\ mem'.active = mem.active
      /\ mem'.pending = mem.pending /\ mem'.rejected = mem.rejected
      /\ mem'.trial = mem.trial /\ mem'.key = mem.key
  BY <1>2, <1>3, LatestFacts
<1>5. /\ worker'.pc \in {"fetch", "pick"} \cup Downloading => worker' = worker /\ MayDownload
      /\ worker'.pc \in Writing => worker' = worker
      /\ worker'.pc \in Downloading => worker'.job # NoDeployment /\ Newer(worker'.job)
  BY <1>1, ScheduleFacts DEF Inv, PhasesOK, DownloadOK, Downloading, Writing
<1>6. DownloadOK'
  <2>1. d.key = mem.key => /\ d.rev > mem.active.of.rev /\ d.rev > mem.rejected
                           /\ d.rev > mem.pending.of.rev
    BY <1>2 DEF Ignored, ShouldAccept
  <2> QED BY <1>2, <1>4, <1>5, <2>1 DEF DownloadOK, Newer
<1>7. NvsKnown'
  BY <1>1, <1>4 DEF Inv, NvsKnown
<1>8. IntactOK'
  BY <1>1, <1>4, IntactKeeps
<1>9. SlotOK'
  BY <1>1, <1>4, <1>5 DEF Inv, SlotOK, Writing
<1> QED BY <1>1, <1>3, <1>4, <1>5, <1>6, <1>7, <1>8, <1>9, ApplyDesiredTypes, LoopRecordKeeps

\* The record in RAM goes on with the same releases; what was saved has them too.
LEMMA SaveKeeps ==
    ASSUME Inv, OtherTypes', UNCHANGED <<files, boot, ui, desired, publisher, worker>>,
           ui.pc = "loop", NEW next \in Records, RecordOK(next),
           next.active = mem.active, next.pending = mem.pending, next.trial = mem.trial,
           next.rejected = mem.rejected, next.key \in {mem.key, NoKey},
           \/ mem' = next /\ nvs' = next
           \/ mem' = mem /\ nvs' \in {nvs, next}
    PROVE  Inv'
<1>1. mem \in Records /\ RecordOK(mem) /\ nvs \in Records /\ RecordOK(nvs)
  BY InvRecords
<1>2. /\ mem'.active = mem.active /\ mem'.pending = mem.pending /\ mem'.trial = mem.trial
      /\ mem'.rejected = mem.rejected /\ mem'.key \in {mem.key, NoKey}
      /\ mem' \in Records /\ RecordOK(mem') /\ nvs' \in Records /\ RecordOK(nvs')
      /\ nvs'.active \in {nvs.active, mem.active}
  BY <1>1
<1>3. worker'.pc \in {"fetch", "pick"} \cup Downloading => MayDownload
  BY DEF Inv, PhasesOK
<1>4. DownloadOK'
  <2>1. /\ desired # NoDeployment => desired.key # NoKey
        /\ worker.job # NoDeployment => worker.job.key # NoKey
    BY KnownFacts, DeploymentFacts DEF Inv, Types, OtherTypes, JobTypes, WorkerTypes
  <2> QED BY <1>2, <2>1 DEF Inv, DownloadOK, Newer
<1>5. NvsKnown'
  <2>1. CASE nvs'.active = mem'.active
    BY <2>1 DEF NvsKnown
  <2>2. CASE mem' = mem /\ nvs' = nvs
    BY <2>2 DEF Inv, NvsKnown
  <2>3. \/ mem' = mem /\ nvs' = nvs
        \/ nvs'.active = mem'.active
    OBVIOUS
  <2> QED BY <2>1, <2>2, <2>3
<1>6. IntactOK'
  BY <1>2, IntactKeeps
<1>7. SlotOK'
  BY <1>2 DEF Inv, SlotOK
<1> QED BY <1>2, <1>3, <1>4, <1>5, <1>6, <1>7, LoopRecordKeeps

LEMMA ForgetPublisherKeeps ==
    ASSUME Inv, ForgetPublisher
    PROVE  Inv'
<1>1. UNCHANGED <<files, boot, ui, desired, status, failures, waiting, publisher, requested,
                  worker, tried>> /\ ui.pc = "loop"
  BY DEF ForgetPublisher, jobs, wants
<1>2. OtherTypes'
  BY <1>1, TypesFrame DEF Inv, Types, OtherTypes
<1> DEFINE next == [mem EXCEPT !.key = NoKey]
<1>3. /\ next \in Records /\ RecordOK(next)
      /\ next.active = mem.active /\ next.pending = mem.pending /\ next.trial = mem.trial
      /\ next.rejected = mem.rejected /\ next.key = NoKey
  BY InvRecords, ForgetFacts
<1>4. \/ mem' = next /\ nvs' = next
      \/ mem' = mem /\ nvs' \in {nvs, next}
  BY DEF ForgetPublisher, SaveStateLocked
<1> HIDE DEF next
<1> QED BY <1>1, <1>2, <1>3, <1>4, SaveKeeps

LEMMA SetLocalThemeKeeps ==
    ASSUME Inv, SetLocalTheme
    PROVE  Inv'
<1>1. UNCHANGED <<mem, files, boot, ui, desired, status, failures, waiting, publisher,
                  requested, worker, tried>> /\ ui.pc = "loop"
  BY DEF SetLocalTheme, jobs, wants
<1>2. OtherTypes'
  BY <1>1, TypesFrame DEF Inv, Types, OtherTypes
<1>3. nvs' \in {nvs, mem}
  BY DEF SetLocalTheme, SaveStateLocked
<1> QED BY <1>1, <1>2, <1>3, InvRecords, SaveKeeps

\* A new epoch forgets every release: the next boot has nothing to fall back to.
LEMMA ConfirmPublisherKeeps ==
    ASSUME Inv, ConfirmPublisher
    PROVE  Inv'
<1>1. UNCHANGED <<files, boot, ui, publisher>> /\ ui.pc = "loop" /\ publisher # NoKey
  BY DEF ConfirmPublisher, wants
<1>2. mem.trial = 0 /\ publisher \in Keys \cup {NoKey} /\ desired \in Known
  BY <1>1 DEF Inv, PhasesOK, Types, OtherTypes, WantTypes, JobTypes
<1>3. mem \in Records /\ RecordOK(mem) /\ nvs \in Records /\ RecordOK(nvs)
  BY InvRecords
<1> DEFINE reset == mem.key # publisher
           next  == IF reset THEN NewEpoch(desired) ELSE mem
<1>4. /\ next \in Records /\ RecordOK(next) /\ next.trial = 0
      /\ next.active \in {mem.active, NoRelease} /\ next.pending \in {mem.pending, NoRelease}
      /\ \/ next = mem
         \/ /\ next.active = NoRelease /\ next.pending = NoRelease /\ next.rejected = 0
            /\ next.key = publisher
  BY <1>2, <1>3, NewEpochFacts
<1>5. \/ /\ mem' = next /\ nvs' = next /\ \E state : ScheduleWorker(state)
         /\ next = mem => desired' = desired
         /\ desired' \in {desired, NoDeployment}
      \/ mem' = mem /\ nvs' \in {nvs, next} /\ UNCHANGED <<desired, worker>>
  <2>1. CASE reset
    <3>1. next.key = publisher /\ next # mem
      BY <1>2, <2>1, NewEpochFacts
    <3> HIDE DEF next
    <3>2. \/ /\ mem' = next /\ nvs' = next /\ \E state : ScheduleWorker(state)
             /\ desired' \in {desired, NoDeployment}
          \/ mem' = mem /\ nvs' \in {nvs, next} /\ UNCHANGED <<desired, worker>>
      BY <2>1 DEF next, ConfirmPublisher, SaveStateLocked, jobs
    <3> QED BY <3>1, <3>2
  <2>2. CASE ~reset
    BY <2>2 DEF ConfirmPublisher, SaveStateLocked, jobs
  <2> QED BY <2>1, <2>2
<1> HIDE DEF reset, next
<1>6. /\ worker'.pc \in {"fetch", "pick"} \cup Downloading => worker' = worker /\ MayDownload
      /\ worker'.pc \in Writing => worker' = worker
      /\ worker'.pc \in Downloading => /\ worker' = worker /\ worker.job # NoDeployment
                                       /\ Newer(worker.job)
  BY <1>5, ScheduleFacts DEF Inv, PhasesOK, DownloadOK, Downloading, Writing
<1>7. /\ mem' \in Records /\ RecordOK(mem') /\ nvs' \in Records /\ RecordOK(nvs')
      /\ mem'.trial = 0 /\ mem'.pending \in {mem.pending, NoRelease}
      /\ mem'.active \in {mem.active, NoRelease}
      /\ nvs'.active \in {mem.active, nvs.active, NoRelease}
  BY <1>2, <1>3, <1>4, <1>5
<1>8. DownloadOK'
  <2>1. CASE mem' = mem
    BY <1>1, <1>5, <1>6, <2>1 DEF Inv, DownloadOK, Newer
  <2>2. CASE mem'.active = NoRelease /\ mem'.pending = NoRelease /\ mem'.rejected = 0
    <3>1. mem'.active.of.rev = 0 /\ mem'.pending.of.rev = 0
      BY <2>2, NoDeploymentFacts
    <3>2. /\ desired' # NoDeployment => desired'.rev > 0
          /\ worker.job # NoDeployment => worker.job.rev > 0
      BY <1>2, <1>5, DeploymentFacts DEF Known, Inv, Types, OtherTypes, WorkerTypes
    <3> QED BY <1>6, <2>2, <3>1, <3>2 DEF DownloadOK, Newer
  <2> QED BY <1>4, <1>5, <2>1, <2>2
<1>9. NvsKnown'
  <2>1. CASE nvs'.active \in {mem'.active, NoRelease}
    BY <2>1 DEF NvsKnown
  <2>2. CASE mem' = mem /\ nvs' = nvs
    BY <2>2 DEF Inv, NvsKnown
  <2> QED BY <1>4, <1>5, <2>1, <2>2
<1>10. IntactOK'
  BY <1>1, <1>7, IntactKeeps
<1>11. SlotOK'
  BY <1>6, <1>7, NoDeploymentFacts DEF Inv, SlotOK, Slots
<1> QED BY <1>1, <1>6, <1>7, <1>8, <1>9, <1>10, <1>11, ConfirmPublisherTypes, LoopRecordKeeps

LEMMA CommitPendingKeeps ==
    ASSUME Inv, CommitPending
    PROVE  Inv'
<1>1. UNCHANGED <<files, boot, ui, desired, publisher>> /\ worker.pc = "commit"
  BY DEF CommitPending, wants
<1>2. /\ MayDownload /\ mem.trial = 0 /\ ~boot.running /\ ui.pc = "loop"
      /\ worker.job # NoDeployment /\ Newer(worker.job)
  BY <1>1 DEF Inv, PhasesOK, DownloadOK, MayDownload, Downloading
<1>3. mem \in Records /\ RecordOK(mem) /\ nvs \in Records /\ RecordOK(nvs)
  BY InvRecords
<1>4. worker'.pc = "clear"
  BY DEF CommitPending, Go, Inv, Types, OtherTypes, WorkerTypes
<1>5. SlotOK' /\ worker'.pc \notin {"fetch", "pick"} \cup Downloading
  BY <1>4 DEF SlotOK, Writing, Downloading
<1> DEFINE next == [mem EXCEPT !.pending = Release(worker.job, worker.slot)]
<1>6. mem' \in {mem, next} /\ nvs' \in {nvs, next} /\ (mem' # mem => nvs' = next /\ mem' = next)
  BY DEF CommitPending, SaveStateLocked
<1>7. (mem' # mem \/ nvs' # nvs) =>
         /\ next \in Records /\ RecordOK(next) /\ next.active = mem.active /\ next.trial = 0
         /\ next.key = mem.key /\ next.rejected = mem.rejected
  <2> SUFFICES ASSUME mem' # mem \/ nvs' # nvs
               PROVE  /\ next \in Records /\ RecordOK(next) /\ next.active = mem.active
                      /\ next.trial = 0 /\ next.key = mem.key /\ next.rejected = mem.rejected
    OBVIOUS
  <2>1. mem.key = worker.job.key
    BY DEF CommitPending, StillTrusted
  <2>2. worker.job \in Deployments /\ (worker.job.mode = Custom => worker.slot \in Slots)
    BY <1>1, <1>2 DEF Inv, SlotOK, Writing, Downloading, Types, OtherTypes, WorkerTypes, Known
  <2>3. /\ Release(worker.job, worker.slot) \in Kept
        /\ Release(worker.job, worker.slot).of = worker.job
    BY <2>2, ReleaseFacts
  <2>4. worker.job.rev > mem.active.of.rev /\ worker.job.rev > mem.rejected
    BY <1>2, <2>1 DEF Newer
  <2> QED BY <1>2, <1>3, <2>3, <2>4, PendingFacts
<1> HIDE DEF next
<1>8. /\ mem' \in Records /\ RecordOK(mem') /\ nvs' \in Records /\ RecordOK(nvs')
      /\ mem'.active = mem.active /\ mem'.trial = 0 /\ mem'.rejected = mem.rejected
      /\ mem'.key = mem.key /\ nvs'.active \in {nvs.active, mem.active}
  BY <1>2, <1>3, <1>6, <1>7
<1>9. DownloadOK'
  BY <1>1, <1>2, <1>5, <1>8 DEF Inv, DownloadOK, Newer
<1>10. NvsKnown'
  BY <1>2, <1>8 DEF Inv, NvsKnown
<1>11. IntactOK'
  BY <1>1, <1>8, IntactKeeps
<1> QED BY <1>1, <1>2, <1>5, <1>8, <1>9, <1>10, <1>11, CommitPendingTypes, LoopRecordKeeps

LEMMA RestartKeeps ==
    ASSUME Inv, Restart
    PROVE  Inv'
<1>1. /\ mem' = Blank /\ nvs' = nvs /\ desired' = NoDeployment /\ publisher' = NoKey
      /\ boot' = ColdBoot /\ ui' = ColdUi /\ worker' = NoWorker
  BY DEF Restart
<1>2. PrefixOnly
  <2>1. files' = files \/ \E slot, d : files' = [files EXCEPT ![slot].partial = d]
    BY DEF Restart
  <2> QED BY <2>1, PrefixFacts DEF Inv, Types, OtherTypes
<1>3. Types' /\ RecordsOK'
  BY <1>1, BlankFacts, InvRecords, RestartTypes DEF Types, RecordTypes, RecordsOK
<1>4. /\ boot'.task = "none" /\ ~boot'.running /\ boot'.found = NoDeployment
      /\ boot'.assets = NoDeployment /\ ui'.pc = "load" /\ worker'.pc = "none"
  BY <1>1 DEF ColdBoot, ColdUi, NoWorker
<1>5. PhasesOK' /\ DownloadOK' /\ BootOK' /\ SlotOK'
  BY <1>1, <1>4, BlankFacts DEF PhasesOK, DownloadOK, BootOK, Found, SlotOK, Writing, Downloading
<1>6. NvsKnown' /\ NvsBooted'
  BY <1>1, <1>4, BlankFacts DEF NvsKnown, NvsBooted
<1>7. IntactOK'
  <2>1. nvs.active \in Kept /\ Intact(nvs.active)
    BY InvRecords, RecordFacts DEF Inv, IntactOK
  <2>2. Intact(nvs.active)'
    BY <1>1, <1>2, <2>1, SlotFacts DEF Intact, PrefixOnly
  <2>3. Intact(mem.active)' /\ mem'.trial = 0
    BY <1>1, BlankFacts, NoDeploymentFacts DEF Intact, Packages
  <2> QED BY <2>2, <2>3 DEF IntactOK
<1> QED BY <1>3, <1>5, <1>6, <1>7 DEF Inv

(***************************************************************************)
(* The invariant holds.                                                    *)
(***************************************************************************)
LEMMA InitFiles ==
    ASSUME Init
    PROVE  /\ FileTypes /\ nvs \in Records /\ RecordOK(nvs) /\ nvs.trial = 0
           /\ Intact(nvs.active)
<1>1. /\ NoDeployment \in Content /\ Packages \subseteq Content /\ Packages \subseteq Deployments
      /\ "a" \in Slots
  BY DEF Content, Packages, Slots
<1>2. CASE nvs = Blank /\ files = [s \in Slots |-> NoFiles]
  <2>1. FileTypes
    BY <1>1, <1>2 DEF FileTypes, NoFiles
  <2> QED BY <2>1, <1>2, BlankFacts, NoReleaseIntact
<1>3. ASSUME NEW d \in Packages,
             nvs = [Blank EXCEPT !.active = Release(d, "a"), !.latest = d.rev, !.key = d.key],
             files = [s \in Slots |->
                        IF s = "a" THEN [NoFiles EXCEPT !.rap = d, !.manifest = d] ELSE NoFiles]
      PROVE  /\ FileTypes /\ nvs \in Records /\ RecordOK(nvs) /\ nvs.trial = 0
             /\ Intact(nvs.active)
  <2>1. FileTypes
    BY <1>1, <1>3 DEF FileTypes, NoFiles
  <2>2. /\ Release(d, "a") \in Kept /\ Release(d, "a").of = d
        /\ d.rev \in Revisions /\ d.key \in Keys
    BY <1>1, ReleaseFacts, DeploymentFacts
  <2>3. nvs \in Records
    BY <1>3, <2>2, BlankFacts DEF Records
  <2>4. nvs.active = Release(d, "a") /\ nvs.pending = NoRelease /\ nvs.trial = 0
    BY <1>3, BlankFacts DEF Records
  <2>5. Release(d, "a").slot = "a"
    BY <1>3 DEF Release, Packages
  <2>6. files["a"].rap = d /\ files["a"].manifest = d
    BY <1>1, <1>3 DEF NoFiles
  <2> QED BY <2>1, <2>2, <2>3, <2>4, <2>5, <2>6 DEF RecordOK, Intact
<1> QED BY <1>2, <1>3 DEF Init

LEMMA InvInit ==
    ASSUME Init
    PROVE  Inv
<1>1. /\ mem = Blank /\ boot = ColdBoot /\ ui = ColdUi /\ worker = NoWorker
      /\ desired = NoDeployment /\ status = "other" /\ failures = 0 /\ waiting = FALSE
      /\ publisher = NoKey /\ requested = FALSE /\ tried = {}
  BY DEF Init
<1>2. RecordTypes /\ RecordsOK
  BY <1>1, InitFiles, BlankFacts DEF RecordTypes, RecordsOK
<1>3. BootTypes /\ UiTypes
  BY <1>1 DEF BootTypes, UiTypes, ColdBoot, ColdUi, Known, Kept
<1>4. JobTypes /\ WantTypes /\ TriedTypes
  BY <1>1, DelayFacts DEF JobTypes, WantTypes, TriedTypes, Known
<1>5. WorkerTypes
  BY <1>1 DEF WorkerTypes, NoWorker, Known, Ends, Slots
<1>6. Types
  BY <1>2, <1>3, <1>4, <1>5, InitFiles DEF Types, OtherTypes
<1>7. /\ boot.task = "none" /\ ~boot.running /\ boot.found = NoDeployment
      /\ boot.assets = NoDeployment /\ ui.pc = "load" /\ worker.pc = "none"
  BY <1>1 DEF ColdBoot, ColdUi, NoWorker
<1>8. PhasesOK /\ DownloadOK /\ BootOK /\ SlotOK
  BY <1>1, <1>7, BlankFacts DEF PhasesOK, DownloadOK, BootOK, Found, SlotOK, Writing, Downloading
<1>9. NvsKnown /\ NvsBooted /\ IntactOK
  BY <1>1, <1>7, BlankFacts, InitFiles, NoReleaseIntact DEF NvsKnown, NvsBooted, IntactOK
<1> QED BY <1>2, <1>6, <1>8, <1>9 DEF Inv

LEMMA StutterKeeps ==
    ASSUME Inv, UNCHANGED vars
    PROVE  Inv'
<1>1. UNCHANGED <<mem, nvs, files, boot, ui, desired, status, failures, waiting, publisher,
                  requested, worker, tried>>
  BY DEF vars, durable, jobs, wants
<1>2. Types'
  BY <1>1, TypesFrame DEF Inv, Types, OtherTypes, RecordTypes
<1>3. RecordsOK' /\ PhasesOK' /\ DownloadOK' /\ NvsKnown' /\ NvsBooted'
  BY <1>1 DEF Inv, RecordsOK, PhasesOK, MayDownload, DownloadOK, Newer, NvsKnown, NvsBooted
<1>4. BootOK' /\ IntactOK' /\ SlotOK'
  BY <1>1 DEF Inv, BootOK, Found, Intact, Target, IntactOK, SlotOK
<1> QED BY <1>2, <1>3, <1>4 DEF Inv

LEMMA InvNext ==
    ASSUME Inv, Captured, [Next]_vars
    PROVE  Inv'
<1>1. CASE AppMain
  <2>1. CASE BeginBootLoad
    BY <2>1, BeginBuiltinKeeps, BeginCustomKeeps DEF BeginBootLoad
  <2> QED BY <1>1, <2>1, LoadStateKeeps, WaitBootAssetsKeeps, TakeBootAssetsKeeps,
             StartAnimationKeeps, AnimationDoneKeeps, ConfirmBootHealthyKeeps DEF AppMain
<1>2. CASE BootTask \/ BudgetEnds
  BY <1>2, BootReadKeeps, BootRejectKeeps, BootReadActiveKeeps, BootPublishKeeps, BootEndKeeps,
     BudgetEndsKeeps DEF BootTask
<1>3. CASE Worker
  <2>1. CASE \/ FetchPublisher \/ WorkerPicks \/ RequestFails \/ ChooseSlot
             \/ ManifestVerified \/ ManifestRefused \/ OpenPartial \/ ReceiveArtifact
    BY <2>1, FetchPublisherKeeps, WorkerPicksKeeps, RequestFailsKeeps, ChooseSlotKeeps,
       ManifestVerifiedKeeps, ManifestRefusedKeeps, OpenPartialKeeps, ReceiveArtifactKeeps
  <2>2. CASE \/ UnlinkRap \/ UnlinkManifest \/ RenameRap \/ RenameManifest
             \/ RenameFails \/ CommitPending \/ Supersede \/ Fail \/ DeferDownload
             \/ WorkerClears \/ WorkerStops
    BY <2>2, InstallationKeeps, RenameFailsKeeps, CommitPendingKeeps, SupersedeKeeps, FailKeeps,
       DeferDownloadKeeps, WorkerClearsKeeps, WorkerStopsKeeps
  <2> QED BY <1>3, <2>1, <2>2 DEF Worker
<1>4. CASE WorkerDefers \/ WorkerPasses \/ OnNetworkReady \/ DelayElapses \/ Restart
  BY <1>4, WorkerDefersKeeps, WorkerPassesKeeps, OnNetworkReadyKeeps, DelayElapsesKeeps,
     RestartKeeps
<1>5. CASE Callers
  BY <1>5, ApplyDesiredKeeps, RequestPublisherKeeps, ConfirmPublisherKeeps, ForgetPublisherKeeps,
     SetLocalThemeKeeps DEF Callers
<1>6. CASE UNCHANGED vars
  BY <1>6, StutterKeeps
<1> QED BY <1>1, <1>2, <1>3, <1>4, <1>5, <1>6 DEF Next

(***************************************************************************)
(* The copies of the loading task agree with RAM.                          *)
(***************************************************************************)
LEMMA CapturedFrame ==
    ASSUME Captured, mem'.active = mem.active, mem'.pending = mem.pending,
           publisher' = publisher, boot'.task = boot.task, boot'.running = boot.running,
           boot'.target = boot.target, boot'.active = boot.active
    PROVE  Captured'
  BY DEF Captured

LEMMA NothingCaptured ==
    ASSUME boot'.task = "none", ~boot'.running
    PROVE  Captured'
  BY DEF Captured

LEMMA AppMainCaptures ==
    ASSUME Inv, Captured, AppMain
    PROVE  Captured'
<1>1. CASE LoadState
  <2>1. boot' = boot /\ boot.task = "none" /\ ~boot.running
    BY <1>1 DEF LoadState, Inv, PhasesOK
  <2> QED BY <2>1, NothingCaptured
<1>2. CASE BeginBootLoad
  <2>1. boot.task = "none" /\ ~boot.running /\ publisher = NoKey /\ publisher' = publisher
    BY <1>2 DEF BeginBootLoad, wants, Inv, PhasesOK
  <2>2. \/ boot'.task = "none" /\ ~boot'.running
        \/ boot'.task = "read"
    BY <1>2, <2>1 DEF BeginBootLoad, BeginBuiltin, BeginCustom, Inv, Types, OtherTypes, BootTypes
  <2> QED BY <2>1, <2>2 DEF Captured
<1>3. CASE WaitBootAssets \/ AnimationDone
  BY <1>3, CapturedFrame DEF WaitBootAssets, AnimationDone, wants, Inv, Types, OtherTypes, BootTypes
<1>4. CASE TakeBootAssets
  <2>1. mem \in Records
    BY DEF Inv, Types, RecordTypes
  <2>2. mem' \in {mem, BeginTrial(mem)} /\ publisher' = publisher
    BY <1>4 DEF TakeBootAssets, wants
  <2>3. mem'.active = mem.active /\ mem'.pending = mem.pending
    BY <2>1, <2>2 DEF BeginTrial, Records
  <2>4. boot' \in {boot, NoAssets(boot), [NoAssets(boot) EXCEPT !.abandoned = TRUE]}
    BY <1>4 DEF TakeBootAssets
  <2>5. /\ boot'.task = boot.task /\ boot'.running = boot.running
        /\ boot'.target = boot.target /\ boot'.active = boot.active
    BY <2>4 DEF NoAssets, Inv, Types, OtherTypes, BootTypes
  <2> QED BY <2>2, <2>3, <2>5, CapturedFrame
<1>5. CASE StartAnimation
  <2>1. boot' \in {boot, [NoAssets(boot) EXCEPT !.abandoned = TRUE]} /\ publisher' = publisher
    BY <1>5 DEF StartAnimation, RejectBootCandidate, wants
  <2>2. /\ boot'.task = boot.task /\ boot'.running = boot.running
        /\ boot'.target = boot.target /\ boot'.active = boot.active
    BY <2>1 DEF NoAssets, Inv, Types, OtherTypes, BootTypes
  <2>3. CASE mem.trial = 0
    <3>1. mem' = mem
      BY <1>5, <2>3 DEF StartAnimation, RejectBootCandidate, RecoverTrial
    <3> QED BY <2>1, <2>2, <3>1, CapturedFrame
  <2>4. CASE mem.trial # 0
    BY <2>2, <2>4, NothingCaptured DEF Inv, PhasesOK
  <2> QED BY <2>3, <2>4
<1>6. CASE ConfirmBootHealthy
  <2>1. boot' = boot /\ publisher' = publisher /\ (mem.trial = 0 => mem' = mem)
    BY <1>6 DEF ConfirmBootHealthy, MayConfirmTrial, wants
  <2>2. CASE mem.trial = 0
    BY <2>1, <2>2, CapturedFrame
  <2>3. CASE mem.trial # 0
    BY <2>1, <2>3, NothingCaptured DEF Inv, PhasesOK
  <2> QED BY <2>2, <2>3
<1> QED BY <1>1, <1>2, <1>3, <1>4, <1>5, <1>6 DEF AppMain

LEMMA BootTaskCaptures ==
    ASSUME Inv, Captured, BootTask \/ BudgetEnds
    PROVE  Captured'
<1>1. publisher' = publisher
  BY DEF BootTask, BootRead, BootReject, BootReadActive, BootPublish, BootEnd, BudgetEnds, BootStep,
     wants
<1>2. CASE BootRead
  <2>1. PICK got \in ReadPackage(Target(mem)), refused \in BOOLEAN :
           /\ boot' = [boot EXCEPT !.found = got, !.target = Target(mem), !.active = mem.active,
                                   !.task = IF refused THEN "reject" ELSE "publish"]
           /\ refused => mem.pending # NoRelease
    BY <1>2 DEF BootRead, BootStep
  <2>2. /\ boot'.task \in {"reject", "publish"} /\ boot'.active = mem.active
        /\ boot'.task = "reject" => boot'.target = mem.pending
        /\ boot'.running = boot.running
    BY <2>1 DEF Target, Inv, Types, OtherTypes, BootTypes
  <2>3. mem' = mem
    BY <1>2 DEF BootRead
  <2> QED BY <1>1, <2>2, <2>3 DEF Captured
<1>3. CASE BootReject
  <2>1. /\ boot'.task = "again" /\ boot'.active = boot.active /\ boot'.running = boot.running
        /\ boot.task = "reject"
    BY <1>3 DEF BootReject, BootStep, Inv, Types, OtherTypes, BootTypes
  <2>2. mem'.active = mem.active
    BY <1>3 DEF BootReject, RejectPending, Inv, Types, RecordTypes, Records
  <2> QED BY <1>1, <2>1, <2>2 DEF Captured
<1>4. CASE BootReadActive \/ BootPublish \/ BootEnd
  <2>1. boot'.task \in {"publish", "end", "none"} /\ boot'.running \in {boot.running, FALSE}
    BY <1>4 DEF BootReadActive, BootPublish, BootEnd, BootStep, Inv, Types, OtherTypes, BootTypes
  <2> QED BY <1>1, <2>1 DEF Captured
<1>5. CASE BudgetEnds
  <2>1. /\ boot'.task = boot.task /\ boot'.running = boot.running
        /\ boot'.target = boot.target /\ boot'.active = boot.active /\ mem' = mem
    BY <1>5 DEF BudgetEnds, BootStep, Inv, Types, OtherTypes, BootTypes
  <2> QED BY <1>1, <2>1, CapturedFrame
<1> QED BY <1>2, <1>3, <1>4, <1>5 DEF BootTask

LEMMA LoopCaptures ==
    ASSUME Inv, Captured,
           \/ Worker \/ WorkerDefers \/ WorkerPasses \/ OnNetworkReady \/ DelayElapses \/ Callers
    PROVE  Captured'
<1>1. boot' = boot
  <2>1. CASE Worker
    BY <2>1 DEF Worker, FetchPublisher, WorkerPicks, RequestFails, ChooseSlot, ManifestVerified,
       ManifestRefused, OpenPartial, ReceiveArtifact, UnlinkRap, UnlinkManifest, RenameRap,
       RenameManifest, RenameFails, CommitPending, Supersede, Fail, DeferDownload, WorkerClears,
       WorkerStops, InstallStep, Still
  <2>2. CASE WorkerDefers \/ WorkerPasses \/ OnNetworkReady \/ DelayElapses
    BY <2>2 DEF WorkerDefers, WorkerPasses, OnNetworkReady, DelayElapses, Still, Settled
  <2>3. CASE Callers
    BY <2>3 DEF Callers, ApplyDesired, RequestPublisher, ConfirmPublisher, ForgetPublisher,
       SetLocalTheme, Settled
  <2> QED BY <2>1, <2>2, <2>3
<1>2. CASE FetchPublisher \/ CommitPending \/ ConfirmPublisher
  <2>1. ~boot.running /\ boot.task = "none"
    BY <1>2 DEF FetchPublisher, CommitPending, ConfirmPublisher, Downloading, MayDownload, Captured,
       Inv, PhasesOK
  <2> QED BY <1>1, <2>1, NothingCaptured
<1>3. CASE ~(FetchPublisher \/ CommitPending \/ ConfirmPublisher)
  <2>1. publisher' = publisher
    <3>1. CASE Worker
      BY <1>3, <3>1 DEF Worker, WorkerPicks, RequestFails, ChooseSlot, ManifestVerified,
         ManifestRefused, OpenPartial, ReceiveArtifact, UnlinkRap, UnlinkManifest, RenameRap,
         RenameManifest, RenameFails, Supersede, Fail, DeferDownload, WorkerClears,
         WorkerStops, InstallStep, wants
    <3>2. CASE WorkerDefers \/ WorkerPasses \/ OnNetworkReady \/ DelayElapses
      BY <3>2 DEF WorkerDefers, WorkerPasses, OnNetworkReady, DelayElapses, wants
    <3>3. CASE Callers
      BY <1>3, <3>3 DEF Callers, ApplyDesired, RequestPublisher, ForgetPublisher, SetLocalTheme, wants
    <3> QED BY <3>1, <3>2, <3>3
  <2>2. mem'.active = mem.active /\ mem'.pending = mem.pending
    <3>1. mem \in Records
      BY DEF Inv, Types, RecordTypes
    <3>2. \/ mem' = mem
          \/ \E n : mem' = [mem EXCEPT !.latest = n]
          \/ mem' = [mem EXCEPT !.key = NoKey]
      <4>1. CASE Worker
        BY <1>3, <4>1 DEF Worker, WorkerPicks, RequestFails, ChooseSlot, ManifestVerified,
           ManifestRefused, OpenPartial, ReceiveArtifact, UnlinkRap, UnlinkManifest, RenameRap,
           RenameManifest, RenameFails, Supersede, Fail, DeferDownload, WorkerClears,
           WorkerStops, InstallStep, Still
      <4>2. CASE WorkerDefers \/ WorkerPasses \/ OnNetworkReady \/ DelayElapses
        BY <4>2 DEF WorkerDefers, WorkerPasses, OnNetworkReady, DelayElapses, Still
      <4>3. CASE Callers
        BY <1>3, <4>3 DEF Callers, ApplyDesired, RequestPublisher, ForgetPublisher, SetLocalTheme
      <4> QED BY <4>1, <4>2, <4>3
    <3> QED BY <3>1, <3>2 DEF Records
  <2> QED BY <1>1, <2>1, <2>2, CapturedFrame
<1> QED BY <1>2, <1>3

LEMMA CapturedNext ==
    ASSUME Inv, Captured, [Next]_vars
    PROVE  Captured'
<1>1. CASE Restart
  BY <1>1, NothingCaptured DEF Restart, ColdBoot
<1>2. CASE UNCHANGED vars
  BY <1>2, CapturedFrame DEF vars, wants
<1> QED BY <1>1, <1>2, AppMainCaptures, BootTaskCaptures, LoopCaptures DEF Next

LEMMA Invariants == Spec => [](Inv /\ Captured)
<1>1. Init => Inv /\ Captured
  <2>1. Init => boot = ColdBoot /\ publisher = NoKey
    BY DEF Init
  <2>2. ColdBoot.task = "none"
    BY DEF ColdBoot
  <2>3. Init => Captured
    BY <2>1, <2>2 DEF Captured
  <2> QED BY <2>3, InvInit
<1>2. Inv /\ Captured /\ [Next]_vars => Inv' /\ Captured'
  BY InvNext, CapturedNext
<1> QED BY <1>1, <1>2, PTL DEF Spec

LEMMA Invariant == Spec => []Inv
  BY Invariants, PTL

\* Every variable keeps its type, whatever the deployments and the bounds.
THEOREM AppearanceIsTyped == Spec => []TypeOK
<1>1. Inv => TypeOK
  <2> SUFFICES ASSUME Inv
               PROVE  TypeOK
    OBVIOUS
  <2>1. {mem, nvs} \subseteq
          [active : Releases \cup {NoRelease}, pending : Releases \cup {NoRelease},
           previous : Releases \cup {NoRelease}, trial : Revisions \cup {0},
           rejected : Revisions \cup {0}, latest : Revisions \cup {0},
           key : Keys \cup {NoKey}]
    BY InvRecords DEF Records, Kept
  <2>2. files \in [Slots -> [DOMAIN NoFiles -> Packages \cup {NoDeployment}]]
    <3>1. DOMAIN NoFiles = {"rap", "manifest", "partial"}
      BY DEF NoFiles
    <3>2. ASSUME NEW r \in [rap : Content, manifest : Content, partial : Content]
          PROVE  r \in [DOMAIN NoFiles -> Packages \cup {NoDeployment}]
      BY <3>1 DEF Content
    <3>3. files \in [Slots -> [rap : Content, manifest : Content, partial : Content]]
      BY DEF Inv, Types, OtherTypes, FileTypes
    <3> QED BY <3>2, <3>3
  <2>3. /\ desired \in Deployments \cup {NoDeployment}
        /\ status \in {"other", "failed", "superseded"}
        /\ failures \in 0..(Delays + 1) /\ {waiting, requested} \subseteq BOOLEAN
        /\ publisher \in Keys \cup {NoKey} /\ tried \subseteq Deployments
    BY DEF Inv, Types, OtherTypes, JobTypes, WantTypes, TriedTypes, Known
  <2>4. boot.assets \in Deployments \cup {NoDeployment}
    BY DEF Inv, Types, OtherTypes, BootTypes, Known
  <2>5. ui.shown \in Deployments \cup {NoDeployment}
    BY DEF Inv, Types, OtherTypes, UiTypes, Known
  <2>6. worker.slot \in Slots \cup {""}
    BY DEF Inv, Types, OtherTypes, WorkerTypes
  <2> QED BY <2>1, <2>2, <2>3, <2>4, <2>5, <2>6 DEF TypeOK
<1> QED BY <1>1, Invariant, PTL

\* What waits for the next boot is newer than what is adopted and was never refused.
THEOREM PendingIsNewer == Spec => []NeverStale
<1>1. Inv => NeverStale
  BY DEF Inv, RecordsOK, RecordOK, NeverStale
<1> QED BY <1>1, Invariant, PTL

\* The download task does nothing while a boot loads or plays, or a trial is open.
THEOREM BootBeforeDownload == Spec => []DownloadAfterBoot
<1>1. Inv => DownloadAfterBoot
  BY DEF Inv, PhasesOK, MayDownload, DownloadAfterBoot
<1> QED BY <1>1, Invariant, PTL

\* Wherever the power is lost, the release of the next boot is complete in its slot.
THEOREM FallbackIsIntact == Spec => []LastGoodIntact
<1>1. Inv => LastGoodIntact
  <2> SUFFICES ASSUME Inv
               PROVE  LastGoodIntact
    OBVIOUS
  <2>1. RecoverTrial(nvs).active = nvs.active
    BY InvRecords, RecoverFacts
  <2>2. Intact(nvs.active)
    BY DEF Inv, IntactOK
  <2> QED BY <2>1, <2>2 DEF LastGoodIntact, Intact
<1> QED BY <1>1, Invariant, PTL

(***************************************************************************)
(* What is on the screen.                                                  *)
(***************************************************************************)
LEMMA ScreenStays ==
    ASSUME Inv, [Next]_vars
    PROVE  \/ ui'.shown \in {ui.shown, NoDeployment}
           \/ WaitBootAssets \/ TakeBootAssets
<1>1. CASE LoadState \/ BeginBootLoad \/ AnimationDone \/ ConfirmBootHealthy
  BY <1>1 DEF LoadState, BeginBootLoad, BeginBuiltin, BeginCustom, AnimationDone,
     ConfirmBootHealthy, Inv, Types, OtherTypes, UiTypes
<1>2. CASE StartAnimation
  BY <1>2 DEF StartAnimation, Animate, RejectBootCandidate, Inv, Types, OtherTypes, UiTypes
<1>3. CASE BootTask \/ BudgetEnds
  BY <1>3 DEF BootTask, BootRead, BootReject, BootReadActive, BootPublish, BootEnd, BudgetEnds,
     BootStep
<1>4. CASE Worker
  BY <1>4 DEF Worker, FetchPublisher, WorkerPicks, RequestFails, ChooseSlot, ManifestVerified,
     ManifestRefused, OpenPartial, ReceiveArtifact, UnlinkRap, UnlinkManifest, RenameRap,
     RenameManifest, RenameFails, CommitPending, Supersede, Fail, DeferDownload, WorkerClears,
     WorkerStops, InstallStep, Still
<1>5. CASE WorkerDefers \/ WorkerPasses \/ OnNetworkReady \/ DelayElapses
  BY <1>5 DEF WorkerDefers, WorkerPasses, OnNetworkReady, DelayElapses, Still, Settled
<1>6. CASE Callers
  BY <1>6 DEF Callers, ApplyDesired, RequestPublisher, ConfirmPublisher, ForgetPublisher,
     SetLocalTheme, Settled
<1>7. CASE Restart
  BY <1>7 DEF Restart, ColdUi
<1>8. CASE UNCHANGED vars
  BY <1>8 DEF vars
<1> QED BY <1>1, <1>2, <1>3, <1>4, <1>5, <1>6, <1>7, <1>8 DEF Next, AppMain

\* Only what the boot was to look for comes to the screen.
LEMMA ScreenFacts ==
    ASSUME Inv, [Next]_vars, ui'.shown # ui.shown, ui'.shown # NoDeployment
    PROVE  /\ ui'.shown = boot.assets /\ ui'.shown = Target(mem).of
           /\ ui.pc \in {"wait", "waiting"}
           /\ (WaitBootAssets /\ Target(mem).of.mode # Custom) \/ TakeBootAssets
<1>1. CASE WaitBootAssets
  <2>1. ui'.shown = boot.assets /\ Target(mem).of.mode # Custom /\ ui.pc = "wait"
    BY <1>1 DEF WaitBootAssets, Inv, Types, OtherTypes, UiTypes
  <2>2. Found(boot.assets)
    BY <2>1 DEF Inv, BootOK
  <2> QED BY <1>1, <2>1, <2>2 DEF Found
<1>2. CASE TakeBootAssets
  <2>1. ui'.shown = boot'.assets /\ ui.pc = "waiting"
    BY <1>2 DEF TakeBootAssets, Inv, Types, OtherTypes, UiTypes
  <2>2. boot'.assets \in {boot.assets, NoDeployment}
    <3>1. boot' \in {boot, NoAssets(boot), [NoAssets(boot) EXCEPT !.abandoned = TRUE]}
      BY <1>2 DEF TakeBootAssets
    <3> QED BY <3>1 DEF NoAssets, Inv, Types, OtherTypes, BootTypes
  <2>3. Found(boot.assets)
    BY <2>1 DEF Inv, BootOK
  <2> QED BY <1>2, <2>1, <2>2, <2>3 DEF Found
<1> QED BY <1>1, <1>2, ScreenStays

\* A package comes to the screen as the adopted release or as a trial that NVS records.
THEOREM ShownIsRecorded == Spec => PackageTrialPersisted
<1> DEFINE Recorded == ui'.shown # ui.shown /\ ui'.shown \in Packages =>
                          \/ nvs'.active.of = ui'.shown
                          \/ nvs'.pending.of = ui'.shown /\ nvs'.trial = ui'.shown.rev
<1>1. Inv /\ [Next]_vars => Recorded
  <2> SUFFICES ASSUME Inv, [Next]_vars, ui'.shown # ui.shown, ui'.shown \in Packages
               PROVE  \/ nvs'.active.of = ui'.shown
                      \/ nvs'.pending.of = ui'.shown /\ nvs'.trial = ui'.shown.rev
    OBVIOUS
  <2>1. ui'.shown # NoDeployment /\ ui'.shown.mode = Custom
    BY NoDeploymentFacts DEF Packages
  <2>2. /\ ui'.shown = boot.assets /\ ui'.shown = Target(mem).of
        /\ ui.pc \in {"wait", "waiting"} /\ TakeBootAssets
    BY <2>1, ScreenFacts
  <2>3. mem \in Records /\ RecordOK(mem)
    BY InvRecords
  <2>4. /\ nvs.active = mem.active \/ (mem.active = NoRelease /\ mem.pending = NoRelease)
        /\ mem.trial # 0 => nvs = mem
    BY <2>2 DEF Inv, NvsBooted
  <2>5. boot'.assets # NoDeployment
    <3>1. ui'.shown = boot'.assets
      BY <2>2 DEF TakeBootAssets, Inv, Types, OtherTypes, UiTypes
    <3> QED BY <2>1, <3>1
  <2>6. \/ mem' = mem /\ nvs' = nvs /\ (mem.pending.of.rev # boot.assets.rev \/ mem.trial # 0)
        \/ mem' = BeginTrial(mem) /\ nvs' = mem' /\ MayBeginTrial(mem)
    <3>1. NoAssets(boot).assets = NoDeployment
      BY DEF NoAssets, Inv, Types, OtherTypes, BootTypes
    <3>2. [NoAssets(boot) EXCEPT !.abandoned = TRUE].assets = NoDeployment
      BY DEF NoAssets, Inv, Types, OtherTypes, BootTypes
    <3> QED BY <2>1, <2>2, <2>5, <3>1, <3>2 DEF TakeBootAssets, SaveStateLocked
  <2>7. CASE mem' = BeginTrial(mem) /\ nvs' = mem' /\ MayBeginTrial(mem)
    <3>1. mem.pending # NoRelease
      BY <2>7, MayBeginFacts
    <3> QED BY <2>2, <2>3, <2>7, <3>1, BeginTrialFacts DEF Target
  <2>8. CASE mem' = mem /\ nvs' = nvs /\ (mem.pending.of.rev # boot.assets.rev \/ mem.trial # 0)
    <3>1. CASE mem.pending # NoRelease
      <4>1. ui'.shown = mem.pending.of /\ mem.trial # 0
        BY <2>2, <2>8, <3>1 DEF Target
      <4> QED BY <2>3, <2>4, <2>8, <4>1 DEF RecordOK
    <3>2. CASE mem.pending = NoRelease
      <4>1. ui'.shown = mem.active.of
        BY <2>2, <3>2 DEF Target
      <4> QED BY <2>1, <2>4, <2>8, <4>1, NoDeploymentFacts
    <3> QED BY <3>1, <3>2
  <2> QED BY <2>6, <2>7, <2>8
<1> QED BY <1>1, Invariant, PTL DEF Spec, PackageTrialPersisted

(***************************************************************************)
(* Second layer: what was tried in vain stays refused.                     *)
(***************************************************************************)
\* A record that was lost: nothing is shown or installed before a new epoch.
Lost(r) == r.active = NoRelease /\ r.pending = NoRelease /\ r.key = NoKey

Refuses(r, d)    == r.active.of # d /\ r.rejected >= d.rev
WillRefuse(r, d) == r.active.of # d /\ (r.rejected >= d.rev \/ r.trial >= d.rev)

TriedOK ==
    \A d \in tried : /\ ui.pc # "load" => Lost(mem) \/ Refuses(mem, d)
                     /\ Lost(nvs) \/ WillRefuse(nvs, d)

\* NVS knows of the trial, or has already adopted it.
TrialKnown == mem.trial # 0 => nvs.trial = mem.trial \/ nvs.active = mem.pending

Refusals == TriedOK /\ TrialKnown

\* A record that goes on from another one refuses all that that one refuses.
Follows(m, r) ==
    \A d \in tried : Lost(m) \/ Refuses(m, d) => Lost(r) \/ Refuses(r, d)

LEMMA FollowsSame ==
    ASSUME Inv, NEW m \in Records, NEW r \in Records, r.active = m.active,
           r.rejected >= m.rejected, r.pending \in {m.pending, NoRelease},
           r.key \in {m.key, NoKey}
    PROVE  Follows(m, r)
<1>1. m.rejected \in Nat /\ r.rejected \in Nat
  BY RecordFacts
<1>2. ASSUME NEW d \in tried
      PROVE  d.rev \in Nat
  BY DeploymentFacts DEF Inv, Types, OtherTypes, TriedTypes
<1> QED BY <1>1, <1>2 DEF Follows, Lost, Refuses

\* The trial that is adopted is newer than all that was refused.
LEMMA FollowsAdopted ==
    ASSUME Inv, NEW m \in Records, RecordOK(m), NEW r \in Records, m.pending # NoRelease,
           r.active = m.pending, r.rejected = m.rejected
    PROVE  Follows(m, r)
<1>1. m.pending.of.rev > m.rejected /\ m.rejected \in Nat /\ m.pending.of.rev \in Nat
  BY RecordFacts DEF RecordOK
<1>2. ASSUME NEW d \in tried
      PROVE  d.rev \in Nat
  BY DeploymentFacts DEF Inv, Types, OtherTypes, TriedTypes
<1>3. ASSUME NEW d \in tried, Refuses(m, d)
      PROVE  Refuses(r, d)
  BY <1>1, <1>2, <1>3 DEF Refuses
<1> QED BY <1>3 DEF Follows, Lost

LEMMA TriedStep ==
    ASSUME Inv, Refusals, ui.pc # "load", ui'.pc # "load", tried' \subseteq tried,
           Follows(mem, mem'), nvs' = nvs \/ Follows(mem, nvs'), TrialKnown'
    PROVE  Refusals'
<1>1. ASSUME NEW d \in tried'
      PROVE  /\ Lost(mem) \/ Refuses(mem, d)
             /\ Lost(mem') \/ Refuses(mem', d)
             /\ Lost(nvs) \/ WillRefuse(nvs, d)
             /\ Lost(nvs') \/ WillRefuse(nvs', d)
  BY DEF Refusals, TriedOK, Follows, WillRefuse, Refuses
<1>2. TriedOK'
  BY <1>1 DEF TriedOK, Lost, Refuses, WillRefuse
<1> QED BY <1>2 DEF Refusals

LEMMA RefusalsFrame ==
    ASSUME Refusals, UNCHANGED <<mem, nvs, tried>>, ui'.pc = "load" <=> ui.pc = "load"
    PROVE  Refusals'
  BY DEF Refusals, TriedOK, TrialKnown, Lost, Refuses, WillRefuse

LEMMA LoadStateRefuses ==
    ASSUME Inv, Refusals, LoadState
    PROVE  Refusals'
<1>1. ui'.pc = "begin" /\ tried' = tried
  BY DEF LoadState, Inv, Types, OtherTypes, UiTypes
<1>2. nvs \in Records /\ RecordOK(nvs)
  BY InvRecords
<1>3. \A d \in tried : Lost(nvs) \/ WillRefuse(nvs, d)
  BY DEF Refusals, TriedOK
<1>4. CASE mem' = Blank /\ nvs' = nvs
  <2>1. Lost(mem')
    BY <1>4, BlankFacts DEF Lost
  <2>2. mem'.trial = 0
    BY <1>4, BlankFacts
  <2> QED BY <1>1, <1>3, <1>4, <2>1, <2>2 DEF Refusals, TriedOK, TrialKnown, Lost, WillRefuse
<1>5. CASE mem' = RecoverTrial(Decoded(nvs)) /\ nvs' \in {nvs, mem'}
  <2> DEFINE old == Decoded(nvs)
  <2>1. /\ old \in Records /\ RecordOK(old) /\ old.active = nvs.active
        /\ old.pending = nvs.pending /\ old.trial = nvs.trial /\ old.rejected = nvs.rejected
        /\ old.key = nvs.key
    BY <1>2, DecodedFacts
  <2> HIDE DEF old
  <2>2. /\ mem' \in Records /\ mem'.active = nvs.active /\ mem'.trial = 0 /\ mem'.key = nvs.key
        /\ mem'.rejected >= nvs.rejected
        /\ nvs.trial = 0 => mem'.pending = nvs.pending
        /\ nvs.trial # 0 => mem'.pending = NoRelease /\ mem'.rejected >= nvs.trial
    BY <1>5, <2>1, RecoverFacts DEF old
  <2>3. mem'.rejected \in Nat /\ nvs.rejected \in Nat /\ nvs.trial \in Nat
    BY <1>2, <2>2, RecordFacts
  <2>4. ASSUME NEW d \in tried
        PROVE  Lost(mem') \/ Refuses(mem', d)
    <3>1. d.rev \in Nat /\ d.rev > 0
      BY DeploymentFacts DEF Inv, Types, OtherTypes, TriedTypes
    <3>2. CASE Lost(nvs)
      BY <2>2, <3>2 DEF Lost
    <3>3. CASE WillRefuse(nvs, d)
      BY <2>2, <2>3, <3>1, <3>3 DEF WillRefuse, Refuses
    <3> QED BY <1>3, <3>2, <3>3
  <2>5. ASSUME NEW d \in tried
        PROVE  Lost(nvs') \/ WillRefuse(nvs', d)
    BY <1>3, <1>5, <2>4 DEF Refuses, WillRefuse
  <2>6. TriedOK'
    BY <1>1, <2>4, <2>5 DEF TriedOK, Lost, Refuses, WillRefuse
  <2> QED BY <2>2, <2>6 DEF Refusals, TrialKnown
<1> QED BY <1>4, <1>5 DEF LoadState, SaveStateLocked

LEMMA FollowsItself == \A m : Follows(m, m)
  BY DEF Follows

\* Trials and refusals of the boot.
LEMMA BootRefuses ==
    ASSUME Inv, Captured, Refusals,
           (BeginBootLoad /\ BeginBuiltin) \/ TakeBootAssets \/ BootReject \/ StartAnimation
    PROVE  Refusals'
<1>1. mem \in Records /\ RecordOK(mem) /\ mem.rejected \in Nat
  BY InvRecords, RecordFacts
<1>2. tried' = tried /\ ui'.pc # "load" /\ ui.pc # "load"
  <2>1. CASE BeginBootLoad /\ BeginBuiltin
    BY <2>1 DEF BeginBootLoad, BeginBuiltin, Inv, Types, OtherTypes, UiTypes
  <2>2. CASE TakeBootAssets
    BY <2>2 DEF TakeBootAssets, Inv, Types, OtherTypes, UiTypes
  <2>3. CASE BootReject
    BY <2>3 DEF BootReject, BootStep, Inv, PhasesOK
  <2>4. CASE StartAnimation
    BY <2>4 DEF StartAnimation, Animate, RejectBootCandidate, Inv, Types, OtherTypes, UiTypes
  <2> QED BY <2>1, <2>2, <2>3, <2>4
<1>3. CASE mem' = mem /\ nvs' = nvs
  BY <1>2, <1>3, RefusalsFrame
<1>4. ASSUME NEW next \in Records, next.active = mem.active, next.rejected >= mem.rejected,
             next.pending \in {mem.pending, NoRelease}, next.key = mem.key,
             nvs' \in {nvs, next} \/ nvs' = mem', mem' \in Records,
             mem'.active = mem.active, mem'.rejected >= mem.rejected,
             mem'.pending \in {mem.pending, NoRelease}, mem'.key = mem.key,
             mem'.trial = 0 \/ nvs' = mem'
      PROVE  Refusals'
  <2>1. Follows(mem, mem') /\ Follows(mem, next)
    BY <1>1, <1>4, FollowsSame
  <2>2. TrialKnown'
    BY <1>4 DEF TrialKnown
  <2>3. nvs' = nvs \/ Follows(mem, nvs')
    BY <1>4, <2>1
  <2> QED BY <1>2, <2>1, <2>2, <2>3, TriedStep
<1>5. CASE mem.pending # NoRelease /\ mem' = BeginTrial(mem) /\ nvs' = mem'
  BY <1>1, <1>4, <1>5, BeginTrialFacts
<1>6. CASE /\ mem.pending # NoRelease /\ nvs' \in {nvs, BeginTrial(mem)} /\ mem.trial = 0
           /\ mem' \in {mem, [mem EXCEPT !.previous = mem.active]}
  <2>1. /\ mem' \in Records /\ mem'.active = mem.active /\ mem'.rejected = mem.rejected
        /\ mem'.pending = mem.pending /\ mem'.key = mem.key /\ mem'.trial = 0
    BY <1>1, <1>6, UnsavedTrialFacts
  <2> QED BY <1>1, <1>4, <1>6, <2>1, BeginTrialFacts
<1>7. CASE mem' = RejectPending(mem, mem.pending.of.rev) /\ nvs' \in {nvs, mem'}
  <2>1. Larger(mem.pending.of.rev, mem.rejected) >= mem.rejected
    BY <1>1, RecordFacts, KeptFacts, LargerFacts
  <2> QED BY <1>1, <1>4, <1>7, <2>1, RejectPendingFacts
<1>8. CASE mem' = RecoverTrial(mem) /\ nvs' \in {nvs, mem'}
  <2>1. /\ mem' \in Records /\ mem'.active = mem.active /\ mem'.rejected >= mem.rejected
        /\ mem'.pending \in {mem.pending, NoRelease} /\ mem'.key = mem.key /\ mem'.trial = 0
    BY <1>1, <1>8, RecoverFacts
  <2> QED BY <1>4, <1>8, <2>1
<1>9. BeginBootLoad /\ BeginBuiltin => mem.trial = 0
  BY DEF BeginBootLoad, Inv, PhasesOK
<1>10. TakeBootAssets => \/ mem' = mem /\ nvs' = nvs
                         \/ mem' = BeginTrial(mem) /\ nvs' = mem' /\ MayBeginTrial(mem)
                         \/ mem' = mem /\ nvs' \in {nvs, BeginTrial(mem)} /\ MayBeginTrial(mem)
  BY DEF TakeBootAssets, SaveStateLocked
<1>11. BeginBuiltin => \/ mem' = mem /\ nvs' = nvs
                       \/ mem.pending # NoRelease /\ mem' = BeginTrial(mem) /\ nvs' = mem'
                       \/ /\ mem.pending # NoRelease /\ nvs' \in {nvs, BeginTrial(mem)}
                          /\ mem' = [mem EXCEPT !.previous = mem.active]
  BY DEF BeginBuiltin, SaveStateLocked
<1>12. BootReject => mem' = RejectPending(mem, mem.pending.of.rev) /\ nvs' \in {nvs, mem'}
  BY DEF BootReject, SaveStateLocked, Captured
<1>13. StartAnimation => \/ mem' = mem /\ nvs' = nvs
                         \/ mem' = RecoverTrial(mem) /\ nvs' \in {nvs, mem'}
  BY DEF StartAnimation, RejectBootCandidate, SaveStateLocked
<1> QED BY <1>3, <1>5, <1>6, <1>7, <1>8, <1>9, <1>10, <1>11, <1>12, <1>13, MayBeginFacts

LEMMA ConfirmBootHealthyRefuses ==
    ASSUME Inv, Refusals, ConfirmBootHealthy
    PROVE  Refusals'
<1>1. mem \in Records /\ RecordOK(mem)
  BY InvRecords
<1>2. tried' = tried /\ ui'.pc # "load" /\ ui.pc # "load"
  BY DEF ConfirmBootHealthy, Inv, Types, OtherTypes, UiTypes
<1>3. CASE mem' = mem /\ nvs' = nvs
  BY <1>2, <1>3, RefusalsFrame
<1>4. CASE /\ mem.pending # NoRelease /\ nvs' = ConfirmTrial(mem)
           /\ mem' \in {mem, ConfirmTrial(mem)}
  <2> DEFINE next == ConfirmTrial(mem)
  <2>1. /\ next \in Records /\ next.active = mem.pending /\ next.rejected = mem.rejected
        /\ next.trial = 0
    BY <1>1, ConfirmTrialFacts
  <2>2. nvs' = next /\ mem' \in {mem, next}
    BY <1>4
  <2> HIDE DEF next
  <2>3. Follows(mem, next)
    BY <1>1, <1>4, <2>1, FollowsAdopted
  <2>4. Follows(mem, mem') /\ Follows(mem, nvs')
    BY <2>2, <2>3, FollowsItself
  <2>5. TrialKnown'
    BY <2>1, <2>2 DEF TrialKnown
  <2> QED BY <1>2, <2>4, <2>5, TriedStep
<1>5. \/ mem' = mem /\ nvs' = nvs
      \/ /\ mem.pending # NoRelease /\ nvs' = ConfirmTrial(mem)
         /\ mem' \in {mem, ConfirmTrial(mem)}
  BY DEF ConfirmBootHealthy, SaveStateLocked
<1> QED BY <1>3, <1>4, <1>5

\* A request leaves the releases and the refusals alone.
LEMMA CallRefuses ==
    ASSUME Inv, Refusals, ApplyDesired \/ ForgetPublisher \/ SetLocalTheme
    PROVE  Refusals'
<1>1. mem \in Records /\ RecordOK(mem) /\ mem.rejected \in Nat
  BY InvRecords, RecordFacts
<1>2. tried' = tried /\ ui'.pc # "load" /\ ui.pc # "load"
  BY DEF ApplyDesired, ForgetPublisher, SetLocalTheme, Settled
<1>3. ASSUME NEW next \in Records, next.active = mem.active, next.rejected = mem.rejected,
             next.pending = mem.pending, next.key \in {mem.key, NoKey}, next.trial = mem.trial,
             mem' \in {mem, next}, nvs' \in {nvs, next}
      PROVE  Refusals'
  <2>1. Follows(mem, mem) /\ Follows(mem, next)
    BY <1>1, <1>3, FollowsSame, FollowsItself
  <2>2. TrialKnown'
    BY <1>3 DEF Refusals, TrialKnown
  <2> QED BY <1>2, <1>3, <2>1, <2>2, TriedStep
<1>4. CASE ApplyDesired
  <2>1. PICK d \in Deployments : mem' = [mem EXCEPT !.latest = d.rev] /\ nvs' = nvs
    BY <1>4 DEF ApplyDesired, Settled, durable
  <2> QED BY <1>1, <1>3, <2>1, LatestFacts
<1>5. CASE ForgetPublisher
  <2> DEFINE next == [mem EXCEPT !.key = NoKey]
  <2>1. nvs' \in {nvs, next} /\ mem' \in {mem, next}
    BY <1>5 DEF ForgetPublisher, SaveStateLocked
  <2>2. /\ next \in Records
        /\ next.active = mem.active /\ next.pending = mem.pending /\ next.trial = mem.trial
        /\ next.rejected = mem.rejected /\ next.key = NoKey
    BY <1>1, ForgetFacts
  <2> HIDE DEF next
  <2> QED BY <1>3, <2>1, <2>2
<1>6. CASE SetLocalTheme
  <2>1. nvs' \in {nvs, mem} /\ mem' = mem
    BY <1>6 DEF SetLocalTheme, SaveStateLocked
  <2> QED BY <1>1, <1>3, <2>1
<1> QED BY <1>4, <1>5, <1>6

\* A new epoch begins without a memory of what was tried.
LEMMA ConfirmPublisherRefuses ==
    ASSUME Inv, Refusals, ConfirmPublisher
    PROVE  Refusals'
<1>1. ui.pc = "loop" /\ ui' = ui /\ mem.trial = 0
  BY DEF ConfirmPublisher, Inv, PhasesOK
<1> DEFINE reset == mem.key # publisher
           next  == IF reset THEN NewEpoch(desired) ELSE mem
<1>2. \/ mem' = next /\ nvs' = next /\ (IF reset THEN tried' = {} ELSE tried' = tried)
      \/ /\ mem' = mem /\ nvs' \in {nvs, next}
         /\ tried' = IF reset /\ nvs' = next THEN {} ELSE tried
  BY DEF ConfirmPublisher, SaveStateLocked
<1>3. next.trial = 0
  <2>1. desired \in Known /\ publisher \in Keys \cup {NoKey}
    BY DEF Inv, Types, OtherTypes, JobTypes, WantTypes
  <2> QED BY <1>1, <2>1, NewEpochFacts
<1>4. ~reset => next = mem
  OBVIOUS
<1> HIDE DEF reset, next
<1>5. TrialKnown'
  BY <1>1, <1>2, <1>3 DEF TrialKnown
<1>6. CASE tried' = {}
  BY <1>5, <1>6 DEF Refusals, TriedOK
<1>7. CASE tried' = tried /\ mem' = mem /\ nvs' \in {nvs, mem}
  <2>1. Follows(mem, mem') /\ (nvs' = nvs \/ Follows(mem, nvs'))
    BY <1>7, FollowsItself
  <2> QED BY <1>1, <1>5, <1>7, <2>1, TriedStep
<1>8. tried' = {} \/ (tried' = tried /\ mem' = mem /\ nvs' \in {nvs, mem})
  BY <1>2, <1>4
<1> QED BY <1>6, <1>7, <1>8

\* Only a trusted publisher installs: the record was not lost.
LEMMA CommitPendingRefuses ==
    ASSUME Inv, Refusals, CommitPending
    PROVE  Refusals'
<1>1. worker.pc = "commit" /\ UNCHANGED <<ui, tried>>
  BY DEF CommitPending
<1>2. mem.trial = 0 /\ ui.pc = "loop" /\ worker.job # NoDeployment
  BY <1>1 DEF Inv, PhasesOK, DownloadOK, MayDownload, Downloading
<1>3. mem \in Records
  BY InvRecords
<1>4. CASE StillTrusted
  <2> DEFINE next == [mem EXCEPT !.pending = Release(worker.job, worker.slot)]
  <2>1. mem' \in {mem, next} /\ nvs' \in {nvs, next}
    BY <1>4 DEF CommitPending, SaveStateLocked
  <2>2. mem.key # NoKey
    BY <1>2, <1>4, DeploymentFacts DEF StillTrusted, Inv, Types, OtherTypes, WorkerTypes, Known
  <2>3. /\ next.active = mem.active /\ next.trial = 0 /\ next.rejected = mem.rejected
        /\ next.key = mem.key
    BY <1>2, <1>3 DEF Records
  <2> HIDE DEF next
  <2>4. Follows(mem, mem) /\ Follows(mem, next)
    BY <2>2, <2>3 DEF Follows, Lost, Refuses
  <2>5. TrialKnown'
    BY <1>2, <2>1, <2>3 DEF TrialKnown
  <2> QED BY <1>1, <1>2, <2>1, <2>4, <2>5, TriedStep
<1>5. CASE ~StillTrusted
  BY <1>1, <1>5, RefusalsFrame DEF CommitPending
<1> QED BY <1>4, <1>5

\* What is on trial when the power is lost is refused from then on, unless it was adopted.
LEMMA RestartRefuses ==
    ASSUME Inv, Refusals, Restart
    PROVE  Refusals'
<1>1. /\ mem' = Blank /\ nvs' = nvs /\ ui' = ColdUi
      /\ \/ tried' = tried
         \/ /\ tried' = tried \cup {ui.shown} /\ mem.trial # 0 /\ ui.shown = mem.pending.of
            /\ RecoverTrial(nvs).active.of # ui.shown
  BY DEF Restart, Adopted
<1>2. mem'.trial = 0 /\ ui'.pc = "load"
  BY <1>1, BlankFacts DEF ColdUi
<1>3. \A d \in tried : Lost(nvs) \/ WillRefuse(nvs, d)
  BY DEF Refusals, TriedOK
<1>4. ASSUME mem.trial # 0, ui.shown = mem.pending.of,
             RecoverTrial(nvs).active.of # ui.shown
      PROVE  WillRefuse(nvs, ui.shown)
  <2>1. /\ mem \in Records /\ RecordOK(mem) /\ nvs \in Records /\ RecordOK(nvs)
        /\ RecoverTrial(nvs).active = nvs.active
    BY InvRecords, RecoverFacts
  <2>2. nvs.trial = mem.trial
    BY <1>4, <2>1 DEF Refusals, TrialKnown
  <2>3. mem.trial = mem.pending.of.rev /\ mem.trial \in Nat
    BY <1>4, <2>1, RecordFacts DEF RecordOK
  <2> QED BY <1>4, <2>1, <2>2, <2>3 DEF WillRefuse
<1>5. \A d \in tried' : Lost(nvs) \/ WillRefuse(nvs, d)
  BY <1>1, <1>3, <1>4
<1>6. TriedOK'
  BY <1>1, <1>2, <1>5 DEF TriedOK, Lost, WillRefuse
<1> QED BY <1>2, <1>6 DEF Refusals, TrialKnown

LEMMA OthersRefuse ==
    ASSUME Inv, Refusals,
           \/ BeginBootLoad /\ BeginCustom
           \/ WaitBootAssets \/ AnimationDone
           \/ BootRead \/ BootReadActive \/ BootPublish \/ BootEnd \/ BudgetEnds
           \/ Worker /\ ~CommitPending
           \/ WorkerDefers \/ WorkerPasses \/ OnNetworkReady \/ DelayElapses \/ RequestPublisher
           \/ UNCHANGED vars
    PROVE  Refusals'
<1>1. CASE (BeginBootLoad /\ BeginCustom) \/ WaitBootAssets \/ AnimationDone
  <2>1. UNCHANGED <<mem, nvs, tried>>
    BY <1>1 DEF BeginBootLoad, BeginCustom, WaitBootAssets, AnimationDone, durable
  <2>2. ui'.pc # "load" /\ ui.pc # "load"
    BY <1>1 DEF BeginBootLoad, BeginCustom, WaitBootAssets, AnimationDone, Inv, Types, OtherTypes,
       UiTypes
  <2> QED BY <2>1, <2>2, RefusalsFrame
<1>2. CASE BootRead \/ BootReadActive \/ BootPublish \/ BootEnd \/ BudgetEnds
  <2>1. UNCHANGED <<mem, nvs, tried, ui>>
    BY <1>2 DEF BootRead, BootReadActive, BootPublish, BootEnd, BudgetEnds, BootStep
  <2> QED BY <2>1, RefusalsFrame
<1>3. CASE Worker /\ ~CommitPending
  <2>1. UNCHANGED <<mem, nvs, tried, ui>>
    BY <1>3 DEF Worker, FetchPublisher, WorkerPicks, RequestFails, ChooseSlot, ManifestVerified,
       ManifestRefused, OpenPartial, ReceiveArtifact, UnlinkRap, UnlinkManifest, RenameRap,
       RenameManifest, RenameFails, Supersede, Fail, DeferDownload, WorkerClears,
       WorkerStops, InstallStep, Still, durable
  <2> QED BY <2>1, RefusalsFrame
<1>4. CASE WorkerDefers \/ WorkerPasses \/ DelayElapses \/ UNCHANGED vars
  <2>1. UNCHANGED <<mem, nvs, tried, ui>>
    BY <1>4 DEF WorkerDefers, WorkerPasses, DelayElapses, Still, durable, vars
  <2> QED BY <2>1, RefusalsFrame
<1>5. CASE OnNetworkReady \/ RequestPublisher
  <2>1. UNCHANGED <<mem, nvs, tried, ui>>
    BY <1>5 DEF OnNetworkReady, RequestPublisher, Settled, durable
  <2> QED BY <2>1, RefusalsFrame
<1> QED BY <1>1, <1>2, <1>3, <1>4, <1>5

LEMMA RefusalsNext ==
    ASSUME Inv, Captured, Refusals, [Next]_vars
    PROVE  Refusals'
<1>1. CASE AppMain \/ BootTask
  <2>1. BeginBootLoad => \/ BeginBootLoad /\ BeginBuiltin
                         \/ BeginBootLoad /\ BeginCustom
    BY DEF BeginBootLoad
  <2> QED BY <1>1, <2>1, LoadStateRefuses, BootRefuses, ConfirmBootHealthyRefuses, OthersRefuse
          DEF AppMain, BootTask
<1>2. CASE Worker
  BY <1>2, CommitPendingRefuses, OthersRefuse
<1>3. CASE Callers
  BY <1>3, CallRefuses, ConfirmPublisherRefuses, OthersRefuse DEF Callers
<1>4. CASE Restart
  BY <1>4, RestartRefuses
<1>5. CASE \/ BudgetEnds \/ WorkerDefers \/ WorkerPasses \/ OnNetworkReady \/ DelayElapses
           \/ UNCHANGED vars
  BY <1>5, OthersRefuse
<1> QED BY <1>1, <1>2, <1>3, <1>4, <1>5 DEF Next

LEMMA RefusalsInvariant == Spec => [](Inv /\ Refusals)
<1>1. Init => Refusals
  BY BlankFacts DEF Init, Refusals, TriedOK, TrialKnown
<1>2. Inv /\ Captured /\ Refusals /\ [Next]_vars => Refusals'
  BY RefusalsNext
<1> QED BY <1>1, <1>2, Invariants, PTL DEF Spec

\* A release whose trial ended in vain is never shown again in the same epoch.
THEOREM NeverTriedTwice == Spec => TriedOnce
<1> DEFINE Fresh == ui'.shown # ui.shown => ui'.shown \notin tried
<1>1. Inv /\ Refusals /\ [Next]_vars => Fresh
  <2> SUFFICES ASSUME Inv, Refusals, [Next]_vars, ui'.shown # ui.shown, ui'.shown \in tried
               PROVE  FALSE
    OBVIOUS
  <2>1. ui'.shown \in Deployments /\ ui'.shown # NoDeployment
    BY DeploymentFacts DEF Inv, Types, OtherTypes, TriedTypes
  <2>2. ui'.shown = Target(mem).of /\ ui.pc # "load"
    BY <2>1, ScreenFacts
  <2>3. Lost(mem) \/ Refuses(mem, ui'.shown)
    BY <2>2 DEF Refusals, TriedOK
  <2>4. CASE Lost(mem)
    BY <2>1, <2>2, <2>4, NoDeploymentFacts DEF Lost, Target
  <2>5. CASE Refuses(mem, ui'.shown)
    <3>1. mem \in Records /\ RecordOK(mem)
      BY InvRecords
    <3>2. mem.pending # NoRelease /\ ui'.shown = mem.pending.of
      BY <2>2, <2>5 DEF Refuses, Target
    <3>3. mem.pending.of.rev > mem.rejected /\ mem.rejected >= mem.pending.of.rev
      BY <2>5, <3>1, <3>2 DEF Refuses, RecordOK
    <3> QED BY <3>1, <3>3, RecordFacts
  <2> QED BY <2>3, <2>4, <2>5
<1> QED BY <1>1, RefusalsInvariant, PTL DEF Spec, TriedOnce
=============================================================================
