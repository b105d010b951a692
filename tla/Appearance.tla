----------------------------- MODULE Appearance -----------------------------
(***************************************************************************)
(* Appearance packages (boot logo, wallpaper, theme):                      *)
(* main/phone_os/appearance_service.cc with the revision policy of          *)
(* components/rodak_appearance/rodak_appearance_policy.cc and the part of   *)
(* main/main.cc that drives it.  A new package is downloaded into the SD    *)
(* slot the active one does not use, becomes pending in NVS, is tried at    *)
(* the next boot, and is confirmed or rolled back.                          *)
(*                                                                         *)
(* Actors: app_main (ui), the boot loading task (boot), the download task   *)
(* (worker), and the callers of the service (MQTT, the Themes app).  Every  *)
(* section under mutex_ is one step; SD work under the SD lock is cut where *)
(* a power loss tells two states apart.  NVS, FATFS, the LVGL surface and   *)
(* the server are external.                                                 *)
(***************************************************************************)
EXTENDS Naturals

CONSTANTS
    Deployments,    \* what the server can deploy: records [key, rev, mode]
    NoKey,
    Delays,         \* retry delays of an interrupted download: 5, 15 and 60 seconds
    MaxRestarts,    \* power losses, crashes and restarts
    MaxCalls,       \* requests of the user and of the cloud
    MaxFaults       \* failed NVS, SD, task and cloud operations

Builtin == "builtin"
Custom  == "custom"

Keys == {d.key : d \in Deployments}
Revisions == {d.rev : d \in Deployments}

ASSUME AppearanceAssumption ==
    /\ \A d \in Deployments : /\ d \in [key : Keys, rev : Nat \ {0}, mode : {Builtin, Custom}]
                              /\ \A e \in Deployments : d.key = e.key /\ d.rev = e.rev => d = e
    /\ NoKey \notin Keys
    /\ Delays \in Nat /\ MaxRestarts \in Nat
    /\ MaxCalls \in Nat /\ MaxFaults \in Nat

NoDeployment == [key |-> NoKey, rev |-> 0, mode |-> ""]
Packages     == {d \in Deployments : d.mode = Custom}
Slots        == {"a", "b"}

\* StoredRelease: a deployment and the SD slot that holds its package.
NoRelease   == [of |-> NoDeployment, slot |-> ""]
ReleaseWithSlot(d, slot) == [of |-> d, slot |-> slot]   \* not the code
Release(d, slot) == [of |-> d, slot |-> IF d.mode = Custom THEN slot ELSE ""]
Releases    == {r \in [of : Deployments, slot : Slots \cup {""}] : r.slot = "" <=> r.of.mode = Builtin}

\* What SaveStateLocked writes and LoadState reads.
Blank == [active |-> NoRelease, pending |-> NoRelease, previous |-> NoRelease,
          trial |-> 0, rejected |-> 0, latest |-> 0, key |-> NoKey]

\* Files of an SD slot.  partial is a .rap.part together with the .part.meta that
\* names its release; one without the other is discarded before it is used.
NoFiles == [rap |-> NoDeployment, manifest |-> NoDeployment, partial |-> NoDeployment]

VARIABLES
    mem,        \* the record in RAM
    nvs,        \* the record in NVS
    files,      \* files[s]: which deployment each file of SD slot s belongs to
    boot,       \* the boot loading task and what it hands to app_main
    ui,         \* app_main: where it is, what it shows, what is left to do
    desired,    \* desired_: the deployment to download, or NoDeployment
    status,     \* status_ as far as the control depends on it
    failures,   \* download_failures_
    waiting,    \* download_retry_at_ms_ is in the future
    publisher,  \* publisher_.key_id, or NoKey
    requested,  \* publisher_requested_
    worker,     \* the download task
    tried,      \* releases shown in a trial that ended before they were adopted
    restarts, calls, faults

durable == <<nvs, files>>
jobs    == <<desired, status, failures, waiting>>
wants   == <<publisher, requested>>
budget  == <<restarts, calls>>
vars    == <<mem, durable, boot, ui, jobs, wants, worker, tried, restarts, calls, faults>>

ColdBoot == [task |-> "none", running |-> FALSE, playing |-> FALSE, abandoned |-> FALSE,
             late |-> FALSE, candidate |-> FALSE, selected |-> 0,
             target |-> NoRelease, active |-> NoRelease,
             found |-> NoDeployment, assets |-> NoDeployment]
ColdUi   == [pc |-> "load", shown |-> NoDeployment, animating |-> FALSE, confirm |-> FALSE]
NoWorker == [pc |-> "none", job |-> NoDeployment, handled |-> 0, slot |-> "", ok |-> FALSE]

(***************************************************************************)
(* The record: policy, load and save.                                      *)
(***************************************************************************)
Larger(m, n) == IF m > n THEN m ELSE n
Fault    == faults < MaxFaults /\ faults' = faults + 1
Done(ok) == IF ok THEN UNCHANGED faults ELSE Fault

\* SaveStateLocked: a save that reports failure may have reached the flash.
SaveStateLocked(record, ok) ==
    Done(ok) /\ nvs' \in (IF ok THEN {record} ELSE {nvs, record})

Target(m) == IF m.pending # NoRelease THEN m.pending ELSE m.active

MayBeginTrial(m) == /\ m.trial = 0
                    /\ m.pending.of.rev > m.active.of.rev
                    /\ m.pending.of.rev > m.rejected

\* Not the code: the trial is not recorded.
BeginTrialUnnamed(m) == [m EXCEPT !.previous = m.active]

BeginTrial(m) == [m EXCEPT !.previous = m.active, !.trial = m.pending.of.rev]

\* Not the code: confirmed only once it is active.
MayConfirmActive(m, selected) == m.trial # 0 /\ m.active.of.rev = selected

MayConfirmTrial(m, selected) == m.trial # 0 /\ m.trial = m.pending.of.rev /\ m.trial = selected

ConfirmTrial(m) ==
    [m EXCEPT !.active = m.pending, !.pending = NoRelease, !.trial = 0]

\* Not the code: an unconfirmed trial is only closed.
RecoverTrialForgiving(m) == [m EXCEPT !.trial = 0]

RecoverTrial(m) ==
    IF m.trial = 0 THEN m
    ELSE [m EXCEPT !.active = m.previous, !.pending = NoRelease, !.trial = 0,
                   !.rejected = Larger(m.trial, m.rejected)]

RejectPending(m, revision) ==
    [m EXCEPT !.pending = NoRelease, !.trial = 0, !.rejected = Larger(revision, m.rejected)]

\* Not the code: the refused revision is forgotten.
ShouldAcceptRejected(m, rev) ==
    rev > m.active.of.rev /\ rev > m.pending.of.rev /\ rev >= m.latest

ShouldAccept(m, rev) ==
    /\ rev > m.active.of.rev
    /\ rev > m.pending.of.rev
    /\ rev > m.rejected
    /\ rev >= m.latest

Decoded(record) ==
    [record EXCEPT !.latest = Larger(@, Larger(record.active.of.rev, record.pending.of.rev))]

(***************************************************************************)
(* Boot: constructor, BeginBootLoad, the boot task, WaitBootAssets.        *)
(***************************************************************************)
LoadState ==
    /\ ui.pc = "load"
    /\ ui' = [ui EXCEPT !.pc = "begin"]
    /\ \/ mem' = Blank /\ Fault /\ UNCHANGED nvs                \* state_unavailable
       \/ /\ mem' = RecoverTrial(Decoded(nvs))
          /\ IF nvs.trial = 0 THEN UNCHANGED <<nvs, faults>>
             ELSE \E ok \in BOOLEAN : SaveStateLocked(mem', ok)
    /\ UNCHANGED <<files, boot, jobs, wants, worker, tried, budget>>

\* A built-in target needs no SD: a pending one becomes a trial here.
BeginBuiltin ==
    LET target == Target(mem) IN
    /\ target.of.mode # Custom
    /\ ui' = [ui EXCEPT !.pc = "wait"]
    /\ IF mem.pending = NoRelease
       THEN UNCHANGED <<mem, nvs, faults>>
       ELSE \E ok \in BOOLEAN :
               /\ SaveStateLocked(BeginTrial(mem), ok)
               /\ mem' = IF ok THEN BeginTrial(mem) ELSE [mem EXCEPT !.previous = mem.active]
    /\ boot' = [boot EXCEPT !.selected = target.of.rev,
                            !.assets = target.of,
                            !.candidate = target # NoRelease
                                          /\ (mem.pending = NoRelease \/ mem'.trial # 0)]

BeginCustom ==
    /\ Target(mem).of.mode = Custom
    /\ ui' = [ui EXCEPT !.pc = "wait"]
    /\ \E created \in BOOLEAN :
          /\ Done(created)
          /\ boot' = IF created THEN [boot EXCEPT !.running = TRUE, !.task = "read"] ELSE boot
    /\ UNCHANGED <<mem, nvs>>

BeginBootLoad ==
    /\ ui.pc = "begin"
    /\ BeginBuiltin \/ BeginCustom
    /\ UNCHANGED <<files, jobs, wants, worker, tried, budget>>

\* ReadPackage: the package of a release whose slot holds it, or nothing.
\* The SD card may be absent, slow or short of memory at any time.
ReadPackage(release) ==
    {NoDeployment} \cup
    {d \in Packages : /\ d = release.of /\ d.key = mem.key
                      /\ files[release.slot].rap = d
                      /\ files[release.slot].manifest = d
                      /\ ~boot.abandoned /\ ~boot.late}

BootStep(record) == boot' = record /\ UNCHANGED <<files, ui, jobs, wants, worker, tried, budget>>

\* LoadBootAssets works on copies of the target and of the active release.
BootRead ==
    /\ boot.task = "read"
    /\ \E got \in ReadPackage(Target(mem)) :
          LET refused == /\ got = NoDeployment /\ mem.pending # NoRelease
                         /\ ~boot.abandoned /\ ~boot.late
          IN  BootStep([boot EXCEPT !.found = got, !.target = Target(mem), !.active = mem.active,
                                    !.task = IF refused THEN "reject" ELSE "publish"])
    /\ UNCHANGED <<mem, nvs, faults>>

BootReject ==
    /\ boot.task = "reject"
    /\ mem' = RejectPending(mem, boot.target.of.rev)
    /\ \E ok \in BOOLEAN : SaveStateLocked(mem', ok)
    /\ BootStep([boot EXCEPT !.task = "again"])

BootReadActive ==
    /\ boot.task = "again"
    /\ \E got \in (IF boot.active.of.mode = Builtin THEN {boot.active.of}
                   ELSE ReadPackage(boot.active)) :
          BootStep([boot EXCEPT !.found = got, !.task = "publish"])
    /\ UNCHANGED <<mem, nvs, faults>>

\* A late or abandoned result is dropped.
BootPublish ==
    /\ boot.task = "publish"
    /\ IF boot.abandoned \/ boot.late \/ boot.found = NoDeployment
       THEN BootStep([boot EXCEPT !.task = "end", !.found = NoDeployment,
                                  !.target = NoRelease, !.active = NoRelease])
       ELSE \E playing \in (IF boot.found.mode = Custom THEN BOOLEAN ELSE {FALSE}) :
               BootStep([boot EXCEPT !.task = "end", !.found = NoDeployment,
                                     !.target = NoRelease, !.active = NoRelease,
                                     !.selected = boot.found.rev, !.assets = boot.found,
                                     !.candidate = TRUE, !.playing = playing])
    /\ UNCHANGED <<mem, nvs, faults>>

BootEnd ==
    /\ boot.task = "end"
    /\ BootStep([boot EXCEPT !.task = "none", !.running = FALSE])
    /\ UNCHANGED <<mem, nvs, faults>>

\* The 1500 ms budget runs out while app_main still waits or the task still reads.
BudgetEnds ==
    /\ ~boot.late
    /\ boot.task # "none" \/ ui.pc \in {"wait", "waiting"}
    /\ BootStep([boot EXCEPT !.late = TRUE])
    /\ UNCHANGED <<mem, nvs, faults>>

\* A built-in target is taken at once, whatever the boot task is doing.
WaitBootAssets ==
    /\ ui.pc = "wait"
    /\ ui' = IF Target(mem).of.mode # Custom
             THEN [ui EXCEPT !.pc = "show", !.shown = boot.assets]
             ELSE [ui EXCEPT !.pc = "waiting"]
    /\ UNCHANGED <<mem, durable, boot, jobs, wants, worker, tried, budget, faults>>

NoAssets(b) == [b EXCEPT !.candidate = FALSE, !.playing = FALSE, !.assets = NoDeployment]

TakeBootAssets ==
    /\ ui.pc = "waiting"
    /\ ~boot.running \/ boot.late
    /\ IF boot.running \/ boot.late
       THEN /\ boot' = [NoAssets(boot) EXCEPT !.abandoned = TRUE]
            /\ UNCHANGED <<mem, nvs, faults>>
       ELSE IF boot.assets = NoDeployment \/ mem.pending.of.rev # boot.assets.rev \/ mem.trial # 0
       THEN UNCHANGED <<boot, mem, nvs, faults>>
       ELSE IF ~MayBeginTrial(mem)
       THEN boot' = NoAssets(boot) /\ UNCHANGED <<mem, nvs, faults>>
       ELSE \E ok \in BOOLEAN :
               /\ SaveStateLocked(BeginTrial(mem), ok)
               /\ mem' = IF ok THEN BeginTrial(mem) ELSE mem
               /\ boot' = IF ok THEN boot ELSE NoAssets(boot)
    /\ ui' = [ui EXCEPT !.pc = "show", !.shown = boot'.assets]
    /\ UNCHANGED <<files, jobs, wants, worker, tried, budget>>

(***************************************************************************)
(* app_main after the boot: first frame, animation, confirmation.          *)
(***************************************************************************)
Animate(started) ==
    ui' = [ui EXCEPT !.pc = "loop", !.animating = started, !.confirm = ui.shown # NoDeployment]

\* RejectBootCandidate, then the built-in animation instead.
RejectBootCandidate ==
    /\ ui.shown # NoDeployment
    /\ boot' = [NoAssets(boot) EXCEPT !.abandoned = TRUE]
    /\ mem' = RecoverTrial(mem)
    /\ IF mem.trial = 0 THEN UNCHANGED <<nvs, faults>>
       ELSE \E ok \in BOOLEAN : SaveStateLocked(mem', ok)
    /\ \E started \in BOOLEAN :
          ui' = [ui EXCEPT !.pc = "loop", !.animating = started, !.shown = NoDeployment]

StartAnimation ==
    /\ ui.pc = "show"
    /\ \/ Animate(TRUE) /\ UNCHANGED <<mem, nvs, boot, faults>>
       \/ ui.shown = NoDeployment /\ Animate(FALSE) /\ UNCHANGED <<mem, nvs, boot, faults>>
       \/ RejectBootCandidate
    /\ UNCHANGED <<files, jobs, wants, worker, tried, budget>>

AnimationDone ==
    /\ ui.pc = "loop" /\ ui.animating
    /\ ui' = [ui EXCEPT !.animating = FALSE]
    /\ boot' = [boot EXCEPT !.playing = FALSE]
    /\ UNCHANGED <<mem, durable, jobs, wants, worker, tried, budget, faults>>

\* Tried again at every pass of the main loop until it succeeds.
ConfirmBootHealthy ==
    /\ ui.pc = "loop" /\ ~ui.animating /\ ui.confirm
    /\ boot.candidate /\ ~boot.abandoned
    /\ \/ /\ mem.pending = NoRelease
          /\ ui' = [ui EXCEPT !.confirm = FALSE] /\ status' = "other"
          /\ UNCHANGED <<mem, nvs, faults>>
       \/ /\ mem.pending # NoRelease /\ MayConfirmTrial(mem, boot.selected)
          /\ \E ok \in BOOLEAN :
                /\ SaveStateLocked(ConfirmTrial(mem), ok)
                /\ mem' = IF ok THEN ConfirmTrial(mem) ELSE mem
                /\ status' = IF ok THEN "other" ELSE "failed"
                /\ ui' = [ui EXCEPT !.confirm = ~ok]
    /\ UNCHANGED <<files, boot, desired, failures, waiting, wants, worker, tried, budget>>

(***************************************************************************)
(* Requests: MQTT shadow, main loop, Themes app.                           *)
(***************************************************************************)
Settled == UNCHANGED <<durable, boot, ui, tried, restarts>>
Call    == calls < MaxCalls /\ calls' = calls + 1

\* At most one worker; a retry delay holds the download back.
Wanted == \/ requested'
          \/ desired' # NoDeployment /\ ~waiting'

\* A task that cannot be created: the status, state until then, becomes deferred_busy.
CreateWorker(state) ==
    \E created \in BOOLEAN :
       /\ Done(created)
       /\ worker' = IF created THEN [NoWorker EXCEPT !.pc = "start"] ELSE NoWorker
       /\ status' = IF created THEN state ELSE "other"

ScheduleWorker(state) ==
    IF Wanted /\ worker.pc = "none"
    THEN CreateWorker(state)
    ELSE status' = state /\ UNCHANGED <<worker, faults>>

\* A deployment of the trusted publisher must be newer than all that is known;
\* one of another publisher only newer than the one that waits for trust.
Ignored(d) ==
    IF d.key # mem.key
    THEN desired.key = d.key /\ d.rev <= desired.rev
    ELSE \/ ~ShouldAccept(mem, d.rev)
         \/ d.rev = mem.latest /\ desired = NoDeployment /\ status = "failed"
         \/ d.rev = mem.latest /\ desired # NoDeployment

ApplyDesired ==
    /\ ui.pc = "loop" /\ Call
    /\ \E d \in Deployments :
          /\ ~Ignored(d)
          /\ mem' = [mem EXCEPT !.latest = d.rev]
          /\ desired' = d
          /\ failures' = 0 /\ waiting' = FALSE
          /\ requested' = (requested \/ publisher # d.key)
    /\ ScheduleWorker("other")
    /\ Settled /\ UNCHANGED publisher

OnNetworkReady ==
    /\ ui.pc = "loop"
    /\ requested' = (requested \/ publisher = NoKey)
    /\ UNCHANGED <<mem, desired, failures, waiting, publisher, calls>>
    /\ ScheduleWorker(status)
    /\ Settled

RequestPublisher ==
    /\ ui.pc = "loop" /\ Call /\ ~requested
    /\ requested' = TRUE
    /\ UNCHANGED <<mem, desired, failures, waiting, publisher>>
    /\ ScheduleWorker(status)
    /\ Settled

\* The user accepts the displayed key; another identity starts a new epoch.
NewEpoch(d) == [Blank EXCEPT !.key = publisher,
                             !.latest = IF d.key = publisher THEN d.rev ELSE 0]

ConfirmPublisher ==
    /\ ui.pc = "loop" /\ Call /\ publisher # NoKey /\ worker.pc # "fetch"
    /\ LET reset == mem.key # publisher
           next  == IF reset THEN NewEpoch(desired) ELSE mem
       IN \/ /\ nvs' = next /\ mem' = next
             /\ IF reset
                THEN /\ tried' = {}
                     /\ desired' = IF desired.key = publisher THEN desired ELSE NoDeployment
                ELSE UNCHANGED <<tried, desired>>
             /\ UNCHANGED <<failures, waiting, wants>>
             /\ ScheduleWorker(IF reset THEN "other" ELSE status)
          \/ /\ SaveStateLocked(next, FALSE)
             /\ tried' = IF reset /\ nvs' = next THEN {} ELSE tried
             /\ UNCHANGED <<mem, jobs, wants, worker>>
    /\ UNCHANGED <<files, boot, ui, restarts>>

ForgetPublisher ==
    /\ ui.pc = "loop" /\ Call
    /\ LET next == [mem EXCEPT !.key = NoKey] IN
       \E ok \in BOOLEAN : SaveStateLocked(next, ok) /\ mem' = IF ok THEN next ELSE mem
    /\ UNCHANGED <<files, boot, ui, jobs, wants, worker, tried, restarts>>

\* The colours the user chose are one more field of the same record.
SetLocalTheme ==
    /\ ui.pc = "loop" /\ Call
    /\ \E ok \in BOOLEAN : SaveStateLocked(mem, ok)
    /\ UNCHANGED <<mem, files, boot, ui, jobs, wants, worker, tried, restarts>>

(***************************************************************************)
(* The download task: WorkerTask, RunWorker, DownloadDesired.              *)
(***************************************************************************)
Go(label)  == worker' = [worker EXCEPT !.pc = label]
Still      == UNCHANGED <<mem, boot, ui, tried, budget>>
Downloading == {"prepare", "request", "store", "receive", "unlinkRap",
                "unlinkManifest", "renameRap", "renameManifest", "commit"}

\* Boot loading, animation and trials hold the worker back, and so may other services.
\* Not the code: an open trial does not hold the worker back.
MayDownloadInTrial == ~boot.running /\ ~boot.playing

MayDownload == ~boot.running /\ ~boot.playing /\ mem.trial = 0

StartWorker(label) ==
    worker.pc = "start" /\ worker' = [worker EXCEPT !.pc = label, !.handled = mem.latest]

WorkerDefers ==
    /\ StartWorker("stop")
    /\ status' = "other"
    /\ Still /\ UNCHANGED <<durable, desired, failures, waiting, wants, faults>>

WorkerPasses ==
    /\ MayDownload
    /\ StartWorker(IF requested THEN "fetch" ELSE "pick")
    /\ requested' = FALSE
    /\ Still /\ UNCHANGED <<durable, jobs, publisher, faults>>

FetchPublisher ==
    /\ worker.pc = "fetch"
    /\ publisher' \in Keys \cup {publisher}
    /\ Go("pick")
    /\ Still /\ UNCHANGED <<durable, jobs, requested, faults>>

WorkerPicks ==
    /\ worker.pc = "pick"
    /\ worker' = [worker EXCEPT !.job = desired,
                                !.pc = IF desired = NoDeployment THEN "stop" ELSE "prepare"]
    /\ Still /\ UNCHANGED <<durable, jobs, wants, faults>>

\* can_continue in DownloadDesired
CanContinue == mem.latest = worker.job.rev /\ desired = worker.job

\* SetStatus after the outcome is known: a request may arrive in between.
Supersede ==
    /\ worker.pc = "supersede"
    /\ Go("clear") /\ status' = "superseded"
    /\ Still /\ UNCHANGED <<durable, desired, failures, waiting, wants, faults>>

Fail ==
    /\ worker.pc = "fail"
    /\ Go("clear") /\ status' = "failed"
    /\ Still /\ UNCHANGED <<durable, desired, failures, waiting, wants, faults>>

\* DeferDownload: a few delays, then the deployment has failed.
DeferDownload ==
    /\ worker.pc = "defer"
    /\ Go("clear")
    /\ failures' = IF failures > Delays THEN failures ELSE failures + 1
    /\ IF failures < Delays THEN waiting' = TRUE /\ status' = "other"
                       ELSE waiting' = waiting /\ status' = "failed"
    /\ Still /\ UNCHANGED <<durable, desired, wants, faults>>

\* Credentials, ticket or manifest fail, for now or for good.
RequestFails ==
    /\ worker.pc \in {"prepare", "request"}
    /\ \/ CanContinue /\ (Go("defer") \/ Go("fail")) /\ UNCHANGED faults
       \/ ~CanContinue /\ Go("supersede") /\ UNCHANGED faults
       \/ worker.pc = "request" /\ Fault /\ (Go("defer") \/ Go("fail"))   \* memory, ticket
    /\ Still /\ UNCHANGED <<durable, jobs, wants>>

\* Trust is checked, and the slot chosen that the active release does not use.
FreeSlotOfPending(m) == IF m.pending.slot = "a" THEN "b" ELSE "a"   \* not the code
FreeSlot(m) == IF m.active.slot = "a" THEN "b" ELSE "a"

ChooseSlot ==
    /\ worker.pc = "prepare"
    /\ IF worker.job.key = mem.key
       THEN worker' = [worker EXCEPT !.pc = "request", !.slot = FreeSlot(mem)]
       ELSE Go("clear")
    /\ status' = "other"
    /\ Still /\ UNCHANGED <<durable, desired, failures, waiting, wants, faults>>

\* Ticket and signed manifest.
ManifestVerified ==
    /\ worker.pc = "request" /\ CanContinue
    /\ Go(IF worker.job.mode = Custom THEN "store" ELSE "commit")
    /\ Still /\ UNCHANGED <<durable, jobs, wants, faults>>

Discarded(slot) == [files EXCEPT ![slot].partial = NoDeployment]

ManifestRefused ==
    /\ worker.pc = "request" /\ CanContinue
    /\ files' = Discarded(worker.slot)
    /\ Go("fail")
    /\ Still /\ UNCHANGED <<nvs, jobs, wants, faults>>

\* A durable prefix is kept only if it belongs to the same signed release.
SamePartial == files[worker.slot].partial = worker.job

\* The metadata file is replaced by a rename, which FATFS refuses onto a file
\* that exists: it exists exactly when the partial download is kept.
MetaReplaced == ~SamePartial

OpenPartial ==
    /\ worker.pc = "store"
    /\ LET kept == IF SamePartial THEN files ELSE Discarded(worker.slot) IN
       \/ MetaReplaced /\ files' = kept /\ Go("receive") /\ UNCHANGED faults
       \/ ~MetaReplaced /\ files' = kept /\ Go("fail") /\ UNCHANGED faults
       \/ files' \in {files, kept} /\ Go("fail") /\ Fault     \* card absent, full or broken
    /\ Still /\ UNCHANGED <<nvs, jobs, wants>>

StillTrusted == mem.latest = worker.job.rev /\ mem.key = worker.job.key

\* The artifact arrives, its hash and metadata are right, its manifest is written.
Received ==
    /\ StillTrusted
    /\ files' = [files EXCEPT ![worker.slot].partial = worker.job]
    /\ Go("unlinkRap") /\ UNCHANGED faults

Interrupted ==
    /\ files' \in {files, [files EXCEPT ![worker.slot].partial = worker.job]}
    /\ Go("defer") /\ UNCHANGED faults

\* Wrong range, length, hash or metadata; a publisher, deployment or account that changed.
Dropped ==
    /\ files' = Discarded(worker.slot)
    /\ \/ Go("fail") /\ UNCHANGED faults
       \/ ~StillTrusted /\ Go("supersede") /\ UNCHANGED faults
       \/ Fault /\ Go("supersede")

ReceiveArtifact ==
    /\ worker.pc = "receive"
    /\ Received \/ Interrupted \/ Dropped
    /\ Still /\ UNCHANGED <<nvs, jobs, wants>>

\* Installation: each operation on the slot may be the last one before a power loss.
Slot == files[worker.slot]
SlotBecomes(record) == files' = [files EXCEPT ![worker.slot] = record]

InstallStep(from, to, record) ==
    /\ worker.pc = from
    /\ SlotBecomes(record) /\ Go(to)
    /\ Still /\ UNCHANGED <<nvs, jobs, wants, faults>>

UnlinkRap      == InstallStep("unlinkRap", "unlinkManifest", [Slot EXCEPT !.rap = NoDeployment])
UnlinkManifest == InstallStep("unlinkManifest", "renameRap",
                              [Slot EXCEPT !.manifest = NoDeployment])

RenameRap ==
    /\ InstallStep("renameRap", "renameManifest",
                   [Slot EXCEPT !.rap = Slot.partial, !.partial = NoDeployment])
    /\ Slot.rap = NoDeployment

RenameManifest ==
    /\ InstallStep("renameManifest", "commit", [Slot EXCEPT !.manifest = worker.job])
    /\ Slot.manifest = NoDeployment

RenameFails ==
    /\ worker.pc \in {"renameRap", "renameManifest"}
    /\ Fault
    /\ SlotBecomes([Slot EXCEPT !.partial = NoDeployment])
    /\ Go("fail")
    /\ Still /\ UNCHANGED <<nvs, jobs, wants>>

\* The package becomes pending, unless something newer has arrived.
CommitPending ==
    /\ worker.pc = "commit"
    /\ IF StillTrusted
       THEN LET next == [mem EXCEPT !.pending = Release(worker.job, worker.slot)] IN
            \E ok \in BOOLEAN :
               /\ SaveStateLocked(next, ok)
               /\ mem' = IF ok THEN next ELSE mem
               /\ status' = IF ok THEN "other" ELSE "failed"
               /\ worker' = [worker EXCEPT !.pc = "clear", !.ok = ok]
       ELSE /\ status' = "superseded" /\ Go("clear")
            /\ UNCHANGED <<mem, nvs, faults>>
    /\ UNCHANGED <<files, boot, ui, desired, failures, waiting, wants, tried, budget>>

\* Only the outcome of the deployment that is still wanted ends it.
FinishedInstalled == desired = worker.job /\ worker.ok   \* not the code
Finished == desired = worker.job /\ (worker.ok \/ status = "failed")

WorkerClears ==
    /\ worker.pc = "clear"
    /\ Go("stop")
    /\ desired' = IF Finished THEN NoDeployment ELSE desired
    /\ Still /\ UNCHANGED <<durable, status, failures, waiting, wants, faults>>

\* worker_running_ = false, then the task looks once more for new work.
Changed == desired # NoDeployment /\ (mem.latest # worker.handled \/ status = "superseded")

WorkerStops ==
    /\ worker.pc = "stop"
    /\ UNCHANGED <<desired, failures, waiting, wants>>
    /\ IF Changed /\ Wanted
       THEN CreateWorker(status)
       ELSE worker' = NoWorker /\ UNCHANGED <<status, faults>>
    /\ Still /\ UNCHANGED durable

DelayElapses ==
    /\ waiting
    /\ waiting' = FALSE
    /\ Still /\ UNCHANGED <<durable, desired, status, failures, wants, worker, faults>>

(***************************************************************************)
(* Power loss, crash or restart: RAM is gone, a download leaves a prefix.  *)
(***************************************************************************)
Adopted(d) == RecoverTrial(nvs).active.of = d

Restart ==
    /\ restarts < MaxRestarts
    /\ restarts' = restarts + 1
    /\ tried' = IF mem.trial # 0 /\ ui.shown = mem.pending.of /\ ~Adopted(ui.shown)
                THEN tried \cup {ui.shown} ELSE tried
    /\ files' \in (IF worker.pc = "receive"
                   THEN {files, [files EXCEPT ![worker.slot].partial = worker.job]}
                   ELSE {files})
    /\ mem' = Blank /\ boot' = ColdBoot /\ ui' = ColdUi /\ worker' = NoWorker
    /\ desired' = NoDeployment /\ status' = "other" /\ failures' = 0 /\ waiting' = FALSE
    /\ publisher' = NoKey /\ requested' = FALSE
    /\ UNCHANGED <<nvs, calls, faults>>

-----------------------------------------------------------------------------
\* A device as it leaves the factory, or one that has adopted its first package.
Init ==
    /\ \/ nvs = Blank /\ files = [s \in Slots |-> NoFiles]
       \/ \E d \in Packages :
             /\ \A e \in Deployments : d.rev <= e.rev
             /\ nvs = [Blank EXCEPT !.active = Release(d, "a"), !.latest = d.rev, !.key = d.key]
             /\ files = [s \in Slots |->
                           IF s = "a" THEN [NoFiles EXCEPT !.rap = d, !.manifest = d] ELSE NoFiles]
    /\ mem = Blank /\ boot = ColdBoot /\ ui = ColdUi /\ worker = NoWorker
    /\ desired = NoDeployment /\ status = "other" /\ failures = 0 /\ waiting = FALSE
    /\ publisher = NoKey /\ requested = FALSE
    /\ tried = {} /\ restarts = 0 /\ calls = 0 /\ faults = 0

BootTask == BootRead \/ BootReject \/ BootReadActive \/ BootPublish \/ BootEnd
AppMain  == \/ LoadState \/ BeginBootLoad \/ WaitBootAssets \/ TakeBootAssets
            \/ StartAnimation \/ AnimationDone \/ ConfirmBootHealthy
Worker   == \/ FetchPublisher \/ WorkerPicks \/ RequestFails \/ ChooseSlot
            \/ ManifestVerified \/ ManifestRefused \/ OpenPartial \/ ReceiveArtifact
            \/ UnlinkRap \/ UnlinkManifest \/ RenameRap \/ RenameManifest
            \/ RenameFails \/ CommitPending \/ Supersede \/ Fail \/ DeferDownload
            \/ WorkerClears \/ WorkerStops
Callers  == ApplyDesired \/ RequestPublisher \/ ConfirmPublisher \/ ForgetPublisher \/ SetLocalTheme

Next == \/ AppMain \/ BootTask \/ BudgetEnds \/ Worker \/ WorkerDefers \/ WorkerPasses
        \/ OnNetworkReady \/ DelayElapses \/ Callers \/ Restart

Spec == Init /\ [][Next]_vars

\* Tasks are scheduled, delays elapse, MQTT is connected again and again (the main
\* loop then calls OnNetworkReady), and the other services are not busy for ever.
FairSpec == /\ Spec
            /\ WF_vars(AppMain) /\ WF_vars(BootTask) /\ WF_vars(Worker)
            /\ WF_vars(OnNetworkReady) /\ WF_vars(DelayElapses)
            /\ WF_vars(WorkerDefers \/ WorkerPasses) /\ SF_vars(WorkerPasses)

(***************************************************************************)
(* Properties.                                                             *)
(***************************************************************************)
\* Every variable keeps its type.
TypeOK ==
    /\ {mem, nvs} \subseteq
          [active : Releases \cup {NoRelease}, pending : Releases \cup {NoRelease},
           previous : Releases \cup {NoRelease}, trial : Revisions \cup {0},
           rejected : Revisions \cup {0}, latest : Revisions \cup {0},
           key : Keys \cup {NoKey}]
    /\ files \in [Slots -> [DOMAIN NoFiles -> Packages \cup {NoDeployment}]]
    /\ desired \in Deployments \cup {NoDeployment}
    /\ status \in {"other", "failed", "superseded"}
    /\ failures \in 0..(Delays + 1) /\ {waiting, requested} \subseteq BOOLEAN
    /\ publisher \in Keys \cup {NoKey} /\ tried \subseteq Deployments
    /\ boot.assets \in Deployments \cup {NoDeployment}
    /\ ui.shown \in Deployments \cup {NoDeployment}
    /\ worker.slot \in Slots \cup {""}

\* Whatever the power loss interrupts, the release that the next boot would fall
\* back to is still complete in its slot: a download never reuses that slot.
LastGoodIntact ==
    LET good == RecoverTrial(nvs).active IN
    good.of \in Packages => /\ files[good.slot].rap = good.of
                            /\ files[good.slot].manifest = good.of

\* A package is on the screen only when it is the adopted one or NVS already says
\* that this boot is its trial.
PackageTrialPersisted ==
    [][ui'.shown # ui.shown /\ ui'.shown \in Packages
         => \/ nvs'.active.of = ui'.shown
            \/ nvs'.pending.of = ui'.shown /\ nvs'.trial = ui'.shown.rev]_vars

\* A release whose trial ended before it was adopted is never shown again while
\* its publisher stays trusted.
TriedOnce == [][ui'.shown # ui.shown => ui'.shown \notin tried]_vars

\* What waits for the next boot is newer than what is adopted and was never refused,
\* however deliveries, trials, refusals and changes of publisher interleave.
NeverStale ==
    mem.pending # NoRelease => /\ mem.pending.of.rev > mem.active.of.rev
                               /\ mem.pending.of.rev > mem.rejected

\* No download while boot resources load or play or a trial is open.
DownloadAfterBoot ==
    worker.pc \in Downloading => ~boot.running /\ ~boot.playing /\ mem.trial = 0

\* A deployment of the trusted publisher is installed, fails or is replaced.
DesiredSettles ==
    (desired # NoDeployment /\ desired.key = mem.key)
        ~> (desired = NoDeployment \/ desired.key # mem.key)

\* A trial ends, adopted or recovered.
TrialEnds == mem.trial # 0 ~> mem.trial = 0

\* docs/appearance-customization.md: a durable prefix survives retries.
PrefixResumed ==
    [][worker.pc = "store" /\ SamePartial /\ worker'.pc # "store"
         => worker'.pc = "receive" \/ faults' # faults \/ restarts' # restarts]_vars
=============================================================================
