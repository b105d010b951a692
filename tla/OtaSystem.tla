----------------------------- MODULE OtaSystem -----------------------------
(***************************************************************************)
(* Firmware update end to end: the main application's updater              *)
(* (main/phone_os/ota_update_service.cc), the immutable Recovery            *)
(* (recovery/main/recovery_main.cc), the durable state they share (the OTA  *)
(* journal, otadata, the single main slot, the SD card) and the server.     *)
(* The bootloader, the SD card and the server are external.                 *)
(*                                                                         *)
(* Each task of the program is a process with a label and a local record.   *)
(* A step ends where the code waits: for the network, the SD card, the      *)
(* server, a delay, or between two durable writes.  The journal is          *)
(* RecordStore, which OtaJournal implements.                                *)
(***************************************************************************)
EXTENDS Naturals, FiniteSets

CONSTANTS
    Tasks,          \* OTA tasks of the server; a task also names its image
    Base,           \* the image flashed at the factory
    None,
    Budgets         \* bounds, one per behaviour: the number of tasks the server
                    \* hands out, of resets (power losses, crashes, watchdog) and
                    \* of failed journal, otadata, flash, SD or task operations

Images  == Tasks \cup {Base}
Partial == "partial"    \* a main slot erased and not completely written
Damaged == "damaged"    \* a file whose content is not the one it should be

Procs == {"recovery", "boot", "mqtt", "retry", "download", "staged", "report"}

ASSUME OtaAssumption ==
    /\ None \notin Images \cup Procs /\ Base \notin Tasks
    /\ Partial \notin Images
    /\ Budgets \subseteq [tasks : Nat, resets : Nat, faults : Nat]

Phases == {"idle", "awaiting_staged_ack", "pending", "applying", "ready_to_boot",
           "restoring", "rollback_ready", "rollback_booting", "confirmed",
           "rollback", "failed", "report_acknowledged"}

VARIABLES
    journal,    \* the OtaUpdateRecord in the ota_state partition
    boot,       \* otadata: erased selects Recovery, else the state of the main slot
    flash,      \* content of the main slot ota_0
    sd,         \* pending.bin, pending.sig (the task it signs), installed.bin
    mode,       \* which application runs; halted: Recovery has given up
    pc, loc,    \* label and local record of each process
    confirmed,  \* local_boot_confirmed_
    handoff,    \* staged_handoff_running_: the process that runs it, or None
    acked,      \* acknowledged_task_no_
    timer,      \* report_retry_timer_ is armed
    connected,  \* MQTT has connected since this boot
    result,     \* result[t]: what the server was told of t, for its tasks
    resets,     \* how many resets and failed operations
    faults      \* may still happen
durable == <<journal, boot, flash, sd>>
ram  == <<mode, pc, loc, confirmed, handoff, acked, timer, connected>>
vars == <<durable, ram, result, resets, faults>>

BlankRecord == [phase |-> "idle", task |-> None, pending |-> None,
                installed |-> None, error |-> FALSE]

(***************************************************************************)
(* Steps, durable operations and their failures.                           *)
(***************************************************************************)
Go(p, label, rec) == pc' = [pc EXCEPT ![p] = label] /\ loc' = [loc EXCEPT ![p] = rec]

Fault == faults > 0 /\ faults' = faults - 1
Done(ok) == IF ok THEN UNCHANGED faults ELSE Fault

ValidateRecord(r) ==
    /\ r.phase # "idle" => r.task # None
    /\ r.phase \in {"awaiting_staged_ack", "pending", "applying", "ready_to_boot", "confirmed"}
          => r.pending # None /\ r.installed # None
    /\ r.phase \in {"restoring", "rollback_ready", "rollback_booting", "rollback"}
          => r.installed # None
    /\ r.phase = "failed" => r.error

\* SaveOtaUpdateRecord: a save that fails may have been written all the same.
Save(r, ok) ==
    IF ValidateRecord(r)
    THEN Done(ok) /\ journal' \in (IF ok THEN {r} ELSE {journal, r})
    ELSE ~ok /\ UNCHANGED <<journal, faults>>

Cleared(r) == [BlankRecord EXCEPT !.installed = r.installed]

\* What the bootloader does with otadata b, and the RAM of the application it starts.
Restart(b) ==
    /\ boot' = IF b = "new" THEN "pending" ELSE IF b = "pending" THEN "aborted" ELSE b
    /\ LET selected == b \in {"new", "valid"} /\ flash' # Partial IN
       /\ mode' = IF selected THEN "main" ELSE "recovery"
       /\ pc' = [p \in Procs |-> IF p = "recovery" /\ ~selected THEN "start"
                                 ELSE IF p = "boot" /\ selected THEN "starting" ELSE "idle"]
    /\ loc' = [p \in Procs |-> BlankRecord]
    /\ confirmed' = FALSE /\ handoff' = None /\ acked' = None
    /\ timer' = FALSE /\ connected' = FALSE

Reset ==
    /\ resets > 0 /\ resets' = resets - 1
    /\ UNCHANGED <<journal, flash, sd, result, faults>>
    /\ Restart(boot)

SdDamage ==
    /\ Fault
    /\ \/ sd.pending # None /\ sd' = [sd EXCEPT !.pending = Damaged]
       \/ sd.installed # None /\ sd' = [sd EXCEPT !.installed = Damaged]
       \/ sd.sig # None /\ sd' = [sd EXCEPT !.sig = None]
    /\ UNCHANGED <<journal, boot, flash, ram, result, resets>>

(***************************************************************************)
(* Recovery.                                                               *)
(***************************************************************************)
MainWasInvalid == boot = "aborted"
IsValidImage == flash # Partial

Halt == /\ mode' = "halted"
        /\ Go("recovery", "idle", BlankRecord)
        /\ UNCHANGED <<confirmed, handoff, acked, timer, connected>>

RecoveryGo(label, rec) ==
    Go("recovery", label, rec) /\ UNCHANGED <<mode, confirmed, handoff, acked, timer, connected>>

\* RestartInto: select the main slot and restart; the selection may fail.
RestartIntoMain(ok) == IF ok THEN Restart("new") ELSE Halt /\ UNCHANGED boot

IdleLike == {"idle", "awaiting_staged_ack", "confirmed", "failed", "report_acknowledged"}

RecoveryStart ==
    /\ pc["recovery"] = "start"
    /\ UNCHANGED <<flash, sd, result, resets>>
    /\ LET r == journal
           BootMain == \E ok \in BOOLEAN :
                          Done(ok) /\ UNCHANGED journal /\ RestartIntoMain(ok)
           Stay == UNCHANGED <<journal, boot, faults>> /\ Halt
           ToMount == UNCHANGED <<journal, boot, faults>> /\ RecoveryGo("mount", r)
           rooted == [r EXCEPT !.error = TRUE]
       IN
       \/ Fault /\ UNCHANGED <<journal, boot>> /\ Halt           \* the journal cannot be read
       \/ /\ r.phase \in IdleLike
          /\ IF IsValidImage /\ ~MainWasInvalid THEN BootMain ELSE Stay
       \/ r.phase = "rollback_booting" /\ Stay
       \/ r.phase = "rollback_ready"
          /\ UNCHANGED <<journal, boot, faults>> /\ RecoveryGo("boot_restored", r)
       \/ r.phase = "rollback" /\ (IF IsValidImage THEN BootMain ELSE Stay)
       \/ /\ r.phase = "ready_to_boot"
          /\ IF IsValidImage /\ ~MainWasInvalid THEN BootMain
             ELSE IF r.error THEN ToMount
             ELSE \E ok \in BOOLEAN :
                     /\ Save(rooted, ok) /\ UNCHANGED boot
                     /\ IF ok THEN RecoveryGo("mount", rooted) ELSE Halt
       \/ r.phase \in {"pending", "applying", "restoring"} /\ ToMount

RecoveryMount ==
    LET r == loc["recovery"] IN
    /\ pc["recovery"] = "mount"
    /\ UNCHANGED <<boot, flash, sd, result, resets>>
    /\ \/ /\ UNCHANGED <<journal, faults>>
          /\ RecoveryGo(IF r.phase \in {"ready_to_boot", "restoring"} THEN "restore"
                        ELSE "candidate", r)
       \/ /\ Fault /\ Halt                                       \* no card
          /\ journal' \in (IF r.error THEN {journal} ELSE {journal, [r EXCEPT !.error = TRUE]})

CandidateValid(r) == sd.sig = r.task /\ sd.pending = r.pending
BackupValid(r) == r.installed # None /\ sd.installed = r.installed

RecoveryCandidate ==
    LET r == loc["recovery"]
        rejected == [r EXCEPT !.error = TRUE]
        applying == [r EXCEPT !.phase = "applying", !.error = FALSE]
        failed == [rejected EXCEPT !.phase = "failed"]
    IN
    /\ pc["recovery"] = "candidate"
    /\ UNCHANGED <<flash, sd, result, resets>>
    /\ \/ /\ ~CandidateValid(r) /\ r.phase = "applying"
          /\ UNCHANGED <<journal, boot, faults>>
          /\ RecoveryGo("restore", rejected)
       \/ /\ ~CandidateValid(r) /\ r.phase # "applying"
          /\ \E ok \in BOOLEAN :
                /\ Save(failed, ok) /\ UNCHANGED boot
                /\ IF ok /\ ~MainWasInvalid /\ IsValidImage
                   THEN RecoveryGo("boot_rejected", failed) ELSE Halt
       \/ /\ CandidateValid(r) /\ ~BackupValid(r)
          /\ UNCHANGED <<journal, boot, faults>> /\ Halt
       \/ /\ CandidateValid(r) /\ BackupValid(r)
          /\ UNCHANGED boot
          /\ \E ok \in BOOLEAN :
                Save(applying, ok) /\ (IF ok THEN RecoveryGo("erase", applying) ELSE Halt)

\* WriteImage: erase, then write while hashing; what is not the expected image,
\* or cannot be written, is never completed.
RecoveryErase(from, to) ==
    /\ pc["recovery"] = from
    /\ UNCHANGED <<journal, boot, sd, result, resets>>
    /\ \/ flash' = Partial /\ RecoveryGo(to, loc["recovery"]) /\ UNCHANGED faults
       \/ /\ Fault /\ flash' \in {flash, Partial}
          /\ IF from = "erase" THEN RecoveryGo("restore", [loc["recovery"] EXCEPT !.error = TRUE])
             ELSE Halt

RecoveryWrite ==
    LET r == loc["recovery"] IN
    /\ pc["recovery"] = "write"
    /\ UNCHANGED <<journal, boot, sd, result, resets>>
    /\ \/ /\ sd.pending = r.pending
          /\ flash' = r.pending
          /\ RecoveryGo("written", r) /\ UNCHANGED faults
       \/ /\ IF sd.pending = r.pending THEN Fault ELSE UNCHANGED faults
          /\ UNCHANGED flash
          /\ RecoveryGo("restore", [r EXCEPT !.error = TRUE])

RecoveryReadyToBoot ==
    LET ready == [loc["recovery"] EXCEPT !.phase = "ready_to_boot", !.error = FALSE] IN
    /\ pc["recovery"] = "written"
    /\ \E ok \in BOOLEAN :
          Save(ready, ok)
          /\ (IF ok THEN RecoveryGo("boot_written", ready) ELSE Halt)
    /\ UNCHANGED <<boot, flash, sd, result, resets>>

\* RestartInto, after the image is written or after the candidate is rejected.
RecoveryBootWritten ==
    /\ pc["recovery"] \in {"boot_written", "boot_rejected"}
    /\ UNCHANGED <<journal, flash, sd, result, resets>>
    /\ \E ok \in BOOLEAN : Done(ok) /\ RestartIntoMain(ok)

\* Bug: the main slot is erased before the restoring phase is durable.
RestoringUnsaved(r, ok) == ok /\ UNCHANGED <<journal, faults>>
SaveRestoring(r, ok) == Save(r, ok)

RecoveryRestore ==
    LET restoring == [loc["recovery"] EXCEPT !.phase = "restoring", !.error = TRUE] IN
    /\ pc["recovery"] = "restore"
    /\ IF restoring.installed = None THEN Halt /\ UNCHANGED <<journal, faults>>
       ELSE \E ok \in BOOLEAN :
               SaveRestoring(restoring, ok)
               /\ (IF ok THEN RecoveryGo("verify_backup", restoring) ELSE Halt)
    /\ UNCHANGED <<boot, flash, sd, result, resets>>

RecoveryVerifyBackup ==
    LET r == loc["recovery"] IN
    /\ pc["recovery"] = "verify_backup"
    /\ IF BackupValid(r) THEN RecoveryGo("erase_restore", r) ELSE Halt
    /\ UNCHANGED <<durable, result, resets, faults>>

RecoveryRewrite ==
    LET r == loc["recovery"] IN
    /\ pc["recovery"] = "rewrite"
    /\ UNCHANGED <<journal, boot, sd, result, resets>>
    /\ \/ /\ sd.installed = r.installed
          /\ flash' = r.installed
          /\ RecoveryGo("rewritten", r) /\ UNCHANGED faults
       \/ /\ IF sd.installed = r.installed THEN Fault ELSE UNCHANGED faults
          /\ UNCHANGED flash /\ Halt

RecoveryRollbackReady ==
    LET ready == [loc["recovery"] EXCEPT !.phase = "rollback_ready"] IN
    /\ pc["recovery"] = "rewritten"
    /\ \E ok \in BOOLEAN :
          Save(ready, ok) /\ (IF ok THEN RecoveryGo("boot_restored", ready) ELSE Halt)
    /\ UNCHANGED <<boot, flash, sd, result, resets>>

\* RestartRestoredImage: select the main slot, then mark the boot, then restart.
RecoverySelectRestored ==
    /\ pc["recovery"] = "boot_restored"
    /\ UNCHANGED <<journal, flash, sd, result, resets>>
    /\ IF IsValidImage
       THEN \E ok \in BOOLEAN :
               /\ Done(ok)
               /\ IF ok THEN boot' = "new" /\ RecoveryGo("mark_restored", loc["recovery"])
                  ELSE UNCHANGED boot /\ Halt
       ELSE Halt /\ UNCHANGED <<boot, faults>>

RecoveryMarkRestored ==
    LET booting == [loc["recovery"] EXCEPT !.phase = "rollback_booting"] IN
    /\ pc["recovery"] = "mark_restored"
    /\ UNCHANGED <<flash, sd, result, resets>>
    /\ \E ok \in BOOLEAN :
          /\ Save(booting, ok)
          /\ IF ok THEN Restart("new")
             ELSE boot' \in {boot, "erased"} /\ Halt   \* selecting Recovery again may fail

Recovery ==
    \/ RecoveryStart \/ RecoveryMount \/ RecoveryCandidate
    \/ RecoveryErase("erase", "write") \/ RecoveryWrite
    \/ RecoveryReadyToBoot \/ RecoveryBootWritten
    \/ RecoveryRestore \/ RecoveryVerifyBackup
    \/ RecoveryErase("erase_restore", "rewrite") \/ RecoveryRewrite
    \/ RecoveryRollbackReady \/ RecoverySelectRestored \/ RecoveryMarkRestored

(***************************************************************************)
(* The main application: boot confirmation.                                *)
(***************************************************************************)
\* main.cc starts WiFi, hence MQTT, after the call of ConfirmRunningImage.
Online == mode = "main" /\ pc["boot"] = "idle"
Busy == pc["download"] # "idle"
Confirming == \E p \in Procs : pc[p] \in {"saving", "resume"}

InstallPhases == {"pending", "applying", "restoring"}
\* Bug: nobody reports a rollback.
ReportPhasesButRollback == {"confirmed", "failed"}
ReportPhases == {"confirmed", "rollback", "failed"}

\* Bug: the flag of the handoff outlives it.
EndsFlagged(p) == Go(p, "idle", BlankRecord) /\ UNCHANGED handoff
\* The end of a process: busy_, staged_handoff_running_ and reporting_ are cleared.
Ends(p) == /\ Go(p, "idle", BlankRecord)
           /\ handoff' = IF handoff = p THEN None ELSE handoff
Ret(p, retry) ==        \* retry: ScheduleStateRetry was called
    /\ Ends(p)
    /\ timer' = (timer \/ retry)
    /\ UNCHANGED <<mode, confirmed, acked, connected>>
Step(p, label, rec) == Go(p, label, rec) /\ UNCHANGED <<mode, confirmed, handoff, acked, timer, connected>>

MayConfirm(phase) == phase \notin InstallPhases

\* Bug: the first boot of the restored image counts as one of the new image.
ConfirmedAnyway(r) == [r EXCEPT !.phase = "confirmed", !.error = FALSE]
ConfirmedRecord(r) ==
    IF r.phase = "ready_to_boot" THEN [r EXCEPT !.phase = "confirmed", !.error = FALSE]
    ELSE [r EXCEPT !.phase = "rollback", !.error = TRUE]

\* ConfirmRunningImage up to the save; an OnNetworkReady goes on when it succeeds.
Confirm(p) ==
    /\ \/ p = "boot" /\ pc[p] = "starting"
       \/ p # "boot" /\ pc[p] = "network_ready" /\ ~confirmed
    /\ UNCHANGED <<journal, flash, sd, result, resets>>
    /\ \/ /\ Confirming /\ Ret(p, TRUE) /\ UNCHANGED <<boot, faults>>
       \/ /\ ~Confirming /\ Fault /\ Ret(p, TRUE) /\ UNCHANGED boot  \* load or selection fails
       \/ /\ ~Confirming /\ ~MayConfirm(journal.phase)
          /\ boot' = "erased"
          /\ Step(p, "resume", BlankRecord) /\ UNCHANGED faults
       \/ /\ ~Confirming /\ MayConfirm(journal.phase)
          /\ boot' = IF boot = "pending" THEN "valid" ELSE boot
          /\ UNCHANGED faults
          /\ IF journal.phase \in {"ready_to_boot", "rollback_ready", "rollback_booting"}
             THEN Step(p, "saving", ConfirmedRecord(journal))
             ELSE /\ confirmed' = TRUE
                  /\ Go(p, IF p = "boot" THEN "idle" ELSE pc[p], BlankRecord)
                  /\ UNCHANGED <<mode, handoff, acked, timer, connected>>

ConfirmSave(p) ==
    /\ pc[p] = "saving"
    /\ UNCHANGED <<boot, flash, sd, result, resets>>
    /\ \E ok \in BOOLEAN :
          /\ Save(loc[p], ok)
          /\ IF ok
             THEN /\ confirmed' = TRUE
                  /\ Go(p, IF p = "boot" THEN "idle" ELSE "network_ready", BlankRecord)
                  /\ UNCHANGED <<mode, handoff, acked, timer, connected>>
             ELSE Ret(p, TRUE)

(***************************************************************************)
(* OnNetworkReady: MQTT connected, the retry timer, or a staging failure.   *)
(***************************************************************************)
MqttConnected ==
    /\ Online /\ pc["mqtt"] = "idle"
    /\ Go("mqtt", "network_ready", BlankRecord)
    /\ connected' = TRUE
    /\ UNCHANGED <<durable, mode, confirmed, handoff, acked, timer, result, resets, faults>>

TimerFires ==
    /\ mode = "main" /\ timer /\ pc["retry"] = "idle"
    /\ Go("retry", "network_ready", BlankRecord)
    /\ timer' = FALSE
    /\ UNCHANGED <<durable, mode, confirmed, handoff, acked, result, resets, faults, connected>>

\* xTaskCreate of another process q by p, which returns.
Start(p, q, label) ==
    /\ pc' = [pc EXCEPT ![q] = label, ![p] = "idle"]
    /\ loc' = [loc EXCEPT ![q] = BlankRecord, ![p] = BlankRecord]
    /\ timer' = FALSE
    /\ UNCHANGED <<mode, confirmed, acked, connected>>

MayHandOff == ~Busy /\ handoff = None

Dispatch(p) ==
    LET staged == journal.phase \in {"awaiting_staged_ack", "pending"} /\ MayHandOff
        report == journal.phase \in ReportPhases /\ pc["report"] = "idle"
    IN
    /\ pc[p] = "network_ready" /\ confirmed
    /\ UNCHANGED <<boot, flash, result, resets>>
    /\ \/ Fault /\ Ret(p, TRUE) /\ UNCHANGED <<journal, sd>>   \* load or task creation fails
       \/ /\ journal.phase = "report_acknowledged"
          /\ \E ok \in BOOLEAN :
                /\ Save(Cleared(journal), ok)
                /\ IF ok THEN /\ sd' = [sd EXCEPT !.sig = None] /\ acked' = None /\ Ends(p)
                              /\ UNCHANGED <<mode, confirmed, timer, connected>>
                   ELSE Ret(p, TRUE) /\ UNCHANGED sd
       \/ /\ staged /\ p = "retry"
          /\ Go(p, "verify", BlankRecord) /\ handoff' = p /\ timer' = FALSE
          /\ UNCHANGED <<mode, confirmed, acked, journal, sd, faults, connected>>
       \/ /\ staged /\ p # "retry"
          /\ Start(p, "staged", "verify") /\ handoff' = "staged"
          /\ UNCHANGED <<journal, sd, faults>>
       \/ /\ report
          /\ Start(p, "report", "report")
          /\ handoff' = IF handoff = p THEN None ELSE handoff
          /\ UNCHANGED <<journal, sd, faults>>
       \/ /\ ~staged /\ ~report /\ journal.phase # "report_acknowledged"
          /\ Ret(p, FALSE) /\ UNCHANGED <<journal, sd, faults>>

(***************************************************************************)
(* The download task: RunDownload.                                         *)
(***************************************************************************)
\* The server notifies, again and again, a task whose result it does not have.
HandleNotification(t) ==
    /\ Online /\ connected /\ ~Busy /\ result[t] = {}
    /\ Step("download", "begin", [BlankRecord EXCEPT !.task = t])
    /\ UNCHANGED <<durable, result, resets, faults>>

\* Bug: a task in the journal does not keep another one out.
MayStageOver(t) == journal.task # t \/ journal.phase = "idle"
MayStage(t) == journal.phase = "idle"

BeginDownload ==
    LET p == "download"
        t == loc[p].task
        staging(r) == [r EXCEPT !.task = t]
    IN
    /\ pc[p] = "begin"
    /\ UNCHANGED <<flash, result, resets>>
    /\ \/ /\ Fault /\ Step(p, "direct", loc[p])                \* STATE_CORRUPT
          /\ UNCHANGED <<journal, boot, sd>>
       \/ /\ journal.phase = "report_acknowledged" /\ UNCHANGED boot
          /\ \E ok \in BOOLEAN :
                /\ Save(Cleared(journal), ok)
                /\ IF ok THEN /\ sd' = [sd EXCEPT !.sig = None]
                              /\ acked' = None /\ timer' = FALSE
                              /\ Go(p, "check", staging(Cleared(journal)))
                              /\ UNCHANGED <<mode, confirmed, handoff, connected>>
                   ELSE Ret(p, FALSE) /\ UNCHANGED sd
       \/ /\ journal.phase = "awaiting_staged_ack" /\ journal.task = t
          /\ Step(p, "verify", BlankRecord)
          /\ UNCHANGED <<journal, boot, sd, faults>>
       \/ /\ journal.phase \in InstallPhases /\ journal.task = t
          /\ UNCHANGED <<journal, sd>>
          /\ \E ok \in BOOLEAN :
                /\ Done(ok)
                /\ IF ok THEN boot' = "erased" /\ Step(p, "restart", BlankRecord)
                   ELSE UNCHANGED boot /\ Ret(p, FALSE)
       \/ /\ MayStage(t)
          /\ Step(p, "check", staging(journal))
          /\ UNCHANGED <<journal, boot, sd, faults>>
       \/ /\ ~MayStage(t) /\ journal.phase # "report_acknowledged"
          /\ ~(journal.task = t
                 /\ journal.phase \in InstallPhases \cup {"awaiting_staged_ack"})
          /\ Ret(p, FALSE) /\ UNCHANGED <<journal, boot, sd, faults>>

StageStep(from, to, rec, card) ==
    /\ pc["download"] = from
    /\ sd' = card /\ Step("download", to, rec)
    /\ UNCHANGED <<journal, boot, flash, result, resets, faults>>

\* Check, ticket and manifest are accepted: the task updates the running image.
CheckAccepted ==
    LET r == loc["download"] IN
    flash # r.task /\ StageStep("check", "backup", r, [sd EXCEPT !.installed = None])
\* Bug: the rename of installed.bin.part is not checked.
BackupUnrenamed ==
    LET r == loc["download"] IN StageStep("backup", "download", [r EXCEPT !.installed = flash], sd)
Backup ==
    LET r == loc["download"] IN
    StageStep("backup", "download", [r EXCEPT !.installed = flash], [sd EXCEPT !.installed = flash])
DownloadToSd ==
    LET r == loc["download"] IN
    StageStep("download", "sign", r, [sd EXCEPT !.sig = None, !.pending = r.task])
WritePendingSignature ==
    LET r == loc["download"] IN
    StageStep("sign", "save", r, [sd EXCEPT !.sig = r.task])
StagingFails ==
    LET r == loc["download"] IN
    \/ \E from \in {"check", "backup"} : StageStep(from, "fail", r, sd)
    \/ StageStep("download", "fail", r, [sd EXCEPT !.sig = None])
    \/ StageStep("sign", "fail", r, [sd EXCEPT !.sig = None, !.pending = None])

SaveStaged ==
    LET r == [loc["download"] EXCEPT !.phase = "awaiting_staged_ack",
                                     !.pending = loc["download"].task, !.error = FALSE] IN
    /\ pc["download"] = "save"
    /\ \E ok \in BOOLEAN : Save(r, ok) /\ Step("download", IF ok THEN "verify" ELSE "fail", r)
    /\ UNCHANGED <<boot, flash, sd, result, resets>>

(***************************************************************************)
(* CompleteStagedHandoff, run by the download task, the staged task or the  *)
(* retry worker.  Loading the journal and verifying the files is one step.  *)
(***************************************************************************)
HandoffVerify(p) ==
    LET r == journal
        intact == CandidateValid(r) /\ BackupValid(r)
    IN
    /\ pc[p] = "verify"
    /\ UNCHANGED <<durable, result, resets>>
    /\ \/ Fault /\ Ret(p, TRUE)                                 \* journal or card unavailable
       \/ /\ UNCHANGED faults
          /\ \/ r.phase = "idle" /\ Ret(p, TRUE)
             \/ r.phase = "pending" /\ Step(p, "select", r)
             \/ r.phase \notin {"idle", "pending", "awaiting_staged_ack"} /\ Ret(p, FALSE)
             \/ r.phase = "awaiting_staged_ack"
                /\ Step(p, IF intact THEN "await" ELSE "fail", r)

\* PublishProgress "staged", waiting for the acknowledgement of the broker.
StagedAcknowledged(p) ==
    /\ pc[p] = "await" /\ Step(p, "acknowledged", loc[p])
    /\ UNCHANGED <<durable, result, resets, faults>>
StagedUnacknowledged(p) ==
    /\ pc[p] = "await" /\ Ret(p, TRUE)
    /\ UNCHANGED <<durable, result, resets, faults>>

StillStaged(r) == journal.phase = "awaiting_staged_ack" /\ journal.task = r.task

HandoffSave(p) ==
    LET pending == [journal EXCEPT !.phase = "pending"] IN
    /\ pc[p] = "acknowledged"
    /\ UNCHANGED <<boot, flash, sd, result, resets>>
    /\ \/ /\ IF journal.phase = "idle" THEN UNCHANGED faults ELSE Fault
          /\ Ret(p, TRUE) /\ UNCHANGED journal
       \/ /\ journal.phase # "idle" /\ ~StillStaged(loc[p])
          /\ Ret(p, FALSE) /\ UNCHANGED <<journal, faults>>
       \/ /\ StillStaged(loc[p])
          /\ \E ok \in BOOLEAN :
                Save(pending, ok) /\ (IF ok THEN Step(p, "select", pending) ELSE Ret(p, TRUE))

HandoffSelect(p) ==
    /\ pc[p] = "select"
    /\ UNCHANGED <<journal, flash, sd, result, resets>>
    /\ \E ok \in BOOLEAN :
          /\ Done(ok)
          /\ IF ok THEN /\ boot' = "erased" /\ timer' = FALSE /\ Go(p, "restart", BlankRecord)
                        /\ UNCHANGED <<mode, confirmed, handoff, acked, connected>>
             ELSE UNCHANGED boot /\ Step(p, "fail", loc[p])

\* esp_restart after the delay, during which the other tasks go on.
RestartNow(p) ==
    /\ pc[p] \in {"restart", "resume"}
    /\ UNCHANGED <<journal, flash, sd, result, resets, faults>>
    /\ Restart(boot)

\* FailStaging: persist the failure and let OnNetworkReady report it, or report it here.
FailStaging(p) ==
    LET failed == [journal EXCEPT !.phase = "failed", !.task = loc[p].task,
                                  !.pending = None, !.error = TRUE] IN
    /\ pc[p] = "fail"
    /\ UNCHANGED <<boot, flash, sd, result, resets>>
    /\ \/ Fault /\ UNCHANGED journal /\ Step(p, "direct", loc[p])
       \/ \E ok \in BOOLEAN :
             Save(failed, ok) /\ Step(p, IF ok THEN "network_ready" ELSE "direct", loc[p])

\* What the server keeps: its first answer to a task is final.
Told(t, what) == [result EXCEPT ![t] = IF @ = {} THEN {what} ELSE @]

\* ReportResultUntilSuccess: gives up after two minutes.
DirectReport(p) ==
    /\ pc[p] = "direct"
    /\ result' \in {result, Told(loc[p].task, "failed"), Told(loc[p].task, "rejected")}
    /\ Ret(p, FALSE)
    /\ UNCHANGED <<durable, resets, faults>>

(***************************************************************************)
(* The report task: ReportPendingResult until it succeeds.                  *)
(***************************************************************************)
\* Bug: the backup is promoted and success reported without a confirmed image.
SucceedsUnlessFailed(r) == r.phase # "failed"
Succeeded(r) == r.phase = "confirmed"

AfterPromotion(r) == IF acked = r.task THEN "answered" ELSE "http"

ReportLoad ==
    LET r == journal IN
    /\ pc["report"] = "report"
    /\ UNCHANGED <<boot, flash, sd, result, resets>>
    /\ \/ Fault /\ Step("report", "sleep", BlankRecord) /\ UNCHANGED journal
       \/ r.phase = "idle" /\ Ret("report", FALSE) /\ UNCHANGED <<journal, faults>>
       \/ r.phase = "report_acknowledged"
          /\ Step("report", "clear", r) /\ UNCHANGED <<journal, faults>>
       \/ /\ r.phase \notin {"idle", "report_acknowledged"} /\ UNCHANGED <<journal, faults>>
          /\ Step("report", IF ~Succeeded(r) THEN AfterPromotion(r)
                            ELSE IF r.installed = r.pending THEN "promoted" ELSE "promote", r)

\* PromotePendingImage: the confirmed image becomes the backup.
Promote ==
    LET r == loc["report"] IN
    /\ pc["report"] = "promote"
    /\ UNCHANGED <<journal, boot, flash, result, resets>>
    /\ \/ Fault /\ UNCHANGED sd /\ Step("report", "promoted", r)
       \/ /\ UNCHANGED faults
          /\ \/ /\ sd.pending # None
                /\ sd' = [sd EXCEPT !.installed = None]
                /\ Step("report", "rename_pending", r)
             \/ /\ sd.pending = None /\ sd.installed = r.pending
                /\ sd' = [sd EXCEPT !.sig = None]
                /\ Step("report", "promoted", [r EXCEPT !.installed = r.pending])
             \/ /\ sd.pending = None /\ sd.installed # r.pending
                /\ sd' = [sd EXCEPT !.installed = None]
                /\ Step("report", "rename_backup", r)

\* A rename that fails leaves the card without the backup it has just removed.
PromoteRename ==
    LET r == loc["report"]
        pending == pc["report"] = "rename_pending"
        card == IF pending THEN [pending |-> None, sig |-> None, installed |-> sd.pending]
                ELSE [sd EXCEPT !.installed = flash]
        image == IF pending THEN r.pending ELSE flash
    IN
    /\ pc["report"] \in {"rename_pending", "rename_backup"}
    /\ \/ /\ sd' = card /\ UNCHANGED faults
          /\ Step("report", "promoted", [r EXCEPT !.installed = image])
       \/ Fault /\ UNCHANGED sd /\ Step("report", "promoted", r)
    /\ UNCHANGED <<journal, boot, flash, result, resets>>

SavePromoted ==
    LET r == loc["report"] IN
    /\ pc["report"] = "promoted"
    /\ \E ok \in BOOLEAN : Save(r, ok)
    /\ Step("report", AfterPromotion(r), r)
    /\ UNCHANGED <<boot, flash, sd, result, resets>>

Answer(r) == IF Succeeded(r) THEN "success" ELSE "failed"

\* ReportResultHttp: answered, or refused for good (the task no longer exists).
ReportAnswered ==
    LET r == loc["report"] IN
    /\ pc["report"] = "http"
    /\ result' \in {Told(r.task, Answer(r)), Told(r.task, "rejected")}
    /\ acked' = r.task
    /\ Go("report", "answered", r)
    /\ UNCHANGED <<durable, mode, confirmed, handoff, timer, resets, faults, connected>>

\* The request or its answer is lost: the server may have the result.
ReportLost ==
    LET r == loc["report"] IN
    /\ pc["report"] = "http"
    /\ result' \in {result, Told(r.task, Answer(r))}
    /\ Step("report", "sleep", BlankRecord)
    /\ UNCHANGED <<durable, resets, faults>>

SaveAnswered ==
    LET r == [loc["report"] EXCEPT !.phase = "report_acknowledged"] IN
    /\ pc["report"] = "answered"
    /\ \E ok \in BOOLEAN : Save(r, ok) /\ Step("report", IF ok THEN "clear" ELSE "sleep", r)
    /\ UNCHANGED <<boot, flash, sd, result, resets>>

ClearCompleted ==
    LET r == Cleared(loc["report"]) IN
    /\ pc["report"] = "clear"
    /\ UNCHANGED <<boot, flash, result, resets>>
    /\ \E ok \in BOOLEAN :
          /\ Save(r, ok)
          /\ IF ok THEN /\ sd' = [sd EXCEPT !.sig = None] /\ acked' = None
                        /\ Ends("report") /\ UNCHANGED <<mode, confirmed, timer, connected>>
             ELSE UNCHANGED sd /\ Step("report", "sleep", BlankRecord)

ReportWakes ==
    /\ pc["report"] = "sleep" /\ Step("report", "report", BlankRecord)
    /\ UNCHANGED <<durable, result, resets, faults>>
-----------------------------------------------------------------------------
Init ==
    /\ journal = BlankRecord /\ flash = Base /\ boot = "erased"
    /\ sd = [pending |-> None, sig |-> None, installed |-> None]
    /\ mode = "recovery"
    /\ pc = [p \in Procs |-> IF p = "recovery" THEN "start" ELSE "idle"]
    /\ loc = [p \in Procs |-> BlankRecord]
    /\ confirmed = FALSE /\ handoff = None /\ acked = None
    /\ timer = FALSE /\ connected = FALSE
    /\ \E b \in Budgets, served \in SUBSET Tasks :
           /\ Cardinality(served) = b.tasks
           /\ result = [t \in served |-> {}]
           /\ resets = b.resets /\ faults = b.faults

Handoff(p) ==
    \/ HandoffVerify(p) \/ StagedAcknowledged(p) \/ StagedUnacknowledged(p)
    \/ HandoffSave(p) \/ HandoffSelect(p)
Main ==
    \/ \E p \in Procs : \/ Confirm(p) \/ ConfirmSave(p) \/ Dispatch(p) \/ Handoff(p)
                       \/ RestartNow(p) \/ FailStaging(p) \/ DirectReport(p)
    \/ MqttConnected \/ TimerFires
    \/ BeginDownload \/ CheckAccepted \/ Backup \/ DownloadToSd
    \/ WritePendingSignature \/ StagingFails \/ SaveStaged
    \/ ReportLoad \/ Promote \/ PromoteRename \/ SavePromoted
    \/ ReportAnswered \/ ReportLost \/ SaveAnswered \/ ClearCompleted \/ ReportWakes
Next ==
    \/ Recovery \/ Main
    \/ \E t \in DOMAIN result : HandleNotification(t)
    \/ Reset \/ SdDamage

Spec == Init /\ [][Next]_vars

(***************************************************************************)
(* Fairness: the scheduler runs every task that can run, the broker and the *)
(* server answer in the end, MQTT connects once after a boot.  Reconnects,  *)
(* notifications and resets are never owed.                                 *)
(***************************************************************************)
Reporting == \/ ReportLoad \/ Promote \/ PromoteRename \/ SavePromoted
             \/ SaveAnswered \/ ClearCompleted \/ ReportWakes
Staging == \/ BeginDownload \/ CheckAccepted \/ Backup \/ DownloadToSd
           \/ WritePendingSignature \/ SaveStaged
Working(p) == \/ Confirm(p) \/ ConfirmSave(p) \/ Dispatch(p) \/ RestartNow(p)
              \/ HandoffVerify(p) \/ HandoffSave(p) \/ HandoffSelect(p)
              \/ FailStaging(p) \/ DirectReport(p)
Fairness ==
    /\ WF_vars(Recovery) /\ WF_vars(Reporting) /\ WF_vars(Staging \/ StagingFails)
    /\ \A p \in Procs : WF_vars(Working(p))
    /\ SF_vars(\E p \in Procs : StagedAcknowledged(p))
    /\ WF_vars(TimerFires) /\ WF_vars(~connected /\ MqttConnected)
    /\ SF_vars(ReportAnswered)
FairSpec == Spec /\ Fairness
-----------------------------------------------------------------------------
Record == [phase : Phases, task : Tasks \cup {None}, pending : Images \cup {None},
           installed : Images \cup {None}, error : BOOLEAN]

TypeOK ==
    /\ journal \in Record /\ ValidateRecord(journal)
    /\ boot \in {"erased", "new", "pending", "valid", "aborted"}
    /\ flash \in Images \cup {Partial}
    /\ sd \in [pending : Images \cup {None, Damaged}, sig : Tasks \cup {None},
               installed : Images \cup {None, Damaged}]
    /\ mode \in {"main", "recovery", "halted"}
    /\ loc \in [Procs -> Record]
    /\ confirmed \in BOOLEAN /\ timer \in BOOLEAN /\ connected \in BOOLEAN
    /\ handoff \in {None, "staged", "retry"} /\ (handoff # None => pc[handoff] # "idle")
    /\ acked \in Tasks \cup {None}
    /\ DOMAIN result \subseteq Tasks
    /\ \A t \in DOMAIN result : result[t] \in {{}, {"success"}, {"failed"}, {"rejected"}}

\* The main slot is incomplete only while the journal says that Recovery is
\* applying or restoring, and is never selected for boot then.
EraseProtected ==
    flash = Partial => /\ journal.phase \in {"applying", "restoring"}
                       /\ boot \in {"erased", "aborted"}

\* Until the new image is confirmed the card holds the backup that the journal
\* anchors, unless the card itself was damaged.
BackupKept ==
    journal.phase \in {"awaiting_staged_ack", "pending", "applying", "ready_to_boot",
                       "restoring", "rollback_ready", "rollback_booting"}
        => sd.installed \in {journal.installed, Damaged}

\* The phases mean what they say of the main slot, whatever was interrupted.
PhaseMeansFlash ==
    /\ journal.phase \in {"ready_to_boot", "confirmed"} => flash = journal.pending
    /\ journal.phase \in {"rollback_ready", "rollback_booting", "rollback"}
          => flash = journal.installed
    /\ journal.phase \in {"awaiting_staged_ack", "pending"} => flash = journal.installed

\* The server learns success only while the image of that task runs, confirmed.
SuccessIsTrue ==
    [][\A t \in DOMAIN result : "success" \in result'[t] \ result[t]
          => mode = "main" /\ flash = t /\ boot = "valid"]_vars

\* Every task that entered the journal leaves it: it is installed or rolled back
\* and reported.
TaskEnds == \A t \in Tasks : journal.task = t ~> journal.task = None

\* docs/mqtt-ota-sd-recovery.md:82: a power loss while rolling back either
\* repeats the restore or resumes the boot handoff.
NeverStranded ==
    mode = "halted" =>
        journal.phase \notin {"restoring", "rollback_ready", "rollback_booting"}

\* docs/mqtt-ota-sd-recovery.md:293: the journal rejects a duplicate of a task
\* that it has staged or installs; the server is not told that it failed.
DuplicateRejected ==
    [][\A t \in DOMAIN result : "failed" \in result'[t] \ result[t]
          => ~(journal.task = t
                /\ journal.phase \in {"awaiting_staged_ack", "pending", "applying"})]_vars
=============================================================================
