# RodakOS: a TLA+ model of its life-cycle, update, cloud and voice protocols

RodakOS is an ESP32-S3 handheld operating system in C++ (FreeRTOS, LVGL, ESP-IDF).
Most of its code is device I/O, user interface and protocol encoding. The parts that are
hard to get right and hard to test are the ones where several tasks, NVS, the SD card, the
bootloader and a power switch meet. This directory models those parts, checks them with
TLC and proves theorems about them with TLAPS. All paths below are relative to the
repository.

## 1. Inventory

`app_main` (`main/main.cc`) builds every service, boots the screen, connects Wi-Fi and MQTT
and then runs the main loop, which also pumps work that must run on its stack. Services own
FreeRTOS tasks, talk through method calls and callbacks, and keep durable state in NVS,
`otadata`, the flash slot `ota_0` and the SD card.

| Component | State | Operations | What is hard | What makes it correct |
|---|---|---|---|---|
| Task retirement (`phone_os/task-retirement.cc`) and the services that use it | slot table of records (state, handle, generation, owner, references), owners, member tickets | Reserve, Publish, Cancel, Require, Finish, TryReap, Join, Drain, Pump; Start, Stop, destructor | reuse of TCB addresses and slots, self-stop, restart after stop, destructors racing the pump | a worker is deleted once and only parked; no ticket is used after its record was recycled; Join and Drain mean what they say |
| OTA journal (`components/rodak_ota_state`) | two NVS blobs with generation and CRC | Load, Save, Clear | torn writes, unreadable copies, 32-bit wrap, unserialised savers | one durable record |
| OTA updater (`phone_os/ota_update_service.cc`) | journal phase, staged files, retry timer, hand-off flag, report task, confirmed boot | HandleNotification, download, stage, hand off, confirm, report | five tasks, resets at each durable step, lost answers, retries | the server's result is true and every task ends |
| Recovery (`recovery/main/recovery_main.cc`) | the same journal, `otadata`, `ota_0`, SD files | apply, restore, boot hand-off | power loss in any phase | the main slot is bootable or repairable |
| Appearance (`phone_os/appearance_service.cc`, `components/rodak_appearance`) | NVS record (active, pending, previous, trial, rejected, latest, publisher), two SD slots, boot task, worker | boot load, trial, confirm, reject, deliver, trust, download, install | power loss during installation and trial, deployments that overtake a download, publishers that change | last good package intact; trials recorded and ended; no stale adoption |
| Audio focus, output and player (`phone_os/audio_focus_service.cc`, `audio_output_service.cc`, `audio_service.cc`, `music_player_service.cc`) | active token and what it found playing; owner of the output; player state, stop, pause, idle and suspended flags; playback task | RequestFocus, ReleaseFocus, PlayFile, Stop, Pause, Resume, suspend, monitor | the playback task acts later than it is told; three other tasks start playback of their own | nobody plays into a granted focus; what was suspended resumes |
| SD file service, recordings and uploads (`rodakos_adapters/file_service.cc`, `file_path_lease.cc`, `phone_os/recording_service.cc`, `web_file_system_service.cc`) | write leases, io lock, files | WithWriteLease, write, create, delete, rename | a writer works by path without the io lock; ancestors of leased paths | the file at a leased path is the writer's |
| Navigation (`phone_os/deferred_navigation.cc`, `phone_app_host.cc`) | bounded mailbox, app stack | Enqueue, Pump, Close; open, close, home | re-entrant completions, close during dispatch | each request completes exactly once |
| MQTT command ledger (`phone_os/mqtt_command_ledger.cc`) | at most a fixed number of entries, byte budget, authority | Begin, Complete, ResetAuthority | duplicates, late completions, eviction | no command runs twice at once; a replay is its own answer |
| Unified MQTT (`phone_os/unified_mqtt_service.cc`, `mqtt_credential_refresh_policy.cc`) | client, route and authentication generations, pending credentials, connection epoch, stream leases | connect, refresh, replace, recover, Stop; stream commands, cleanup | events of a retired client, routes and credentials that change during a round, peers that end by themselves | one SDK client; nothing reported is forgotten; the device gets back online; a revoked stream is stopped, and no other |
| Cloud configuration (`phone_os/device_cloud_config.cc`) | credentials in NVS | pairing, refresh, ApplyIfMqttConfigCurrent | a client attached with a configuration that has been replaced | the fence compares the latest one |
| Voice assistant (`phone_os/voice_assistant_service.cc`, `voice_assistant_reconnect_coordinator.cc`, `realtime_voice_reconnect_policy.cc`, `realtime_voice_transport.cc`) | phase, interaction and connection generations, tasks, focus, recorder, queue, policy state, failure latch | StartInteraction, StartAnnounce, StopInteraction, I/O loop, follow-up, HandleFailure, Attempt, Cancel | a start of ten steps without the lock against a stop at any point; a failure reported before, during and after it is expected | at rest nothing is held; in a session everything is; every session ends |
| Voice audio front end, voice diagnostics, WebRTC media | buffers, workers | start, stop, streams | workers (see task retirement) | - |
| Provisioning, server trust, web files, display, sensors, lights, Wi-Fi, settings, apps | device I/O and parsing | - | - | - |

`PROJECT.json` lists each of them with its source files and status, and each hazard at its
line. Vendored code (`components/esp_board_manager`, `esp_peer`, `json`, `cmake_utilities`),
fonts and board tables are out of scope.

Interactions that the models cover: the main loop pumps retirements, OTA work and the
appearance confirmation; MQTT delivers OTA notifications and appearance deployments and
tells both services of a connection; Recovery and the updater share the journal, `otadata`,
the main slot and the SD card; every service with a worker goes through the retirement
registry.

One check by reading rather than by a model: the OTA download holds the SD io lock while it
waits for the main loop (`ota_update_service.cc`, internal work), so the main loop must
never wait for that lock. Its appearance calls (`main.cc:978-991`) take only the service's
`mutex_`, never `WithIoLock`, so they add no such wait.

## 2. Modules

| Module | Models |
|---|---|
| `TaskRetirement`, `TaskRetirement_proof` | registry and life cycle of the services that use it |
| `RecordStore` | abstract: one durable record |
| `OtaJournal`, `OtaJournal_proof` | the A/B blobs; implements `RecordStore` |
| `OtaSystem`, `OtaSystem_proof`, `MCOtaSystem` | updater, Recovery, bootloader, SD card, server |
| `OtaHistory` | `OtaSystem` with a history variable, the tasks that left the journal unanswered |
| `Appearance`, `Appearance_proof`, `MCAppearance` | appearance service, boot, worker, publisher |
| `MqttClient`, `MCMqttClient` | the MQTT connection: bootstrap, refresh, replacement, recovery, Stop |
| `MqttStreams` | remote camera and display streams: commands, leases, cleanup |
| `CommandLedger` | duplicates, completions, evictions and authority resets |
| `VoiceSession`, `VoiceSession_proof`, `MCVoiceSession` | voice assistant, reconnect coordinator and transport |
| `AudioPlayback`, `MCAudioPlayback` | music player, playback task, audio focus, output owner |
| `FileLeases` | path leases under recordings and uploads |
| `MCDevice`, `MCCloud`, `MCProgress` | the parts that are checked side by side |
| `Cloud_proof` | proofs about `CommandLedger`, `MqttClient`, `MqttStreams` and `MCCloud` |
| `Device_proof` | proofs about `AudioPlayback`, `FileLeases` and `MCDevice` |

`MCDevice`, `MCCloud` and `MCProgress` put components next to each other that share no
state. A behaviour belongs to one part: the variable `part` is chosen at the start, only that
part moves and the others stay in one initial state. So the states are the sum of the parts,
not their product, and each property is the one of its module. `MCCloud` and `MCDevice` extend
the modules they join, so the names of those are disjoint (`LedgerSpec`, `ConnectionSpec`,
`StreamsSpec`, `VoiceSpec`, `PlayerSpec`, `FilesSpec`; in `MCDevice` plain `Spec` is the
registry's) and TLC evaluates the assumption of each; `MCProgress` instantiates its modules
under names. The fairness conditions are those of the modules, restated for the part that runs.
In `MCProgress` two strong fairness conditions are each shared by two parts, which is sound
because steps of one part only are ever enabled.

Components that do share state are composed in one module instead: the updater with Recovery
and the bootloader (`OtaSystem`), the service with its coordinator and its transport
(`VoiceSession`), the player with the focus and the output (`AudioPlayback`), the writers
with the file service (`FileLeases`). Between these modules the interface is reduced to an
outcome: a granted focus in `VoiceSession`, a voice session in `MqttClient`, a joined peer in
`MqttStreams` (its worker is a client of `TaskRetirement`).

Next in order of worth, not written: the mailbox of `deferred_navigation.cc` with completions
that re-enter it; the lock order of the main loop against the SD io lock; the playback epochs
of an interrupted reply.

## 3. Task retirement

`TaskRetirement` has one step per registry critical section (`g_mutex`), FreeRTOS call or
service-mutex section. `records` is the slot table, `member[s]` the ticket a service keeps,
`call[c]` where a caller stands in Start, Stop, the destructor or the pump, `task[h]` the
worker at TCB address `h`. FreeRTOS is external: creation fails or picks any free address,
so an address is reused as the heap would. The services are those that were moved to the
registry; `webrtc_camera_service.cc` is the one whose Start, Stop and destructor the module
follows. Workers may re-enter their own service (a callback that stops or restarts it).

Run `device` (safety, part `retirement`): two slots, two services, two clients, two addresses,
generations up to three, which is small enough for both slots and addresses to be reused and for
admission to stop at the last generation.

- `OnlyParkedDeleted`: a worker is deleted after its body returned, by one reaper.
- `RequiresHold`: no `Require` of the code can abort.
- `ReferencesExact`: the count of a record is the number of tickets that name it, held by
  members, callers and claims; so a record is recycled neither early nor never.
- `JoinMeansReclaimed`, `DrainedForEver`: when Join returns its worker is gone; after a
  drain no record of that owner is ever live again.

Run `progress` (part `retirement`): one service and one client; `ParkedIsReclaimed` and
`StopReturns`. Every running caller is weakly fair. A worker, a pump slot and the copy of a
ticket are strongly fair: they take `g_mutex` or the service's mutex, which FreeRTOS hands to
a waiting task, and the main loop calls the pump in every pass.

Left out: overflow of owner ids and of reference counts (bounded by the program's objects).

### Proved (`TaskRetirement_proof`)

For any number of slots, services, clients and addresses, any maximum generation, assuming
only `RetirementAssumption` (positive sizes, disjoint kinds of names). There are two layers.

`Inv` is about workers and never speaks of reference counts. It gives `TypeCorrect` (`TypeOK`),
`OnlyParkedWorkersDeleted` (`OnlyParkedDeleted`) and `Invariance` (`Inv` itself).
`OnlyParkedDeleted` is not inductive: a reaper holds only a handle, and the handle may be
reused. `Inv` adds what makes the handle meaningful: each live worker has a record of its
own that carries its generation and owner (`WorkersOK`); a Start in flight holds a Reserved
record that only its worker waits on (`StartsOK`); a Finished record names a parked worker
(`FinishedOK`); a claimed record has one reaper (`ClaimsOK`); and callers stand where their
operation allows (`StagesOK`).

`Layer` stands on it and is about tickets. The holders of tickets are members, captured copies
and the previous tickets a Start keeps. The count of a record is the number of holders that
name it, and an unused record is counted by nobody (`Tidy`); no two records in use share a
generation (`UniqueOK`); callers hold tickets only in the stages of Start, Stop and the destructor
that own one (`TicketsOK`); the record of a joined ticket is reaped, or its worker is the caller
itself (`JoinedOK`); an owner that was drained is closed and has no live record (`DrainOK`). The
counting argument is about finite sets: a step adds or removes one holder of one record. From it follow `CountsAreExact`
(`ReferencesExact`), `RequiresNeverFail` (`RequiresHold`), `JoinReclaims`
(`JoinMeansReclaimed`) and `DrainedStaysDrained` (`DrainedForEver`). The proof has one lemma
per action in each layer.

## 4. OTA journal

`RecordStore` says what the updater and Recovery rely on: a save replaces the record or
leaves it alone, whatever it answers; a save that ran alone and answered true replaced it.
Of overlapping saves, a reset that cuts one may undo the others: what was stored since it
began comes back, or what another one was saving (`since`).
`OtaJournal` is `SaveOtaUpdateRecord` and `LoadOtaUpdateRecordStatus`: read both blobs,
choose the one that is not the newest, write the next generation. A reset cuts the write
before, inside or after it; a read may fail; saves of two tasks are not serialised.

Run `progress` (part `journal`): two savers, two records, generations modulo 8 instead of 2^32 (the
comparison is a signed difference, so only its distance to half the modulus matters), at
most two saves inside the window of another one (`MaxOvertakes`). The code does not enforce
that bound: on its success path the report task saves three times
(`ota_update_service.cc:1220`, `1252`, `1268`). A window is the time between the reads of a save
and its write, milliseconds; between the first of the three and the others stands the HTTP report,
unless it was already acknowledged. So two is what happens in practice; after three the late
writer would put an older generation over the newest copy, which `PROJECT.json` notes with the
hazard of savers that no lock serialises.

- `StoreImplemented`: the refinement of `RecordStore`. It also shows that the signed
  comparison decides before and after a wrap: with copies too far apart the wrong one is
  loaded.
- `NeverLost`: a cut write costs at most the older copy, except when two overlapping savers
  chose the same slot.

### Proved (`OtaJournal_proof`)

For any writers, any contents, any even modulus from 8 and `MaxOvertakes` at most 2, which is
an assumption about the callers and not something the code enforces (see above):

- `CopiesAreNeighbours`: of two valid copies one carries the generation after the other's
  (`Neighbours`), also across the wrap, torn writes and refused writes. That is what makes
  the signed comparison of the code right for ever.
- `JournalImplementsStore`: `StoreImplemented`, one step of the journal at a time.
- `JournalNeverLost`: `NeverLost`.

The invariant says where each save in progress stands: nothing was written since it chose its
slot (`Fresh`), one generation was (`Once`: it now aims at the newest copy, under that very
generation), or two were (`Twice`: it aims at the older copy with a generation that is behind).
After a third one it would write over the newest copy, under a generation below the other's.

The proof corrected the abstract store. With three writers a save that returns may leave behind
a copy that is not the newest, and a later torn write over the newest one brings it back: `since`
has to hold also what returned saves may have left (`behind`). Two writers, which is what the
run has, cannot show this.

## 5. Firmware update: updater and Recovery

`OtaSystem` composes the updater, Recovery, the bootloader, the SD card and the server.
Each task of the program is a process with a label and a local record; a step ends where
the code waits or between two durable writes. The journal is `RecordStore`'s single record
(the reason `OtaJournal` is checked): a save that fails may or may not have been written.
Reading and verifying the staged files at hand-off is one step, because the card is changed
meanwhile only by the updater itself or by damage, which may come before it.

- `ota` (safety): two server tasks with one reset, or one task with three resets and one failed
  operation, or with one reset and two failed operations (`Budgets`). Three resets reach
  install, abort and an interrupted restore; two tasks are enough for one to be lost to a
  process that still works on the other. Failed operations with two tasks are out of TLC's
  time here and left to the proofs below. `NotForgotten`: a task leaves the journal only
  when the server has its result, with the exception below. `EraseProtected`,
  `BackupKept`, `PhaseMeansFlash`: whenever the main slot is not bootable the journal says so
  and the selection does not name it; the backup a restore needs exists; each phase says what
  is in the flash. `SuccessIsTrue`: the server is told success only of the image that runs.
- `progress` (part `update`): one task, one reset, no failed operation. `TaskEnds`. Fairness:
  the scheduler runs what can run, the server answers in the end (strong fairness of the
  answers, whose enabling comes and goes with retries), MQTT connects once after a boot.
  Reconnects, notifications and resets are not owed. One reset is the limit: with two see
  below.
- `ota_stranded` (violation): two resets, no fault. The second one, during the first boot of
  the restored image, leaves Recovery halted in `rollback_booting`.
  `docs/mqtt-ota-sd-recovery.md:82-83` says a power loss there repeats the restore or
  resumes the hand-off.
- `ota_duplicate` (violation): one failed journal read while a duplicate notification is
  handled reports as failed the task that is staged and then installed.
  `docs/mqtt-ota-sd-recovery.md:293-294` says the journal rejects the duplicate.

HTTP and MQTT are reduced to the outcomes the code distinguishes; hashes and signatures to
whether a file is the one it should be. With two tasks the one-shot retry timer can be
consumed by the wrong task; the liveness run has one. `BackupRunningImage` fails in many ways
(lines 857-924): those before it deletes the old backup are `StagingFails` at "check", those after
it at "backup", where the card has none; in a promotion they are the failing branches of `Promote`
and `PromoteRename`. A journal without any valid copy (`kCorrupt`), which ends the confirmation for
good (line 1002), is not in the model: `NeverLost` shows that a journal that held a record keeps
a valid copy unless two savers chose the same slot; the very first save torn by a reset is noted
with the hazard of torn blobs. A report task that still sleeps after a failed clear and wakes when the next task is
staged reports that one as failed (line 1182): `NotForgotten` takes that for a result and
`ota_duplicate` has one task, so no property catches it. With two tasks and one failed save the
model shows it (a failed download of the first task, whose clear fails, then the second task).

`OtaHistory` adds `lost` to the updater: the tasks that left the journal without a result and
have none since. It only observes (`HistoryObserves` in the proofs). The exception in
`NotForgotten` is a process still at work with another task that is answered or lost: the
report task that clears a record after a download has cleared it and staged its own, or a
hand-off of the same task that fails late and puts the record of that task back.

### Proved (`OtaSystem_proof`)

For any number of tasks and any budgets of resets and failed operations, under
`OtaAssumption` (the names of no task, of a half-written image and of the factory image are
none of the others): `TypeCorrect`, `SlotProtected` (`EraseProtected`), `BackupOnCard`
(`BackupKept`), `PhasesAreTrue` (`PhaseMeansFlash`), `SuccessTold` (`SuccessIsTrue`) and
`NoneForgotten` (`NotForgotten`). The first five follow from one inductive invariant, `Inv`:

- `DurableOK`: the journal is a record the loader accepts, and `Fits`: what its phase says of
  the main slot and of the backup is true, also between two of the steps of an install or of
  a restore. A slot that is not complete is never selected.
- `ModesOK`, `PlacesOK`: one application runs, and each process only stands where its code does.
- `RecoveryOK`: what Recovery works on is what the journal says, except that the error it is about
  to restore for may not be saved yet; and what it has written is what it selects next.
- `SettledOK`, `BootsOK`: from the first boot of an image until its result is reported nobody
  stages or hands off; that boot is confirmed by one process, before any report starts.
- `CardOK`: the card is rewritten only while the journal needs nothing on it.
- `ReportOK`: a success being reported is of the image that runs. The record the report task
  read before the server answered is still true when it stores it.
- `HandoffOK`: the hand-off flag belongs to a running process.

There are three kinds of steps, of Recovery (`RecoveryStep`), of a process of the main
application (`MainStep`) and restarts (`RestartStep`). Each says once what a step must respect
to keep `Inv`, and one lemma per action shows that the action does. The hard parts are the
steps that use what was read before: `ConfirmSave`, `SavePromoted` and `SaveAnswered` store
a record that another task may have overtaken.

`NoneForgotten` needs a second invariant, `Fate`, about who still answers for a task: what a
process or the journal names was received (`KnownOK`); a record marked as reported, the
acknowledged task and the task of a finished report have their result (`AnsweredOK`); every
process carries the task of the journal or one that is over, and only the download may carry
another, when the journal is free (`CarryOK`).

The proof corrected `NotForgotten`. Its first form allowed as exception only a process with
an answered task, which is true of the two tasks the run has. With three, one failed save and a
report task that clears late, a task already lost can be put back by its late hand-off, and the next
download overwrites it or what it replaced: no process then carries an answered task. TLC
finds that chain with three tasks, but takes far more states than the run has; hence `lost`.

## 6. Appearance packages

`Appearance` models `AppearanceService` with the part of `app_main` that drives it. `mem`
and `nvs` are the record in RAM and NVS; `files[s]` says which deployment the package,
manifest and partial download of SD slot `s` belong to; `boot`, `ui` and `worker` are the
boot task, `app_main` and the download task. Every section under `mutex_` is one step;
installation is cut at each file operation. `tried` is a history variable.

Safety run `appearance`: two packages and a later built-in deployment of one publisher, two
power losses, one failed operation, two requests of the user or the cloud, one retry delay
(the code has three; the count only matters as present or exhausted). It starts with an
unconfigured device or one that has adopted the first package. Two power losses are needed
to crash in a trial after one during installation; two requests suffice for a delivery that
overtakes another, and for an owner who forgets and confirms the publisher.

- `LastGoodIntact`: whatever is interrupted, the release the next boot would fall back to
  is complete in its slot.
- `PackageTrialPersisted`: a package is shown only if it is the adopted one or NVS says
  this boot is its trial.
- `TriedOnce`: a release whose trial ended in a crash is not shown again.
- `NeverStale`: what waits for the next boot is newer than what is adopted or was refused.
- `DownloadAfterBoot`: no download overlaps boot loading, its animation or a trial.

### Proved (`Appearance_proof`)

The five properties above and `TypeOK`, for any set of deployments and any bounds, assuming only
`AppearanceAssumption`: `FallbackIsIntact`, `ShownIsRecorded`, `NeverTriedTwice`,
`PendingIsNewer`, `BootBeforeDownload`, `AppearanceIsTyped`. The inductive invariant `Inv` has
these parts besides the types:

- `RecordsOK`: in RAM and in NVS, what is pending is newer than what is active or refused, and
  a trial is one of the pending release with the active one kept as previous.
- `PhasesOK`: the loading task, then the main loop, then the worker; a trial excludes the boot
  task and a known publisher.
- `DownloadOK`, `BootOK`: what the worker installs is still newer than what is adopted; what
  the boot found is its target and complete.
- `NvsKnown`, `NvsBooted`: NVS may be ahead of or behind RAM, since a save that failed may have
  been written; still, the release it would fall back to is the one RAM calls active, the
  one on trial, or none, unless a new epoch was begun over it.
- `IntactOK`, `SlotOK`: active releases are complete, and the worker writes to a slot that
  neither record calls active. These two carry `LastGoodIntact`: by itself it says nothing
  of the slot that is being written.

`TriedOnce` needs a second layer, `Refusals` (`TriedOK`, `TrialKnown`): each of the two records
refuses every release in `tried`, or is about to because it has the open trial of it. The proof
corrected the history variable: a confirmation of the publisher whose save reports failure may
have begun the new epoch in NVS all the same, and what was tried before it may then be tried
again. `ConfirmPublisher` clears `tried` in that case.

Run `appearance_live` (one power loss, two requests, the two packages): `DesiredSettles` and
`TrialEnds`. Fairness: tasks are scheduled, delays elapse, the main loop calls
`OnNetworkReady` while MQTT is connected (`main.cc:989-991`), and the other services are
not busy for ever (strong fairness of passing the busy gate).

- `appearance_resume` (violation): a kept prefix is never resumed. Its metadata file exists,
  and the rename over it fails on FATFS (`appearance_service.cc:753-754`; the comment at
  846-847 knows it), so the download fails for good. `docs/appearance-customization.md:136`
  says a durable prefix can survive retries and reboots.

Observed while reading, without a run of its own: a pending built-in look is shown although
its trial could not be saved (`appearance_service.cc:292-295`, harmless because it needs no
package, but not what `docs/appearance-customization.md:143` says); a theme the user picks
between the display of a trial and its confirmation is cleared by the confirmation; a
delivery of an untrusted publisher raises the latest revision in RAM; a publisher request
passes the retry delay and a download starts with it (`appearance_service.cc:610`), though
`docs/appearance-customization.md:53-54` states the delays.

Left out: a corrupted NVS record (the code falls back to an empty one), pixel and metadata
decoding, signatures and HTTP ranges beyond their outcome. The boot task works on the copies of
the pending and the active release it took (`boot.target`, `boot.active`); `Captured` in the proofs
shows that they still are those of the record when it uses them, because the callers start only
after the first frame.

## 7. MQTT: connection, streams, commands

Run `cloud` checks the three modules side by side.

`MqttClient` is the worker of `UnifiedMqttService` with the policy, the cloud configuration it
loads and the SDK client it owns. One step is one section under `mqtt_mutex_`, one HTTP call
or one SDK call, so a network change, a rejection, a rotation of the credential, a voice
session, `Stop` or an unbinding may come between any two. `worker` is its program counter with
its locals, `route` and `recovery` the generations a round compares, `client` what is attached
and `handles` the SDK clients that exist. The six budgets of `MCCloud` combine two or three
rare events each; a behaviour with two networks, a move of the server and a failed request is
the longest recovery, and a rejection after a rotation during a route change the deepest one.

- `OneSdkClient`: there never are two SDK clients, whoever replaces, stops or fails to start.
- `NothingForgotten`: a rejection or a network change that came during a round keeps the
  refresh scheduled.
- `Recovers` (`ConnectionRecovers` in the run, for the part that runs): a started and bound
  device ends up connected. Fairness: the worker, the SDK and a running Stop proceed, a
  connection to an address the server has left drops, sessions end, the retry delay and the
  cooldown elapse. The exception is a behaviour that meets the next run.
- `mqtt_offline` (violation of `RecoveryGoesOn`): a network change retires the client, a newer
  one makes the round start again, and then HTTP fails. `FinishCredentialRefresh` ends the
  request although no client is left, and `MaybeScheduleTransportRecovery` needs one.
  `docs/mqtt-credential-refresh.md:27` says that recovery goes on with its three failures and
  its delay.

`MqttStreams` has the same worker in `HandleCommand`, the cleanup with
`stream_operation_mutex_`, the peers' own end and calls of other tasks. `leases` is every lease
ever issued; a stream, its peer and its ledger entry name it by number. The five scenarios give
the cloud a start, a second start, an exact stop, a plain stop or a signal, with one lost
connection or one call from another task.

- `NoForeignStop`: a cleanup stops the peer whose lease it read, though it reads and stops
  in separate steps.
- `StopMeansJoined`: an exact stop succeeds, at first or as a replay, only if that start was
  accepted, its peer joined and nothing started since.
- `RevokedIsReclaimed` (`StreamsReclaim` in the run): a revoked stream is given up and its peer
  joined. The worker, a caller, a cleanup and a peer that was told to stop are weakly fair.

Not modelled: publications of the worker (`QueueCommandPublication`, `DrainCommandPublications`,
reliable publication and its acknowledgements), telemetry, the light and volume effects.

`CommandLedger` is `Begin`, `Complete` and `ResetAuthority`: entries in the order of their
sequence, eviction of the oldest completed one, and replies that are dropped when the budget of
bytes is short. Three commands over a capacity of two with two payloads and a budget of one
reply reach every answer, one reset the delayed completion.

- `NeverTwiceAtOnce`: a command of one authority is never executed by two jobs at once.
- `ReplayIsOwn`: a remembered reply is one its own execution produced.

### Proved (`Cloud_proof`)

The five safety properties above, and the types, for every value of the constants: any
capacity, budget and set of commands and payloads under `LedgerAssumption`, any budget of rare
events (`NoneAssumption` only says that no client is called `None`), any scenarios and any
number of streams under `StreamsAssumption`. No property is inductive; each part has an
invariant that says why it holds.

- `NotTwice` (`NeverTwiceAtOnce`) and `OwnReplay` (`ReplayIsOwn`), from `LedgerInv`: no two
  entries share a command or a number and no number is above the next one (`EntriesDistinct`,
  `NumbersGiven`), a job of this authority still has its incomplete entry
  (`RunningIsRemembered`, so eviction, which takes completed entries only, cannot let the
  command in again), and every entry stands for a run of its command and payload
  (`EntryStandsForRun`).
- `StopsTheRightPeer` (`NoForeignStop`) and `StopIsEvidence` (`StopMeansJoined`), from
  `StreamsInv`: who stands where in a cleanup or a command owns the operation lock (`OpOwned`);
  a peer belongs to the lease its stream holds (`PeersHeld`); between the reading of a lease
  and the end of its cleanup, and between the making of a lease and its commit, nobody else
  takes or gives up that stream's lease (`SnapHeld`, `StartHeld`). What the worker executes is
  the command it took (`CommandFits`), and from the check of an exact stop to its answer
  nothing of that kind starts (`ExactStopJoined`).
- `OneClientAtATime` (`OneSdkClient`) and `RoundsForgetNothing` (`NothingForgotten`), from
  `ConnectionInv`: the set of SDK clients is the one attached, or the one in the worker's
  hands, or the one Stop destroys, or empty (`HandlesOwned`), because a client is attached only
  in certain places of the worker and of Stop (`Places`); a rejection is never one of a later
  generation, and that of the attached client keeps the refresh requested (`AuthKept`); a network
  newer than the client's is scheduled, and a round ends only the network it began with
  (`RouteKept`).
- `CloudInvariant` and `CloudTyped` (`CloudTypeOK`): a step of `MCCloud` is a step of one part
  and a stutter of the others.

## 8. Voice, music and files

Run `device` checks the safety of these three modules; `progress` the end of a voice session.

`VoiceSession` has five threads of control: the starter (`starter.pc` walks through
`StartInteraction` or `StartAnnounce`), the I/O task (`task.io`), the playback task
(`task.play`), the websocket task (`report` is an event between its latch and the service)
and one cleaner (`cleaner.step` walks through `FinishInteraction`). `s` is the service's state
under its mutex; `held` is what is really acquired, which the service may not know of yet.
Four budgets of wake words, announcements, stops, lost connections, replies and failures, with
one reconnect attempt: each has at most two or three rare events, which is what a race of a
start with a stop, or of a retry with a late failure, needs.

- `Consistent`: when no start and no stop is under way, the service either is at rest and holds
  nothing (recorder, focus, connection, tasks, retries), or has everything a session needs.
- `QuietBeforeMusic`: the focus is given back only when the playback task is not writing.
- `EverySessionEnds` (run `progress`): the service comes back to idle again and again.
  Fairness: the tasks, the starter and the cleaner are scheduled, reports are delivered, and
  the supervisor of the wake service comes by: it stops a session that neither speaks nor ends
  (`voice_wake_service.cc:583`). A speaking session needs no watchdog; its own timeouts end it.
  The supervisor runs only while wake monitoring is enabled (`voice_wake_service.cc:544-548`),
  so with monitoring off a session that waits on a silent connection is not covered.
- `voice_deaf` (violation of `FailureIsHandled`): the connection fails between its handshake and
  the moment the service is bound to it. The latch takes the only report, which is dropped, and
  the later sends of the handshake count as sent because the latch is set. The session is
  established on a dead connection until the watchdog (120 s) ends it.
  `docs/voice-assistant.md:211-213` says such a failure ends the interaction.

Left out: `Deinit`, the playback epochs of an interrupted reply (`ProcessInterrupt`), the
detection of speech, the limits of the event queue, the wake chime. Waiting for the tail of a
reply is part of the playback task being quiet.

`AudioPlayback` has the touch screen, the monitor that starts the next track and the requester
of the focus as processes (`pc`), and the playback task (`task`). The operation mutexes of the
player and of the audio service are `music.op` and `audio.op`; a process keeps them while it
waits for the playback task. Five budgets, tracks of two buffers: enough for a pause in the
first and a stop after the last poll.

The playback task follows both decoders: a WAV file opens the output before the task first
looks for a request, an MP3 track with the first frame it has decoded, after it.

- `PlayerIsQuiet`: from the grant of the exclusive focus until it is given back, the playback
  task never is on its way into a write.
- `music_mute` (violation of `ResumeReopens`): music the user paused is suspended by one session
  and again by the next. `playback_hardware_suspended_ = was_open` is false the second time
  (`audio_service.cc:437`), and Play then writes to a closed output and ends the track in error.
  `docs/voice-assistant.md:145-147` says that music reopens its format and resumes.

Observed while reading, without a run: a pause or a suspension that comes during the last
buffer of a track leaves it completed with its completion already marked as handled, so the
queue does not advance.

`FileLeases` has a recording and an upload around every operation of the file service that
changes the card. A path is the sequence of its segments as `NormalizeStoragePath` leaves it, and
different sequences are different places of the card. The code folds ASCII case, separators and
`.` segments (`file_path_lease.cc:12-38`); FatFS also takes a name with a trailing dot or space,
and an 8.3 alias, for the file it abbreviates, and `IsSafePath` of the web server
(`web_file_system_service.cc:145-181`) lets such names through. What follows holds for clients
that use one spelling of a path up to what the code folds. Two directories, two names in one and
the same name in the other, and three changes by other clients are enough to rename, delete and
recreate an ancestor.

- `WriterKeepsItsFile`: while a writer writes, the file at its path is the one it created.

Left out: mounting and unmounting, USB mode (it restarts the device), listings, downloads.

### Proved (`VoiceSession_proof`, `Device_proof`)

`NothingIsLeftBehind` is `Consistent`, `MusicWaitsForTheSpeaker` is `QuietBeforeMusic` and
`VoiceTyped` the types, for any number of sessions, stops, losses and faults and any limit of
attempts, under `VoiceAssumption`. `Consistent` speaks only of moments at which nobody is on the
way, so it is not inductive; `VoiceInv` says of everybody on the way what he works for.
A cleaner runs only during a stop, for one task (`Roles`); a stop leaves nothing for the tasks
to do, and a service at rest nothing at all (`Stopped`, `Rested`). What is held belongs to the
session, to the cleaner that saw it acquired, or to the start attempt that acquired it after
the cleaner had looked (`HeldOwned`): that is the race of the ten unlocked steps of a start
against a stop. An attempt that was not overtaken has what the places behind it acquired, and a
session has all of it (`Attempted`, `InSession`). A coordinator at work was begun by the present
interaction or by the one whose stop has not cancelled it yet (`Coordinated`).

`PlayerStaysQuiet` is `PlayerIsQuiet` for tracks of any length and any number of requests,
under `PlaybackAssumption`. `PlayerInv` adds to the property: an idle task has a pause or a
stop before it that it has not read (`TaskOK`); who resumes or pauses holds the operation mutex
(`MutexOK`); from the moment a request has blocked the player only the request uses it
(`BlockedOK`); and once silenced, a task that would write is one that found the output free,
which the request then has taken from it (`ListenersSilenced`).

`FileStaysTheWriters` is `WriterKeepsItsFile` for any tree of paths and any changes, under
`PathsAssumption`. A writer's path is leased from before its file exists until after it is
closed (`LeasesHeld`), no two leased paths are equal or one above the other (`LeasesApart`),
and nobody else's step changes a leased path.

`DeviceInvariant` joins `VoiceInv`, `PlayerInv`, `FilesInv` and the registry's `Inv`, and
`DeviceTyped` is `DeviceTypeOK`. That the card holds only directories and files (`CardTyped`) is
not inductive either: a rename could take a path from a place where nothing is. It needs `Tree`,
that above an existing path there are directories only, which for a rename rests on lemmas
about paths that are moved there and back (`MovedThere`, `MovedBetween`). The proof corrected the
model: the first version let a recording or an upload create its folder although the folder
above it was missing, which showed only with paths deeper than those of the run.

## 9. What is proved, only checked, and not modelled

Proved for all parameters, under the named assumptions of the modules:

| Module | Theorems | Section |
|---|---|---|
| `TaskRetirement_proof` | `TypeCorrect`, `OnlyParkedWorkersDeleted`, `Invariance`, `CountsAreExact`, `RequiresNeverFail`, `JoinReclaims`, `DrainedStaysDrained` | 3 |
| `OtaJournal_proof` | `CopiesAreNeighbours`, `JournalImplementsStore`, `JournalNeverLost` | 4 |
| `OtaSystem_proof` | `TypeCorrect`, `SlotProtected`, `BackupOnCard`, `PhasesAreTrue`, `SuccessTold`, `NoneForgotten` | 5 |
| `Appearance_proof` | `AppearanceIsTyped`, `FallbackIsIntact`, `ShownIsRecorded`, `NeverTriedTwice`, `PendingIsNewer`, `BootBeforeDownload` | 6 |
| `Cloud_proof` | `NotTwice`, `OwnReplay`, `StopsTheRightPeer`, `StopIsEvidence`, `OneClientAtATime`, `RoundsForgetNothing`, `CloudTyped`, and the invariants | 7 |
| `VoiceSession_proof` | `NothingIsLeftBehind`, `MusicWaitsForTheSpeaker`, `VoiceTyped`, `VoiceInvariant` | 8 |
| `Device_proof` | `PlayerStaysQuiet`, `PlayerIsTyped`, `FileStaysTheWriters`, `DeviceInvariant`, `DeviceTyped` | 8 |

So every safety property of a passing run is also a theorem, but for `ProgressTypeOK`. That one
joins four type invariants, three of them under instances with the constants of the run; each
part's own type invariant is a theorem of its module.

Only model-checked, on the instances above: liveness and `ENABLED`, which are out of the
prover's reach (`ParkedIsReclaimed`, `StopReturns`, `TaskEnds`, `EverySessionEnds`,
`ConnectionRecovers`, `StreamsReclaim`, `DesiredSettles`, `TrialEnds`), as are inductions over
data: the lemmas about paths are stated with prefixes of any length for that reason, never
with a parent at a time. Each property was also checked against a mutated
definition that a plausible bug would produce, listed in `PROJECT.json`; a comment in the
module says that it is not the code.

Not modelled: navigation and the app host (one task runs them; see section 2); the voice audio
front end, codecs, drivers, LVGL screens, parsers and cryptography, provisioning and server
trust, for which a state machine would add nothing to a unit test. Fonts, board tables and
vendored code are most of the repository's lines.

## 10. Running

    tlc -workers 2 -config MCDevice.cfg MCDevice
    tlapm Cloud_proof.tla

Each run's module and configuration are in `PROJECT.json`. `CHECK_DEADLOCK FALSE` is set
where the system may really stop: the generation space is used up, Recovery halts, or the
bounded resets, requests and faults are spent and nothing is left to do.
