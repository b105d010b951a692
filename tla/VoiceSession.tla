---------------------------- MODULE VoiceSession ----------------------------
(***************************************************************************)
(* One voice session after another: VoiceAssistantService over its realtime  *)
(* transport (main/phone_os/voice_assistant_service.cc,                     *)
(* voice_assistant_reconnect_coordinator.cc, realtime_voice_transport.cc).   *)
(*                                                                         *)
(* Five threads of control meet here.  The starter (a wake word or a server  *)
(* announcement) acquires the recorder, two tasks, the audio focus and a     *)
(* connection one after another, without the lock.  The I/O task handles     *)
(* events and sends audio, and reconnects.  The playback task writes to the  *)
(* speaker.  The websocket task latches the first failure of a connection    *)
(* and reports it.  And a stop may come from anybody at any time: it is      *)
(* carried out by one cleaner, who releases what it saw acquired, while the  *)
(* starter releases what it acquired too late to be seen.                   *)
(*                                                                         *)
(* Interaction and connection generations are the code's.  A failed send of  *)
(* a connection whose failure the websocket task has already latched counts  *)
(* as sent (ResolveLocalOperationFailure): the report is on its way.         *)
(***************************************************************************)
EXTENDS Naturals, FiniteSets

CONSTANTS
    Talks,          \* bounds: how often each rare event happens, one of these
    MaxAttempts     \* max_attempts of the reconnect policy

Rare == {"wakes", "announces", "stops", "drops", "replies", "faults"}

ASSUME VoiceAssumption == Talks \subseteq [Rare -> Nat] /\ MaxAttempts \in Nat

VARIABLES
    s,              \* the service's fields under mutex_
    held,           \* what is really held: recorder running, focus token
    tasks,          \* io: where the I/O task is; play: the playback task
    starter,        \* the start attempt
    cleaner,        \* the running FinishInteraction, and what it saw
    net,            \* connection_generation_ and the state of the connection
    claim,          \* failure_arbiter_
    report,         \* an inbound event between its latch and the service
    events,         \* inbound_events_: terminal ones
    coord,          \* the reconnect coordinator with its policy
    rare            \* what is left of the budget

voiceVars == <<s, held, tasks, starter, cleaner, net, claim, report, events, coord, rare>>
outside == <<net, claim, report>>

Phases == {"idle", "connecting", "listening", "speaking", "error"}
AtRest == s.phase \in {"idle", "error"}
NoReport == [kind |-> "none", gen |-> 0, retry |-> FALSE]
NoStart   == [pc |-> "none", kind |-> "none", gen |-> 0, net |-> 0]
NoCleaner == [by |-> "none", step |-> "none", inter |-> 0, focus |-> FALSE, rec |-> FALSE]

SpendTalk(what) == rare[what] > 0 /\ rare' = [rare EXCEPT ![what] = @ - 1]
Failing == SpendTalk("faults")

(***************************************************************************)
(* The transport.                                                          *)
(***************************************************************************)
\* IsInteractionCurrent
Current(gen) == s.gen = gen /\ ~s.stopping /\ ~AtRest

\* CloseAudioChannel, with the wait for its cleanup task
LinkClosed == IF net.link = "none" THEN net ELSE [gen |-> net.gen + 1, link |-> "none"]

\* OpenAudioChannel up to esp_websocket_client_start
Opening ==
    /\ net' = [gen |-> LinkClosed.gen + 1, link |-> "opening"]
    /\ claim' = [gen |-> LinkClosed.gen + 1, origin |-> "none"]

\* The last check of OpenAudioChannel reads the connection, not the latch.
Opens(gen) == net.gen = gen /\ net.link \in {"ready", "ended"}

\* What a send returns: a connection that failed inbound takes everything.
Latched(gen)   == claim.gen = gen /\ claim.origin = "inbound"
Connected(gen) == net.gen = gen /\ net.link = "open"
SendWorks(gen) == Connected(gen) \/ Latched(gen)

\* A send that fails latches the failure, unless there is one already.
SendFails(gen) ==
    /\ ~Latched(gen)
    /\ Connected(gen) => rare.faults > 0
    /\ rare' = IF Connected(gen) THEN [rare EXCEPT !.faults = @ - 1] ELSE rare
    /\ claim' = IF claim.gen = gen /\ claim.origin = "none"
                THEN [claim EXCEPT !.origin = "local"] ELSE claim

NetReady ==
    /\ net.link = "opening" /\ net' = [net EXCEPT !.link = "ready"]
    /\ UNCHANGED <<s, held, tasks, starter, cleaner, claim, report, events, coord, rare>>

\* A disconnect, a server error or session.end: the first one is latched and
\* reported.  A disconnect leaves the connection dead; after session.end and an
\* error from the server the websocket stays connected.
Latch(kind, link, retry) ==
    /\ SpendTalk("drops") /\ report = NoReport
    /\ net' = [net EXCEPT !.link = link]
    /\ IF claim.origin = "none"
       THEN /\ claim' = [claim EXCEPT !.origin = "inbound"]
            /\ report' = [kind |-> kind, gen |-> net.gen, retry |-> retry]
       ELSE UNCHANGED <<claim, report>>
    /\ UNCHANGED <<s, held, tasks, starter, cleaner, events, coord>>

Disconnected == net.link \in {"opening", "ready", "open", "ended"}
                /\ \E retry \in BOOLEAN : Latch("error", "dead", retry)
ServerError  == net.link \in {"ready", "open"}
                /\ \E retry \in BOOLEAN : Latch("error", "ended", retry)
SessionEnd   == net.link \in {"ready", "open"} /\ Latch("finished", "ended", FALSE)

\* EmitInbound drops what belongs to a closed connection, HandleInbound what
\* does not belong to the connection the service uses.
Accepted(e) == s.ioRun /\ s.tgen # 0 /\ e.gen = s.tgen

Deliver ==
    /\ report # NoReport /\ report' = NoReport
    /\ events' = IF report.gen = net.gen /\ Accepted(report) THEN events \cup {report} ELSE events
    /\ UNCHANGED <<s, held, tasks, starter, cleaner, net, claim, coord, rare>>

(***************************************************************************)
(* FinishInteraction.  The first caller becomes the cleaner; a caller that   *)
(* finds a stop under way, or another interaction, changes nothing.          *)
(***************************************************************************)
Finish(by, final) ==
    /\ ~s.stopping
    /\ cleaner' = [by |-> by, step |-> "record", inter |-> s.gen,
                   focus |-> s.focus, rec |-> s.rec]
    /\ s' = [s EXCEPT !.stopping = TRUE, !.released = FALSE, !.final = final, !.gen = @ + 1,
                      !.announce = FALSE, !.ioRun = FALSE, !.playRun = FALSE,
                      !.reconnect = FALSE, !.tgen = 0, !.timed = FALSE,
                      !.queue = FALSE]
    /\ events' = {}

\* CompleteInteractionCleanupLocked
Completed(x, io, play) ==
    IF x.stopping /\ ~x.starting /\ x.released /\ io = "none" /\ play = "none"
    THEN [x EXCEPT !.phase = x.final, !.stopping = FALSE, !.released = FALSE] ELSE x

CleanRecorder ==
    /\ cleaner.step = "record" /\ cleaner' = [cleaner EXCEPT !.step = "close"]
    /\ held' = [held EXCEPT !.rec = @ /\ ~cleaner.rec]
    /\ UNCHANGED <<s, tasks, starter, net, claim, report, events, coord, rare>>

CleanClose ==
    /\ cleaner.step = "close" /\ cleaner' = [cleaner EXCEPT !.step = "join"]
    /\ net' = LinkClosed
    /\ UNCHANGED <<s, held, tasks, starter, claim, report, events, coord, rare>>

\* retirement.Join, playback_retirement.Join: a task does not wait for itself.
\* Bug: only the I/O task is joined.
JoinedIoOnly == cleaner.by = "io" \/ tasks.io = "none"

Joined == (cleaner.by = "io" \/ tasks.io = "none") /\ tasks.play = "none"

Cancelled(c, inter) ==
    IF inter = 0 \/ c.inter # inter THEN c
    ELSE [c EXCEPT !.inter = 0,
                   !.state = IF @ \in {"active", "waiting", "attempting"} THEN "cancelled" ELSE @]

CleanRelease ==
    /\ cleaner.step = "join" /\ Joined /\ cleaner' = [cleaner EXCEPT !.step = "finish"]
    /\ coord' = Cancelled(coord, cleaner.inter)
    /\ held' = [held EXCEPT !.focus = @ /\ ~cleaner.focus]
    /\ UNCHANGED <<s, tasks, starter, net, claim, report, events, rare>>

CleanFinish ==
    /\ cleaner.step = "finish" /\ cleaner' = NoCleaner
    /\ s' = Completed([s EXCEPT !.focus = FALSE, !.active = FALSE, !.rec = FALSE,
                                !.released = TRUE], tasks.io, tasks.play)
    /\ tasks' = [tasks EXCEPT !.io = IF cleaner.by = "io" THEN "loop" ELSE @]
    /\ starter' = [starter EXCEPT !.pc = IF cleaner.by = "start" THEN "end" ELSE @]
    /\ UNCHANGED <<held, net, claim, report, events, coord, rare>>

\* StopInteraction from the wake service, the cloud or the user.
StopVoice ==
    /\ SpendTalk("stops") /\ Finish("ext", "idle")
    /\ UNCHANGED <<held, tasks, starter, net, claim, report, coord>>

\* SupervisorTick: the watchdog of a session that neither speaks nor ends, and
\* the way out of the error phase; it waits for a wake word being answered.
Watchdog ==
    /\ s.phase \in {"connecting", "listening", "error"}
    /\ starter.kind # "wake" /\ Finish("ext", "idle")
    /\ UNCHANGED <<held, tasks, starter, net, claim, report, coord, rare>>

(***************************************************************************)
(* StartInteraction for a wake word, StartAnnounce for an announcement.      *)
(***************************************************************************)
AlreadyActive == ~s.stopping /\ s.focus /\ s.active
Vacant == ~s.stopping /\ ~s.starting /\ tasks.io = "none" /\ tasks.play = "none" /\ AtRest

Connecting(announce) ==
    s' = [s EXCEPT !.starting = TRUE, !.gen = @ + 1, !.phase = "connecting",
                   !.announce = announce, !.timed = FALSE, !.playFailed = FALSE]

Wake ==
    /\ SpendTalk("wakes") /\ ~s.starting /\ (AlreadyActive \/ Vacant)
    /\ s' = [s EXCEPT !.starting = TRUE]
    /\ starter' = [pc |-> IF AlreadyActive THEN "again" ELSE "admit",
                   kind |-> "wake", gen |-> s.gen, net |-> s.tgen]
    /\ UNCHANGED <<held, tasks, cleaner, events, coord, outside>>

Announce ==
    /\ SpendTalk("announces") /\ Vacant /\ ~s.focus /\ ~s.active
    /\ Connecting(TRUE)
    /\ starter' = [pc |-> "prepare", kind |-> "announce", gen |-> s.gen + 1, net |-> 0]
    /\ UNCHANGED <<held, tasks, cleaner, events, coord, outside>>

StarterTo(pc)  == starter' = [starter EXCEPT !.pc = pc]
Mine      == Current(starter.gen)
MineStill == Mine /\ s.phase = "connecting"

\* A failed step: FinishInteraction for this attempt, if it is still the one.
GiveUp(final) ==
    \/ /\ s.gen = starter.gen /\ Finish("start", final) /\ StarterTo("cleaning")
    \/ /\ s.gen # starter.gen \/ s.stopping
       /\ StarterTo("end") /\ UNCHANGED <<s, cleaner, events>>

VoiceAdmit ==
    /\ starter.pc = "admit"
    /\ IF s.stopping \/ tasks.io # "none" \/ tasks.play # "none" \/ ~AtRest
       THEN StarterTo("end") /\ UNCHANGED s
       ELSE /\ Connecting(FALSE)
            /\ starter' = [starter EXCEPT !.pc = "record", !.gen = s.gen + 1]
    /\ UNCHANGED <<held, tasks, cleaner, events, coord, rare, outside>>

\* can_start, then recorder_.Start; StartRecorderForInteraction records it.
Record ==
    /\ starter.pc = "record"
    /\ \/ Failing /\ (\E final \in {"idle", "error"} : GiveUp(final)) /\ UNCHANGED held
       \/ /\ held' = [held EXCEPT !.rec = TRUE] /\ StarterTo("recorded")
          /\ UNCHANGED <<s, cleaner, events, rare>>
    /\ UNCHANGED <<tasks, coord, outside>>

Recorded ==
    /\ starter.pc = "recorded"
    /\ IF MineStill
       THEN s' = [s EXCEPT !.rec = TRUE] /\ StarterTo("prepare") /\ UNCHANGED held
       ELSE held' = [held EXCEPT !.rec = FALSE] /\ StarterTo("end") /\ UNCHANGED s
    /\ UNCHANGED <<tasks, cleaner, events, coord, rare, outside>>

\* before_transport_callback_ and PrepareInteraction
Prepare ==
    /\ starter.pc = "prepare"
    /\ \/ Failing /\ Mine /\ (\E final \in {"idle", "error"} : GiveUp(final))
       \/ /\ StarterTo(IF Mine THEN "io" ELSE "end") /\ UNCHANGED <<s, cleaner, events, rare>>
    /\ UNCHANGED <<held, tasks, coord, outside>>

StartIoTask ==
    /\ starter.pc = "io"
    /\ \/ (MineStill => Failing) /\ (~MineStill => UNCHANGED rare)
          /\ GiveUp("error") /\ UNCHANGED tasks
       \/ /\ MineStill /\ s' = [s EXCEPT !.ioRun = TRUE]
          /\ tasks' = [tasks EXCEPT !.io = "loop"] /\ StarterTo("play")
          /\ UNCHANGED <<cleaner, events, rare>>
    /\ UNCHANGED <<held, coord, outside>>

StartPlaybackTask ==
    /\ starter.pc = "play"
    /\ \/ (MineStill => Failing) /\ (~MineStill => UNCHANGED rare)
          /\ GiveUp("error") /\ UNCHANGED tasks
       \/ /\ MineStill /\ s' = [s EXCEPT !.playRun = TRUE]
          /\ tasks' = [tasks EXCEPT !.play = "idle"] /\ StarterTo("focus")
          /\ UNCHANGED <<cleaner, events, rare>>
    /\ UNCHANGED <<held, coord, outside>>

RequestVoiceFocus ==
    /\ starter.pc = "focus"
    /\ \/ Failing /\ GiveUp("error") /\ UNCHANGED held
       \/ /\ held' = [held EXCEPT !.focus = TRUE] /\ StarterTo("focused")
          /\ UNCHANGED <<s, cleaner, events, rare>>
    /\ UNCHANGED <<tasks, coord, outside>>

\* A focus that came too late is given back by the starter itself.
\* Bug: it is left to a stop that did not see it.
FocusedUnchecked ==
    /\ starter.pc = "focused"
    /\ IF MineStill
       THEN s' = [s EXCEPT !.focus = TRUE] /\ StarterTo("open")
       ELSE StarterTo("end") /\ UNCHANGED s
    /\ UNCHANGED <<held, tasks, cleaner, events, coord, rare, outside>>

Focused ==
    /\ starter.pc = "focused"
    /\ IF MineStill
       THEN s' = [s EXCEPT !.focus = TRUE] /\ StarterTo("open") /\ UNCHANGED held
       ELSE /\ held' = [rec |-> held.rec /\ starter.kind # "wake", focus |-> FALSE]
            /\ StarterTo("end") /\ UNCHANGED s
    /\ UNCHANGED <<tasks, cleaner, events, coord, rare, outside>>

\* OpenTransportForInteraction: open, check that the open is still wanted, bind.
OpenLink ==
    /\ starter.pc = "open"
    /\ IF Mine
       THEN /\ Opening /\ starter' = [starter EXCEPT !.pc = "opening", !.net = LinkClosed.gen + 1]
            /\ UNCHANGED <<s, cleaner, events>>
       ELSE GiveUp("error") /\ UNCHANGED <<net, claim>>
    /\ UNCHANGED <<held, tasks, report, coord, rare>>

Opened ==
    /\ starter.pc = "opening"
    /\ \/ /\ Opens(starter.net) /\ net' = [net EXCEPT !.link = "open"]
          /\ StarterTo("opened") /\ UNCHANGED <<s, cleaner, events>>
       \/ /\ net' = IF net.gen = starter.net THEN LinkClosed ELSE net
          /\ \E final \in {"idle", "error"} : GiveUp(final)
    /\ UNCHANGED <<held, tasks, claim, report, coord, rare>>

Bind ==
    /\ starter.pc = "opened"
    /\ IF MineStill
       THEN s' = [s EXCEPT !.tgen = starter.net] /\ StarterTo("send") /\ UNCHANGED net
       ELSE net' = LinkClosed /\ StarterTo("end") /\ UNCHANGED s
    /\ UNCHANGED <<held, tasks, cleaner, claim, report, events, coord, rare>>

\* wake.detected and input.start; an announcement sends neither.
Send ==
    /\ starter.pc = "send"
    /\ \/ /\ starter.kind = "wake" => SendWorks(starter.net)
          /\ StarterTo("commit") /\ UNCHANGED <<s, cleaner, events, net, claim, rare>>
       \/ /\ starter.kind = "wake" /\ SendFails(starter.net) /\ GiveUp("error")
          /\ net' \in {net, LinkClosed}
    /\ UNCHANGED <<held, tasks, report, coord>>

\* reconnect_coordinator_.Begin
Begun(gen) == [state |-> "active", gen |-> gen, inter |-> starter.gen, attempt |-> 0]
MayBegin(gen) == gen # coord.gen /\ (coord.inter # 0 \/
                     coord.state \notin {"active", "waiting", "attempting"})

Commit ==
    /\ starter.pc = "commit"
    /\ IF starter.kind = "wake"
       THEN \/ /\ s.gen = starter.gen /\ ~s.stopping /\ s.focus /\ MayBegin(starter.net)
               /\ s' = [s EXCEPT !.phase = "listening", !.active = TRUE]
               /\ coord' = Begun(starter.net) /\ StarterTo("end") /\ UNCHANGED <<cleaner, events>>
            \/ /\ ~(s.gen = starter.gen /\ ~s.stopping /\ s.focus /\ MayBegin(starter.net))
               /\ GiveUp("error") /\ UNCHANGED coord
       ELSE /\ IF s.gen = starter.gen /\ ~s.stopping /\ s.focus /\ s.tgen = starter.net
               THEN /\ s' = [s EXCEPT !.phase = "speaking", !.active = TRUE, !.timed = TRUE]
                    /\ StarterTo("end") /\ UNCHANGED <<cleaner, events>>
               ELSE GiveUp("idle")
            /\ UNCHANGED coord
    /\ UNCHANGED <<held, tasks, rare, outside>>

\* A wake word during a session: StartInteraction on the open connection.  A
\* send that fails is queued for the I/O task (QueueTransportFailure).
Again ==
    /\ starter.pc = "again"
    /\ \/ /\ SendWorks(starter.net) /\ StarterTo("mark") /\ UNCHANGED <<events, claim, rare>>
       \/ /\ SendFails(starter.net) /\ StarterTo("end")
          /\ \E retry \in BOOLEAN :
                 LET e == [kind |-> "error", gen |-> starter.net, retry |-> retry]
                 IN  events' = IF s.active /\ ~s.stopping /\ Accepted(e)
                               THEN events \cup {e} ELSE events
    /\ UNCHANGED <<s, held, tasks, cleaner, net, report, coord>>

MarkListening ==
    /\ starter.pc = "mark" /\ StarterTo("end")
    /\ s' = [s EXCEPT !.phase = IF s.stopping THEN @ ELSE "listening"]
    /\ UNCHANGED <<held, tasks, cleaner, events, coord, rare, outside>>

\* CompleteStartAttempt
\* Bug: a stop that waits for the start attempt is not completed by its end.
StartEndForgets ==
    /\ starter.pc = "end" /\ starter' = NoStart
    /\ s' = [s EXCEPT !.starting = FALSE]
    /\ UNCHANGED <<held, tasks, cleaner, events, coord, rare, outside>>

StartEnd ==
    /\ starter.pc = "end" /\ starter' = NoStart
    /\ s' = Completed([s EXCEPT !.starting = FALSE], tasks.io, tasks.play)
    /\ UNCHANGED <<held, tasks, cleaner, events, coord, rare, outside>>

(***************************************************************************)
(* The I/O task: one iteration of its loop at a time.                      *)
(***************************************************************************)
InLoop == tasks.io = "loop" /\ s.ioRun
AtIo(pc) == tasks' = [tasks EXCEPT !.io = pc]

IoFinish(final) == Finish("io", final) /\ AtIo("cleaning")

IoExit ==
    /\ tasks.io = "loop" /\ ~s.ioRun /\ AtIo("none")
    /\ s' = Completed(s, "none", tasks.play)
    /\ UNCHANGED <<held, starter, cleaner, events, coord, rare, outside>>

\* HandleTransportFailure of the connection gen
Handled(gen) == s.active /\ ~s.stopping /\ s.ioRun /\ gen = s.tgen

Reconnecting ==
    /\ s' = [s EXCEPT !.active = FALSE, !.tgen = 0, !.reconnect = TRUE, !.timed = FALSE,
                      !.phase = "connecting", !.queue = FALSE]
    /\ events' = {} /\ AtIo("closing") /\ UNCHANGED cleaner

Fail(gen, retry) ==
    \/ /\ Handled(gen) /\ s.announce
       /\ IoFinish("error") /\ UNCHANGED coord
    \/ /\ Handled(gen) /\ ~s.announce /\ coord.inter = s.gen /\ coord.gen = gen
       /\ IF retry /\ coord.attempt < MaxAttempts
          THEN coord' = [coord EXCEPT !.state = "waiting", !.attempt = @ + 1] /\ Reconnecting
          ELSE coord' = [coord EXCEPT !.state = "terminal"] /\ IoFinish("error")
    \/ /\ ~Handled(gen) \/ (~s.announce /\ (coord.inter # s.gen \/ coord.gen # gen))
       /\ UNCHANGED <<s, tasks, cleaner, events, coord>>

\* ProcessInbound of a terminal event; a stale one is dropped.
IoEvent(e) ==
    /\ InLoop /\ s.active /\ e \in events
    /\ \/ /\ e.gen # s.tgen /\ events' = events \ {e} /\ UNCHANGED <<s, tasks, cleaner, coord>>
       \/ /\ e.gen = s.tgen /\ e.kind = "finished" /\ AtIo("draining")
          /\ events' = events \ {e} /\ UNCHANGED <<s, cleaner, coord>>
       \/ /\ e.gen = s.tgen /\ e.kind = "error"
          /\ IF Handled(e.gen) /\ (s.announce \/ (coord.inter = s.gen /\ coord.gen = e.gen))
             THEN Fail(e.gen, e.retry)
             ELSE events' = events \ {e} /\ UNCHANGED <<s, tasks, cleaner, coord>>
    /\ UNCHANGED <<held, starter, rare, outside>>

\* WaitForPlaybackIdle
PlaybackQuiet == ~s.playRun \/ (~s.queue /\ tasks.play # "writing")

\* session.end: the reply is played to its end first.
IoDrained ==
    /\ tasks.io = "draining" /\ PlaybackQuiet
    /\ \/ ~s.stopping /\ IoFinish("idle")
       \/ s.stopping /\ AtIo("loop") /\ UNCHANGED <<s, cleaner, events>>
    /\ UNCHANGED <<held, starter, coord, rare, outside>>

IoClosing ==
    /\ tasks.io = "closing" /\ PlaybackQuiet /\ AtIo("loop") /\ net' = LinkClosed
    /\ UNCHANGED <<s, held, starter, cleaner, claim, report, events, coord, rare>>

\* SendNextAudioFrame: a send that fails; a recorder that stopped by itself.
IoSend ==
    /\ InLoop /\ s.active /\ s.rec /\ held.rec /\ SendFails(s.tgen)
    /\ \E retry \in BOOLEAN : Fail(s.tgen, retry)
    /\ UNCHANGED <<held, starter, net, report>>

IoCapture ==
    /\ InLoop /\ s.active /\ s.rec /\ ~held.rec /\ s.phase \in {"listening", "speaking"}
    /\ IoFinish("error")
    /\ UNCHANGED <<held, starter, coord, rare, outside>>

\* The follow-up window and a reply that stalls; a write that failed.
IoTimeout ==
    /\ InLoop /\ s.active /\ s.timed /\ IoFinish("idle")
    /\ UNCHANGED <<held, starter, coord, rare, outside>>

IoPlaybackFailed ==
    /\ InLoop /\ s.playFailed /\ Finish("io", "error") /\ AtIo("cleaning")
    /\ UNCHANGED <<held, starter, coord, rare, outside>>

\* output.start with its first frame
IoReply ==
    /\ InLoop /\ s.active /\ Connected(s.tgen) /\ SpendTalk("replies")
    /\ s' = [s EXCEPT !.phase = "speaking", !.timed = TRUE, !.queue = TRUE]
    /\ UNCHANGED <<held, tasks, starter, cleaner, events, coord, outside>>

\* BeginFollowUpTurn
IoFollowUp ==
    /\ InLoop /\ s.active /\ s.phase = "speaking" /\ ~s.announce
    /\ PlaybackQuiet /\ events = {}
    /\ \/ /\ SendWorks(s.tgen) /\ s' = [s EXCEPT !.phase = "listening", !.timed = TRUE]
          /\ UNCHANGED <<tasks, cleaner, events, coord, claim, rare>>
       \/ SendFails(s.tgen) /\ \E retry \in BOOLEAN : Fail(s.tgen, retry)
    /\ UNCHANGED <<held, starter, net, report>>

(***************************************************************************)
(* ProcessReconnect and the coordinator's Attempt, made by the I/O task.     *)
(***************************************************************************)
Wanted == Current(coord.inter) /\ s.reconnect /\ ~s.active

RetryCancelled ==
    /\ coord' = Cancelled(coord, coord.inter) /\ AtIo("loop") /\ UNCHANGED <<s, cleaner, events>>

RetryFailed(retry) ==
    \/ ~Wanted /\ RetryCancelled
    \/ /\ Wanted /\ retry /\ coord.attempt < MaxAttempts
       /\ coord' = [coord EXCEPT !.state = "waiting", !.attempt = @ + 1]
       /\ s' = [s EXCEPT !.tgen = 0] /\ events' = {} /\ AtIo("loop") /\ UNCHANGED cleaner
    \/ /\ Wanted /\ ~(retry /\ coord.attempt < MaxAttempts)
       /\ coord' = [coord EXCEPT !.state = "terminal"] /\ IoFinish("error")

Retry ==
    /\ InLoop /\ s.reconnect /\ ~s.active /\ coord.state = "waiting" /\ coord.inter = s.gen
    /\ coord' = [coord EXCEPT !.state = "attempting"]
    /\ Opening /\ tasks' = [tasks EXCEPT !.io = "opening", !.net = LinkClosed.gen + 1]
    /\ UNCHANGED <<s, held, starter, cleaner, report, events, rare>>

RetryOpened ==
    /\ tasks.io = "opening"
    /\ \/ /\ Opens(tasks.net) /\ Wanted /\ net' = [net EXCEPT !.link = "open"]
          /\ AtIo("bind") /\ UNCHANGED <<s, cleaner, events, coord>>
       \/ net' = LinkClosed /\ \E retry \in BOOLEAN : RetryFailed(retry)
    /\ UNCHANGED <<held, starter, claim, report, rare>>

\* on_opened
RetryBind ==
    /\ tasks.io = "bind"
    /\ IF Wanted
       THEN /\ s' = [s EXCEPT !.tgen = tasks.net] /\ AtIo("sending")
            /\ UNCHANGED <<net, coord, cleaner, events>>
       ELSE RetryCancelled /\ net' = LinkClosed
    /\ UNCHANGED <<held, starter, claim, report, rare>>

RetrySend ==
    /\ tasks.io = "sending"
    /\ \/ /\ SendWorks(tasks.net) /\ AtIo("commit")
          /\ UNCHANGED <<s, cleaner, events, coord, net, claim, rare>>
       \/ SendFails(tasks.net) /\ net' = LinkClosed /\ \E retry \in BOOLEAN : RetryFailed(retry)
    /\ UNCHANGED <<held, starter, report>>

\* The coordinator takes the new connection, and then the service does: a stop
\* between the two leaves it to the cleaner to cancel the coordinator.
RetryCommit ==
    /\ tasks.io = "commit"
    /\ IF Wanted
       THEN /\ coord' = [coord EXCEPT !.state = "active", !.gen = tasks.net, !.attempt = 0]
            /\ AtIo("adopt") /\ UNCHANGED <<s, net, cleaner, events>>
       ELSE RetryCancelled /\ net' = LinkClosed
    /\ UNCHANGED <<held, starter, claim, report, rare>>

RetryAdopt ==
    /\ tasks.io = "adopt" /\ AtIo("loop")
    /\ IF Wanted /\ s.tgen = tasks.net
       THEN /\ s' = [s EXCEPT !.active = TRUE, !.reconnect = FALSE, !.phase = "listening"]
            /\ UNCHANGED net
       ELSE net' = LinkClosed /\ UNCHANGED s
    /\ UNCHANGED <<held, starter, cleaner, claim, report, events, coord, rare>>

(***************************************************************************)
(* The playback task, and a recorder that dies.                            *)
(***************************************************************************)
PlayWrite ==
    /\ tasks.play = "idle" /\ s.playRun /\ s.queue
    /\ tasks' = [tasks EXCEPT !.play = "writing"] /\ s' = [s EXCEPT !.queue = FALSE]
    /\ UNCHANGED <<held, starter, cleaner, events, coord, rare, outside>>

PlayWritten ==
    /\ tasks.play = "writing" /\ tasks' = [tasks EXCEPT !.play = "idle"]
    /\ \/ UNCHANGED <<s, rare>>
       \/ Failing /\ s' = [s EXCEPT !.playFailed = TRUE]
    /\ UNCHANGED <<held, starter, cleaner, events, coord, outside>>

PlayExit ==
    /\ tasks.play = "idle" /\ ~s.playRun /\ tasks' = [tasks EXCEPT !.play = "none"]
    /\ s' = Completed(s, tasks.io, "none")
    /\ UNCHANGED <<held, starter, cleaner, events, coord, rare, outside>>

RecorderDies ==
    /\ Failing /\ held.rec /\ held' = [held EXCEPT !.rec = FALSE]
    /\ UNCHANGED <<s, tasks, starter, cleaner, events, coord, outside>>

VoiceInit ==
    /\ s = [phase |-> "idle", gen |-> 0, stopping |-> FALSE, starting |-> FALSE,
            released |-> FALSE, final |-> "idle", focus |-> FALSE, active |-> FALSE,
            rec |-> FALSE, tgen |-> 0, ioRun |-> FALSE, playRun |-> FALSE,
            reconnect |-> FALSE, announce |-> FALSE, timed |-> FALSE,
            playFailed |-> FALSE, queue |-> FALSE]
    /\ held = [rec |-> FALSE, focus |-> FALSE]
    /\ tasks = [io |-> "none", play |-> "none", net |-> 0]
    /\ starter = NoStart /\ cleaner = NoCleaner
    /\ net = [gen |-> 0, link |-> "none"] /\ claim = [gen |-> 0, origin |-> "none"]
    /\ report = NoReport /\ events = {}
    /\ coord = [state |-> "idle", gen |-> 0, inter |-> 0, attempt |-> 0]
    /\ rare \in Talks

Starter ==
    \/ VoiceAdmit \/ Record \/ Recorded \/ Prepare \/ StartIoTask \/ StartPlaybackTask
    \/ RequestVoiceFocus \/ Focused \/ OpenLink \/ Opened \/ Bind \/ Send \/ Commit
    \/ Again \/ MarkListening \/ StartEnd
Cleaner == CleanRecorder \/ CleanClose \/ CleanRelease \/ CleanFinish
IoTask ==
    \/ IoExit \/ (\E e \in events : IoEvent(e)) \/ IoDrained \/ IoClosing
    \/ IoCapture \/ IoTimeout \/ IoPlaybackFailed \/ IoFollowUp
    \/ Retry \/ RetryOpened \/ RetryBind \/ RetrySend \/ RetryCommit \/ RetryAdopt
Playback == PlayWrite \/ PlayWritten \/ PlayExit

VoiceNext ==
    \/ Wake \/ Announce \/ StopVoice \/ Watchdog \/ RecorderDies
    \/ NetReady \/ Disconnected \/ ServerError \/ SessionEnd \/ Deliver
    \/ Starter \/ Cleaner \/ IoTask \/ IoSend \/ IoReply \/ Playback

VoiceFairness ==
    /\ WF_voiceVars(Starter) /\ WF_voiceVars(Cleaner) /\ WF_voiceVars(IoTask)
    /\ WF_voiceVars(Playback)
    /\ WF_voiceVars(Deliver) /\ WF_voiceVars(Watchdog)

VoiceSpec == VoiceInit /\ [][VoiceNext]_voiceVars /\ VoiceFairness

(***************************************************************************)
(* Properties.                                                             *)
(***************************************************************************)
VoiceTypeOK ==
    /\ s.phase \in Phases /\ s.final \in {"idle", "error"} /\ {s.gen, s.tgen} \subseteq Nat
    /\ held \in [rec : BOOLEAN, focus : BOOLEAN]
    /\ tasks.io \in {"none", "loop", "cleaning", "draining", "closing",
                    "opening", "bind", "sending", "commit", "adopt"}
    /\ tasks.play \in {"none", "idle", "writing"}
    /\ starter.kind \in {"none", "wake", "announce"}
    /\ cleaner.by \in {"none", "ext", "start", "io"}
    /\ net.link \in {"none", "opening", "ready", "open", "ended", "dead"}
    /\ claim.origin \in {"none", "inbound", "local"}
    /\ \A e \in events \cup {report} : e.kind \in {"none", "error", "finished"}
    /\ coord.state \in {"idle", "active", "waiting", "attempting", "cancelled", "terminal"}
    /\ coord.attempt \in 0 .. MaxAttempts
    /\ rare \in [Rare -> Nat]

\* Whenever no start attempt and no stop is under way, the service is either at
\* rest with nothing acquired (recorder, speaker, connection, tasks: not even by
\* a start attempt that a stop overtook), or in a session that has its two
\* tasks and the speaker, on a connection or about to open one.
Consistent ==
    ~s.stopping /\ ~s.starting =>
        IF AtRest
        THEN /\ held = [rec |-> FALSE, focus |-> FALSE] /\ net.link = "none"
             /\ tasks.io = "none" /\ tasks.play = "none" /\ events = {}
             /\ coord.state \notin {"active", "waiting", "attempting"}
        ELSE /\ held.focus /\ s.ioRun /\ s.playRun
             /\ s.active \/ (s.reconnect /\ coord.inter = s.gen)

\* "The speaker must be quiet before its output closes and focus returns to
\* music": the focus is never given back in the middle of a write.
QuietBeforeMusic == [][held.focus /\ ~held'.focus => tasks.play # "writing"]_voiceVars

\* However a session goes, the service returns to rest and can be woken again.
EverySessionEnds == []<>(s.phase = "idle" /\ ~s.stopping)

\* A connection on which a failure or session.end was latched never carries an
\* interaction that nobody is going to end: the report is still on its way.
FailureIsHandled ==
    s.active /\ ~s.stopping /\ Latched(s.tgen) =>
        \/ report.gen = s.tgen \/ \E e \in events : e.gen = s.tgen
        \/ tasks.io = "draining"
=============================================================================
