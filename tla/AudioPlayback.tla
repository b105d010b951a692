--------------------------- MODULE AudioPlayback ---------------------------
(***************************************************************************)
(* Who may use the speaker: the music player (music_player_service.cc), the  *)
(* playback task (audio_service.cc), the audio focus (audio_focus_service.cc)*)
(* and the owner of the output (audio_output_service.cc), all of             *)
(* main/phone_os.                                                          *)
(*                                                                         *)
(* A process is the touch screen, the monitor that starts the next track, or *)
(* whoever asks for the focus: an assistant session, which suspends the music *)
(* and resumes it, or a recording or the camera, which ends it.  Each         *)
(* operation takes music_player's and then audio_service's operation mutex   *)
(* and waits for the playback task, which never takes either.               *)
(***************************************************************************)
EXTENDS Naturals

CONSTANTS
    Listens,        \* bounds: how often each event happens, one of these
    Frames          \* buffers in a track

Events == {"plays", "toggles", "stops", "clips", "sessions", "recordings", "faults"}

ASSUME PlaybackAssumption == Listens \subseteq [Events -> Nat] /\ Frames \in Nat \ {0}

Procs  == {"ui", "monitor", "focus"}
Free   == "nobody"
Playing == {"loading", "playing"}   \* IsPlayingStatus

VARIABLES
    music,      \* MusicPlayerService: op mutex, blocked, handled, queuePaused
    audio,      \* AudioService: op mutex, state and requests
    out,        \* owner_ of the output
    player,     \* the playback task: pc, buffers left, ok, stopped
    focus,      \* the active request: resume, and what it found
    pc,         \* where each process is
    left        \* what is left of the budget

playerVars == <<music, audio, out, player, focus, pc, left>>

Spend(what) == left[what] > 0 /\ left' = [left EXCEPT ![what] = @ - 1]
Goto(p, to) == pc' = [pc EXCEPT ![p] = to]

\* An operation mutex is released when the operation of p returns.
Unlocked(m, p) == [m EXCEPT !.op = IF @ = p THEN Free ELSE @]

(***************************************************************************)
(* AudioService.                                                           *)
(***************************************************************************)
StopRequested == [audio EXCEPT !.stop = TRUE, !.pause = FALSE, !.idle = FALSE, !.suspended = FALSE]
PauseRequested(a) ==
    IF a.status \in Playing THEN [a EXCEPT !.pause = TRUE, !.idle = FALSE, !.status = "paused"] ELSE a

Closed == IF out = "music" THEN "nobody" ELSE out

\* PlayFile: stop what plays, join its task, start another one.
PlayStop(p) ==
    /\ pc[p] = "playfile" /\ audio.op = Free
    /\ audio' = [StopRequested EXCEPT !.op = p] /\ Goto(p, "join")
    /\ UNCHANGED <<music, out, player, focus, left>>

PlayStart(p) ==
    /\ pc[p] = "join" /\ ~audio.active
    /\ \E created \in BOOLEAN :
           /\ IF created THEN UNCHANGED left ELSE Spend("faults")
           /\ audio' = [audio EXCEPT !.op = Free, !.stop = FALSE, !.pause = FALSE, !.idle = FALSE,
                                     !.suspended = FALSE, !.abort = FALSE, !.active = created,
                                     !.status = IF created THEN "loading" ELSE "error",
                                     !.track = (music.op = p)]
           /\ player' = IF created THEN [pc |-> "open", frames |-> Frames, ok |-> TRUE,
                                         stopped |-> FALSE]
                        ELSE player
    /\ music' = Unlocked(music, p) /\ Goto(p, "idle")
    /\ UNCHANGED <<out, focus>>

PlayTimeout(p) ==
    /\ pc[p] = "join" /\ audio.active /\ Spend("faults")
    /\ audio' = [audio EXCEPT !.op = Free, !.status = "error"]
    /\ music' = Unlocked(music, p) /\ Goto(p, "idle") /\ UNCHANGED <<out, player, focus>>

\* Resume: the output is opened between two looks at the state.
Resumable == audio.active /\ ~audio.stop /\ audio.status = "paused"

ResumeBegin(p) ==
    /\ pc[p] = "resume" /\ audio.op = Free
    /\ IF Resumable
       THEN /\ audio' = [audio EXCEPT !.op = p] /\ UNCHANGED music
            /\ Goto(p, IF audio.suspended THEN "reopen" ELSE "resumed")
       ELSE Goto(p, "idle") /\ music' = Unlocked(music, p) /\ UNCHANGED audio
    /\ UNCHANGED <<out, player, focus, left>>

Reopen(p) ==
    /\ pc[p] = "reopen"
    /\ \/ /\ out \in {Free, "music"} /\ out' = "music" /\ Goto(p, "reopened")
          /\ UNCHANGED <<music, audio, left>>
       \/ /\ IF out \in {Free, "music"} THEN Spend("faults") ELSE UNCHANGED left
          /\ audio' = IF audio.stop \/ ~audio.active THEN Unlocked(audio, p)
                      ELSE [audio EXCEPT !.op = Free, !.abort = TRUE, !.stop = TRUE,
                                         !.pause = FALSE, !.status = "error"]
          /\ out' = IF audio.stop \/ ~audio.active THEN Closed ELSE out
          /\ music' = Unlocked(music, p) /\ Goto(p, "idle")
    /\ UNCHANGED <<player, focus>>

Resumed(p) ==
    /\ pc[p] \in {"reopened", "resumed"}
    /\ IF audio.stop \/ ~audio.active
       THEN audio' = Unlocked(audio, p) /\ out' = IF pc[p] = "reopened" THEN Closed ELSE out
       ELSE /\ audio' = [audio EXCEPT !.op = Free, !.suspended = FALSE, !.idle = FALSE,
                                      !.pause = FALSE, !.status = "playing"]
            /\ UNCHANGED out
    /\ music' = Unlocked(music, p) /\ Goto(p, "idle") /\ UNCHANGED <<player, focus, left>>

(***************************************************************************)
(* The playback task.                                                      *)
(***************************************************************************)
\* A recording is a WAV file, whose header names the format of the output; a track
\* may be an MP3 file, which tells it with the first frame it decodes, so that its
\* task looks for requests before it has opened the output.
TaskLoad ==
    /\ player.pc = "open" /\ audio.track /\ player' = [player EXCEPT !.pc = "wait"]
    /\ audio' = [audio EXCEPT !.status = IF audio.pause THEN "paused" ELSE "loading"]
    /\ UNCHANGED <<music, out, focus, pc, left>>

TaskOpen ==
    /\ player.pc \in {"open", "decode"}
    /\ IF out \in {Free, "music"}
       THEN /\ out' = "music"
            /\ player' = [player EXCEPT !.pc = IF @ = "open" THEN "poll" ELSE "write"]
            /\ audio' = [audio EXCEPT !.status = IF audio.pause THEN "paused" ELSE "playing"]
       ELSE /\ player' = [player EXCEPT !.pc = "finish", !.ok = FALSE]
            /\ audio' = [audio EXCEPT !.status = "error"] /\ UNCHANGED out
    /\ UNCHANGED <<music, focus, pc, left>>

\* A file that cannot be opened, read or decoded, or no memory for it.
TaskFails ==
    /\ player.pc \in {"open", "decode", "write"} /\ Spend("faults")
    /\ player' = [player EXCEPT !.pc = "finish", !.ok = FALSE]
    /\ audio' = [audio EXCEPT !.status = "error"]
    /\ out' = IF player.pc = "write" THEN Closed ELSE out
    /\ UNCHANGED <<music, focus, pc>>

\* ShouldStopOrPause
TaskPoll ==
    /\ player.pc \in {"wait", "poll"} /\ (audio.pause => audio.stop \/ ~audio.idle)
    /\ audio' = [audio EXCEPT !.idle = audio.pause]
    /\ player' = IF audio.stop THEN [player EXCEPT !.pc = "finish", !.stopped = TRUE]
                 ELSE IF audio.pause THEN player
                 ELSE [player EXCEPT !.pc = IF @ = "wait" THEN "decode" ELSE "write"]
    /\ out' = IF audio.stop /\ player.pc = "poll" THEN Closed ELSE out
    /\ UNCHANGED <<music, focus, pc, left>>

TaskWrite ==
    /\ player.pc = "write"
    /\ IF out = "music"
       THEN /\ player' = [player EXCEPT !.frames = @ - 1,
                                      !.pc = IF player.frames = 1 THEN "finish" ELSE "poll"]
            /\ UNCHANGED <<audio, out>>
       ELSE /\ player' = [player EXCEPT !.pc = "finish", !.ok = FALSE]
            /\ audio' = [audio EXCEPT !.status = "error"] /\ out' = Closed
    /\ UNCHANGED <<music, focus, pc, left>>

\* FinishPlayback: the output stays open for the next track.
TaskFinish ==
    /\ player.pc = "finish" /\ player' = [player EXCEPT !.pc = "clear"]
    /\ LET ended == player.stopped \/ audio.stop
       IN  /\ out' = IF ~player.ok \/ ended \/ audio.abort THEN Closed ELSE out
           /\ audio' = [audio EXCEPT !.status = IF audio.abort THEN "error"
                                                ELSE IF ended THEN "stopped"
                                                ELSE IF player.ok THEN "completed" ELSE "error"]
    /\ UNCHANGED <<music, focus, pc, left>>

\* ClearPlaybackTask
TaskClear ==
    /\ player.pc = "clear" /\ player' = [player EXCEPT !.pc = "none"]
    /\ audio' = [audio EXCEPT !.active = FALSE]
    /\ UNCHANGED <<music, out, focus, pc, left>>

(***************************************************************************)
(* MusicPlayerService.                                                     *)
(***************************************************************************)
\* PlayTrackLocked up to PlayFile
Starting(p) == [music EXCEPT !.op = p, !.handled = FALSE, !.queuePaused = FALSE]

PlayTrack ==
    /\ pc["ui"] = "idle" /\ Spend("plays") /\ ~music.blocked /\ music.op = Free
    /\ music' = Starting("ui") /\ Goto("ui", "playfile")
    /\ UNCHANGED <<audio, out, player, focus>>

TogglePlayPause ==
    /\ pc["ui"] = "idle" /\ Spend("toggles") /\ ~music.blocked /\ music.op = Free
    /\ IF audio.status \in {"paused"} \cup Playing
       THEN /\ music' = [music EXCEPT !.op = "ui"]
            /\ Goto("ui", IF audio.status = "paused" THEN "resume" ELSE "pause")
       ELSE music' = Starting("ui") /\ Goto("ui", "playfile")
    /\ UNCHANGED <<audio, out, player, focus>>

TogglePause ==
    /\ pc["ui"] = "pause" /\ Goto("ui", "idle") /\ audio' = PauseRequested(audio)
    /\ music' = [music EXCEPT !.op = Free, !.queuePaused = TRUE, !.handled = TRUE]
    /\ UNCHANGED <<out, player, focus, left>>

StopMusic ==
    /\ pc["ui"] = "idle" /\ Spend("stops") /\ music.op = Free /\ audio' = StopRequested
    /\ music' = [music EXCEPT !.queuePaused = TRUE, !.handled = TRUE]
    /\ UNCHANGED <<out, player, focus, pc>>

\* Refresh by the monitor task
NextTrack ==
    /\ pc["monitor"] = "idle" /\ music.op = Free /\ ~music.blocked
    /\ audio.status = "completed" /\ audio.track /\ ~music.handled /\ ~music.queuePaused
    /\ Spend("plays")
    /\ music' = Starting("monitor") /\ Goto("monitor", "playfile")
    /\ UNCHANGED <<audio, out, player, focus>>

SeePlaying ==
    /\ pc["monitor"] = "idle" /\ music.op = Free /\ music.handled
    /\ audio.status \in Playing /\ music' = [music EXCEPT !.handled = FALSE]
    /\ UNCHANGED <<audio, out, player, focus, pc, left>>

\* RecorderApp plays a recording, or stops it, past the music player.
PlayRecording ==
    /\ pc["ui"] = "idle" /\ Spend("clips")
    /\ IF ~audio.track /\ audio.status \in Playing \cup {"paused"}
       THEN audio' = StopRequested /\ UNCHANGED pc
       ELSE Goto("ui", "playfile") /\ UNCHANGED audio
    /\ UNCHANGED <<music, out, player, focus>>

(***************************************************************************)
(* AudioFocusService, exclusive requests only: nobody makes another kind.   *)
(* One request at a time holds its mutex; a busy focus refuses the others.   *)
(***************************************************************************)
Owner == IF focus.resume THEN "assistant" ELSE "recorder"

SetBlocked(value, next) ==
    music.op = Free /\ music' = [music EXCEPT !.blocked = value] /\ Goto("focus", next)

RequestFocus(resume) ==
    /\ pc["focus"] = "idle" /\ Spend(IF resume THEN "sessions" ELSE "recordings")
    /\ SetBlocked(TRUE, "read")
    /\ focus' = [resume |-> resume, playing |-> FALSE, kept |-> FALSE]
    /\ UNCHANGED <<audio, out, player>>

\* What plays or is paused is suspended for a session, and ended otherwise.
ReadPlayer ==
    /\ pc["focus"] = "read"
    /\ LET playing == audio.status \in Playing
           keep == focus.resume /\ (playing \/ audio.status = "paused")
       IN  /\ focus' = [focus EXCEPT !.playing = playing, !.kept = keep]
           /\ Goto("focus", IF keep THEN "suspend" ELSE "end")
    /\ UNCHANGED <<music, audio, out, player, left>>

\* SuspendPlaybackHardware: pause, and wait for the task to say it is idle.
SuspendBegin ==
    /\ pc["focus"] = "suspend" /\ music.op = Free /\ audio.op = Free
    /\ music' = [music EXCEPT !.op = "focus", !.queuePaused = TRUE, !.handled = TRUE]
    /\ audio' = [PauseRequested(audio) EXCEPT !.op = "focus"]
    /\ Goto("focus", "suspending") /\ UNCHANGED <<out, player, focus, left>>

\* Bug: that the pause was requested is enough.
PausedRequestedOnly == ~audio.active \/ audio.pause

Paused == ~audio.active \/ audio.idle

Suspended ==
    /\ pc["focus"] = "suspending" /\ Paused /\ Goto("focus", "reserve")
    /\ audio' = [audio EXCEPT !.op = Free, !.suspended = (out = "music")] /\ out' = Closed
    /\ music' = Unlocked(music, "focus") /\ UNCHANGED <<player, focus, left>>

\* ReleasePlaybackHardware
EndBegin ==
    /\ pc["focus"] = "end" /\ audio.op = Free /\ Goto("focus", "ending")
    /\ audio' = [StopRequested EXCEPT !.op = "focus"] /\ UNCHANGED <<music, out, player, focus, left>>

Ended ==
    /\ pc["focus"] = "ending" /\ ~audio.active /\ Goto("focus", "reserve")
    /\ audio' = Unlocked(audio, "focus") /\ out' = Closed
    /\ UNCHANGED <<music, player, focus, left>>

\* Either wait has a timeout, and the request fails.
WaitTimeout ==
    /\ pc["focus"] \in {"suspending", "ending"} /\ audio.active
    /\ pc["focus"] = "suspending" => ~audio.idle
    /\ Spend("faults") /\ Goto("focus", "unblock")
    /\ audio' = Unlocked(audio, "focus") /\ music' = Unlocked(music, "focus")
    /\ UNCHANGED <<out, player, focus>>

\* ReserveOwner; a recording started past the music player may own the output.
Reserve ==
    /\ pc["focus"] = "reserve"
    /\ IF out = Free THEN out' = Owner /\ Goto("focus", "granted")
       ELSE Goto("focus", "unblock") /\ UNCHANGED out
    /\ UNCHANGED <<music, audio, player, focus, left>>

\* ReleaseFocus: RestoreFocusLocked, and the way back of a failed request.
ReleaseFocus ==
    /\ pc["focus"] = "granted" /\ out' = Free /\ Goto("focus", "unblock")
    /\ UNCHANGED <<music, audio, player, focus, left>>

Unblock ==
    /\ pc["focus"] = "unblock"
    /\ SetBlocked(FALSE, IF focus.kept /\ focus.playing THEN "musicresume" ELSE "idle")
    /\ UNCHANGED <<audio, out, player, focus, left>>

MusicResume ==
    /\ pc["focus"] = "musicresume" /\ music.op = Free
    /\ music' = [music EXCEPT !.op = "focus", !.queuePaused = FALSE]
    /\ Goto("focus", "resume") /\ UNCHANGED <<audio, out, player, focus, left>>

PlayerInit ==
    /\ music = [op |-> Free, blocked |-> FALSE, handled |-> FALSE, queuePaused |-> FALSE]
    /\ audio = [op |-> Free, status |-> "idle", track |-> FALSE, active |-> FALSE, stop |-> FALSE,
                pause |-> FALSE, idle |-> FALSE, suspended |-> FALSE, abort |-> FALSE]
    /\ out = Free
    /\ player = [pc |-> "none", frames |-> 0, ok |-> TRUE, stopped |-> FALSE]
    /\ focus = [resume |-> FALSE, playing |-> FALSE, kept |-> FALSE]
    /\ pc = [p \in Procs |-> "idle"]
    /\ left \in Listens

PlayerNext ==
    \/ \E p \in Procs : PlayStop(p) \/ PlayStart(p) \/ PlayTimeout(p)
                        \/ ResumeBegin(p) \/ Reopen(p) \/ Resumed(p)
    \/ TaskLoad \/ TaskOpen \/ TaskFails \/ TaskPoll \/ TaskWrite \/ TaskFinish \/ TaskClear
    \/ PlayTrack \/ TogglePlayPause \/ TogglePause \/ StopMusic
    \/ NextTrack \/ SeePlaying \/ PlayRecording
    \/ (\E resume \in BOOLEAN : RequestFocus(resume)) \/ ReadPlayer
    \/ SuspendBegin \/ Suspended \/ EndBegin \/ Ended \/ WaitTimeout
    \/ Reserve \/ ReleaseFocus \/ Unblock \/ MusicResume

PlayerSpec == PlayerInit /\ [][PlayerNext]_playerVars

PlayerTypeOK ==
    /\ {music.op, audio.op} \subseteq Procs \cup {Free}
    /\ {music.blocked, music.handled, music.queuePaused, audio.active, audio.stop,
        audio.pause, audio.idle, audio.suspended, audio.abort, audio.track} \subseteq BOOLEAN
    /\ audio.status \in Playing \cup {"idle", "paused", "stopped", "completed", "error"}
    /\ out \in {Free, "music", "assistant", "recorder"}
    /\ player.pc \in {"none", "open", "wait", "decode", "poll", "write", "finish", "clear"}
    /\ player.frames \in 0 .. Frames /\ left \in [Events -> Nat]

\* "Active music reaches a confirmed pause boundary and releases the DAC": from
\* the moment the exclusive focus is granted until it is given back, the
\* playback task is never on its way into a write, whatever the touch screen,
\* the monitor and the recorder application start meanwhile.
PlayerIsQuiet == pc["focus"] = "granted" => player.pc # "write"

\* "music reopens its original format and resumes from its retained decode
\* position": a task that goes on to write has the output open.
ResumeReopens == player.pc = "write" => out = "music"
=============================================================================
