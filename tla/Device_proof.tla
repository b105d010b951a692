---------------------------- MODULE Device_proof ----------------------------
(***************************************************************************)
(* Proofs about the parts of the device that run side by side: the player   *)
(* with the audio focus and the files that are being written, here; the     *)
(* retirement of workers and the voice session in modules of their own; and, *)
(* at the end, the four together, for every budget of events, every tree of  *)
(* paths and every number of changes by the other clients of the card.      *)
(*                                                                         *)
(* - PlayerInv: that the player is silent while somebody else has the        *)
(*   speaker rests on what the playback task was asked (TaskOK), on who      *)
(*   holds the two mutexes meanwhile (MutexOK) and on the block that the     *)
(*   focus put on the player (BlockedOK).                                   *)
(* - FilesInv: a writer keeps its file because its path is leased from       *)
(*   before the file exists until after it is closed or removed             *)
(*   (LeasesHeld), because no two leased paths conflict (LeasesApart), and   *)
(*   because a step of anybody else changes no path that is leased.         *)
(***************************************************************************)
EXTENDS MCDevice, TaskRetirement_proof, VoiceSession_proof, SequenceTheorems

(***************************************************************************)
(* The player and the audio focus: one lemma for each action says that it  *)
(* keeps PlayerInv, part by part.                                          *)
(***************************************************************************)
CallPlaces == {"idle", "playfile", "join", "resume", "reopen", "reopened", "resumed", "pause",
               "read", "suspend", "suspending", "end", "ending", "reserve", "granted", "unblock",
               "musicresume"}

PlayerTypes ==
    /\ music \in [op : Procs \cup {Free}, blocked : BOOLEAN, handled : BOOLEAN, queuePaused : BOOLEAN]
    /\ out \in {Free, "music", "assistant", "recorder"}

AudioTypes ==
    audio \in [op : Procs \cup {Free},
               status : Playing \cup {"idle", "paused", "stopped", "completed", "error"},
               track : BOOLEAN, active : BOOLEAN, stop : BOOLEAN, pause : BOOLEAN,
               idle : BOOLEAN, suspended : BOOLEAN, abort : BOOLEAN]

PlaybackTypes ==
    /\ player \in [pc : {"none", "open", "wait", "decode", "poll", "write", "finish", "clear"},
                 frames : 0 .. Frames, ok : BOOLEAN, stopped : BOOLEAN]
    /\ player.pc \in {"open", "wait", "decode", "poll", "write"} => player.frames > 0

FocusTypes  == focus \in [resume : BOOLEAN, playing : BOOLEAN, kept : BOOLEAN]
PlaceTypes  == pc \in [Procs -> CallPlaces]
BudgetTypes == left \in [Events -> Nat]

PlayerTyped == PlayerTypes /\ AudioTypes /\ PlaybackTypes /\ FocusTypes /\ PlaceTypes /\ BudgetTypes

\* The playback task is the active one, and one that says it is idle has a request
\* before it that keeps it from writing.
TaskOK ==
    /\ audio.active <=> player.pc # "none"
    /\ audio.idle => (audio.pause \/ audio.stop) /\ player.pc \notin {"decode", "write"}

\* Whoever resumes or pauses holds the operation mutex of the music player.
MutexOK ==
    \A p \in Procs : pc[p] \in {"resume", "reopen", "reopened", "resumed", "pause"} => music.op = p

\* From the moment a request has blocked the music player, only the request uses it.
BlockedOK ==
    pc["focus"] \in {"read", "suspend", "suspending", "end", "ending", "reserve", "granted", "unblock"} =>
        music.blocked /\ music.op \in {Free, "focus"}

\* Once the player was silenced, a task that writes is one that found the output free.
ListenersSilenced ==
    /\ pc["focus"] \in {"reserve", "granted"} =>
          \/ out = "music"
          \/ player.pc = "poll" => audio.pause \/ audio.stop
    /\ pc["focus"] \in {"reserve", "granted"} => out = "music" \/ player.pc # "write"
    /\ pc["focus"] = "granted" => out \in {"assistant", "recorder"}

PlayerInv == PlayerTyped /\ TaskOK /\ MutexOK /\ BlockedOK /\ ListenersSilenced

LEMMA PlayStopKeeps ==
    ASSUME Frames \in Nat \ {0}, PlayerInv, NEW p \in Procs, PlayStop(p)
    PROVE  PlayerInv'
<1>1. PlayerTypes'
  BY DEF PlayStop, PlayerInv, PlayerTyped, PlayerTypes, AudioTypes, Procs, Free, Playing, Goto,
    StopRequested
<1>2. AudioTypes'
  BY DEF PlayStop, PlayerInv, PlayerTyped, PlayerTypes, AudioTypes, Procs, Free, Playing, Goto,
    StopRequested
<1>3. PlaybackTypes'
  BY DEF PlayStop, PlayerInv, PlayerTyped, PlayerTypes, AudioTypes, PlaybackTypes, Procs, Free,
         Playing, Goto, StopRequested
<1>4. FocusTypes'
  BY DEF PlayStop, PlayerInv, PlayerTyped, PlayerTypes, AudioTypes, FocusTypes, Procs, Free,
         Playing, Goto, StopRequested
<1>5. PlaceTypes'
  BY DEF PlayStop, PlayerInv, PlayerTyped, AudioTypes, PlaceTypes, CallPlaces, Procs, Free,
         Playing, Goto, StopRequested
<1>6. BudgetTypes'
  BY DEF PlayStop, PlayerInv, PlayerTyped, BudgetTypes, Procs, Free, Playing, Events, Goto,
         StopRequested
<1>7. TaskOK'
  BY DEF PlayStop, PlayerInv, PlayerTyped, PlayerTypes, AudioTypes, PlaybackTypes, FocusTypes,
         PlaceTypes, BudgetTypes, TaskOK, CallPlaces, Procs, Free, Playing, Goto, StopRequested
<1>8. MutexOK'
  BY DEF PlayStop, PlayerInv, PlayerTyped, PlayerTypes, AudioTypes, PlaybackTypes, FocusTypes,
         PlaceTypes, BudgetTypes, MutexOK, CallPlaces, Procs, Free, Playing, Goto, StopRequested
<1>9. BlockedOK'
  BY DEF PlayStop, PlayerInv, PlayerTyped, PlayerTypes, AudioTypes, PlaybackTypes, FocusTypes,
         PlaceTypes, BudgetTypes, MutexOK, BlockedOK, CallPlaces, Procs, Free, Playing, Goto,
         StopRequested
<1>10. ListenersSilenced'
  BY DEF PlayStop, PlayerInv, PlayerTyped, PlayerTypes, AudioTypes, PlaybackTypes, FocusTypes,
         PlaceTypes, BudgetTypes, TaskOK, MutexOK, BlockedOK, ListenersSilenced, CallPlaces,
         Procs, Free, Playing, Goto, StopRequested
<1> QED
  BY <1>1, <1>2, <1>3, <1>4, <1>5, <1>6, <1>7, <1>8, <1>9, <1>10 DEF PlayerInv, PlayerTyped

\* What a start leaves of the requests and of the task.
LEMMA PlayStartTyped ==
    ASSUME Frames \in Nat \ {0}, PlayerInv, NEW p \in Procs, PlayStart(p)
    PROVE  /\ AudioTypes' /\ PlaybackTypes' /\ BudgetTypes' /\ audio'.op = Free
           /\ ~audio'.stop /\ ~audio'.pause /\ ~audio'.idle
           /\ audio'.active <=> player'.pc # "none"
           /\ player'.pc \in {"none", "open"}
<1>1. /\ audio \in [op : Procs \cup {Free},
                     status : Playing \cup {"idle", "paused", "stopped", "completed", "error"},
                     track : BOOLEAN, active : BOOLEAN, stop : BOOLEAN, pause : BOOLEAN,
                     idle : BOOLEAN, suspended : BOOLEAN, abort : BOOLEAN]
      /\ PlaybackTypes /\ player.pc = "none" /\ left \in [Events -> Nat]
  BY DEF PlayStart, PlayerInv, PlayerTyped, AudioTypes, BudgetTypes, TaskOK
<1>2. PICK created \in BOOLEAN :
        /\ IF created THEN UNCHANGED left ELSE Spend("faults")
        /\ audio' = [audio EXCEPT !.op = Free, !.stop = FALSE, !.pause = FALSE, !.idle = FALSE,
                                  !.suspended = FALSE, !.abort = FALSE, !.active = created,
                                  !.status = IF created THEN "loading" ELSE "error",
                                  !.track = (music.op = p)]
        /\ player' = IF created THEN [pc |-> "open", frames |-> Frames, ok |-> TRUE,
                                      stopped |-> FALSE]
                     ELSE player
  BY DEF PlayStart
<1>3. BudgetTypes'
  BY <1>1, <1>2 DEF BudgetTypes, Spend, Events
<1>4. PlaybackTypes' /\ player'.pc = IF created THEN "open" ELSE "none"
  BY <1>1, <1>2 DEF PlaybackTypes
<1> DEFINE track == music.op = p
           begun == IF created THEN "loading" ELSE "error"
<1>5. audio' = [audio EXCEPT !.op = Free, !.stop = FALSE, !.pause = FALSE, !.idle = FALSE,
                            !.suspended = FALSE, !.abort = FALSE, !.active = created,
                            !.status = begun, !.track = track]
  BY <1>2
<1>6. track \in BOOLEAN /\ begun \in {"loading", "error"}
  OBVIOUS
<1> HIDE DEF track, begun
<1>7. AudioTypes'
  BY ZenonT(30), <1>1, <1>5, <1>6 DEF AudioTypes, Playing
<1>8. /\ audio'.op = Free /\ ~audio'.stop /\ ~audio'.pause /\ ~audio'.idle
      /\ audio'.active = created
  BY ZenonT(30), <1>1, <1>5
<1> QED
  BY <1>2, <1>3, <1>4, <1>7, <1>8

LEMMA PlayStartKeeps ==
    ASSUME Frames \in Nat \ {0}, PlayerInv, NEW p \in Procs, PlayStart(p)
    PROVE  PlayerInv'
<1>1. PlayerTypes'
  BY DEF PlayStart, PlayerInv, PlayerTyped, PlayerTypes, Procs, Free, Unlocked
<1>2. FocusTypes' /\ PlaceTypes'
  BY DEF PlayStart, PlayerInv, PlayerTyped, FocusTypes, PlaceTypes, CallPlaces, Goto
<1>3. TaskOK'
  BY PlayStartTyped DEF TaskOK
<1>4. MutexOK'
  BY DEF PlayStart, PlayerInv, PlayerTyped, PlayerTypes, PlaceTypes, MutexOK, CallPlaces, Procs,
         Free, Goto, Unlocked
<1>5. BlockedOK'
  BY DEF PlayStart, PlayerInv, PlayerTyped, PlayerTypes, PlaceTypes, MutexOK, BlockedOK,
         CallPlaces, Procs, Free, Goto, Unlocked
<1>6. ListenersSilenced'
  BY PlayStartTyped DEF PlayStart, PlayerInv, PlayerTyped, PlayerTypes, PlaceTypes,
     ListenersSilenced, CallPlaces, Procs, Free, Goto
<1> QED
  BY <1>1, <1>2, <1>3, <1>4, <1>5, <1>6, PlayStartTyped DEF PlayerInv, PlayerTyped

LEMMA PlayTimeoutKeeps ==
    ASSUME Frames \in Nat \ {0}, PlayerInv, NEW p \in Procs, PlayTimeout(p)
    PROVE  PlayerInv'
<1>1. PlayerTypes'
  BY DEF PlayTimeout, PlayerInv, PlayerTyped, PlayerTypes, AudioTypes, Procs, Free, Playing,
         Spend, Goto, Unlocked
<1>2. AudioTypes'
  BY DEF PlayTimeout, PlayerInv, PlayerTyped, PlayerTypes, AudioTypes, Procs, Free, Playing,
         Spend, Goto, Unlocked
<1>3. PlaybackTypes'
  BY DEF PlayTimeout, PlayerInv, PlayerTyped, PlayerTypes, AudioTypes, PlaybackTypes, Procs,
         Free, Playing, Spend, Goto, Unlocked
<1>4. FocusTypes'
  BY DEF PlayTimeout, PlayerInv, PlayerTyped, PlayerTypes, AudioTypes, FocusTypes, Procs, Free,
         Playing, Spend, Goto, Unlocked
<1>5. PlaceTypes'
  BY DEF PlayTimeout, PlayerInv, PlayerTyped, AudioTypes, PlaceTypes, CallPlaces, Procs, Free,
         Playing, Spend, Goto, Unlocked
<1>6. BudgetTypes'
  BY DEF PlayTimeout, PlayerInv, PlayerTyped, BudgetTypes, Procs, Free, Playing, Events, Spend,
         Goto, Unlocked
<1>7. TaskOK'
  BY DEF PlayTimeout, PlayerInv, PlayerTyped, PlayerTypes, AudioTypes, PlaybackTypes,
         FocusTypes, PlaceTypes, BudgetTypes, TaskOK, CallPlaces, Procs, Free, Playing, Spend,
         Goto, Unlocked
<1>8. MutexOK'
  BY DEF PlayTimeout, PlayerInv, PlayerTyped, PlayerTypes, AudioTypes, PlaybackTypes,
         FocusTypes, PlaceTypes, BudgetTypes, MutexOK, CallPlaces, Procs, Free, Playing, Spend,
         Goto, Unlocked
<1>9. BlockedOK'
  BY DEF PlayTimeout, PlayerInv, PlayerTyped, PlayerTypes, AudioTypes, PlaybackTypes,
         FocusTypes, PlaceTypes, BudgetTypes, MutexOK, BlockedOK, CallPlaces, Procs, Free,
         Playing, Spend, Goto, Unlocked
<1>10. ListenersSilenced'
  BY DEF PlayTimeout, PlayerInv, PlayerTyped, PlayerTypes, AudioTypes, PlaybackTypes,
         FocusTypes, PlaceTypes, BudgetTypes, TaskOK, MutexOK, BlockedOK, ListenersSilenced,
         CallPlaces, Procs, Free, Playing, Spend, Goto, Unlocked
<1> QED
  BY <1>1, <1>2, <1>3, <1>4, <1>5, <1>6, <1>7, <1>8, <1>9, <1>10 DEF PlayerInv, PlayerTyped

LEMMA ResumeBeginKeeps ==
    ASSUME Frames \in Nat \ {0}, PlayerInv, NEW p \in Procs, ResumeBegin(p)
    PROVE  PlayerInv'
<1>1. PlayerTypes'
  BY DEF ResumeBegin, PlayerInv, PlayerTyped, PlayerTypes, AudioTypes, Procs, Free, Playing, Goto,
    Unlocked, Resumable
<1>2. AudioTypes'
  BY DEF ResumeBegin, PlayerInv, PlayerTyped, PlayerTypes, AudioTypes, Procs, Free, Playing, Goto,
    Unlocked, Resumable
<1>3. PlaybackTypes'
  BY DEF ResumeBegin, PlayerInv, PlayerTyped, PlayerTypes, AudioTypes, PlaybackTypes, Procs,
         Free, Playing, Goto, Unlocked, Resumable
<1>4. FocusTypes'
  BY DEF ResumeBegin, PlayerInv, PlayerTyped, PlayerTypes, AudioTypes, FocusTypes, Procs, Free,
         Playing, Goto, Unlocked, Resumable
<1>5. PlaceTypes'
  BY DEF ResumeBegin, PlayerInv, PlayerTyped, AudioTypes, PlaceTypes, CallPlaces, Procs, Free,
         Playing, Goto, Unlocked, Resumable
<1>6. BudgetTypes'
  BY DEF ResumeBegin, PlayerInv, PlayerTyped, BudgetTypes, Procs, Free, Playing, Events, Goto,
         Unlocked, Resumable
<1>7. TaskOK'
  BY DEF ResumeBegin, PlayerInv, PlayerTyped, PlayerTypes, AudioTypes, PlaybackTypes,
         FocusTypes, PlaceTypes, BudgetTypes, TaskOK, CallPlaces, Procs, Free, Playing, Goto,
         Unlocked, Resumable
<1>8. MutexOK'
  BY DEF ResumeBegin, PlayerInv, PlayerTyped, PlayerTypes, AudioTypes, PlaybackTypes,
         FocusTypes, PlaceTypes, BudgetTypes, MutexOK, CallPlaces, Procs, Free, Playing, Goto,
         Unlocked, Resumable
<1>9. BlockedOK'
  BY DEF ResumeBegin, PlayerInv, PlayerTyped, PlayerTypes, AudioTypes, PlaybackTypes,
         FocusTypes, PlaceTypes, BudgetTypes, MutexOK, BlockedOK, CallPlaces, Procs, Free,
         Playing, Goto, Unlocked, Resumable
<1>10. ListenersSilenced'
  BY DEF ResumeBegin, PlayerInv, PlayerTyped, PlayerTypes, AudioTypes, PlaybackTypes,
         FocusTypes, PlaceTypes, BudgetTypes, TaskOK, MutexOK, BlockedOK, ListenersSilenced,
         CallPlaces, Procs, Free, Playing, Goto, Unlocked, Resumable
<1> QED
  BY <1>1, <1>2, <1>3, <1>4, <1>5, <1>6, <1>7, <1>8, <1>9, <1>10 DEF PlayerInv, PlayerTyped

LEMMA ReopenKeeps ==
    ASSUME Frames \in Nat \ {0}, PlayerInv, NEW p \in Procs, Reopen(p)
    PROVE  PlayerInv'
<1>1. PlayerTypes'
  BY DEF Reopen, PlayerInv, PlayerTyped, PlayerTypes, AudioTypes, Procs, Free, Playing, Spend, Goto,
    Unlocked, Closed
<1>2. AudioTypes'
  <2>1. CASE audio' = audio
    BY <2>1 DEF Reopen, PlayerInv, PlayerTyped, PlayerTypes, AudioTypes, Procs, Free, Playing,
       Spend, Goto, Unlocked, Closed
  <2>2. CASE audio' # audio /\ (audio.stop \/ ~audio.active)
    BY <2>2 DEF Reopen, PlayerInv, PlayerTyped, PlayerTypes, AudioTypes, Procs, Free, Playing,
       Spend, Goto, Unlocked, Closed
  <2>3. CASE audio' # audio /\ ~(audio.stop \/ ~audio.active)
    <3>1. audio' = [audio EXCEPT !.op = Free, !.abort = TRUE, !.stop = TRUE,
                                   !.pause = FALSE, !.status = "error"]
          /\ player' = player
      BY <2>3 DEF Reopen
    <3> QED
      BY <2>3, <3>1 DEF PlayerInv, PlayerTyped, PlayerTypes, AudioTypes, Procs, Free, Playing
  <2> QED BY <2>1, <2>2, <2>3
<1>3. PlaybackTypes'
  BY DEF Reopen, PlayerInv, PlayerTyped, PlayerTypes, AudioTypes, PlaybackTypes, Procs, Free,
         Playing, Spend, Goto, Unlocked, Closed
<1>4. FocusTypes'
  BY DEF Reopen, PlayerInv, PlayerTyped, PlayerTypes, AudioTypes, FocusTypes, Procs, Free,
         Playing, Spend, Goto, Unlocked, Closed
<1>5. PlaceTypes'
  BY DEF Reopen, PlayerInv, PlayerTyped, AudioTypes, PlaceTypes, CallPlaces, Procs, Free,
         Playing, Spend, Goto, Unlocked, Closed
<1>6. BudgetTypes'
  BY DEF Reopen, PlayerInv, PlayerTyped, BudgetTypes, Procs, Free, Playing, Events, Spend, Goto,
         Unlocked, Closed
<1>7. TaskOK'
  <2>1. CASE audio' = audio
    BY <2>1 DEF Reopen, PlayerInv, PlayerTyped, PlayerTypes, AudioTypes, PlaybackTypes, FocusTypes,
      PlaceTypes, BudgetTypes, TaskOK, CallPlaces, Procs, Free, Playing, Spend, Goto, Unlocked,
      Closed
  <2>2. CASE audio' # audio /\ (audio.stop \/ ~audio.active)
    BY <2>2 DEF Reopen, PlayerInv, PlayerTyped, PlayerTypes, AudioTypes, PlaybackTypes, FocusTypes,
      PlaceTypes, BudgetTypes, TaskOK, CallPlaces, Procs, Free, Playing, Spend, Goto, Unlocked,
      Closed
  <2>3. CASE audio' # audio /\ ~(audio.stop \/ ~audio.active)
    <3>1. audio' = [audio EXCEPT !.op = Free, !.abort = TRUE, !.stop = TRUE,
                                   !.pause = FALSE, !.status = "error"]
          /\ player' = player
      BY <2>3 DEF Reopen
    <3> QED
      BY <2>3, <3>1 DEF PlayerInv, PlayerTyped, PlayerTypes, AudioTypes, PlaybackTypes, FocusTypes,
        PlaceTypes, BudgetTypes, TaskOK, CallPlaces, Procs, Free, Playing
  <2> QED BY <2>1, <2>2, <2>3
<1>8. MutexOK'
  BY DEF Reopen, PlayerInv, PlayerTyped, PlayerTypes, AudioTypes, PlaybackTypes, FocusTypes,
         PlaceTypes, BudgetTypes, MutexOK, CallPlaces, Procs, Free, Playing, Spend, Goto,
         Unlocked, Closed
<1>9. BlockedOK'
  BY DEF Reopen, PlayerInv, PlayerTyped, PlayerTypes, AudioTypes, PlaybackTypes, FocusTypes,
         PlaceTypes, BudgetTypes, MutexOK, BlockedOK, CallPlaces, Procs, Free, Playing, Spend,
         Goto, Unlocked, Closed
<1>10. ListenersSilenced'
  BY DEF Reopen, PlayerInv, PlayerTyped, PlayerTypes, AudioTypes, PlaybackTypes, FocusTypes,
         PlaceTypes, BudgetTypes, TaskOK, MutexOK, BlockedOK, ListenersSilenced, CallPlaces,
         Procs, Free, Playing, Spend, Goto, Unlocked, Closed
<1> QED
  BY <1>1, <1>2, <1>3, <1>4, <1>5, <1>6, <1>7, <1>8, <1>9, <1>10 DEF PlayerInv, PlayerTyped

LEMMA ResumedKeeps ==
    ASSUME Frames \in Nat \ {0}, PlayerInv, NEW p \in Procs, Resumed(p)
    PROVE  PlayerInv'
<1>1. PlayerTypes'
  BY DEF Resumed, PlayerInv, PlayerTyped, PlayerTypes, AudioTypes, Procs, Free, Playing, Goto,
         Unlocked, Closed
<1>2. AudioTypes'
  <2>1. CASE audio.stop \/ ~audio.active
    BY <2>1 DEF Resumed, PlayerInv, PlayerTyped, PlayerTypes, AudioTypes, Procs, Free, Playing,
       Goto, Unlocked, Closed
  <2>2. CASE ~(audio.stop \/ ~audio.active)
    <3>1. audio' = [audio EXCEPT !.op = Free, !.suspended = FALSE, !.idle = FALSE,
                                   !.pause = FALSE, !.status = "playing"]
          /\ player' = player
      BY <2>2 DEF Resumed
    <3> QED
      BY <2>2, <3>1 DEF PlayerInv, PlayerTyped, PlayerTypes, AudioTypes, Procs, Free, Playing
  <2> QED BY <2>1, <2>2
<1>3. PlaybackTypes'
  BY DEF Resumed, PlayerInv, PlayerTyped, PlayerTypes, AudioTypes, PlaybackTypes, Procs, Free,
         Playing, Goto, Unlocked, Closed
<1>4. FocusTypes'
  BY DEF Resumed, PlayerInv, PlayerTyped, PlayerTypes, AudioTypes, FocusTypes, Procs, Free,
         Playing, Goto, Unlocked, Closed
<1>5. PlaceTypes'
  BY DEF Resumed, PlayerInv, PlayerTyped, AudioTypes, PlaceTypes, CallPlaces, Procs, Free,
         Playing, Goto, Unlocked, Closed
<1>6. BudgetTypes'
  BY DEF Resumed, PlayerInv, PlayerTyped, BudgetTypes, Procs, Free, Playing, Events, Goto, Unlocked,
    Closed
<1>7. TaskOK'
  <2>1. CASE audio.stop \/ ~audio.active
    BY <2>1 DEF Resumed, PlayerInv, PlayerTyped, PlayerTypes, AudioTypes, PlaybackTypes, FocusTypes,
      PlaceTypes, BudgetTypes, TaskOK, CallPlaces, Procs, Free, Playing, Goto, Unlocked, Closed
  <2>2. CASE ~(audio.stop \/ ~audio.active)
    <3>1. audio' = [audio EXCEPT !.op = Free, !.suspended = FALSE, !.idle = FALSE,
                                   !.pause = FALSE, !.status = "playing"]
          /\ player' = player
      BY <2>2 DEF Resumed
    <3> QED
      BY <2>2, <3>1 DEF PlayerInv, PlayerTyped, PlayerTypes, AudioTypes, PlaybackTypes, FocusTypes,
        PlaceTypes, BudgetTypes, TaskOK, CallPlaces, Procs, Free, Playing
  <2> QED BY <2>1, <2>2
<1>8. MutexOK'
  BY DEF Resumed, PlayerInv, PlayerTyped, PlayerTypes, AudioTypes, PlaybackTypes, FocusTypes,
         PlaceTypes, BudgetTypes, MutexOK, CallPlaces, Procs, Free, Playing, Goto, Unlocked,
         Closed
<1>9. BlockedOK'
  BY DEF Resumed, PlayerInv, PlayerTyped, PlayerTypes, AudioTypes, PlaybackTypes, FocusTypes,
         PlaceTypes, BudgetTypes, MutexOK, BlockedOK, CallPlaces, Procs, Free, Playing, Goto,
         Unlocked, Closed
<1>10. ListenersSilenced'
  BY DEF Resumed, PlayerInv, PlayerTyped, PlayerTypes, AudioTypes, PlaybackTypes, FocusTypes,
         PlaceTypes, BudgetTypes, TaskOK, MutexOK, BlockedOK, ListenersSilenced, CallPlaces,
         Procs, Free, Playing, Goto, Unlocked, Closed
<1> QED
  BY <1>1, <1>2, <1>3, <1>4, <1>5, <1>6, <1>7, <1>8, <1>9, <1>10 DEF PlayerInv, PlayerTyped

LEMMA TaskOpenKeeps ==
    ASSUME Frames \in Nat \ {0}, PlayerInv, TaskOpen
    PROVE  PlayerInv'
<1>1. PlayerTypes'
  BY DEF TaskOpen, PlayerInv, PlayerTyped, PlayerTypes, AudioTypes, PlaybackTypes, Procs, Free,
         Playing
<1>2. AudioTypes'
  BY DEF TaskOpen, PlayerInv, PlayerTyped, PlayerTypes, AudioTypes, PlaybackTypes, Procs, Free,
         Playing
<1>3. PlaybackTypes'
  <2>1. CASE out \in {Free, "music"}
    BY <2>1 DEF TaskOpen, PlayerInv, PlayerTyped, PlayerTypes, AudioTypes, PlaybackTypes, Procs,
       Free, Playing
  <2>2. CASE out \notin {Free, "music"}
    BY ZenonT(30), <2>2 DEF TaskOpen, PlayerInv, PlayerTyped, PlayerTypes, AudioTypes,
      PlaybackTypes, Procs,
       Free, Playing
  <2> QED BY <2>1, <2>2
<1>4. FocusTypes'
  BY DEF TaskOpen, PlayerInv, PlayerTyped, PlayerTypes, AudioTypes, PlaybackTypes, FocusTypes,
         Procs, Free, Playing
<1>5. PlaceTypes'
  BY DEF TaskOpen, PlayerInv, PlayerTyped, AudioTypes, PlaceTypes, CallPlaces, Procs, Free, Playing
<1>6. BudgetTypes'
  BY DEF TaskOpen, PlayerInv, PlayerTyped, BudgetTypes, Procs, Free, Playing, Events
<1>7. TaskOK'
  <2>1. CASE out \in {Free, "music"}
    BY <2>1 DEF TaskOpen, PlayerInv, PlayerTyped, PlayerTypes, AudioTypes, PlaybackTypes,
       FocusTypes, PlaceTypes, BudgetTypes, TaskOK, CallPlaces, Procs, Free, Playing
  <2>2. CASE out \notin {Free, "music"}
    BY ZenonT(30), <2>2 DEF TaskOpen, PlayerInv, PlayerTyped, PlayerTypes, AudioTypes, PlaybackTypes,
       FocusTypes, PlaceTypes, BudgetTypes, TaskOK, CallPlaces, Procs, Free, Playing
  <2> QED BY <2>1, <2>2
<1>8. MutexOK'
  BY DEF TaskOpen, PlayerInv, PlayerTyped, PlayerTypes, AudioTypes, PlaybackTypes, FocusTypes,
         PlaceTypes, BudgetTypes, MutexOK, CallPlaces, Procs, Free, Playing
<1>9. BlockedOK'
  BY DEF TaskOpen, PlayerInv, PlayerTyped, PlayerTypes, AudioTypes, PlaybackTypes, FocusTypes,
         PlaceTypes, BudgetTypes, MutexOK, BlockedOK, CallPlaces, Procs, Free, Playing
<1>10. ListenersSilenced'
  <2>1. CASE out \in {Free, "music"}
    BY <2>1 DEF TaskOpen, PlayerInv, PlayerTyped, PlayerTypes, AudioTypes, PlaybackTypes,
       FocusTypes, PlaceTypes, BudgetTypes, TaskOK, MutexOK, BlockedOK, ListenersSilenced,
       CallPlaces, Procs, Free, Playing
  <2>2. CASE out \notin {Free, "music"}
    BY ZenonT(30), <2>2 DEF TaskOpen, PlayerInv, PlayerTyped, PlayerTypes, AudioTypes, PlaybackTypes,
       FocusTypes, PlaceTypes, BudgetTypes, TaskOK, MutexOK, BlockedOK, ListenersSilenced,
       CallPlaces, Procs, Free, Playing
  <2> QED BY <2>1, <2>2
<1> QED
  BY <1>1, <1>2, <1>3, <1>4, <1>5, <1>6, <1>7, <1>8, <1>9, <1>10 DEF PlayerInv, PlayerTyped

LEMMA TaskLoadKeeps ==
    ASSUME Frames \in Nat \ {0}, PlayerInv, TaskLoad
    PROVE  PlayerInv'
<1>1. PlayerTypes'
  BY DEF TaskLoad, PlayerInv, PlayerTyped, PlayerTypes, AudioTypes, PlaybackTypes, Procs, Free,
         Playing
<1>2. AudioTypes'
  BY DEF TaskLoad, PlayerInv, PlayerTyped, PlayerTypes, AudioTypes, PlaybackTypes, Procs, Free,
         Playing
<1>3. PlaybackTypes'
  BY DEF TaskLoad, PlayerInv, PlayerTyped, PlayerTypes, AudioTypes, PlaybackTypes, Procs, Free,
         Playing
<1>4. FocusTypes'
  BY DEF TaskLoad, PlayerInv, PlayerTyped, PlayerTypes, AudioTypes, PlaybackTypes, FocusTypes,
         Procs, Free, Playing
<1>5. PlaceTypes'
  BY DEF TaskLoad, PlayerInv, PlayerTyped, AudioTypes, PlaceTypes, CallPlaces, Procs, Free,
         Playing
<1>6. BudgetTypes'
  BY DEF TaskLoad, PlayerInv, PlayerTyped, BudgetTypes, Procs, Free, Playing, Events
<1>7. TaskOK'
  BY DEF TaskLoad, PlayerInv, PlayerTyped, PlayerTypes, AudioTypes, PlaybackTypes, FocusTypes,
         PlaceTypes, BudgetTypes, TaskOK, CallPlaces, Procs, Free, Playing
<1>8. MutexOK'
  BY DEF TaskLoad, PlayerInv, PlayerTyped, PlayerTypes, AudioTypes, PlaybackTypes, FocusTypes,
         PlaceTypes, BudgetTypes, MutexOK, CallPlaces, Procs, Free, Playing
<1>9. BlockedOK'
  BY DEF TaskLoad, PlayerInv, PlayerTyped, PlayerTypes, AudioTypes, PlaybackTypes, FocusTypes,
         PlaceTypes, BudgetTypes, MutexOK, BlockedOK, CallPlaces, Procs, Free, Playing
<1>10. ListenersSilenced'
  BY DEF TaskLoad, PlayerInv, PlayerTyped, PlayerTypes, AudioTypes, PlaybackTypes, FocusTypes,
         PlaceTypes, BudgetTypes, TaskOK, MutexOK, BlockedOK, ListenersSilenced, CallPlaces,
         Procs, Free, Playing
<1> QED
  BY <1>1, <1>2, <1>3, <1>4, <1>5, <1>6, <1>7, <1>8, <1>9, <1>10 DEF PlayerInv, PlayerTyped

LEMMA TaskFailsKeeps ==
    ASSUME Frames \in Nat \ {0}, PlayerInv, TaskFails
    PROVE  PlayerInv'
<1>1. PlayerTypes'
  BY DEF TaskFails, PlayerInv, PlayerTyped, PlayerTypes, AudioTypes, PlaybackTypes, Procs, Free,
         Playing, Closed, Spend
<1>2. AudioTypes'
  BY DEF TaskFails, PlayerInv, PlayerTyped, PlayerTypes, AudioTypes, PlaybackTypes, Procs, Free,
         Playing, Closed, Spend
<1>3. PlaybackTypes'
  BY DEF TaskFails, PlayerInv, PlayerTyped, PlayerTypes, AudioTypes, PlaybackTypes, Procs, Free,
         Playing, Closed, Spend
<1>4. FocusTypes'
  BY DEF TaskFails, PlayerInv, PlayerTyped, PlayerTypes, AudioTypes, PlaybackTypes, FocusTypes,
         Procs, Free, Playing, Closed, Spend
<1>5. PlaceTypes'
  BY DEF TaskFails, PlayerInv, PlayerTyped, AudioTypes, PlaceTypes, CallPlaces, Procs, Free,
         Playing, Closed, Spend
<1>6. BudgetTypes'
  BY DEF TaskFails, PlayerInv, PlayerTyped, BudgetTypes, Procs, Free, Playing, Events, Closed, Spend
<1>7. TaskOK'
  BY DEF TaskFails, PlayerInv, PlayerTyped, PlayerTypes, AudioTypes, PlaybackTypes, FocusTypes,
         PlaceTypes, BudgetTypes, TaskOK, CallPlaces, Procs, Free, Playing, Closed, Spend
<1>8. MutexOK'
  BY DEF TaskFails, PlayerInv, PlayerTyped, PlayerTypes, AudioTypes, PlaybackTypes, FocusTypes,
         PlaceTypes, BudgetTypes, MutexOK, CallPlaces, Procs, Free, Playing, Closed, Spend
<1>9. BlockedOK'
  BY DEF TaskFails, PlayerInv, PlayerTyped, PlayerTypes, AudioTypes, PlaybackTypes, FocusTypes,
         PlaceTypes, BudgetTypes, MutexOK, BlockedOK, CallPlaces, Procs, Free, Playing, Closed, Spend
<1>10. ListenersSilenced'
  BY DEF TaskFails, PlayerInv, PlayerTyped, PlayerTypes, AudioTypes, PlaybackTypes, FocusTypes,
         PlaceTypes, BudgetTypes, TaskOK, MutexOK, BlockedOK, ListenersSilenced, CallPlaces,
         Procs, Free, Playing, Closed, Spend
<1> QED
  BY <1>1, <1>2, <1>3, <1>4, <1>5, <1>6, <1>7, <1>8, <1>9, <1>10 DEF PlayerInv, PlayerTyped

LEMMA TaskPollKeeps ==
    ASSUME Frames \in Nat \ {0}, PlayerInv, TaskPoll
    PROVE  PlayerInv'
<1>1. PlayerTypes'
  BY DEF TaskPoll, PlayerInv, PlayerTyped, PlayerTypes, AudioTypes, PlaybackTypes, Procs, Free,
         Playing, Closed
<1>2. AudioTypes'
  BY DEF TaskPoll, PlayerInv, PlayerTyped, PlayerTypes, AudioTypes, PlaybackTypes, Procs, Free,
         Playing, Closed
<1>3. PlaybackTypes'
  BY DEF TaskPoll, PlayerInv, PlayerTyped, PlayerTypes, AudioTypes, PlaybackTypes, Procs, Free,
         Playing, Closed
<1>4. FocusTypes'
  BY DEF TaskPoll, PlayerInv, PlayerTyped, PlayerTypes, AudioTypes, PlaybackTypes, FocusTypes,
         Procs, Free, Playing, Closed
<1>5. PlaceTypes'
  BY DEF TaskPoll, PlayerInv, PlayerTyped, AudioTypes, PlaceTypes, CallPlaces, Procs, Free,
         Playing, Closed
<1>6. BudgetTypes'
  BY DEF TaskPoll, PlayerInv, PlayerTyped, BudgetTypes, Procs, Free, Playing, Events, Closed
<1>7. TaskOK'
  BY DEF TaskPoll, PlayerInv, PlayerTyped, PlayerTypes, AudioTypes, PlaybackTypes, FocusTypes,
         PlaceTypes, BudgetTypes, TaskOK, CallPlaces, Procs, Free, Playing, Closed
<1>8. MutexOK'
  BY DEF TaskPoll, PlayerInv, PlayerTyped, PlayerTypes, AudioTypes, PlaybackTypes, FocusTypes,
         PlaceTypes, BudgetTypes, MutexOK, CallPlaces, Procs, Free, Playing, Closed
<1>9. BlockedOK'
  BY DEF TaskPoll, PlayerInv, PlayerTyped, PlayerTypes, AudioTypes, PlaybackTypes, FocusTypes,
         PlaceTypes, BudgetTypes, MutexOK, BlockedOK, CallPlaces, Procs, Free, Playing, Closed
<1>10. ListenersSilenced'
  BY DEF TaskPoll, PlayerInv, PlayerTyped, PlayerTypes, AudioTypes, PlaybackTypes, FocusTypes,
         PlaceTypes, BudgetTypes, TaskOK, MutexOK, BlockedOK, ListenersSilenced, CallPlaces,
         Procs, Free, Playing, Closed
<1> QED
  BY <1>1, <1>2, <1>3, <1>4, <1>5, <1>6, <1>7, <1>8, <1>9, <1>10 DEF PlayerInv, PlayerTyped

LEMMA TaskWriteKeeps ==
    ASSUME Frames \in Nat \ {0}, PlayerInv, TaskWrite
    PROVE  PlayerInv'
<1>1. PlayerTypes'
  BY DEF TaskWrite, PlayerInv, PlayerTyped, PlayerTypes, PlaybackTypes, Procs, Free, Playing, Closed
<1>2. AudioTypes'
  BY DEF TaskWrite, PlayerInv, PlayerTyped, PlayerTypes, AudioTypes, PlaybackTypes, Procs, Free,
         Playing, Closed
<1>3. PlaybackTypes'
  <2>1. player.pc = "write" /\ player.frames \in 1 .. Frames
    BY DEF TaskWrite, PlayerInv, PlayerTyped, PlaybackTypes
  <2>2. CASE out = "music"
    <3> DEFINE fewer == player.frames - 1
               next  == IF player.frames = 1 THEN "finish" ELSE "poll"
    <3>1. player' = [player EXCEPT !.frames = fewer, !.pc = next]
      BY <2>2 DEF TaskWrite
    <3>2. /\ fewer \in 0 .. Frames /\ next \in {"finish", "poll"}
          /\ next = "poll" => fewer > 0
      BY <2>1
    <3> HIDE DEF fewer, next
    <3> QED BY <3>1, <3>2 DEF PlayerInv, PlayerTyped, PlaybackTypes
  <2>3. CASE out # "music"
    BY <2>3 DEF TaskWrite, PlayerInv, PlayerTyped, PlayerTypes, PlaybackTypes, Procs, Free,
       Playing, Closed
  <2> QED BY <2>2, <2>3
<1>4. FocusTypes'
  BY DEF TaskWrite, PlayerInv, PlayerTyped, PlayerTypes, PlaybackTypes, FocusTypes, Procs, Free,
         Playing, Closed
<1>5. PlaceTypes'
  BY DEF TaskWrite, PlayerInv, PlayerTyped, PlaceTypes, CallPlaces, Procs, Free, Playing, Closed
<1>6. BudgetTypes'
  BY DEF TaskWrite, PlayerInv, PlayerTyped, BudgetTypes, Procs, Free, Playing, Events, Closed
<1>7. TaskOK'
  <2>1. CASE out = "music" /\ player.frames = 1
    <3>1. player' = [player EXCEPT !.frames = player.frames - 1, !.pc = "finish"] /\ audio' = audio
          /\ player.pc = "write"
      BY <2>1 DEF TaskWrite
    <3> QED
      BY <2>1, <3>1 DEF PlayerInv, PlayerTyped, PlayerTypes, AudioTypes, PlaybackTypes, FocusTypes,
        PlaceTypes, BudgetTypes, TaskOK, CallPlaces, Procs, Free, Playing
  <2>2. CASE out = "music" /\ player.frames # 1
    <3>1. player' = [player EXCEPT !.frames = player.frames - 1, !.pc = "poll"] /\ audio' = audio
          /\ player.pc = "write"
      BY <2>2 DEF TaskWrite
    <3> QED
      BY <2>2, <3>1 DEF PlayerInv, PlayerTyped, PlayerTypes, AudioTypes, PlaybackTypes, FocusTypes,
        PlaceTypes, BudgetTypes, TaskOK, CallPlaces, Procs, Free, Playing
  <2>3. CASE out # "music"
    BY ZenonT(30), <2>3 DEF TaskWrite, PlayerInv, PlayerTyped, PlayerTypes, AudioTypes, PlaybackTypes,
       FocusTypes, PlaceTypes, BudgetTypes, TaskOK, CallPlaces, Procs, Free, Playing, Closed
  <2> QED BY <2>1, <2>2, <2>3
<1>8. MutexOK'
  BY DEF TaskWrite, PlayerInv, PlayerTyped, PlayerTypes, AudioTypes, PlaybackTypes, FocusTypes,
         PlaceTypes, BudgetTypes, MutexOK, CallPlaces, Procs, Free, Playing, Closed
<1>9. BlockedOK'
  BY DEF TaskWrite, PlayerInv, PlayerTyped, PlayerTypes, AudioTypes, PlaybackTypes, FocusTypes,
         PlaceTypes, BudgetTypes, MutexOK, BlockedOK, CallPlaces, Procs, Free, Playing, Closed
<1>10. ListenersSilenced'
  BY DEF TaskWrite, PlayerInv, PlayerTyped, PlayerTypes, AudioTypes, PlaybackTypes, FocusTypes,
         PlaceTypes, BudgetTypes, TaskOK, MutexOK, BlockedOK, ListenersSilenced, CallPlaces,
         Procs, Free, Playing, Closed
<1> QED
  BY <1>1, <1>2, <1>3, <1>4, <1>5, <1>6, <1>7, <1>8, <1>9, <1>10 DEF PlayerInv, PlayerTyped

LEMMA TaskFinishKeeps ==
    ASSUME Frames \in Nat \ {0}, PlayerInv, TaskFinish
    PROVE  PlayerInv'
<1>1. PlayerTypes'
  BY DEF TaskFinish, PlayerInv, PlayerTyped, PlayerTypes, AudioTypes, PlaybackTypes, Procs,
         Free, Playing, Closed
<1>2. AudioTypes'
  BY DEF TaskFinish, PlayerInv, PlayerTyped, PlayerTypes, AudioTypes, PlaybackTypes, Procs,
         Free, Playing, Closed
<1>3. PlaybackTypes'
  BY DEF TaskFinish, PlayerInv, PlayerTyped, PlayerTypes, AudioTypes, PlaybackTypes, Procs,
         Free, Playing, Closed
<1>4. FocusTypes'
  BY DEF TaskFinish, PlayerInv, PlayerTyped, PlayerTypes, AudioTypes, PlaybackTypes, FocusTypes,
         Procs, Free, Playing, Closed
<1>5. PlaceTypes'
  BY DEF TaskFinish, PlayerInv, PlayerTyped, AudioTypes, PlaceTypes, CallPlaces, Procs, Free,
         Playing, Closed
<1>6. BudgetTypes'
  BY DEF TaskFinish, PlayerInv, PlayerTyped, BudgetTypes, Procs, Free, Playing, Events, Closed
<1>7. TaskOK'
  BY DEF TaskFinish, PlayerInv, PlayerTyped, PlayerTypes, AudioTypes, PlaybackTypes, FocusTypes,
         PlaceTypes, BudgetTypes, TaskOK, CallPlaces, Procs, Free, Playing, Closed
<1>8. MutexOK'
  BY DEF TaskFinish, PlayerInv, PlayerTyped, PlayerTypes, AudioTypes, PlaybackTypes, FocusTypes,
         PlaceTypes, BudgetTypes, MutexOK, CallPlaces, Procs, Free, Playing, Closed
<1>9. BlockedOK'
  BY DEF TaskFinish, PlayerInv, PlayerTyped, PlayerTypes, AudioTypes, PlaybackTypes, FocusTypes,
         PlaceTypes, BudgetTypes, MutexOK, BlockedOK, CallPlaces, Procs, Free, Playing, Closed
<1>10. ListenersSilenced'
  BY DEF TaskFinish, PlayerInv, PlayerTyped, PlayerTypes, AudioTypes, PlaybackTypes, FocusTypes,
         PlaceTypes, BudgetTypes, TaskOK, MutexOK, BlockedOK, ListenersSilenced, CallPlaces,
         Procs, Free, Playing, Closed
<1> QED
  BY <1>1, <1>2, <1>3, <1>4, <1>5, <1>6, <1>7, <1>8, <1>9, <1>10 DEF PlayerInv, PlayerTyped

LEMMA TaskClearKeeps ==
    ASSUME Frames \in Nat \ {0}, PlayerInv, TaskClear
    PROVE  PlayerInv'
<1>1. PlayerTypes'
  BY DEF TaskClear, PlayerInv, PlayerTyped, PlayerTypes, PlaybackTypes, Procs, Free, Playing
<1>2. AudioTypes'
  BY DEF TaskClear, PlayerInv, PlayerTyped, PlayerTypes, AudioTypes, PlaybackTypes, Procs, Free,
         Playing
<1>3. PlaybackTypes'
  BY DEF TaskClear, PlayerInv, PlayerTyped, PlayerTypes, PlaybackTypes, Procs, Free, Playing
<1>4. FocusTypes'
  BY DEF TaskClear, PlayerInv, PlayerTyped, PlayerTypes, PlaybackTypes, FocusTypes, Procs, Free,
         Playing
<1>5. PlaceTypes'
  BY DEF TaskClear, PlayerInv, PlayerTyped, PlaceTypes, CallPlaces, Procs, Free, Playing
<1>6. BudgetTypes'
  BY DEF TaskClear, PlayerInv, PlayerTyped, BudgetTypes, Procs, Free, Playing, Events
<1>7. TaskOK'
  BY DEF TaskClear, PlayerInv, PlayerTyped, PlayerTypes, AudioTypes, PlaybackTypes, FocusTypes,
         PlaceTypes, BudgetTypes, TaskOK, CallPlaces, Procs, Free, Playing
<1>8. MutexOK'
  BY DEF TaskClear, PlayerInv, PlayerTyped, PlayerTypes, AudioTypes, PlaybackTypes, FocusTypes,
         PlaceTypes, BudgetTypes, MutexOK, CallPlaces, Procs, Free, Playing
<1>9. BlockedOK'
  BY DEF TaskClear, PlayerInv, PlayerTyped, PlayerTypes, AudioTypes, PlaybackTypes, FocusTypes,
         PlaceTypes, BudgetTypes, MutexOK, BlockedOK, CallPlaces, Procs, Free, Playing
<1>10. ListenersSilenced'
  BY DEF TaskClear, PlayerInv, PlayerTyped, PlayerTypes, AudioTypes, PlaybackTypes, FocusTypes,
         PlaceTypes, BudgetTypes, TaskOK, MutexOK, BlockedOK, ListenersSilenced, CallPlaces,
         Procs, Free, Playing
<1> QED
  BY <1>1, <1>2, <1>3, <1>4, <1>5, <1>6, <1>7, <1>8, <1>9, <1>10 DEF PlayerInv, PlayerTyped

LEMMA PlayTrackKeeps ==
    ASSUME Frames \in Nat \ {0}, PlayerInv, PlayTrack
    PROVE  PlayerInv'
<1>1. PlayerTypes'
  BY DEF PlayTrack, PlayerInv, PlayerTyped, PlayerTypes, Procs, Free, Playing, Spend, Goto, Starting
<1>2. AudioTypes'
  BY DEF PlayTrack, PlayerInv, PlayerTyped, PlayerTypes, AudioTypes, Procs, Free, Playing,
         Spend, Goto, Starting
<1>3. PlaybackTypes'
  BY DEF PlayTrack, PlayerInv, PlayerTyped, PlayerTypes, PlaybackTypes, Procs, Free, Playing,
         Spend, Goto, Starting
<1>4. FocusTypes'
  BY DEF PlayTrack, PlayerInv, PlayerTyped, PlayerTypes, FocusTypes, Procs, Free, Playing,
         Spend, Goto, Starting
<1>5. PlaceTypes'
  BY DEF PlayTrack, PlayerInv, PlayerTyped, PlaceTypes, CallPlaces, Procs, Free, Playing, Spend,
         Goto, Starting
<1>6. BudgetTypes'
  BY DEF PlayTrack, PlayerInv, PlayerTyped, BudgetTypes, Procs, Free, Playing, Events, Spend, Goto,
    Starting
<1>7. TaskOK'
  BY DEF PlayTrack, PlayerInv, PlayerTyped, PlayerTypes, AudioTypes, PlaybackTypes, FocusTypes,
         PlaceTypes, BudgetTypes, TaskOK, CallPlaces, Procs, Free, Playing, Spend, Goto,
         Starting
<1>8. MutexOK'
  BY DEF PlayTrack, PlayerInv, PlayerTyped, PlayerTypes, AudioTypes, PlaybackTypes, FocusTypes,
         PlaceTypes, BudgetTypes, MutexOK, CallPlaces, Procs, Free, Playing, Spend, Goto,
         Starting
<1>9. BlockedOK'
  BY DEF PlayTrack, PlayerInv, PlayerTyped, PlayerTypes, AudioTypes, PlaybackTypes, FocusTypes,
         PlaceTypes, BudgetTypes, MutexOK, BlockedOK, CallPlaces, Procs, Free, Playing, Spend,
         Goto, Starting
<1>10. ListenersSilenced'
  BY DEF PlayTrack, PlayerInv, PlayerTyped, PlayerTypes, AudioTypes, PlaybackTypes, FocusTypes,
         PlaceTypes, BudgetTypes, TaskOK, MutexOK, BlockedOK, ListenersSilenced, CallPlaces,
         Procs, Free, Playing, Spend, Goto, Starting
<1> QED
  BY <1>1, <1>2, <1>3, <1>4, <1>5, <1>6, <1>7, <1>8, <1>9, <1>10 DEF PlayerInv, PlayerTyped

LEMMA TogglePlayPauseKeeps ==
    ASSUME Frames \in Nat \ {0}, PlayerInv, TogglePlayPause
    PROVE  PlayerInv'
<1>1. PlayerTypes'
  <2>1. CASE audio.status \in {"paused"} \cup Playing
    BY <2>1 DEF TogglePlayPause, PlayerInv, PlayerTyped, PlayerTypes, AudioTypes, Procs, Free,
       Playing, Spend, Goto, Starting
  <2>2. CASE audio.status \notin {"paused"} \cup Playing
    <3>1. music' = Starting("ui") /\ out' = out
      BY <2>2 DEF TogglePlayPause
    <3> QED BY <3>1 DEF PlayerInv, PlayerTyped, PlayerTypes, Procs, Free, Starting
  <2> QED BY <2>1, <2>2
<1>2. AudioTypes'
  BY DEF TogglePlayPause, PlayerInv, PlayerTyped, PlayerTypes, AudioTypes, Procs, Free, Playing,
         Spend, Goto, Starting
<1>3. PlaybackTypes'
  BY DEF TogglePlayPause, PlayerInv, PlayerTyped, PlayerTypes, AudioTypes, PlaybackTypes, Procs,
         Free, Playing, Spend, Goto, Starting
<1>4. FocusTypes'
  BY DEF TogglePlayPause, PlayerInv, PlayerTyped, PlayerTypes, AudioTypes, FocusTypes, Procs, Free,
    Playing, Spend, Goto, Starting
<1>5. PlaceTypes'
  BY DEF TogglePlayPause, PlayerInv, PlayerTyped, AudioTypes, PlaceTypes, CallPlaces, Procs,
         Free, Playing, Spend, Goto, Starting
<1>6. BudgetTypes'
  BY DEF TogglePlayPause, PlayerInv, PlayerTyped, BudgetTypes, Procs, Free, Playing, Events,
         Spend, Goto, Starting
<1>7. TaskOK'
  BY DEF TogglePlayPause, PlayerInv, PlayerTyped, PlayerTypes, AudioTypes, PlaybackTypes,
         FocusTypes, PlaceTypes, BudgetTypes, TaskOK, CallPlaces, Procs, Free, Playing, Spend,
         Goto, Starting
<1>8. MutexOK'
  BY DEF TogglePlayPause, PlayerInv, PlayerTyped, PlayerTypes, AudioTypes, PlaybackTypes,
         FocusTypes, PlaceTypes, BudgetTypes, MutexOK, CallPlaces, Procs, Free, Playing, Spend,
         Goto, Starting
<1>9. BlockedOK'
  BY DEF TogglePlayPause, PlayerInv, PlayerTyped, PlayerTypes, AudioTypes, PlaybackTypes,
         FocusTypes, PlaceTypes, BudgetTypes, MutexOK, BlockedOK, CallPlaces, Procs, Free,
         Playing, Spend, Goto, Starting
<1>10. ListenersSilenced'
  BY DEF TogglePlayPause, PlayerInv, PlayerTyped, PlayerTypes, AudioTypes, PlaybackTypes,
         FocusTypes, PlaceTypes, BudgetTypes, TaskOK, MutexOK, BlockedOK, ListenersSilenced,
         CallPlaces, Procs, Free, Playing, Spend, Goto, Starting
<1> QED
  BY <1>1, <1>2, <1>3, <1>4, <1>5, <1>6, <1>7, <1>8, <1>9, <1>10 DEF PlayerInv, PlayerTyped

LEMMA TogglePauseKeeps ==
    ASSUME Frames \in Nat \ {0}, PlayerInv, TogglePause
    PROVE  PlayerInv'
<1>1. PlayerTypes'
  BY DEF TogglePause, PlayerInv, PlayerTyped, PlayerTypes, Procs, Free, Playing, Goto,
         PauseRequested
<1>2. AudioTypes'
  BY DEF TogglePause, PlayerInv, PlayerTyped, PlayerTypes, AudioTypes, Procs, Free, Playing, Goto,
    PauseRequested
<1>3. PlaybackTypes'
  BY DEF TogglePause, PlayerInv, PlayerTyped, PlayerTypes, PlaybackTypes, Procs, Free, Playing,
         Goto, PauseRequested
<1>4. FocusTypes'
  BY DEF TogglePause, PlayerInv, PlayerTyped, PlayerTypes, FocusTypes, Procs, Free, Playing, Goto,
    PauseRequested
<1>5. PlaceTypes'
  BY DEF TogglePause, PlayerInv, PlayerTyped, PlaceTypes, CallPlaces, Procs, Free, Playing, Goto,
    PauseRequested
<1>6. BudgetTypes'
  BY DEF TogglePause, PlayerInv, PlayerTyped, BudgetTypes, Procs, Free, Playing, Events, Goto,
    PauseRequested
<1>7. TaskOK'
  BY DEF TogglePause, PlayerInv, PlayerTyped, PlayerTypes, AudioTypes, PlaybackTypes,
         FocusTypes, PlaceTypes, BudgetTypes, TaskOK, CallPlaces, Procs, Free, Playing, Goto,
         PauseRequested
<1>8. MutexOK'
  BY DEF TogglePause, PlayerInv, PlayerTyped, PlayerTypes, AudioTypes, PlaybackTypes,
         FocusTypes, PlaceTypes, BudgetTypes, MutexOK, CallPlaces, Procs, Free, Playing, Goto,
         PauseRequested
<1>9. BlockedOK'
  BY DEF TogglePause, PlayerInv, PlayerTyped, PlayerTypes, AudioTypes, PlaybackTypes,
         FocusTypes, PlaceTypes, BudgetTypes, MutexOK, BlockedOK, CallPlaces, Procs, Free,
         Playing, Goto, PauseRequested
<1>10. ListenersSilenced'
  BY DEF TogglePause, PlayerInv, PlayerTyped, PlayerTypes, AudioTypes, PlaybackTypes,
         FocusTypes, PlaceTypes, BudgetTypes, TaskOK, MutexOK, BlockedOK, ListenersSilenced,
         CallPlaces, Procs, Free, Playing, Goto, PauseRequested
<1> QED
  BY <1>1, <1>2, <1>3, <1>4, <1>5, <1>6, <1>7, <1>8, <1>9, <1>10 DEF PlayerInv, PlayerTyped

LEMMA PlayerStopKeeps ==
    ASSUME Frames \in Nat \ {0}, PlayerInv, StopMusic
    PROVE  PlayerInv'
<1>1. PlayerTypes'
  BY DEF StopMusic, PlayerInv, PlayerTyped, PlayerTypes, Procs, Free, Playing, Spend, StopRequested
<1>2. AudioTypes'
  BY DEF StopMusic, PlayerInv, PlayerTyped, PlayerTypes, AudioTypes, Procs, Free, Playing,
         Spend, StopRequested
<1>3. PlaybackTypes'
  BY DEF StopMusic, PlayerInv, PlayerTyped, PlayerTypes, PlaybackTypes, Procs, Free, Playing,
         Spend, StopRequested
<1>4. FocusTypes'
  BY DEF StopMusic, PlayerInv, PlayerTyped, PlayerTypes, FocusTypes, Procs, Free, Playing,
         Spend, StopRequested
<1>5. PlaceTypes'
  BY DEF StopMusic, PlayerInv, PlayerTyped, PlaceTypes, CallPlaces, Procs, Free, Playing, Spend,
         StopRequested
<1>6. BudgetTypes'
  BY DEF StopMusic, PlayerInv, PlayerTyped, BudgetTypes, Procs, Free, Playing, Events, Spend,
         StopRequested
<1>7. TaskOK'
  BY DEF StopMusic, PlayerInv, PlayerTyped, PlayerTypes, AudioTypes, PlaybackTypes, FocusTypes,
         PlaceTypes, BudgetTypes, TaskOK, CallPlaces, Procs, Free, Playing, Spend, StopRequested
<1>8. MutexOK'
  BY DEF StopMusic, PlayerInv, PlayerTyped, PlayerTypes, AudioTypes, PlaybackTypes, FocusTypes,
         PlaceTypes, BudgetTypes, MutexOK, CallPlaces, Procs, Free, Playing, Spend,
         StopRequested
<1>9. BlockedOK'
  BY DEF StopMusic, PlayerInv, PlayerTyped, PlayerTypes, AudioTypes, PlaybackTypes, FocusTypes,
         PlaceTypes, BudgetTypes, MutexOK, BlockedOK, CallPlaces, Procs, Free, Playing, Spend,
         StopRequested
<1>10. ListenersSilenced'
  BY DEF StopMusic, PlayerInv, PlayerTyped, PlayerTypes, AudioTypes, PlaybackTypes, FocusTypes,
         PlaceTypes, BudgetTypes, TaskOK, MutexOK, BlockedOK, ListenersSilenced, CallPlaces,
         Procs, Free, Playing, Spend, StopRequested
<1> QED
  BY <1>1, <1>2, <1>3, <1>4, <1>5, <1>6, <1>7, <1>8, <1>9, <1>10 DEF PlayerInv, PlayerTyped

LEMMA NextTrackKeeps ==
    ASSUME Frames \in Nat \ {0}, PlayerInv, NextTrack
    PROVE  PlayerInv'
<1>1. PlayerTypes'
  BY DEF NextTrack, PlayerInv, PlayerTyped, PlayerTypes, AudioTypes, Procs, Free, Playing,
         Spend, Goto, Starting
<1>2. AudioTypes'
  BY DEF NextTrack, PlayerInv, PlayerTyped, PlayerTypes, AudioTypes, Procs, Free, Playing,
         Spend, Goto, Starting
<1>3. PlaybackTypes'
  BY DEF NextTrack, PlayerInv, PlayerTyped, PlayerTypes, AudioTypes, PlaybackTypes, Procs, Free,
         Playing, Spend, Goto, Starting
<1>4. FocusTypes'
  BY DEF NextTrack, PlayerInv, PlayerTyped, PlayerTypes, AudioTypes, FocusTypes, Procs, Free,
         Playing, Spend, Goto, Starting
<1>5. PlaceTypes'
  BY DEF NextTrack, PlayerInv, PlayerTyped, AudioTypes, PlaceTypes, CallPlaces, Procs, Free,
         Playing, Spend, Goto, Starting
<1>6. BudgetTypes'
  BY DEF NextTrack, PlayerInv, PlayerTyped, BudgetTypes, Procs, Free, Playing, Events, Spend, Goto,
    Starting
<1>7. TaskOK'
  BY DEF NextTrack, PlayerInv, PlayerTyped, PlayerTypes, AudioTypes, PlaybackTypes, FocusTypes,
         PlaceTypes, BudgetTypes, TaskOK, CallPlaces, Procs, Free, Playing, Spend, Goto,
         Starting
<1>8. MutexOK'
  BY DEF NextTrack, PlayerInv, PlayerTyped, PlayerTypes, AudioTypes, PlaybackTypes, FocusTypes,
         PlaceTypes, BudgetTypes, MutexOK, CallPlaces, Procs, Free, Playing, Spend, Goto,
         Starting
<1>9. BlockedOK'
  BY DEF NextTrack, PlayerInv, PlayerTyped, PlayerTypes, AudioTypes, PlaybackTypes, FocusTypes,
         PlaceTypes, BudgetTypes, MutexOK, BlockedOK, CallPlaces, Procs, Free, Playing, Spend,
         Goto, Starting
<1>10. ListenersSilenced'
  BY DEF NextTrack, PlayerInv, PlayerTyped, PlayerTypes, AudioTypes, PlaybackTypes, FocusTypes,
         PlaceTypes, BudgetTypes, TaskOK, MutexOK, BlockedOK, ListenersSilenced, CallPlaces,
         Procs, Free, Playing, Spend, Goto, Starting
<1> QED
  BY <1>1, <1>2, <1>3, <1>4, <1>5, <1>6, <1>7, <1>8, <1>9, <1>10 DEF PlayerInv, PlayerTyped

LEMMA SeePlayingKeeps ==
    ASSUME Frames \in Nat \ {0}, PlayerInv, SeePlaying
    PROVE  PlayerInv'
<1>1. PlayerTypes'
  BY DEF SeePlaying, PlayerInv, PlayerTyped, PlayerTypes, AudioTypes, Procs, Free, Playing
<1>2. AudioTypes'
  BY DEF SeePlaying, PlayerInv, PlayerTyped, PlayerTypes, AudioTypes, Procs, Free, Playing
<1>3. PlaybackTypes'
  BY DEF SeePlaying, PlayerInv, PlayerTyped, PlayerTypes, AudioTypes, PlaybackTypes, Procs,
         Free, Playing
<1>4. FocusTypes'
  BY DEF SeePlaying, PlayerInv, PlayerTyped, PlayerTypes, AudioTypes, FocusTypes, Procs, Free,
         Playing
<1>5. PlaceTypes'
  BY DEF SeePlaying, PlayerInv, PlayerTyped, AudioTypes, PlaceTypes, CallPlaces, Procs, Free,
         Playing
<1>6. BudgetTypes'
  BY DEF SeePlaying, PlayerInv, PlayerTyped, BudgetTypes, Procs, Free, Playing, Events
<1>7. TaskOK'
  BY DEF SeePlaying, PlayerInv, PlayerTyped, PlayerTypes, AudioTypes, PlaybackTypes, FocusTypes,
         PlaceTypes, BudgetTypes, TaskOK, CallPlaces, Procs, Free, Playing
<1>8. MutexOK'
  BY DEF SeePlaying, PlayerInv, PlayerTyped, PlayerTypes, AudioTypes, PlaybackTypes, FocusTypes,
         PlaceTypes, BudgetTypes, MutexOK, CallPlaces, Procs, Free, Playing
<1>9. BlockedOK'
  BY DEF SeePlaying, PlayerInv, PlayerTyped, PlayerTypes, AudioTypes, PlaybackTypes, FocusTypes,
         PlaceTypes, BudgetTypes, MutexOK, BlockedOK, CallPlaces, Procs, Free, Playing
<1>10. ListenersSilenced'
  BY DEF SeePlaying, PlayerInv, PlayerTyped, PlayerTypes, AudioTypes, PlaybackTypes, FocusTypes,
         PlaceTypes, BudgetTypes, TaskOK, MutexOK, BlockedOK, ListenersSilenced, CallPlaces,
         Procs, Free, Playing
<1> QED
  BY <1>1, <1>2, <1>3, <1>4, <1>5, <1>6, <1>7, <1>8, <1>9, <1>10 DEF PlayerInv, PlayerTyped

LEMMA PlayRecordingKeeps ==
    ASSUME Frames \in Nat \ {0}, PlayerInv, PlayRecording
    PROVE  PlayerInv'
<1>1. PlayerTypes'
  BY DEF PlayRecording, PlayerInv, PlayerTyped, PlayerTypes, AudioTypes, Procs, Free, Playing,
         Spend, Goto, StopRequested
<1>2. AudioTypes'
  <2>1. CASE ~audio.track /\ audio.status \in Playing \cup {"paused"}
    <3>1. audio' = [audio EXCEPT !.stop = TRUE, !.pause = FALSE, !.idle = FALSE, !.suspended = FALSE]
          /\ player' = player /\ pc' = pc /\ out' = out
      BY <2>1 DEF PlayRecording, StopRequested, Playing
    <3> QED
      BY <2>1, <3>1 DEF PlayerInv, PlayerTyped, PlayerTypes, AudioTypes, Procs, Free, Playing
  <2>2. CASE ~(~audio.track /\ audio.status \in Playing \cup {"paused"})
    BY <2>2 DEF PlayRecording, PlayerInv, PlayerTyped, PlayerTypes, AudioTypes, Procs, Free,
       Playing, Spend, Goto, StopRequested
  <2> QED BY <2>1, <2>2
<1>3. PlaybackTypes'
  BY DEF PlayRecording, PlayerInv, PlayerTyped, PlayerTypes, AudioTypes, PlaybackTypes, Procs,
         Free, Playing, Spend, Goto, StopRequested
<1>4. FocusTypes'
  BY DEF PlayRecording, PlayerInv, PlayerTyped, PlayerTypes, AudioTypes, FocusTypes, Procs,
         Free, Playing, Spend, Goto, StopRequested
<1>5. PlaceTypes'
  BY DEF PlayRecording, PlayerInv, PlayerTyped, AudioTypes, PlaceTypes, CallPlaces, Procs, Free,
         Playing, Spend, Goto, StopRequested
<1>6. BudgetTypes'
  BY DEF PlayRecording, PlayerInv, PlayerTyped, BudgetTypes, Procs, Free, Playing, Events,
         Spend, Goto, StopRequested
<1>7. TaskOK'
  <2>1. CASE ~audio.track /\ audio.status \in Playing \cup {"paused"}
    <3>1. audio' = [audio EXCEPT !.stop = TRUE, !.pause = FALSE, !.idle = FALSE, !.suspended = FALSE]
          /\ player' = player /\ pc' = pc /\ out' = out
      BY <2>1 DEF PlayRecording, StopRequested, Playing
    <3> QED
      BY <2>1, <3>1 DEF PlayerInv, PlayerTyped, PlayerTypes, AudioTypes, PlaybackTypes, FocusTypes,
        PlaceTypes, BudgetTypes, TaskOK, CallPlaces, Procs, Free, Playing
  <2>2. CASE ~(~audio.track /\ audio.status \in Playing \cup {"paused"})
    BY <2>2 DEF PlayRecording, PlayerInv, PlayerTyped, PlayerTypes, AudioTypes, PlaybackTypes,
       FocusTypes, PlaceTypes, BudgetTypes, TaskOK, CallPlaces, Procs, Free, Playing, Spend,
       Goto, StopRequested
  <2> QED BY <2>1, <2>2
<1>8. MutexOK'
  BY DEF PlayRecording, PlayerInv, PlayerTyped, PlayerTypes, AudioTypes, PlaybackTypes, FocusTypes,
    PlaceTypes, BudgetTypes, MutexOK, CallPlaces, Procs, Free, Playing, Spend, Goto, StopRequested
<1>9. BlockedOK'
  BY DEF PlayRecording, PlayerInv, PlayerTyped, PlayerTypes, AudioTypes, PlaybackTypes, FocusTypes,
    PlaceTypes, BudgetTypes, MutexOK, BlockedOK, CallPlaces, Procs, Free, Playing, Spend, Goto,
    StopRequested
<1>10. ListenersSilenced'
  <2>1. CASE ~audio.track /\ audio.status \in Playing \cup {"paused"}
    <3>1. audio' = [audio EXCEPT !.stop = TRUE, !.pause = FALSE, !.idle = FALSE, !.suspended = FALSE]
          /\ player' = player /\ pc' = pc /\ out' = out
      BY <2>1 DEF PlayRecording, StopRequested, Playing
    <3> QED
      BY <2>1, <3>1 DEF PlayerInv, PlayerTyped, PlayerTypes, AudioTypes, PlaybackTypes,
         FocusTypes, PlaceTypes, BudgetTypes, TaskOK, MutexOK, BlockedOK, ListenersSilenced,
         CallPlaces, Procs, Free, Playing
  <2>2. CASE ~(~audio.track /\ audio.status \in Playing \cup {"paused"})
    BY <2>2 DEF PlayRecording, PlayerInv, PlayerTyped, PlayerTypes, AudioTypes, PlaybackTypes,
       FocusTypes, PlaceTypes, BudgetTypes, TaskOK, MutexOK, BlockedOK, ListenersSilenced,
       CallPlaces, Procs, Free, Playing, Spend, Goto, StopRequested
  <2> QED BY <2>1, <2>2
<1> QED
  BY <1>1, <1>2, <1>3, <1>4, <1>5, <1>6, <1>7, <1>8, <1>9, <1>10 DEF PlayerInv, PlayerTyped

LEMMA ReadPlayerKeeps ==
    ASSUME Frames \in Nat \ {0}, PlayerInv, ReadPlayer
    PROVE  PlayerInv'
<1>1. PlayerTypes'
  BY DEF ReadPlayer, PlayerInv, PlayerTyped, PlayerTypes, AudioTypes, FocusTypes, Procs, Free,
         Playing, Goto
<1>2. AudioTypes'
  BY DEF ReadPlayer, PlayerInv, PlayerTyped, PlayerTypes, AudioTypes, FocusTypes, Procs, Free,
         Playing, Goto
<1>3. PlaybackTypes'
  BY DEF ReadPlayer, PlayerInv, PlayerTyped, PlayerTypes, AudioTypes, PlaybackTypes, FocusTypes,
         Procs, Free, Playing, Goto
<1>4. FocusTypes'
  <2> DEFINE playing == audio.status \in Playing
             keep    == focus.resume /\ (playing \/ audio.status = "paused")
  <2>1. focus' = [focus EXCEPT !.playing = playing, !.kept = keep]
    BY Zenon DEF ReadPlayer
  <2>2. playing \in BOOLEAN
    OBVIOUS
  <2>3. keep \in BOOLEAN
    OBVIOUS
  <2> HIDE DEF playing, keep
  <2> QED BY <2>1, <2>2, <2>3 DEF PlayerInv, PlayerTyped, FocusTypes
<1>5. PlaceTypes'
  BY DEF ReadPlayer, PlayerInv, PlayerTyped, AudioTypes, FocusTypes, PlaceTypes, CallPlaces,
         Procs, Free, Playing, Goto
<1>6. BudgetTypes'
  BY DEF ReadPlayer, PlayerInv, PlayerTyped, BudgetTypes, Procs, Free, Playing, Events, Goto
<1>7. TaskOK'
  BY DEF ReadPlayer, PlayerInv, PlayerTyped, PlayerTypes, AudioTypes, PlaybackTypes, FocusTypes,
         PlaceTypes, BudgetTypes, TaskOK, CallPlaces, Procs, Free, Playing, Goto
<1>8. MutexOK'
  BY DEF ReadPlayer, PlayerInv, PlayerTyped, PlayerTypes, AudioTypes, PlaybackTypes, FocusTypes,
         PlaceTypes, BudgetTypes, MutexOK, CallPlaces, Procs, Free, Playing, Goto
<1>9. BlockedOK'
  BY DEF ReadPlayer, PlayerInv, PlayerTyped, PlayerTypes, AudioTypes, PlaybackTypes, FocusTypes,
         PlaceTypes, BudgetTypes, MutexOK, BlockedOK, CallPlaces, Procs, Free, Playing, Goto
<1>10. ListenersSilenced'
  BY DEF ReadPlayer, PlayerInv, PlayerTyped, PlayerTypes, AudioTypes, PlaybackTypes, FocusTypes,
         PlaceTypes, BudgetTypes, TaskOK, MutexOK, BlockedOK, ListenersSilenced, CallPlaces,
         Procs, Free, Playing, Goto
<1> QED
  BY <1>1, <1>2, <1>3, <1>4, <1>5, <1>6, <1>7, <1>8, <1>9, <1>10 DEF PlayerInv, PlayerTyped

LEMMA SuspendBeginKeeps ==
    ASSUME Frames \in Nat \ {0}, PlayerInv, SuspendBegin
    PROVE  PlayerInv'
<1>1. PlayerTypes'
  BY DEF SuspendBegin, PlayerInv, PlayerTyped, PlayerTypes, AudioTypes, Procs, Free, Playing, Goto,
    PauseRequested
<1>2. AudioTypes'
  BY DEF SuspendBegin, PlayerInv, PlayerTyped, PlayerTypes, AudioTypes, Procs, Free, Playing, Goto,
    PauseRequested
<1>3. PlaybackTypes'
  BY DEF SuspendBegin, PlayerInv, PlayerTyped, PlayerTypes, AudioTypes, PlaybackTypes, Procs,
         Free, Playing, Goto, PauseRequested
<1>4. FocusTypes'
  BY DEF SuspendBegin, PlayerInv, PlayerTyped, PlayerTypes, AudioTypes, FocusTypes, Procs, Free,
         Playing, Goto, PauseRequested
<1>5. PlaceTypes'
  BY DEF SuspendBegin, PlayerInv, PlayerTyped, AudioTypes, PlaceTypes, CallPlaces, Procs, Free,
         Playing, Goto, PauseRequested
<1>6. BudgetTypes'
  BY DEF SuspendBegin, PlayerInv, PlayerTyped, BudgetTypes, Procs, Free, Playing, Events, Goto,
    PauseRequested
<1>7. TaskOK'
  BY DEF SuspendBegin, PlayerInv, PlayerTyped, PlayerTypes, AudioTypes, PlaybackTypes,
         FocusTypes, PlaceTypes, BudgetTypes, TaskOK, CallPlaces, Procs, Free, Playing, Goto,
         PauseRequested
<1>8. MutexOK'
  BY DEF SuspendBegin, PlayerInv, PlayerTyped, PlayerTypes, AudioTypes, PlaybackTypes,
         FocusTypes, PlaceTypes, BudgetTypes, MutexOK, CallPlaces, Procs, Free, Playing, Goto,
         PauseRequested
<1>9. BlockedOK'
  BY DEF SuspendBegin, PlayerInv, PlayerTyped, PlayerTypes, AudioTypes, PlaybackTypes,
         FocusTypes, PlaceTypes, BudgetTypes, MutexOK, BlockedOK, CallPlaces, Procs, Free,
         Playing, Goto, PauseRequested
<1>10. ListenersSilenced'
  BY DEF SuspendBegin, PlayerInv, PlayerTyped, PlayerTypes, AudioTypes, PlaybackTypes,
         FocusTypes, PlaceTypes, BudgetTypes, TaskOK, MutexOK, BlockedOK, ListenersSilenced,
         CallPlaces, Procs, Free, Playing, Goto, PauseRequested
<1> QED
  BY <1>1, <1>2, <1>3, <1>4, <1>5, <1>6, <1>7, <1>8, <1>9, <1>10 DEF PlayerInv, PlayerTyped

LEMMA SuspendedKeeps ==
    ASSUME Frames \in Nat \ {0}, PlayerInv, Suspended
    PROVE  PlayerInv'
<1>1. PlayerTypes'
  BY DEF Suspended, PlayerInv, PlayerTyped, PlayerTypes, Procs, Free, Playing, Goto, Unlocked,
         Closed, Paused
<1>2. AudioTypes'
  BY DEF Suspended, PlayerInv, PlayerTyped, PlayerTypes, AudioTypes, Procs, Free, Playing, Goto,
         Unlocked, Closed, Paused
<1>3. PlaybackTypes'
  BY DEF Suspended, PlayerInv, PlayerTyped, PlayerTypes, PlaybackTypes, Procs, Free, Playing,
         Goto, Unlocked, Closed, Paused
<1>4. FocusTypes'
  BY DEF Suspended, PlayerInv, PlayerTyped, PlayerTypes, FocusTypes, Procs, Free, Playing, Goto,
         Unlocked, Closed, Paused
<1>5. PlaceTypes'
  BY DEF Suspended, PlayerInv, PlayerTyped, PlaceTypes, CallPlaces, Procs, Free, Playing, Goto,
         Unlocked, Closed, Paused
<1>6. BudgetTypes'
  BY DEF Suspended, PlayerInv, PlayerTyped, BudgetTypes, Procs, Free, Playing, Events, Goto,
         Unlocked, Closed, Paused
<1>7. TaskOK'
  BY DEF Suspended, PlayerInv, PlayerTyped, PlayerTypes, AudioTypes, PlaybackTypes, FocusTypes,
         PlaceTypes, BudgetTypes, TaskOK, CallPlaces, Procs, Free, Playing, Goto, Unlocked,
         Closed, Paused
<1>8. MutexOK'
  BY DEF Suspended, PlayerInv, PlayerTyped, PlayerTypes, AudioTypes, PlaybackTypes, FocusTypes,
         PlaceTypes, BudgetTypes, MutexOK, CallPlaces, Procs, Free, Playing, Goto, Unlocked,
         Closed, Paused
<1>9. BlockedOK'
  BY DEF Suspended, PlayerInv, PlayerTyped, PlayerTypes, AudioTypes, PlaybackTypes, FocusTypes,
         PlaceTypes, BudgetTypes, MutexOK, BlockedOK, CallPlaces, Procs, Free, Playing, Goto,
         Unlocked, Closed, Paused
<1>10. ListenersSilenced'
  BY DEF Suspended, PlayerInv, PlayerTyped, PlayerTypes, AudioTypes, PlaybackTypes, FocusTypes,
         PlaceTypes, BudgetTypes, TaskOK, MutexOK, BlockedOK, ListenersSilenced, CallPlaces,
         Procs, Free, Playing, Goto, Unlocked, Closed, Paused
<1> QED
  BY <1>1, <1>2, <1>3, <1>4, <1>5, <1>6, <1>7, <1>8, <1>9, <1>10 DEF PlayerInv, PlayerTyped

LEMMA EndBeginKeeps ==
    ASSUME Frames \in Nat \ {0}, PlayerInv, EndBegin
    PROVE  PlayerInv'
<1>1. PlayerTypes'
  BY DEF EndBegin, PlayerInv, PlayerTyped, PlayerTypes, AudioTypes, Procs, Free, Playing, Goto,
    StopRequested
<1>2. AudioTypes'
  BY DEF EndBegin, PlayerInv, PlayerTyped, PlayerTypes, AudioTypes, Procs, Free, Playing, Goto,
    StopRequested
<1>3. PlaybackTypes'
  BY DEF EndBegin, PlayerInv, PlayerTyped, PlayerTypes, AudioTypes, PlaybackTypes, Procs, Free,
         Playing, Goto, StopRequested
<1>4. FocusTypes'
  BY DEF EndBegin, PlayerInv, PlayerTyped, PlayerTypes, AudioTypes, FocusTypes, Procs, Free,
         Playing, Goto, StopRequested
<1>5. PlaceTypes'
  BY DEF EndBegin, PlayerInv, PlayerTyped, AudioTypes, PlaceTypes, CallPlaces, Procs, Free,
         Playing, Goto, StopRequested
<1>6. BudgetTypes'
  BY DEF EndBegin, PlayerInv, PlayerTyped, BudgetTypes, Procs, Free, Playing, Events, Goto,
         StopRequested
<1>7. TaskOK'
  BY DEF EndBegin, PlayerInv, PlayerTyped, PlayerTypes, AudioTypes, PlaybackTypes, FocusTypes,
         PlaceTypes, BudgetTypes, TaskOK, CallPlaces, Procs, Free, Playing, Goto, StopRequested
<1>8. MutexOK'
  BY DEF EndBegin, PlayerInv, PlayerTyped, PlayerTypes, AudioTypes, PlaybackTypes, FocusTypes,
         PlaceTypes, BudgetTypes, MutexOK, CallPlaces, Procs, Free, Playing, Goto, StopRequested
<1>9. BlockedOK'
  BY DEF EndBegin, PlayerInv, PlayerTyped, PlayerTypes, AudioTypes, PlaybackTypes, FocusTypes,
         PlaceTypes, BudgetTypes, MutexOK, BlockedOK, CallPlaces, Procs, Free, Playing, Goto,
         StopRequested
<1>10. ListenersSilenced'
  BY DEF EndBegin, PlayerInv, PlayerTyped, PlayerTypes, AudioTypes, PlaybackTypes, FocusTypes,
         PlaceTypes, BudgetTypes, TaskOK, MutexOK, BlockedOK, ListenersSilenced, CallPlaces,
         Procs, Free, Playing, Goto, StopRequested
<1> QED
  BY <1>1, <1>2, <1>3, <1>4, <1>5, <1>6, <1>7, <1>8, <1>9, <1>10 DEF PlayerInv, PlayerTyped

LEMMA EndedKeeps ==
    ASSUME Frames \in Nat \ {0}, PlayerInv, Ended
    PROVE  PlayerInv'
<1>1. PlayerTypes'
  BY DEF Ended, PlayerInv, PlayerTyped, PlayerTypes, AudioTypes, Procs, Free, Playing, Goto,
         Unlocked, Closed
<1>2. AudioTypes'
  BY DEF Ended, PlayerInv, PlayerTyped, PlayerTypes, AudioTypes, Procs, Free, Playing, Goto,
         Unlocked, Closed
<1>3. PlaybackTypes'
  BY DEF Ended, PlayerInv, PlayerTyped, PlayerTypes, AudioTypes, PlaybackTypes, Procs, Free,
         Playing, Goto, Unlocked, Closed
<1>4. FocusTypes'
  BY DEF Ended, PlayerInv, PlayerTyped, PlayerTypes, AudioTypes, FocusTypes, Procs, Free,
         Playing, Goto, Unlocked, Closed
<1>5. PlaceTypes'
  BY DEF Ended, PlayerInv, PlayerTyped, AudioTypes, PlaceTypes, CallPlaces, Procs, Free,
         Playing, Goto, Unlocked, Closed
<1>6. BudgetTypes'
  BY DEF Ended, PlayerInv, PlayerTyped, BudgetTypes, Procs, Free, Playing, Events, Goto,
         Unlocked, Closed
<1>7. TaskOK'
  BY DEF Ended, PlayerInv, PlayerTyped, PlayerTypes, AudioTypes, PlaybackTypes, FocusTypes,
         PlaceTypes, BudgetTypes, TaskOK, CallPlaces, Procs, Free, Playing, Goto, Unlocked,
         Closed
<1>8. MutexOK'
  BY DEF Ended, PlayerInv, PlayerTyped, PlayerTypes, AudioTypes, PlaybackTypes, FocusTypes,
         PlaceTypes, BudgetTypes, MutexOK, CallPlaces, Procs, Free, Playing, Goto, Unlocked,
         Closed
<1>9. BlockedOK'
  BY DEF Ended, PlayerInv, PlayerTyped, PlayerTypes, AudioTypes, PlaybackTypes, FocusTypes,
         PlaceTypes, BudgetTypes, MutexOK, BlockedOK, CallPlaces, Procs, Free, Playing, Goto,
         Unlocked, Closed
<1>10. ListenersSilenced'
  BY DEF Ended, PlayerInv, PlayerTyped, PlayerTypes, AudioTypes, PlaybackTypes, FocusTypes,
         PlaceTypes, BudgetTypes, TaskOK, MutexOK, BlockedOK, ListenersSilenced, CallPlaces,
         Procs, Free, Playing, Goto, Unlocked, Closed
<1> QED
  BY <1>1, <1>2, <1>3, <1>4, <1>5, <1>6, <1>7, <1>8, <1>9, <1>10 DEF PlayerInv, PlayerTyped

LEMMA WaitTimeoutKeeps ==
    ASSUME Frames \in Nat \ {0}, PlayerInv, WaitTimeout
    PROVE  PlayerInv'
<1>1. PlayerTypes'
  BY DEF WaitTimeout, PlayerInv, PlayerTyped, PlayerTypes, AudioTypes, Procs, Free, Playing,
         Spend, Goto, Unlocked
<1>2. AudioTypes'
  BY DEF WaitTimeout, PlayerInv, PlayerTyped, PlayerTypes, AudioTypes, Procs, Free, Playing,
         Spend, Goto, Unlocked
<1>3. PlaybackTypes'
  BY DEF WaitTimeout, PlayerInv, PlayerTyped, PlayerTypes, AudioTypes, PlaybackTypes, Procs,
         Free, Playing, Spend, Goto, Unlocked
<1>4. FocusTypes'
  BY DEF WaitTimeout, PlayerInv, PlayerTyped, PlayerTypes, AudioTypes, FocusTypes, Procs, Free,
         Playing, Spend, Goto, Unlocked
<1>5. PlaceTypes'
  BY DEF WaitTimeout, PlayerInv, PlayerTyped, AudioTypes, PlaceTypes, CallPlaces, Procs, Free,
         Playing, Spend, Goto, Unlocked
<1>6. BudgetTypes'
  BY DEF WaitTimeout, PlayerInv, PlayerTyped, BudgetTypes, Procs, Free, Playing, Events, Spend,
         Goto, Unlocked
<1>7. TaskOK'
  BY DEF WaitTimeout, PlayerInv, PlayerTyped, PlayerTypes, AudioTypes, PlaybackTypes,
         FocusTypes, PlaceTypes, BudgetTypes, TaskOK, CallPlaces, Procs, Free, Playing, Spend,
         Goto, Unlocked
<1>8. MutexOK'
  BY DEF WaitTimeout, PlayerInv, PlayerTyped, PlayerTypes, AudioTypes, PlaybackTypes,
         FocusTypes, PlaceTypes, BudgetTypes, MutexOK, CallPlaces, Procs, Free, Playing, Spend,
         Goto, Unlocked
<1>9. BlockedOK'
  BY DEF WaitTimeout, PlayerInv, PlayerTyped, PlayerTypes, AudioTypes, PlaybackTypes,
         FocusTypes, PlaceTypes, BudgetTypes, MutexOK, BlockedOK, CallPlaces, Procs, Free,
         Playing, Spend, Goto, Unlocked
<1>10. ListenersSilenced'
  BY DEF WaitTimeout, PlayerInv, PlayerTyped, PlayerTypes, AudioTypes, PlaybackTypes,
         FocusTypes, PlaceTypes, BudgetTypes, TaskOK, MutexOK, BlockedOK, ListenersSilenced,
         CallPlaces, Procs, Free, Playing, Spend, Goto, Unlocked
<1> QED
  BY <1>1, <1>2, <1>3, <1>4, <1>5, <1>6, <1>7, <1>8, <1>9, <1>10 DEF PlayerInv, PlayerTyped

LEMMA ReserveKeeps ==
    ASSUME Frames \in Nat \ {0}, PlayerInv, Reserve
    PROVE  PlayerInv'
<1>1. PlayerTypes'
  BY DEF Reserve, PlayerInv, PlayerTyped, PlayerTypes, Procs, Free, Playing, Goto, Owner
<1>2. AudioTypes'
  BY DEF Reserve, PlayerInv, PlayerTyped, PlayerTypes, AudioTypes, Procs, Free, Playing, Goto, Owner
<1>3. PlaybackTypes'
  BY DEF Reserve, PlayerInv, PlayerTyped, PlayerTypes, PlaybackTypes, Procs, Free, Playing,
         Goto, Owner
<1>4. FocusTypes'
  BY DEF Reserve, PlayerInv, PlayerTyped, PlayerTypes, FocusTypes, Procs, Free, Playing, Goto, Owner
<1>5. PlaceTypes'
  BY DEF Reserve, PlayerInv, PlayerTyped, PlaceTypes, CallPlaces, Procs, Free, Playing, Goto, Owner
<1>6. BudgetTypes'
  BY DEF Reserve, PlayerInv, PlayerTyped, BudgetTypes, Procs, Free, Playing, Events, Goto, Owner
<1>7. TaskOK'
  BY DEF Reserve, PlayerInv, PlayerTyped, PlayerTypes, AudioTypes, PlaybackTypes, FocusTypes,
         PlaceTypes, BudgetTypes, TaskOK, CallPlaces, Procs, Free, Playing, Goto, Owner
<1>8. MutexOK'
  BY DEF Reserve, PlayerInv, PlayerTyped, PlayerTypes, AudioTypes, PlaybackTypes, FocusTypes,
         PlaceTypes, BudgetTypes, MutexOK, CallPlaces, Procs, Free, Playing, Goto, Owner
<1>9. BlockedOK'
  BY DEF Reserve, PlayerInv, PlayerTyped, PlayerTypes, AudioTypes, PlaybackTypes, FocusTypes,
         PlaceTypes, BudgetTypes, MutexOK, BlockedOK, CallPlaces, Procs, Free, Playing, Goto,
         Owner
<1>10. ListenersSilenced'
  BY DEF Reserve, PlayerInv, PlayerTyped, PlayerTypes, AudioTypes, PlaybackTypes, FocusTypes,
         PlaceTypes, BudgetTypes, TaskOK, MutexOK, BlockedOK, ListenersSilenced, CallPlaces,
         Procs, Free, Playing, Goto, Owner
<1> QED
  BY <1>1, <1>2, <1>3, <1>4, <1>5, <1>6, <1>7, <1>8, <1>9, <1>10 DEF PlayerInv, PlayerTyped

LEMMA ReleaseFocusKeeps ==
    ASSUME Frames \in Nat \ {0}, PlayerInv, ReleaseFocus
    PROVE  PlayerInv'
<1>1. PlayerTypes'
  BY DEF ReleaseFocus, PlayerInv, PlayerTyped, PlayerTypes, Procs, Free, Playing, Goto
<1>2. AudioTypes'
  BY DEF ReleaseFocus, PlayerInv, PlayerTyped, PlayerTypes, AudioTypes, Procs, Free, Playing, Goto
<1>3. PlaybackTypes'
  BY DEF ReleaseFocus, PlayerInv, PlayerTyped, PlayerTypes, PlaybackTypes, Procs, Free, Playing,
         Goto
<1>4. FocusTypes'
  BY DEF ReleaseFocus, PlayerInv, PlayerTyped, PlayerTypes, FocusTypes, Procs, Free, Playing, Goto
<1>5. PlaceTypes'
  BY DEF ReleaseFocus, PlayerInv, PlayerTyped, PlaceTypes, CallPlaces, Procs, Free, Playing, Goto
<1>6. BudgetTypes'
  BY DEF ReleaseFocus, PlayerInv, PlayerTyped, BudgetTypes, Procs, Free, Playing, Events, Goto
<1>7. TaskOK'
  BY DEF ReleaseFocus, PlayerInv, PlayerTyped, PlayerTypes, AudioTypes, PlaybackTypes,
         FocusTypes, PlaceTypes, BudgetTypes, TaskOK, CallPlaces, Procs, Free, Playing, Goto
<1>8. MutexOK'
  BY DEF ReleaseFocus, PlayerInv, PlayerTyped, PlayerTypes, AudioTypes, PlaybackTypes,
         FocusTypes, PlaceTypes, BudgetTypes, MutexOK, CallPlaces, Procs, Free, Playing, Goto
<1>9. BlockedOK'
  BY DEF ReleaseFocus, PlayerInv, PlayerTyped, PlayerTypes, AudioTypes, PlaybackTypes,
         FocusTypes, PlaceTypes, BudgetTypes, MutexOK, BlockedOK, CallPlaces, Procs, Free,
         Playing, Goto
<1>10. ListenersSilenced'
  BY DEF ReleaseFocus, PlayerInv, PlayerTyped, PlayerTypes, AudioTypes, PlaybackTypes,
         FocusTypes, PlaceTypes, BudgetTypes, TaskOK, MutexOK, BlockedOK, ListenersSilenced,
         CallPlaces, Procs, Free, Playing, Goto
<1> QED
  BY <1>1, <1>2, <1>3, <1>4, <1>5, <1>6, <1>7, <1>8, <1>9, <1>10 DEF PlayerInv, PlayerTyped

LEMMA UnblockKeeps ==
    ASSUME Frames \in Nat \ {0}, PlayerInv, Unblock
    PROVE  PlayerInv'
<1>1. PlayerTypes'
  BY DEF Unblock, PlayerInv, PlayerTyped, PlayerTypes, FocusTypes, Procs, Free, Playing, Goto,
         SetBlocked
<1>2. AudioTypes'
  BY DEF Unblock, PlayerInv, PlayerTyped, PlayerTypes, AudioTypes, FocusTypes, Procs, Free,
         Playing, Goto, SetBlocked
<1>3. PlaybackTypes'
  BY DEF Unblock, PlayerInv, PlayerTyped, PlayerTypes, PlaybackTypes, FocusTypes, Procs, Free,
         Playing, Goto, SetBlocked
<1>4. FocusTypes'
  BY DEF Unblock, PlayerInv, PlayerTyped, PlayerTypes, FocusTypes, Procs, Free, Playing, Goto,
         SetBlocked
<1>5. PlaceTypes'
  BY DEF Unblock, PlayerInv, PlayerTyped, FocusTypes, PlaceTypes, CallPlaces, Procs, Free,
         Playing, Goto, SetBlocked
<1>6. BudgetTypes'
  BY DEF Unblock, PlayerInv, PlayerTyped, BudgetTypes, Procs, Free, Playing, Events, Goto,
         SetBlocked
<1>7. TaskOK'
  BY DEF Unblock, PlayerInv, PlayerTyped, PlayerTypes, AudioTypes, PlaybackTypes, FocusTypes,
         PlaceTypes, BudgetTypes, TaskOK, CallPlaces, Procs, Free, Playing, Goto, SetBlocked
<1>8. MutexOK'
  BY DEF Unblock, PlayerInv, PlayerTyped, PlayerTypes, AudioTypes, PlaybackTypes, FocusTypes,
         PlaceTypes, BudgetTypes, MutexOK, CallPlaces, Procs, Free, Playing, Goto, SetBlocked
<1>9. BlockedOK'
  BY DEF Unblock, PlayerInv, PlayerTyped, PlayerTypes, AudioTypes, PlaybackTypes, FocusTypes,
         PlaceTypes, BudgetTypes, MutexOK, BlockedOK, CallPlaces, Procs, Free, Playing, Goto,
         SetBlocked
<1>10. ListenersSilenced'
  BY DEF Unblock, PlayerInv, PlayerTyped, PlayerTypes, AudioTypes, PlaybackTypes, FocusTypes,
         PlaceTypes, BudgetTypes, TaskOK, MutexOK, BlockedOK, ListenersSilenced, CallPlaces,
         Procs, Free, Playing, Goto, SetBlocked
<1> QED
  BY <1>1, <1>2, <1>3, <1>4, <1>5, <1>6, <1>7, <1>8, <1>9, <1>10 DEF PlayerInv, PlayerTyped

LEMMA MusicResumeKeeps ==
    ASSUME Frames \in Nat \ {0}, PlayerInv, MusicResume
    PROVE  PlayerInv'
<1>1. PlayerTypes'
  BY DEF MusicResume, PlayerInv, PlayerTyped, PlayerTypes, Procs, Free, Playing, Goto
<1>2. AudioTypes'
  BY DEF MusicResume, PlayerInv, PlayerTyped, PlayerTypes, AudioTypes, Procs, Free, Playing, Goto
<1>3. PlaybackTypes'
  BY DEF MusicResume, PlayerInv, PlayerTyped, PlayerTypes, PlaybackTypes, Procs, Free, Playing, Goto
<1>4. FocusTypes'
  BY DEF MusicResume, PlayerInv, PlayerTyped, PlayerTypes, FocusTypes, Procs, Free, Playing, Goto
<1>5. PlaceTypes'
  BY DEF MusicResume, PlayerInv, PlayerTyped, PlaceTypes, CallPlaces, Procs, Free, Playing, Goto
<1>6. BudgetTypes'
  BY DEF MusicResume, PlayerInv, PlayerTyped, BudgetTypes, Procs, Free, Playing, Events, Goto
<1>7. TaskOK'
  BY DEF MusicResume, PlayerInv, PlayerTyped, PlayerTypes, AudioTypes, PlaybackTypes,
         FocusTypes, PlaceTypes, BudgetTypes, TaskOK, CallPlaces, Procs, Free, Playing, Goto
<1>8. MutexOK'
  BY DEF MusicResume, PlayerInv, PlayerTyped, PlayerTypes, AudioTypes, PlaybackTypes,
         FocusTypes, PlaceTypes, BudgetTypes, MutexOK, CallPlaces, Procs, Free, Playing, Goto
<1>9. BlockedOK'
  BY DEF MusicResume, PlayerInv, PlayerTyped, PlayerTypes, AudioTypes, PlaybackTypes,
         FocusTypes, PlaceTypes, BudgetTypes, MutexOK, BlockedOK, CallPlaces, Procs, Free,
         Playing, Goto
<1>10. ListenersSilenced'
  BY DEF MusicResume, PlayerInv, PlayerTyped, PlayerTypes, AudioTypes, PlaybackTypes,
         FocusTypes, PlaceTypes, BudgetTypes, TaskOK, MutexOK, BlockedOK, ListenersSilenced,
         CallPlaces, Procs, Free, Playing, Goto
<1> QED
  BY <1>1, <1>2, <1>3, <1>4, <1>5, <1>6, <1>7, <1>8, <1>9, <1>10 DEF PlayerInv, PlayerTyped

LEMMA RequestFocusKeeps ==
    ASSUME Frames \in Nat \ {0}, PlayerInv, NEW resume \in BOOLEAN, RequestFocus(resume)
    PROVE  PlayerInv'
<1>1. PlayerTypes'
  BY DEF RequestFocus, PlayerInv, PlayerTyped, PlayerTypes, Procs, Free, Playing, Spend, Goto,
         SetBlocked
<1>2. AudioTypes'
  BY DEF RequestFocus, PlayerInv, PlayerTyped, PlayerTypes, AudioTypes, Procs, Free, Playing,
         Spend, Goto, SetBlocked
<1>3. PlaybackTypes'
  BY DEF RequestFocus, PlayerInv, PlayerTyped, PlayerTypes, PlaybackTypes, Procs, Free, Playing,
         Spend, Goto, SetBlocked
<1>4. FocusTypes'
  BY DEF RequestFocus, PlayerInv, PlayerTyped, PlayerTypes, FocusTypes, Procs, Free, Playing,
         Spend, Goto, SetBlocked
<1>5. PlaceTypes'
  BY DEF RequestFocus, PlayerInv, PlayerTyped, PlaceTypes, CallPlaces, Procs, Free, Playing,
         Spend, Goto, SetBlocked
<1>6. BudgetTypes'
  BY DEF RequestFocus, PlayerInv, PlayerTyped, BudgetTypes, Procs, Free, Playing, Events, Spend,
         Goto, SetBlocked
<1>7. TaskOK'
  BY DEF RequestFocus, PlayerInv, PlayerTyped, PlayerTypes, AudioTypes, PlaybackTypes,
         FocusTypes, PlaceTypes, BudgetTypes, TaskOK, CallPlaces, Procs, Free, Playing, Spend,
         Goto, SetBlocked
<1>8. MutexOK'
  BY DEF RequestFocus, PlayerInv, PlayerTyped, PlayerTypes, AudioTypes, PlaybackTypes,
         FocusTypes, PlaceTypes, BudgetTypes, MutexOK, CallPlaces, Procs, Free, Playing, Spend,
         Goto, SetBlocked
<1>9. BlockedOK'
  BY DEF RequestFocus, PlayerInv, PlayerTyped, PlayerTypes, AudioTypes, PlaybackTypes,
         FocusTypes, PlaceTypes, BudgetTypes, MutexOK, BlockedOK, CallPlaces, Procs, Free,
         Playing, Spend, Goto, SetBlocked
<1>10. ListenersSilenced'
  BY DEF RequestFocus, PlayerInv, PlayerTyped, PlayerTypes, AudioTypes, PlaybackTypes,
         FocusTypes, PlaceTypes, BudgetTypes, TaskOK, MutexOK, BlockedOK, ListenersSilenced,
         CallPlaces, Procs, Free, Playing, Spend, Goto, SetBlocked
<1> QED
  BY <1>1, <1>2, <1>3, <1>4, <1>5, <1>6, <1>7, <1>8, <1>9, <1>10 DEF PlayerInv, PlayerTyped

LEMMA PlayerInitHolds ==
    ASSUME PlayerInit
    PROVE  PlayerInv
  BY PlaybackAssumption DEF PlayerInit, PlayerInv, PlayerTyped, PlayerTypes, AudioTypes,
     PlaybackTypes, FocusTypes, PlaceTypes, BudgetTypes, TaskOK, MutexOK, BlockedOK,
     ListenersSilenced, Procs, Free, Playing, CallPlaces

LEMMA PlayerStutters ==
    ASSUME PlayerInv, UNCHANGED playerVars
    PROVE  PlayerInv'
  BY DEF playerVars, PlayerInv, PlayerTyped, PlayerTypes, AudioTypes, PlaybackTypes, FocusTypes,
         PlaceTypes, BudgetTypes, TaskOK, MutexOK, BlockedOK, ListenersSilenced

LEMMA PlayerNextKeeps ==
    ASSUME PlayerInv, [PlayerNext]_playerVars
    PROVE  PlayerInv'
<1> Frames \in Nat \ {0}
  BY PlaybackAssumption
<1>1. CASE UNCHANGED playerVars
  BY <1>1, PlayerStutters
<1>2. CASE PlayerNext
  BY <1>2, PlayStopKeeps, PlayStartKeeps, PlayTimeoutKeeps, ResumeBeginKeeps, ReopenKeeps,
    ResumedKeeps, TaskLoadKeeps, TaskOpenKeeps, TaskFailsKeeps, TaskPollKeeps, TaskWriteKeeps, TaskFinishKeeps,
    TaskClearKeeps, PlayTrackKeeps, TogglePlayPauseKeeps, TogglePauseKeeps, PlayerStopKeeps,
    NextTrackKeeps, SeePlayingKeeps, PlayRecordingKeeps, ReadPlayerKeeps, SuspendBeginKeeps,
    SuspendedKeeps, EndBeginKeeps, EndedKeeps, WaitTimeoutKeeps, ReserveKeeps,
    ReleaseFocusKeeps, UnblockKeeps, MusicResumeKeeps, RequestFocusKeeps DEF PlayerNext
<1> QED BY <1>1, <1>2

\* No process, whatever it does with the speaker, wakes a player that the exclusive
\* focus has silenced: neither the touch screen, nor the monitor that starts the next
\* track, nor a resume that began before the request.
THEOREM PlayerStaysQuiet == PlayerSpec => []PlayerIsQuiet
<1>1. PlayerInv => PlayerIsQuiet
  BY DEF PlayerInv, ListenersSilenced, PlayerIsQuiet
<1> QED
  BY <1>1, PlayerInitHolds, PlayerNextKeeps, PTL DEF PlayerSpec

\* The invariant gives the parts of the state their types.
LEMMA PlayerTypesGiven == PlayerInv => PlayerTypeOK
  BY DEF PlayerInv, PlayerTyped, PlayerTypes, AudioTypes, PlaybackTypes, FocusTypes, PlaceTypes,
         BudgetTypes, PlayerTypeOK

(***************************************************************************)
(* The files that are being written.                                       *)
(***************************************************************************)
Paths  == Seq(STRING)
WriterStages == {"idle", "acquire", "open", "write", "taken", "release"}

FilesTyped ==
    /\ writer \in [Writers -> [pc : WriterStages, path : Paths, next : Nat \ {0}]]
    /\ DOMAIN fs \subseteq Paths
    /\ changes \in 0 .. MaxChanges

Holding(w) == writer[w].pc \in {"open", "write", "taken", "release"}

LeasesHeld == leases = {writer[w].path : w \in {v \in Writers : Holding(v)}}

LeasesApart ==
    \A v, w \in Writers : v # w /\ Holding(v) /\ Holding(w) =>
        ~Conflict(writer[v].path, writer[w].path)

FilesInv == FilesTyped /\ LeasesHeld /\ LeasesApart /\ WriterKeepsItsFile

(***************************************************************************)
(* Lemmas about paths and the card.                                        *)
(***************************************************************************)
\* A path conflicts with itself, and a conflict has no direction.
LEMMA ConflictReflexive ==
  ASSUME NEW p \in Paths
  PROVE  Conflict(p, p)
  <1>1. Len(p) \in Nat
    BY DEF Paths
  <1> QED BY <1>1 DEF Conflict, IsPrefix

LEMMA ConflictSymmetric ==
  ASSUME NEW p, NEW q
  PROVE  Conflict(p, q) <=> Conflict(q, p)
  BY DEF Conflict

\* Putting something at one path changes no other path.
LEMMA PutElsewhere ==
  ASSUME NEW p, NEW q, NEW what, p # q, fs' = Put(q, what)
  PROVE  ContentAt(p)' = ContentAt(p)
  BY DEF Put, ContentAt

LEMMA PutHere ==
  ASSUME NEW p, NEW what, fs' = Put(p, what)
  PROVE  ContentAt(p)' = what
  BY DEF Put, ContentAt

\* Only paths come to the card.
LEMMA PutTyped ==
  ASSUME FilesTyped, NEW p \in Paths, NEW what, fs' = Put(p, what)
  PROVE  DOMAIN fs' \subseteq Paths
  BY DEF Put, FilesTyped

LEMMA WithoutTyped ==
  ASSUME FilesTyped, NEW S, fs' = Without(S)
  PROVE  DOMAIN fs' \subseteq Paths
  BY DEF Without, FilesTyped

LEMMA WithoutElsewhere ==
  ASSUME NEW p, NEW S, p \notin S, fs' = Without(S)
  PROVE  ContentAt(p)' = ContentAt(p)
  BY DEF Without, ContentAt

LEMMA ParentPath ==
  ASSUME NEW p \in Paths
  PROVE  Parent(p) \in Paths
  <1>1. Len(p) \in Nat /\ \A i \in 1 .. Len(p) - 1 : p[i] \in STRING
    BY ElementOfSeq DEF Paths
  <1> QED BY <1>1, SubSeqProperties DEF Parent, Front, Paths

\* What is moved from below one path to below another.
LEMMA MovedPath ==
  ASSUME NEW old \in Paths, NEW new \in Paths, NEW x \in Paths
  PROVE  LET y == new \o SubSeq(x, Len(old) + 1, Len(x)) IN
         y \in Paths /\ IsPrefix(new, y)
  <1> DEFINE t == SubSeq(x, Len(old) + 1, Len(x))
             y == new \o t
  <1>1. /\ Len(x) \in Nat /\ Len(old) \in Nat /\ Len(new) \in Nat
        /\ \A i \in Len(old) + 1 .. Len(x) : x[i] \in STRING
    BY ElementOfSeq DEF Paths
  <1>2. t \in Seq(STRING)
    BY <1>1, SubSeqProperties
  <1> HIDE DEF t
  <1>3. /\ y \in Seq(STRING) /\ Len(y) = Len(new) + Len(t) /\ Len(t) \in Nat
        /\ \A i \in 1 .. Len(new) : y[i] = new[i]
    BY <1>2, ConcatProperties DEF Paths
  <1> HIDE DEF y
  <1>4. SubSeq(y, 1, Len(new)) = SubSeq(new, 1, Len(new))
    <2>1. \A i \in 1 .. Len(new) : y[i] \in STRING /\ new[i] \in STRING
      BY <1>1, <1>3, ElementOfSeq DEF Paths
    <2>2. SubSeq(y, 1, Len(new)) \in Seq(STRING) /\ SubSeq(new, 1, Len(new)) \in Seq(STRING)
      BY <1>1, <2>1, SubSeqProperties
    <2>3. /\ Len(SubSeq(y, 1, Len(new))) = Len(new) /\ Len(SubSeq(new, 1, Len(new))) = Len(new)
          /\ \A i \in 1 .. Len(new) : SubSeq(y, 1, Len(new))[i] = SubSeq(new, 1, Len(new))[i]
      BY <1>1, <1>3
    <2> QED BY <2>2, <2>3, SeqEqual
  <1>5. y \in Paths /\ IsPrefix(new, y)
    BY <1>1, <1>3, <1>4 DEF IsPrefix, Paths
  <1> QED BY <1>5 DEF y, t

\* The paths a recording and an upload name are paths.
LEMMA NamedPaths ==
         /\ Targets \subseteq Paths /\ Roots \subseteq Paths
         /\ \A i \in 1 .. Len(Candidates) : Candidates[i] \in Paths
         /\ Len(Candidates) \in Nat /\ 1 \in 1 .. Len(Candidates)
  <1>1. /\ Candidates \in Seq(Paths) /\ Candidates # <<>>
        /\ Targets \subseteq Paths /\ Roots \subseteq Paths
    BY PathsAssumption DEF Paths
  <1> QED BY <1>1, EmptySeq, ElementOfSeq, LenProperties

(***************************************************************************)
(* The writers.                                                            *)
(***************************************************************************)
\* A writer at a stage where it holds no lease may go to another such stage,
\* under any path; no lease and no other writer changes.
LEMMA FreeMove ==
  ASSUME FilesInv, NEW w \in Writers, ~Holding(w),
         NEW r \in [pc : WriterStages, path : Paths, next : Nat \ {0}],
         writer' = [writer EXCEPT ![w] = r], r.pc \in {"idle", "acquire"}, leases' = leases
  PROVE  LeasesHeld' /\ LeasesApart' /\ \A v \in Writers : Holding(v)' => v # w /\ Holding(v)
  <1>1. writer \in [Writers -> [pc : WriterStages, path : Paths, next : Nat \ {0}]]
    BY DEF FilesInv, FilesTyped
  <1>2. /\ writer'[w] = r
        /\ \A v \in Writers : v # w => writer'[v] = writer[v]
    BY <1>1
  <1>3. \A v \in Writers : Holding(v)' <=> Holding(v)
    BY <1>2 DEF Holding
  <1>4. \A v \in Writers : Holding(v) => writer'[v].path = writer[v].path
    BY <1>2
  <1>5. LeasesHeld'
    BY <1>3, <1>4 DEF FilesInv, LeasesHeld
  <1>6. LeasesApart'
    BY <1>3, <1>4 DEF FilesInv, LeasesApart
  <1> QED BY <1>3, <1>5, <1>6

\* The writer that holds a lease goes on under it.
LEMMA HeldMove ==
  ASSUME FilesInv, NEW w \in Writers, Holding(w), NEW stage \in {"open", "write", "taken", "release"},
         Move(w, stage), leases' = leases
  PROVE  /\ LeasesHeld' /\ LeasesApart'
         /\ writer' \in [Writers -> [pc : WriterStages, path : Paths, next : Nat \ {0}]]
         /\ writer'[w].pc = stage /\ writer'[w].path = writer[w].path
         /\ \A v \in Writers : v # w => writer'[v] = writer[v]
  <1> DEFINE r == [writer[w] EXCEPT !.pc = stage]
  <1>1. writer \in [Writers -> [pc : WriterStages, path : Paths, next : Nat \ {0}]]
    BY DEF FilesInv, FilesTyped
  <1>2. /\ r \in [pc : WriterStages, path : Paths, next : Nat \ {0}]
        /\ r.pc = stage /\ r.path = writer[w].path
    BY <1>1 DEF WriterStages
  <1>3. writer' = [writer EXCEPT ![w] = r]
    BY <1>1 DEF Move
  <1> HIDE DEF r
  <1>4. /\ writer' \in [Writers -> [pc : WriterStages, path : Paths, next : Nat \ {0}]]
        /\ writer'[w].pc = stage /\ writer'[w].path = writer[w].path
        /\ \A v \in Writers : v # w => writer'[v] = writer[v]
    BY <1>1, <1>2, <1>3
  <1>5. \A v \in Writers : (Holding(v)' <=> Holding(v)) /\ writer'[v].path = writer[v].path
    BY <1>4 DEF Holding
  <1>6. LeasesHeld'
    BY <1>5 DEF FilesInv, LeasesHeld
  <1>7. LeasesApart'
    BY <1>5 DEF FilesInv, LeasesApart
  <1> QED BY <1>4, <1>6, <1>7

\* EnsureDirectory creates a folder that conflicts with no leased path.
LEMMA BeginHolds ==
  ASSUME FilesInv, NEW w \in Writers, NEW path \in Paths, Begin(w, path)
  PROVE  FilesInv'
  <1> DEFINE r == [pc |-> "acquire", path |-> path, next |-> 1]
  <1>1. /\ writer[w].pc = "idle" /\ writer' = [writer EXCEPT ![w] = r]
        /\ leases' = leases /\ changes' = changes
    BY DEF Begin
  <1>2. r \in [pc : WriterStages, path : Paths, next : Nat \ {0}] /\ r.pc = "acquire"
    BY DEF WriterStages
  <1>3. ~Holding(w)
    BY <1>1 DEF Holding
  <1> HIDE DEF r
  <1>4. LeasesHeld' /\ LeasesApart' /\ \A v \in Writers : Holding(v)' => v # w /\ Holding(v)
    BY <1>1, <1>2, <1>3, FreeMove
  <1>5. writer' \in [Writers -> [pc : WriterStages, path : Paths, next : Nat \ {0}]]
        /\ \A v \in Writers : v # w => writer'[v] = writer[v]
    BY <1>1, <1>2 DEF FilesInv, FilesTyped
  <1>6. CASE UNCHANGED fs
    <2>1. FilesTyped'
      BY <1>1, <1>5, <1>6 DEF FilesInv, FilesTyped
    <2>2. WriterKeepsItsFile'
      BY <1>4, <1>5, <1>6 DEF FilesInv, WriterKeepsItsFile, Holding, ContentAt
    <2> QED BY <1>4, <2>1, <2>2 DEF FilesInv
  <1>7. CASE ~Conflicts(Parent(path)) /\ fs' = Put(Parent(path), Dir)
    <2>1. FilesTyped'
      BY <1>1, <1>5, <1>7, PutTyped, ParentPath DEF FilesInv, FilesTyped
    <2>2. ASSUME NEW v \in Writers, (writer[v].pc = "write")'
          PROVE  (ContentAt(writer[v].path) = v)'
      <3>1. v # w /\ Holding(v) /\ writer'[v] = writer[v]
        BY <1>4, <1>5, <2>2 DEF Holding
      <3>2. writer[v].path \in leases /\ writer[v].path \in Paths
        BY <3>1 DEF FilesInv, LeasesHeld, FilesTyped
      <3>3. writer[v].path # Parent(path)
        BY <1>7, <3>2, ConflictReflexive DEF Conflicts
      <3>4. \A p : p # Parent(path) => ContentAt(p)' = ContentAt(p)
        BY <1>7, PutElsewhere
      <3>5. (ContentAt(writer[v].path))' = ContentAt(writer[v].path)
        BY <3>1, <3>3, <3>4 DEF ContentAt
      <3> QED BY <2>2, <3>1, <3>5 DEF FilesInv, WriterKeepsItsFile
    <2>3. WriterKeepsItsFile'
      BY <2>2 DEF WriterKeepsItsFile
    <2> QED BY <1>4, <2>1, <2>3 DEF FilesInv
  <1> QED BY <1>6, <1>7 DEF Begin

\* A name that is taken: the next candidate, or the recording gives up.
LEMMA TryNextMoves ==
  ASSUME FilesInv, NEW w \in Writers, TryNext(w)
  PROVE  \E r \in [pc : WriterStages, path : Paths, next : Nat \ {0}] :
            r.pc \in {"idle", "acquire"} /\ writer' = [writer EXCEPT ![w] = r]
  <1>1. writer \in [Writers -> [pc : WriterStages, path : Paths, next : Nat \ {0}]]
    BY DEF FilesInv, FilesTyped
  <1> DEFINE n == writer[w].next
             r == [pc |-> "acquire", path |-> Candidates[n + 1], next |-> n + 1]
             idle == [writer[w] EXCEPT !.pc = "idle"]
  <1>2. n \in Nat \ {0}
    BY <1>1
  <1>3. CASE w = Recorder /\ n < Len(Candidates)
    <2>1. n + 1 \in 1 .. Len(Candidates) /\ n + 1 \in Nat \ {0}
      BY <1>2, <1>3, NamedPaths
    <2>2. r \in [pc : WriterStages, path : Paths, next : Nat \ {0}]
      BY <2>1, NamedPaths DEF WriterStages
    <2>3. writer' = [writer EXCEPT ![w] = r]
      BY <1>3 DEF TryNext
    <2> QED BY <2>2, <2>3
  <1>4. CASE ~(w = Recorder /\ n < Len(Candidates))
    <2>1. idle \in [pc : WriterStages, path : Paths, next : Nat \ {0}] /\ idle.pc = "idle"
      BY <1>1 DEF WriterStages
    <2>2. writer' = [writer EXCEPT ![w].pc = "idle"]
      BY <1>4 DEF TryNext, Move
    <2>3. writer' = [writer EXCEPT ![w] = idle]
      BY <2>2
    <2> QED BY <2>1, <2>3
  <1> QED BY <1>3, <1>4

\* A lease is granted only for a path that conflicts with no leased one.
LEMMA AcquireHolds ==
  ASSUME FilesInv, NEW w \in Writers, Acquire(w)
  PROVE  FilesInv'
  <1>1. writer \in [Writers -> [pc : WriterStages, path : Paths, next : Nat \ {0}]]
    BY DEF FilesInv, FilesTyped
  <1>2. ~Holding(w) /\ writer[w].pc = "acquire" /\ fs' = fs /\ changes' = changes
    BY DEF Acquire, Holding
  <1>3. CASE Conflicts(writer[w].path)
    <2>1. TryNext(w) /\ leases' = leases
      BY <1>3 DEF Acquire
    <2>2. PICK r \in [pc : WriterStages, path : Paths, next : Nat \ {0}] :
             r.pc \in {"idle", "acquire"} /\ writer' = [writer EXCEPT ![w] = r]
      BY <2>1, TryNextMoves
    <2>3. LeasesHeld' /\ LeasesApart' /\ \A v \in Writers : Holding(v)' => v # w /\ Holding(v)
      BY <1>2, <2>1, <2>2, FreeMove
    <2>4. writer' \in [Writers -> [pc : WriterStages, path : Paths, next : Nat \ {0}]]
          /\ \A v \in Writers : v # w => writer'[v] = writer[v]
      BY <1>1, <2>2
    <2>5. FilesTyped'
      BY <1>2, <2>4 DEF FilesInv, FilesTyped
    <2>6. WriterKeepsItsFile'
      BY <1>2, <2>3, <2>4 DEF FilesInv, WriterKeepsItsFile, Holding, ContentAt
    <2> QED BY <2>3, <2>5, <2>6 DEF FilesInv
  <1>4. CASE ~Conflicts(writer[w].path)
    <2> DEFINE r == [writer[w] EXCEPT !.pc = "open"]
    <2>1. leases' = leases \cup {writer[w].path} /\ writer' = [writer EXCEPT ![w].pc = "open"]
      BY <1>4 DEF Acquire, Move
    <2>2. /\ r \in [pc : WriterStages, path : Paths, next : Nat \ {0}]
          /\ r.pc = "open" /\ r.path = writer[w].path
      BY <1>1 DEF WriterStages
    <2>3. writer' = [writer EXCEPT ![w] = r]
      BY <2>1
    <2> HIDE DEF r
    <2>4. /\ writer' \in [Writers -> [pc : WriterStages, path : Paths, next : Nat \ {0}]]
          /\ writer'[w].pc = "open"
          /\ \A v \in Writers : writer'[v].path = writer[v].path
          /\ \A v \in Writers : v # w => writer'[v] = writer[v]
      BY <1>1, <2>2, <2>3
    <2>5. \A v \in Writers : Holding(v)' <=> (Holding(v) \/ v = w)
      BY <2>4 DEF Holding
    <2>6. LeasesHeld'
      BY <1>2, <2>1, <2>4, <2>5 DEF FilesInv, LeasesHeld
    <2>7. \A v \in Writers : Holding(v) => ~Conflict(writer[v].path, writer[w].path)
      BY <1>4 DEF FilesInv, LeasesHeld, Conflicts
    <2>8. LeasesApart'
      BY <2>4, <2>5, <2>7, ConflictSymmetric DEF FilesInv, LeasesApart
    <2>9. FilesTyped' /\ WriterKeepsItsFile'
      BY <1>2, <2>4 DEF FilesInv, FilesTyped, WriterKeepsItsFile, ContentAt
    <2> QED BY <2>6, <2>8, <2>9 DEF FilesInv
  <1> QED BY <1>3, <1>4

\* No other writer holds a lease on the path of this one.
LEMMA OwnPath ==
  ASSUME FilesInv, NEW v \in Writers, NEW w \in Writers, v # w, Holding(v), Holding(w)
  PROVE  writer[v].path # writer[w].path
  <1>1. writer[w].path \in Paths /\ ~Conflict(writer[v].path, writer[w].path)
    BY DEF FilesInv, FilesTyped, LeasesApart
  <1> QED BY <1>1, ConflictReflexive

\* What the writer w does to its own file disturbs no other writer.
LEMMA OwnFile ==
  ASSUME FilesInv, NEW w \in Writers, Holding(w),
         NEW stage \in {"open", "write", "taken", "release"}, Move(w, stage),
         leases' = leases, changes' = changes,
         \A p : p # writer[w].path => ContentAt(p)' = ContentAt(p),
         DOMAIN fs' \subseteq Paths,
         stage = "write" => (ContentAt(writer[w].path))' = w
  PROVE  FilesInv'
  <1>1. /\ LeasesHeld' /\ LeasesApart'
        /\ writer' \in [Writers -> [pc : WriterStages, path : Paths, next : Nat \ {0}]]
        /\ writer'[w].pc = stage /\ writer'[w].path = writer[w].path
        /\ \A v \in Writers : v # w => writer'[v] = writer[v]
    BY HeldMove
  <1>2. FilesTyped'
    BY <1>1 DEF FilesInv, FilesTyped
  <1>3. ASSUME NEW v \in Writers, (writer[v].pc = "write")'
        PROVE  (ContentAt(writer[v].path) = v)'
    <2>1. CASE v = w
      BY <2>1, <1>1, <1>3
    <2>2. CASE v # w
      <3>1. writer'[v] = writer[v] /\ Holding(v)
        BY <1>1, <1>3, <2>2 DEF Holding
      <3>2. writer[v].path # writer[w].path
        BY <2>2, <3>1, OwnPath
      <3>3. (ContentAt(writer[v].path))' = ContentAt(writer[v].path)
        BY <3>1, <3>2 DEF ContentAt
      <3> QED BY <1>3, <3>1, <3>3 DEF FilesInv, WriterKeepsItsFile
    <2> QED BY <2>1, <2>2
  <1>4. WriterKeepsItsFile'
    BY <1>3 DEF WriterKeepsItsFile
  <1> QED BY <1>1, <1>2, <1>4 DEF FilesInv

\* The file is created at the leased path, and there only.
LEMMA OpenHolds ==
  ASSUME FilesInv, NEW w \in Writers, Open(w)
  PROVE  FilesInv'
  <1>1. Holding(w) /\ leases' = leases /\ changes' = changes
    BY DEF Open, Holding
  <1>2. CASE fs' = Put(writer[w].path, w) /\ Move(w, "write")
    <2>1. (ContentAt(writer[w].path))' = w
      <3>1. writer'[w].path = writer[w].path
        BY <1>1, <1>2, HeldMove
      <3> QED BY <1>2, <3>1 DEF ContentAt, Put
    <2>2. \A p : p # writer[w].path => ContentAt(p)' = ContentAt(p)
      BY <1>2, PutElsewhere
    <2>3. DOMAIN fs' \subseteq Paths
      BY <1>2, PutTyped DEF FilesInv, FilesTyped
    <2> QED BY <1>1, <1>2, <2>1, <2>2, <2>3, OwnFile
  <1>3. CASE fs' = fs /\ \E stage \in {"taken", "release"} : Move(w, stage)
    <2>1. PICK stage \in {"taken", "release"} : Move(w, stage)
      BY <1>3
    <2>2. \A p : p # writer[w].path => ContentAt(p)' = ContentAt(p)
      BY <1>3 DEF ContentAt
    <2>3. DOMAIN fs' \subseteq Paths
      BY <1>3 DEF FilesInv, FilesTyped
    <2> QED BY <1>1, <2>1, <2>2, <2>3, OwnFile
  <1> QED BY <1>2, <1>3 DEF Open

\* The saved file is nobody's any more.
LEMMA SavedHolds ==
  ASSUME FilesInv, NEW w \in Writers, Saved(w)
  PROVE  FilesInv'
  <1>1. /\ Holding(w) /\ leases' = leases /\ changes' = changes
        /\ fs' = Put(writer[w].path, Other) /\ Move(w, "release")
    BY DEF Saved, Holding
  <1>2. \A p : p # writer[w].path => ContentAt(p)' = ContentAt(p)
    BY <1>1, PutElsewhere
  <1>3. DOMAIN fs' \subseteq Paths
    BY <1>1, PutTyped DEF FilesInv, FilesTyped
  <1> QED BY <1>1, <1>2, <1>3, OwnFile

\* The cleanup removes the file at the leased path, and no other.
LEMMA FailedHolds ==
  ASSUME FilesInv, NEW w \in Writers, Failed(w)
  PROVE  FilesInv'
  <1>1. /\ Holding(w) /\ leases' = leases /\ changes' = changes
        /\ fs' = Without({writer[w].path}) /\ Move(w, "release")
    BY DEF Failed, Holding
  <1>2. \A p : p # writer[w].path => ContentAt(p)' = ContentAt(p)
    BY <1>1, WithoutElsewhere
  <1>3. DOMAIN fs' \subseteq Paths
    BY <1>1, WithoutTyped DEF FilesInv
  <1> QED BY <1>1, <1>2, <1>3, OwnFile

\* Giving a lease back keeps the leases of the others.
LEMMA ReleaseHolds ==
  ASSUME FilesInv, NEW w \in Writers, Release(w)
  PROVE  FilesInv'
  <1>1. writer \in [Writers -> [pc : WriterStages, path : Paths, next : Nat \ {0}]]
    BY DEF FilesInv, FilesTyped
  <1>2. /\ Holding(w) /\ writer[w].pc # "write"
        /\ leases' = leases \ {writer[w].path} /\ fs' = fs /\ changes' = changes
    BY DEF Release, Holding
  <1>3. PICK r \in [pc : WriterStages, path : Paths, next : Nat \ {0}] :
           r.pc \in {"idle", "acquire"} /\ writer' = [writer EXCEPT ![w] = r]
    <2>1. CASE TryNext(w)
      BY <2>1, TryNextMoves
    <2>2. CASE Move(w, "idle")
      <3> DEFINE r == [writer[w] EXCEPT !.pc = "idle"]
      <3>1. r \in [pc : WriterStages, path : Paths, next : Nat \ {0}] /\ r.pc = "idle"
        BY <1>1 DEF WriterStages
      <3>2. writer' = [writer EXCEPT ![w] = r]
        BY <2>2 DEF Move
      <3> QED BY <3>1, <3>2
    <2> QED BY <2>1, <2>2 DEF Release
  <1>4. /\ writer' \in [Writers -> [pc : WriterStages, path : Paths, next : Nat \ {0}]]
        /\ writer'[w].pc \in {"idle", "acquire"}
        /\ \A v \in Writers : v # w => writer'[v] = writer[v]
    BY <1>1, <1>3
  <1>5. \A v \in Writers : Holding(v)' <=> (Holding(v) /\ v # w)
    BY <1>4 DEF Holding
  <1>6. \A v \in Writers : v # w /\ Holding(v) => writer[v].path # writer[w].path
    BY <1>2, OwnPath
  <1>7. LeasesHeld'
    BY <1>2, <1>4, <1>5, <1>6 DEF FilesInv, LeasesHeld
  <1>8. LeasesApart'
    BY <1>4, <1>5 DEF FilesInv, LeasesApart
  <1>9. FilesTyped'
    BY <1>2, <1>4 DEF FilesInv, FilesTyped
  <1>10. WriterKeepsItsFile'
    BY <1>2, <1>4 DEF FilesInv, WriterKeepsItsFile, ContentAt
  <1> QED BY <1>7, <1>8, <1>9, <1>10 DEF FilesInv

(***************************************************************************)
(* The other clients.                                                      *)
(***************************************************************************)
\* A change that keeps every leased path keeps the invariant.
LEMMA ForeignChange ==
  ASSUME FilesInv, Change,
         \A p \in leases : ContentAt(p)' = ContentAt(p),
         DOMAIN fs' \subseteq Paths
  PROVE  FilesInv'
  <1>1. writer' = writer /\ leases' = leases
    BY DEF Change
  <1>2. FilesTyped'
    <2>1. changes' \in 0 .. MaxChanges
      BY PathsAssumption DEF Change, FilesInv, FilesTyped
    <2> QED BY <1>1, <2>1 DEF FilesInv, FilesTyped
  <1>3. LeasesHeld' /\ LeasesApart'
    BY <1>1 DEF FilesInv, LeasesHeld, LeasesApart, Holding
  <1>4. ASSUME NEW v \in Writers, (writer[v].pc = "write")'
        PROVE  (ContentAt(writer[v].path) = v)'
    <2>1. Holding(v) /\ writer[v].path \in leases
      BY <1>1, <1>4 DEF FilesInv, LeasesHeld, Holding
    <2>2. (ContentAt(writer[v].path))' = ContentAt(writer[v].path)
      BY <1>1, <2>1 DEF ContentAt
    <2> QED BY <1>1, <1>4, <2>2 DEF FilesInv, WriterKeepsItsFile
  <1>5. WriterKeepsItsFile'
    BY <1>4 DEF WriterKeepsItsFile
  <1> QED BY <1>2, <1>3, <1>5 DEF FilesInv

\* A leased path is not one that conflicts with no lease.
LEMMA LeasedConflicts ==
  ASSUME FilesInv, NEW p \in leases
  PROVE  Conflicts(p)
  <1>1. p \in Paths
    BY DEF FilesInv, LeasesHeld, FilesTyped
  <1> QED BY <1>1, ConflictReflexive DEF Conflicts

LEMMA WriteHolds ==
  ASSUME FilesInv, NEW path \in Paths, Write(path) \/ CreateDirectory(path)
  PROVE  FilesInv'
  <1>1. PICK what \in {Dir, Other} : Change /\ ~Conflicts(path) /\ fs' = Put(path, what)
    BY DEF Write, CreateDirectory
  <1>2. \A p \in leases : ContentAt(p)' = ContentAt(p)
    <2>1. \A p \in leases : p # path
      BY <1>1, LeasedConflicts
    <2> QED BY <1>1, <2>1, PutElsewhere
  <1>3. DOMAIN fs' \subseteq Paths
    BY <1>1, PutTyped DEF FilesInv
  <1> QED BY <1>1, <1>2, <1>3, ForeignChange

\* What is below a path without conflicts is not leased.
LEMMA DeleteHolds ==
  ASSUME FilesInv, NEW path \in Paths, Delete(path)
  PROVE  FilesInv'
  <1>1. Change /\ ~Conflicts(path) /\ fs' = Without(Below(path))
    BY DEF Delete
  <1>2. \A p \in leases : ContentAt(p)' = ContentAt(p)
    <2>1. \A p \in leases : p \notin Below(path)
      BY <1>1 DEF Conflicts, Conflict, Below
    <2> QED BY <1>1, <2>1, WithoutElsewhere
  <1>3. DOMAIN fs' \subseteq Paths
    BY <1>1, WithoutTyped DEF FilesInv
  <1> QED BY <1>1, <1>2, <1>3, ForeignChange

\* A leased path is neither among what is moved nor where it is moved to.
LEMMA RenameHolds ==
  ASSUME FilesInv, NEW old \in Paths, NEW new \in Paths, Rename(old, new)
  PROVE  FilesInv'
  <1> DEFINE from(p) == IF IsPrefix(new, p) THEN old \o SubSeq(p, Len(new) + 1, Len(p)) ELSE p
             to(p)   == new \o SubSeq(p, Len(old) + 1, Len(p))
             moved   == {to(p) : p \in Below(old)}
  <1>1. /\ Change /\ ~Conflicts(old) /\ ~Conflicts(new)
        /\ fs' = [p \in (DOMAIN fs \ Below(old)) \cup moved |-> fs[from(p)]]
    BY DEF Rename
  <1>2. ASSUME NEW p \in leases
        PROVE  ContentAt(p)' = ContentAt(p)
    <2>1. ~IsPrefix(new, p) /\ p \notin Below(old)
      BY <1>1 DEF Conflicts, Conflict, Below
    <2>2. from(p) = p
      BY <2>1
    <2>3. p \notin moved
      BY <2>1, MovedPath DEF FilesInv, FilesTyped, Below
    <2> QED BY <1>1, <2>1, <2>2, <2>3 DEF ContentAt
  <1>3. DOMAIN fs' \subseteq Paths
    <2>1. DOMAIN fs \subseteq Paths /\ Below(old) \subseteq Paths
      BY DEF FilesInv, FilesTyped, Below
    <2>2. moved \subseteq Paths
      BY <2>1, MovedPath
    <2>3. DOMAIN fs' = (DOMAIN fs \ Below(old)) \cup moved
      BY <1>1
    <2> QED BY <2>1, <2>2, <2>3
  <1> QED BY <1>1, <1>2, <1>3, ForeignChange

(***************************************************************************)
(* The theorem.                                                            *)
(***************************************************************************)
LEMMA FilesInitHolds ==
  ASSUME FilesInit
  PROVE  FilesInv
  <1>1. Candidates[1] \in Paths /\ <<>> \in Paths
    BY NamedPaths, EmptySeq DEF Paths
  <1>2. Parent(Candidates[1]) \in Paths
    BY <1>1, ParentPath
  <1>3. /\ writer = [w \in Writers |-> [pc |-> "idle", path |-> <<>>, next |-> 1]]
        /\ DOMAIN fs = {<<>>, Parent(Candidates[1]), Candidates[1]}
        /\ leases = {} /\ changes = MaxChanges
    BY DEF FilesInit
  <1>4. FilesTyped
    BY <1>1, <1>2, <1>3, PathsAssumption DEF FilesTyped, WriterStages
  <1>5. \A w \in Writers : ~Holding(w)
    BY <1>3 DEF Holding
  <1> QED BY <1>3, <1>4, <1>5 DEF FilesInv, LeasesHeld, LeasesApart, WriterKeepsItsFile, Holding

LEMMA FilesNextKeeps ==
  ASSUME FilesInv, [FilesNext]_fileVars
  PROVE  FilesInv'
  <1>1. CASE Begin(Recorder, Candidates[1])
    BY <1>1, BeginHolds, NamedPaths DEF Writers
  <1>2. ASSUME NEW path \in Targets, Begin(Upload, path) PROVE FilesInv'
    BY <1>2, BeginHolds, NamedPaths DEF Writers
  <1>3. ASSUME NEW w \in Writers,
               Acquire(w) \/ Open(w) \/ Saved(w) \/ Failed(w) \/ Release(w)
        PROVE  FilesInv'
    BY <1>3, AcquireHolds, OpenHolds, SavedHolds, FailedHolds, ReleaseHolds
  <1>4. ASSUME NEW path \in Roots, Write(path) \/ CreateDirectory(path) \/ Delete(path)
        PROVE  FilesInv'
    BY <1>4, WriteHolds, DeleteHolds, NamedPaths
  <1>5. ASSUME NEW old \in Roots, NEW new \in Roots, Rename(old, new) PROVE FilesInv'
    BY <1>5, RenameHolds, NamedPaths
  <1>6. CASE UNCHANGED fileVars
    BY <1>6 DEF fileVars, FilesInv, FilesTyped, LeasesHeld, LeasesApart, WriterKeepsItsFile,
       Holding, ContentAt
  <1> QED BY <1>1, <1>2, <1>3, <1>4, <1>5, <1>6 DEF FilesNext

\* While a recording or an upload writes, the file at its path is the one it
\* created, whatever the other clients of the card delete, rename and create, for
\* any paths: the lease of file_path_lease.cc protects every directory above it too.
THEOREM FileStaysTheWriters == FilesSpec => []WriterKeepsItsFile
  <1>1. FilesInit => FilesInv
    BY FilesInitHolds
  <1>2. FilesInv /\ [FilesNext]_fileVars => FilesInv'
    BY FilesNextKeeps
  <1>3. FilesInv => WriterKeepsItsFile
    BY DEF FilesInv
  <1> QED BY <1>1, <1>2, <1>3, PTL DEF FilesSpec

(***************************************************************************)
(* The card is a tree: what lies above an existing path is a directory.     *)
(***************************************************************************)
Tree ==
    \A p \in DOMAIN fs : \A q \in Paths :
        IsPrefix(q, p) /\ q # p => ContentAt(q) = Dir

\* What is on the card is a directory, a writer's file or a file of nobody.
CardTyped == \A p \in DOMAIN fs : fs[p] \in {Dir, Other} \cup Writers

\* The path p, moved with all that is at or below old to new.
Rebased(old, new, p) == new \o SubSeq(p, Len(old) + 1, Len(p))

LEMMA PrefixSegments ==
  ASSUME NEW p \in Paths, NEW q \in Paths
  PROVE  IsPrefix(q, p) <=> Len(q) <= Len(p) /\ \A i \in 1 .. Len(q) : q[i] = p[i]
  <1>1. Len(p) \in Nat /\ Len(q) \in Nat
    BY DEF Paths
  <1>2. \A i \in 1 .. Len(q) : q[i] \in STRING
    BY <1>1, ElementOfSeq DEF Paths
  <1>3. \A i \in 1 .. Len(p) : p[i] \in STRING
    BY <1>1, ElementOfSeq DEF Paths
  <1>4. CASE Len(q) <= Len(p)
    <2>1. /\ SubSeq(q, 1, Len(q)) \in Seq(STRING) /\ Len(SubSeq(q, 1, Len(q))) = Len(q)
          /\ \A i \in 1 .. Len(q) : SubSeq(q, 1, Len(q))[i] = q[i]
      BY <1>1, <1>2, SubSeqProperties
    <2>2. /\ SubSeq(p, 1, Len(q)) \in Seq(STRING) /\ Len(SubSeq(p, 1, Len(q))) = Len(q)
          /\ \A i \in 1 .. Len(q) : SubSeq(p, 1, Len(q))[i] = p[i]
      <3>1. \A i \in 1 .. Len(q) : p[i] \in STRING
        BY <1>1, <1>3, <1>4
      <3> QED
        BY <1>1, <3>1, SubSeqProperties
    <2>3. SubSeq(q, 1, Len(q)) = SubSeq(p, 1, Len(q)) <=> \A i \in 1 .. Len(q) : q[i] = p[i]
      BY <1>1, <2>1, <2>2, SeqEqual
    <2> QED
      BY <1>4, <2>3 DEF IsPrefix
  <1> QED
    BY <1>4 DEF IsPrefix

LEMMA PrefixesChain ==
  ASSUME NEW p \in Paths, NEW q \in Paths, NEW r \in Paths
  PROVE  /\ IsPrefix(r, q) /\ IsPrefix(q, p) => IsPrefix(r, p)
         /\ IsPrefix(q, p) /\ Len(q) >= Len(p) => q = p
         /\ IsPrefix(q, p) /\ IsPrefix(r, p) => IsPrefix(q, r) \/ IsPrefix(r, q)
  <1>1. Len(p) \in Nat /\ Len(q) \in Nat /\ Len(r) \in Nat
    BY DEF Paths
  <1>2. ASSUME IsPrefix(r, q), IsPrefix(q, p)
        PROVE  IsPrefix(r, p)
    BY <1>1, <1>2, PrefixSegments
  <1>3. ASSUME IsPrefix(q, p), Len(q) >= Len(p)
        PROVE  q = p
    <2>1. Len(q) = Len(p) /\ \A i \in 1 .. Len(q) : q[i] = p[i]
      BY <1>1, <1>3, PrefixSegments
    <2> QED
      BY <2>1, SeqEqual DEF Paths
  <1>4. ASSUME IsPrefix(q, p), IsPrefix(r, p)
        PROVE  IsPrefix(q, r) \/ IsPrefix(r, q)
    BY <1>1, <1>4, PrefixSegments
  <1> QED
    BY <1>2, <1>3, <1>4

\* What lies above a path is its parent, or lies above its parent.
LEMMA AboveParent ==
  ASSUME NEW p \in Paths, NEW q \in Paths, IsPrefix(q, p), q # p
  PROVE  Parent(p) \in Paths /\ IsPrefix(q, Parent(p))
  <1>1. Len(p) \in Nat /\ Len(q) \in Nat /\ Len(q) < Len(p)
    BY PrefixesChain DEF Paths
  <1>2. \A i \in 1 .. Len(p) - 1 : p[i] \in STRING
    BY <1>1, ElementOfSeq DEF Paths
  <1> DEFINE n == Len(p) - 1
             f == SubSeq(p, 1, n)
  <1>3. /\ f \in Seq(STRING) /\ Len(f) = (IF 1 <= n THEN n - 1 + 1 ELSE 0)
        /\ \A i \in 1 .. n - 1 + 1 : f[i] = p[1 + i - 1]
    BY <1>1, <1>2, SubSeqProperties DEF Paths
  <1>4. Parent(p) = f /\ n \in Nat
    BY <1>1 DEF Parent, Front
  <1> HIDE DEF f
  <1>5. /\ Parent(p) \in Paths /\ Len(Parent(p)) = Len(p) - 1
        /\ \A i \in 1 .. Len(p) - 1 : Parent(p)[i] = p[i]
    BY <1>1, <1>3, <1>4 DEF Paths
  <1> QED
    BY <1>1, <1>5, PrefixSegments

\* A path that is moved keeps what follows its prefix.
LEMMA MovedSegments ==
  ASSUME NEW old \in Paths, NEW new \in Paths, NEW p \in Paths, IsPrefix(old, p)
  PROVE  /\ Rebased(old, new, p) \in Paths
         /\ Len(Rebased(old, new, p)) = Len(new) + Len(p) - Len(old)
         /\ \A i \in 1 .. Len(new) : Rebased(old, new, p)[i] = new[i]
         /\ \A i \in 1 .. Len(p) - Len(old) :
               Rebased(old, new, p)[Len(new) + i] = p[Len(old) + i]
  <1> DEFINE t == SubSeq(p, Len(old) + 1, Len(p))
  <1>1. /\ Len(p) \in Nat /\ Len(old) \in Nat /\ Len(new) \in Nat /\ Len(old) <= Len(p)
        /\ \A i \in Len(old) + 1 .. Len(p) : p[i] \in STRING
    BY PrefixSegments, ElementOfSeq DEF Paths
  <1>2. /\ t \in Seq(STRING) /\ Len(t) = Len(p) - Len(old)
        /\ \A i \in 1 .. Len(t) : t[i] = p[Len(old) + i]
    <2>1. /\ t \in Seq(STRING)
          /\ Len(t) = (IF Len(old) + 1 <= Len(p) THEN Len(p) - (Len(old) + 1) + 1 ELSE 0)
          /\ \A i \in 1 .. Len(p) - (Len(old) + 1) + 1 : t[i] = p[Len(old) + 1 + i - 1]
      BY <1>1, SubSeqProperties
    <2> HIDE DEF t
    <2> QED
      BY <1>1, <2>1
  <1> HIDE DEF t
  <1>3. /\ new \o t \in Seq(STRING) /\ Len(new \o t) = Len(new) + Len(t)
        /\ \A i \in 1 .. Len(new) + Len(t) :
              (new \o t)[i] = IF i <= Len(new) THEN new[i] ELSE t[i - Len(new)]
    BY <1>2, ConcatProperties DEF Paths
  <1>4. Rebased(old, new, p) = new \o t
    BY DEF Rebased, t
  <1> DEFINE y == new \o t
  <1>5. /\ y \in Seq(STRING) /\ Len(y) = Len(new) + Len(t)
        /\ \A i \in 1 .. Len(new) + Len(t) :
              y[i] = IF i <= Len(new) THEN new[i] ELSE t[i - Len(new)]
    BY <1>3
  <1> HIDE DEF y
  <1>6. \A i \in 1 .. Len(new) : y[i] = new[i]
    BY <1>1, <1>2, <1>5
  <1>7. ASSUME NEW i \in 1 .. Len(p) - Len(old)
        PROVE  y[Len(new) + i] = p[Len(old) + i]
    <2>1. /\ Len(new) + i \in 1 .. Len(new) + Len(t) /\ ~(Len(new) + i <= Len(new))
          /\ Len(new) + i - Len(new) = i /\ i \in 1 .. Len(t)
      BY <1>1, <1>2
    <2>2. y[Len(new) + i] = t[Len(new) + i - Len(new)]
      BY <1>5, <2>1
    <2> QED
      BY <1>2, <2>1, <2>2
  <1> QED
    BY <1>1, <1>2, <1>4, <1>5, <1>6, <1>7 DEF y, Paths

\* It is below the new prefix, and moved back it is where it was.
LEMMA MovedThere ==
  ASSUME NEW old \in Paths, NEW new \in Paths, NEW p \in Paths, IsPrefix(old, p)
  PROVE  IsPrefix(new, Rebased(old, new, p)) /\ Rebased(new, old, Rebased(old, new, p)) = p
  <1> DEFINE y == Rebased(old, new, p)
             z == Rebased(new, old, y)
  <1>1. /\ Len(p) \in Nat /\ Len(old) \in Nat /\ Len(new) \in Nat /\ Len(old) <= Len(p)
        /\ \A i \in 1 .. Len(old) : old[i] = p[i]
    BY PrefixSegments DEF Paths
  <1>2. /\ y \in Paths /\ Len(y) = Len(new) + Len(p) - Len(old)
        /\ \A i \in 1 .. Len(new) : y[i] = new[i]
        /\ \A i \in 1 .. Len(p) - Len(old) : y[Len(new) + i] = p[Len(old) + i]
    BY ZenonT(30), MovedSegments
  <1> HIDE DEF y
  <1>3. IsPrefix(new, y)
    BY <1>1, <1>2, PrefixSegments
  <1>4. /\ z \in Paths /\ Len(z) = Len(old) + Len(y) - Len(new)
        /\ \A i \in 1 .. Len(old) : z[i] = old[i]
        /\ \A i \in 1 .. Len(y) - Len(new) : z[Len(old) + i] = y[Len(new) + i]
    BY ZenonT(30), <1>2, <1>3, MovedSegments
  <1> HIDE DEF z
  <1>5. Len(z) = Len(p)
    BY <1>1, <1>2, <1>4
  <1>6. ASSUME NEW i \in 1 .. Len(p)
        PROVE  z[i] = p[i]
    <2>1. CASE i <= Len(old)
      BY <1>1, <1>4, <2>1
    <2>2. CASE i > Len(old)
      <3> DEFINE j == i - Len(old)
      <3>1. j \in 1 .. Len(p) - Len(old) /\ j \in 1 .. Len(y) - Len(new) /\ Len(old) + j = i
        BY <1>1, <1>2, <2>2
      <3> HIDE DEF j
      <3>2. z[Len(old) + j] = y[Len(new) + j] /\ y[Len(new) + j] = p[Len(old) + j]
        BY <1>2, <1>4, <3>1
      <3> QED
        BY <3>1, <3>2
    <2> QED
      BY <1>1, <2>1, <2>2
  <1>7. z = p
    BY <1>4, <1>5, <1>6, SeqEqual DEF Paths
  <1> QED
    BY <1>3, <1>7 DEF y, z

\* What lies between the new prefix and a moved path lies between the old prefix and the
\* path.
LEMMA MovedBetween ==
  ASSUME NEW old \in Paths, NEW new \in Paths, NEW p \in Paths, IsPrefix(old, p),
         NEW q \in Paths, IsPrefix(new, q), IsPrefix(q, Rebased(old, new, p)),
         q # Rebased(old, new, p)
  PROVE  /\ Rebased(new, old, q) \in Paths /\ IsPrefix(old, Rebased(new, old, q))
         /\ IsPrefix(Rebased(new, old, q), p) /\ Rebased(new, old, q) # p
         /\ Rebased(old, new, Rebased(new, old, q)) = q
  <1> DEFINE y == Rebased(old, new, p)
             z == Rebased(new, old, q)
  <1>1. /\ Len(p) \in Nat /\ Len(old) \in Nat /\ Len(new) \in Nat /\ Len(old) <= Len(p)
        /\ \A i \in 1 .. Len(old) : old[i] = p[i]
    BY PrefixSegments DEF Paths
  <1>2. /\ y \in Paths /\ Len(y) = Len(new) + Len(p) - Len(old)
        /\ \A i \in 1 .. Len(p) - Len(old) : y[Len(new) + i] = p[Len(old) + i]
    BY MovedSegments
  <1>3. z \in Paths /\ IsPrefix(old, z) /\ Rebased(old, new, z) = q
    BY MovedSegments, MovedThere
  <1>4. z # p
    BY <1>3
  <1>5. /\ Len(z) = Len(old) + Len(q) - Len(new)
        /\ \A i \in 1 .. Len(old) : z[i] = old[i]
        /\ \A i \in 1 .. Len(q) - Len(new) : z[Len(old) + i] = q[Len(new) + i]
    BY ZenonT(30), MovedSegments
  <1> HIDE DEF y, z
  <1>6. /\ Len(q) \in Nat /\ Len(new) <= Len(q) /\ Len(q) <= Len(y)
        /\ \A i \in 1 .. Len(q) : q[i] = y[i]
    BY <1>2, PrefixSegments DEF Paths, y
  <1>7. Len(z) <= Len(p)
    BY <1>1, <1>2, <1>5, <1>6
  <1>8. ASSUME NEW i \in 1 .. Len(z)
        PROVE  z[i] = p[i]
    <2>1. CASE i <= Len(old)
      BY <1>1, <1>5, <2>1
    <2>2. CASE i > Len(old)
      <3> DEFINE j == i - Len(old)
      <3>1. /\ j \in 1 .. Len(p) - Len(old) /\ j \in 1 .. Len(q) - Len(new)
            /\ Len(new) + j \in 1 .. Len(q) /\ Len(old) + j = i
        BY <1>1, <1>2, <1>5, <1>6, <2>2
      <3> HIDE DEF j
      <3>2. /\ z[Len(old) + j] = q[Len(new) + j] /\ q[Len(new) + j] = y[Len(new) + j]
            /\ y[Len(new) + j] = p[Len(old) + j]
        BY <1>2, <1>5, <1>6, <3>1
      <3> QED
        BY <3>1, <3>2
    <2> QED
      BY <1>1, <1>5, <1>6, <2>1, <2>2
  <1>9. IsPrefix(z, p)
    BY <1>3, <1>7, <1>8, PrefixSegments
  <1> QED
    BY <1>3, <1>4, <1>9 DEF z

LEMMA PutKeepsTree ==
  ASSUME DOMAIN fs \subseteq Paths, Tree, NEW path \in Paths, NEW what, fs' = Put(path, what),
         ContentAt(Parent(path)) = Dir, what = Dir \/ ContentAt(path) # Dir
  PROVE  Tree'
  <1> SUFFICES ASSUME NEW p \in DOMAIN fs', NEW q \in Paths, IsPrefix(q, p), q # p
               PROVE  ContentAt(q)' = Dir
    BY DEF Tree
  <1>1. p \in Paths /\ DOMAIN fs' = DOMAIN fs \cup {path}
    BY DEF Put
  <1>2. ContentAt(q) = Dir
    <2>1. CASE p \in DOMAIN fs
      BY <2>1 DEF Tree
    <2>2. CASE p = path
      <3>1. Parent(path) \in Paths /\ IsPrefix(q, Parent(path))
        BY <2>2, AboveParent
      <3>2. Parent(path) \in DOMAIN fs
        BY DEF ContentAt, Dir, Nothing
      <3> QED
        BY <3>1, <3>2 DEF Tree
    <2> QED
      BY <1>1, <2>1, <2>2
  <1>3. CASE q = path
    BY <1>2, <1>3, PutHere
  <1>4. CASE q # path
    BY <1>2, <1>4, PutElsewhere
  <1> QED
    BY <1>3, <1>4

\* What is taken away has nothing below it that stays.
LEMMA WithoutKeepsTree ==
  ASSUME Tree, NEW gone, fs' = Without(gone),
         \A p \in DOMAIN fs \ gone : \A q \in gone : ~IsPrefix(q, p)
  PROVE  Tree'
  <1> SUFFICES ASSUME NEW p \in DOMAIN fs', NEW q \in Paths, IsPrefix(q, p), q # p
               PROVE  ContentAt(q)' = Dir
    BY DEF Tree
  <1>1. p \in DOMAIN fs \ gone
    BY DEF Without
  <1>2. ContentAt(q) = Dir /\ q \notin gone
    BY <1>1 DEF Tree
  <1> QED
    BY <1>2, WithoutElsewhere

LEMMA RenameKeepsTree ==
  ASSUME FilesTyped, Tree, CardTyped, NEW old \in Paths, NEW new \in Paths, Rename(old, new)
  PROVE  Tree' /\ CardTyped'
  <1> DEFINE moved   == {Rebased(old, new, p) : p \in Below(old)}
             from(p) == IF IsPrefix(new, p) THEN Rebased(new, old, p) ELSE p
  <1>1. /\ ~IsPrefix(old, new) /\ ContentAt(new) = Nothing /\ ContentAt(Parent(new)) = Dir
        /\ fs' = [p \in (DOMAIN fs \ Below(old)) \cup moved |-> fs[from(p)]]
    BY DEF Rename, Rebased
  <1>2. DOMAIN fs \subseteq Paths
    BY DEF FilesTyped
  <1>3. ASSUME NEW p \in DOMAIN fs
        PROVE  ~IsPrefix(new, p)
    <2>1. new \notin DOMAIN fs
      BY <1>1, PathsAssumption DEF ContentAt, CardTyped, Nothing, Dir, Other
    <2> QED
      BY <1>1, <1>2, <2>1 DEF Tree, ContentAt, Nothing, Dir
  <1>4. ASSUME NEW p \in DOMAIN fs \ Below(old)
        PROVE  p \in DOMAIN fs' /\ fs'[p] = fs[p]
    BY <1>1, <1>3
  <1>5. ASSUME NEW p \in Below(old)
        PROVE  LET y == Rebased(old, new, p)
               IN  y \in DOMAIN fs' /\ y \in Paths /\ fs'[y] = fs[p]
    <2> DEFINE y == Rebased(old, new, p)
    <2>1. p \in Paths /\ IsPrefix(old, p)
      BY <1>2 DEF Below
    <2>2. y \in Paths /\ IsPrefix(new, y) /\ Rebased(new, old, y) = p
      BY <2>1, MovedSegments, MovedThere
    <2>3. y \in moved
      OBVIOUS
    <2> HIDE DEF y, moved
    <2> QED
      BY <1>1, <2>2, <2>3 DEF y
  <1>6. DOMAIN fs' = (DOMAIN fs \ Below(old)) \cup moved
    BY <1>1
  <1>7. ASSUME NEW q \in Paths, ContentAt(q) = Dir, ~IsPrefix(old, q)
        PROVE  ContentAt(q)' = Dir
    <2>1. q \in DOMAIN fs \ Below(old)
      BY <1>7 DEF ContentAt, Below, Dir, Nothing
    <2> QED
      BY <1>4, <1>7, <2>1 DEF ContentAt
  <1>8. CardTyped'
    <2> SUFFICES ASSUME NEW p \in DOMAIN fs'
                 PROVE  fs'[p] \in {Dir, Other} \cup Writers
      BY DEF CardTyped
    <2>1. CASE p \in DOMAIN fs \ Below(old)
      BY <1>4, <2>1 DEF CardTyped
    <2>2. CASE p \in moved
      <3>1. PICK x \in Below(old) : p = Rebased(old, new, x)
        BY <2>2
      <3>2. fs'[p] = fs[x] /\ x \in DOMAIN fs
        BY <1>5, <3>1 DEF Below
      <3> QED
        BY <3>2 DEF CardTyped
    <2> QED
      BY <1>6, <2>1, <2>2
  <1>9. Tree'
    <2> SUFFICES ASSUME NEW p \in DOMAIN fs', NEW q \in Paths, IsPrefix(q, p), q # p
                 PROVE  ContentAt(q)' = Dir
      BY DEF Tree
    <2>1. CASE p \in DOMAIN fs \ Below(old)
      <3>1. ContentAt(q) = Dir /\ p \in Paths /\ ~IsPrefix(old, p)
        BY <1>2, <2>1 DEF Tree, Below
      <3>2. ~IsPrefix(old, q)
        BY <3>1, PrefixesChain
      <3> QED
        BY <1>7, <3>1, <3>2
    <2>2. CASE p \in moved
      <3>1. PICK x \in Below(old) : p = Rebased(old, new, x)
        BY <2>2
      <3>2. x \in DOMAIN fs /\ x \in Paths /\ IsPrefix(old, x)
        BY <1>2, <3>1 DEF Below
      <3>3. p \in Paths /\ IsPrefix(new, p)
        BY <3>1, <3>2, MovedSegments, MovedThere
      <3>4. CASE IsPrefix(new, q)
        <4> DEFINE z == Rebased(new, old, q)
        <4>1. /\ z \in Paths /\ IsPrefix(old, z) /\ IsPrefix(z, x) /\ z # x
              /\ Rebased(old, new, z) = q
          BY <3>1, <3>2, <3>4, MovedBetween
        <4> HIDE DEF z
        <4>2. z \in DOMAIN fs /\ fs[z] = Dir
          BY <3>2, <4>1 DEF Tree, ContentAt, Dir, Nothing
        <4>3. z \in Below(old)
          BY <4>1, <4>2 DEF Below
        <4>4. q \in DOMAIN fs' /\ fs'[q] = fs[z]
          BY <1>5, <4>1, <4>3
        <4> QED
          BY <4>2, <4>4 DEF ContentAt
      <3>5. CASE ~IsPrefix(new, q)
        <4>1. IsPrefix(q, new) /\ q # new
          BY <3>3, <3>5, PrefixesChain
        <4>2. Parent(new) \in Paths /\ IsPrefix(q, Parent(new))
          BY <4>1, AboveParent
        <4>3. Parent(new) \in DOMAIN fs
          BY <1>1 DEF ContentAt, Dir, Nothing
        <4>4. ContentAt(q) = Dir
          BY <1>1, <4>2, <4>3 DEF Tree
        <4>5. ~IsPrefix(old, q)
          BY <1>1, <4>1, PrefixesChain
        <4> QED
          BY <1>7, <4>4, <4>5
      <3> QED
        BY <3>4, <3>5
    <2> QED
      BY <1>6, <2>1, <2>2
  <1> QED
    BY <1>8, <1>9

(***************************************************************************)
(* The parts side by side: a step of one leaves the others alone.           *)
(***************************************************************************)
DeviceInv == Inv /\ VoiceInv /\ PlayerInv /\ FilesInv /\ Tree /\ CardTyped

\* The card at the beginning: the folder of the recordings, with one of them.
LEMMA CardInitHolds ==
  ASSUME FilesInit
  PROVE  Tree /\ CardTyped
  <1> DEFINE c == Candidates[1]
  <1>1. /\ c \in Seq(STRING) /\ Len(c) = 2 /\ c[1] \in STRING
        /\ c \in Paths /\ <<>> \in Paths
    BY PathsAssumption, NamedPaths, EmptySeq, ElementOfSeq DEF Paths
  <1>2. Parent(c) \in Paths /\ Len(Parent(c)) = 1
    <2>1. \A i \in 1 .. 1 : c[i] \in STRING
      BY <1>1
    <2> QED
      BY <1>1, <2>1, SubSeqProperties DEF Parent, Front, Paths
  <1>3. fs = [p \in {<<>>, Parent(c), c} |-> IF p = c THEN Other ELSE Dir]
    BY DEF FilesInit
  <1> HIDE DEF c
  <1>4. CardTyped
    BY <1>3 DEF CardTyped
  <1>5. ASSUME NEW p \in DOMAIN fs, NEW q \in Paths, IsPrefix(q, p), q # p
        PROVE  ContentAt(q) = Dir
    <2>1. p \in {<<>>, Parent(c), c} /\ Len(<<>>) = 0
      BY <1>3
    <2>2. p \in Paths /\ Len(p) \in {0, 1, 2}
      <3>1. CASE p = <<>>
        BY <1>1, <2>1, <3>1
      <3>2. CASE p = Parent(c)
        BY <1>2, <3>2
      <3>3. CASE p = c
        BY <1>1, <3>3
      <3> QED
        BY <2>1, <3>1, <3>2, <3>3
    <2>3. Len(q) \in Nat /\ Len(q) < Len(p)
      <3>1. Len(q) \in Nat
        BY LenProperties DEF Paths
      <3> QED
        BY <1>5, <2>2, <3>1, PrefixesChain
    <2>4. CASE Len(q) = 0
      <3>1. q = <<>> /\ q # c
        <4>1. Len(q) \notin Nat \ {0} /\ Len(q) # 2
          BY <2>4
        <4>2. q = <<>>
          BY <4>1, EmptySeq DEF Paths
        <4> QED
          BY <1>1, <4>1, <4>2
      <3> QED
        BY <1>3, <3>1 DEF ContentAt
    <2>5. CASE Len(q) # 0
      <3>1. p = c
        <4> DEFINE m == Len(p)
                   n == Len(q)
        <4>1. m \in {0, 1, 2} /\ n \in Nat /\ n < m /\ n # 0
          BY <2>2, <2>3, <2>5
        <4> HIDE DEF m, n
        <4>2. m = 2
          BY <4>1
        <4> QED
          BY <1>2, <2>1, <4>2 DEF m
      <3>2. IsPrefix(q, Parent(c)) /\ Len(q) >= Len(Parent(c))
        BY <1>1, <1>2, <1>5, <2>2, <2>5, <3>1, AboveParent
      <3>3. q = Parent(c) /\ q # c
        BY <1>1, <1>2, <1>5, <3>1, <3>2, PrefixesChain
      <3> QED
        BY <1>3, <3>3 DEF ContentAt
    <2> QED
      BY <2>4, <2>5
  <1> QED
    BY <1>4, <1>5 DEF Tree

LEMMA PutKeepsTypes ==
  ASSUME CardTyped, NEW p, NEW what \in {Dir, Other} \cup Writers, fs' = Put(p, what)
  PROVE  CardTyped'
  BY DEF Put, CardTyped

LEMMA WithoutKeepsTypes ==
  ASSUME CardTyped, NEW gone, fs' = Without(gone)
  PROVE  CardTyped'
  BY DEF Without, CardTyped

LEMMA CardStepKeeps ==
  ASSUME FilesInv, Tree, CardTyped, [FilesNext]_fileVars
  PROVE  Tree' /\ CardTyped'
  <1>1. FilesTyped /\ DOMAIN fs \subseteq Paths
    BY DEF FilesInv, FilesTyped
  <1>2. ASSUME NEW w \in Writers, NEW path \in Paths, Begin(w, path)
        PROVE  Tree' /\ CardTyped'
    <2>1. CASE UNCHANGED fs
      BY <2>1 DEF Tree, CardTyped, ContentAt
    <2>2. CASE fs' = Put(Parent(path), Dir) /\ ContentAt(Parent(Parent(path))) = Dir
      <3>1. Parent(path) \in Paths
        BY ParentPath
      <3> QED
        BY <1>1, <2>2, <3>1, PutKeepsTree, PutKeepsTypes
    <2> QED
      BY <1>2, <2>1, <2>2 DEF Begin
  <1>3. ASSUME NEW w \in Writers, Open(w)
        PROVE  Tree' /\ CardTyped'
    <2> DEFINE path == writer[w].path
    <2>1. path \in Paths
      BY <1>1 DEF FilesTyped
    <2>2. CASE UNCHANGED fs
      BY <2>2 DEF Tree, CardTyped, ContentAt
    <2>3. CASE /\ fs' = Put(path, w) /\ ContentAt(path) # Dir
               /\ ContentAt(Parent(path)) = Dir
      <3> HIDE DEF path
      <3> QED
        BY <1>1, <2>1, <2>3, PutKeepsTree, PutKeepsTypes
    <2> QED
      BY <1>3, <2>2, <2>3 DEF Open
  <1>4. ASSUME NEW w \in Writers, Saved(w) \/ Failed(w)
        PROVE  Tree' /\ CardTyped'
    <2> DEFINE path == writer[w].path
    <2>1. path \in Paths /\ ContentAt(path) = w /\ w # Dir /\ w # Nothing
      BY <1>1, <1>4, PathsAssumption DEF FilesTyped, FilesInv, WriterKeepsItsFile, Saved, Failed
    <2> HIDE DEF path
    <2>2. path \in DOMAIN fs
      BY <2>1 DEF ContentAt
    <2>3. CASE fs' = Put(path, Other)
      <3>1. \A p \in DOMAIN fs' : p \in DOMAIN fs
        BY <2>2, <2>3 DEF Put
      <3>2. \A q : ContentAt(q) = Dir => ContentAt(q)' = Dir
        BY <2>1, <2>3, PutElsewhere
      <3> QED
        BY <2>3, <3>1, <3>2, PutKeepsTypes DEF Tree
    <2>4. CASE fs' = Without({path})
      <3>1. ASSUME NEW p \in DOMAIN fs \ {path}, NEW q \in {path}
            PROVE  ~IsPrefix(q, p)
        BY <2>1, <3>1 DEF Tree
      <3> QED
        BY <2>4, <3>1, WithoutKeepsTree, WithoutKeepsTypes
    <2> QED
      BY <1>4, <2>3, <2>4 DEF Saved, Failed, path
  <1>5. ASSUME NEW path \in Paths, Write(path) \/ CreateDirectory(path)
        PROVE  Tree' /\ CardTyped'
    <2>1. PICK what \in {Dir, Other} :
             /\ fs' = Put(path, what) /\ ContentAt(Parent(path)) = Dir
             /\ what = Dir \/ ContentAt(path) # Dir
      BY <1>5 DEF Write, CreateDirectory, Nothing, Dir, Other
    <2> QED
      BY <1>1, <2>1, PutKeepsTree, PutKeepsTypes
  <1>6. ASSUME NEW path \in Paths, Delete(path)
        PROVE  Tree' /\ CardTyped'
    <2>1. fs' = Without(Below(path))
      BY <1>6 DEF Delete
    <2>2. ASSUME NEW p \in DOMAIN fs \ Below(path), NEW q \in Below(path), IsPrefix(q, p)
          PROVE  FALSE
      <3>1. p \in Paths /\ q \in Paths /\ IsPrefix(path, q) /\ ~IsPrefix(path, p)
        BY <1>1, <2>2 DEF Below
      <3> QED
        BY <2>2, <3>1, PrefixesChain
    <2> QED
      BY <2>1, <2>2, WithoutKeepsTree, WithoutKeepsTypes
  <1>7. ASSUME UNCHANGED fs
        PROVE  Tree' /\ CardTyped'
    BY <1>7 DEF Tree, CardTyped, ContentAt
  <1>8. ASSUME NEW w \in Writers, Acquire(w) \/ Release(w)
        PROVE  UNCHANGED fs
    BY <1>8 DEF Acquire, Release
  <1>9. CASE Begin(Recorder, Candidates[1])
    BY <1>2, <1>9, NamedPaths DEF Writers
  <1>10. ASSUME NEW path \in Targets, Begin(Upload, path)
         PROVE  Tree' /\ CardTyped'
    BY <1>2, <1>10, NamedPaths DEF Writers
  <1>11. ASSUME NEW old \in Roots, NEW new \in Roots, Rename(old, new)
         PROVE  Tree' /\ CardTyped'
    BY <1>1, <1>11, NamedPaths, RenameKeepsTree
  <1>12. CASE UNCHANGED fileVars
    BY <1>7, <1>12 DEF fileVars
  <1> QED
    BY <1>3, <1>4, <1>5, <1>6, <1>7, <1>8, <1>9, <1>10, <1>11, <1>12, NamedPaths DEF FilesNext

LEMMA DeviceStepKeeps ==
  ASSUME DeviceInv, [DeviceNext]_all
  PROVE  DeviceInv'
  <1>1. Inv /\ VoiceInv /\ PlayerInv /\ FilesInv /\ Tree /\ CardTyped
    BY DEF DeviceInv
  <1>2. /\ [Next]_vars /\ [VoiceNext]_voiceVars
        /\ [PlayerNext]_playerVars /\ [FilesNext]_fileVars
    BY DEF DeviceNext, RetirementRuns, VoiceRuns, PlayerRuns, FilesRun, all
  <1>3. Inv'
    BY <1>1, <1>2, NextInv
  <1>4. VoiceInv'
    BY <1>1, <1>2, VoiceNextKeeps
  <1>5. PlayerInv'
    BY <1>1, <1>2, PlayerNextKeeps
  <1>6. FilesInv' /\ Tree' /\ CardTyped'
    BY <1>1, <1>2, FilesNextKeeps, CardStepKeeps
  <1> QED
    BY <1>3, <1>4, <1>5, <1>6 DEF DeviceInv

\* Whichever part of the device runs, its invariant holds beside those of the others.
THEOREM DeviceInvariant == DeviceSpec => []DeviceInv
  <1>1. DeviceInit => DeviceInv
    <2> SUFFICES ASSUME DeviceInit
                 PROVE  DeviceInv
      OBVIOUS
    <2>1. Init /\ VoiceInit /\ PlayerInit /\ FilesInit
      BY DEF DeviceInit
    <2>2. Tree /\ CardTyped
      BY <2>1, CardInitHolds
    <2> QED
      BY <2>1, <2>2, InitInv, VoiceInitHolds, PlayerInitHolds, FilesInitHolds DEF DeviceInv
  <1>2. DeviceInv /\ [DeviceNext]_all => DeviceInv'
    BY DeviceStepKeeps
  <1> QED
    BY <1>1, <1>2, PTL DEF DeviceSpec

\* The records of the registry, the voice session, the player and the card keep their
\* types, their generations and attempts the limits the code gives them.
THEOREM DeviceTyped == DeviceSpec => []DeviceTypeOK
  <1>1. ASSUME DeviceInv
        PROVE  DeviceTypeOK
    <2>1. Inv /\ VoiceInv /\ PlayerInv /\ FilesInv /\ Tree /\ CardTyped
      BY <1>1 DEF DeviceInv
    <2>2. TypeOK
      BY <2>1 DEF Inv
    <2>3. FilesTypeOK
      <3>1. /\ \A w \in Writers : writer[w].pc \in WriterStages
            /\ changes \in 0 .. MaxChanges
        BY <2>1 DEF FilesInv, FilesTyped
      <3>2. leases \subseteq {writer[w].path : w \in Writers}
        BY <2>1 DEF FilesInv, LeasesHeld
      <3> QED
        BY <2>1, <3>1, <3>2 DEF FilesTypeOK, CardTyped, WriterStages
    <2> QED
      BY <2>1, <2>2, <2>3, VoiceTypesGiven, PlayerTypesGiven DEF DeviceTypeOK
  <1> QED
    BY <1>1, DeviceInvariant, PTL
=============================================================================
