------------------------ MODULE VoiceSession_proof ------------------------
(***************************************************************************)
(* Proofs about the voice assistant: a service at rest holds nothing, a     *)
(* session that goes on lacks nothing, and the music gets the focus back    *)
(* only from a speaker that is silent, for every number of sessions, stops, *)
(* losses and failures and every limit of attempts.                        *)
(*                                                                         *)
(* Neither property is inductive: a state at rest says nothing of the start *)
(* attempt, the I/O task or the cleaner still under way, each of which can   *)
(* take or give back what the others hold. VoiceInv says of each who it     *)
(* works for:                                                              *)
(* - Roles: the cleaner runs only during a stop and on behalf of one task;    *)
(* - HeldOwned: what is held belongs to the session, to the stop that saw    *)
(*   it acquired, or to the attempt that acquired it too late to be seen;    *)
(* - Stopped, Rested: what a stop, and a service at rest, leave nothing of;   *)
(* - Attempted, InSession: an attempt that was not overtaken, and a session,  *)
(*   have all they acquired, so that the next step completes it;            *)
(* - Coordinated: a coordinator that is at work was begun by the interaction  *)
(*   that runs, or by the one whose stop has not cancelled it yet.          *)
(***************************************************************************)
EXTENDS VoiceSession, TLAPS

\* Where a new attempt stands until it ends, and what it has acquired by then.
BeforeFocus == {"record", "recorded", "prepare", "io", "play", "focus", "focused"}
AfterFocus  == {"open", "opening", "opened", "send", "commit"}
Attempt     == BeforeFocus \cup AfterFocus
HasIoTask   == {"play", "focus", "focused"} \cup AfterFocus
HasPlayTask == {"focus", "focused"} \cup AfterFocus
\* Where the I/O task stands while it makes an attempt of the coordinator.
RetryPlaces == {"opening", "bind", "sending", "commit", "adopt"}
AtWork        == {"active", "waiting", "attempting"}
Links       == [gen : Nat, link : {"none", "opening", "ready", "open", "ended", "dead"}]
Claims      == [gen : Nat, origin : {"none", "inbound", "local"}]
Reports     == [kind : {"none", "error", "finished"}, gen : Nat, retry : BOOLEAN]
Service ==
    [phase : Phases, gen : Nat, stopping : BOOLEAN, starting : BOOLEAN, released : BOOLEAN,
     final : {"idle", "error"}, focus : BOOLEAN, active : BOOLEAN, rec : BOOLEAN, tgen : Nat,
     ioRun : BOOLEAN, playRun : BOOLEAN, reconnect : BOOLEAN, announce : BOOLEAN,
     timed : BOOLEAN, playFailed : BOOLEAN, queue : BOOLEAN]

ServiceTypes == s \in Service
TaskTypes ==
    /\ tasks \in [io : {"none", "loop", "cleaning", "draining", "closing"} \cup RetryPlaces,
                  play : {"none", "idle", "writing"}, net : Nat]
    /\ held \in [rec : BOOLEAN, focus : BOOLEAN]
StarterTypes ==
    starter \in [pc : {"none", "admit", "again", "mark", "cleaning", "end"} \cup Attempt,
                 kind : {"none", "wake", "announce"}, gen : Nat, net : Nat]
CleanerTypes ==
    cleaner \in [by : {"none", "ext", "start", "io"},
                 step : {"none", "record", "close", "join", "finish"},
                 inter : Nat, focus : BOOLEAN, rec : BOOLEAN]
LinkTypes ==
    /\ net \in Links /\ claim \in Claims
    /\ report \in Reports /\ events \subseteq Reports
CoordTypes ==
    coord \in [state : {"idle", "cancelled", "terminal"} \cup AtWork, gen : Nat, inter : Nat,
               attempt : 0 .. MaxAttempts]
RareTypes == rare \in [Rare -> Nat]

\* Who starts and who stops: a cleaner runs only while the service is stopping, and stands
\* for the task that carries it out.
Roles ==
    /\ s.starting <=> starter.pc # "none"
    /\ cleaner.step = "none" => cleaner = NoCleaner
    /\ cleaner.step # "none" => cleaner.by # "none" /\ s.stopping /\ ~s.released
    /\ cleaner.by = "io" => tasks.io = "cleaning"
    /\ cleaner.by = "start" <=> starter.pc = "cleaning"

\* A stop leaves nothing for the tasks to do.
Stopped ==
    /\ s.stopping => ~s.ioRun /\ ~s.playRun /\ ~s.reconnect /\ ~s.queue
    /\ s.stopping /\ s.released => ~s.focus /\ ~s.active /\ ~s.rec
    /\ s.stopping /\ cleaner.step \notin {"record", "close"} => net.link = "none"
    /\ ~s.ioRun => events = {}

Rested ==
    ~s.stopping /\ AtRest =>
        /\ ~s.focus /\ ~s.active /\ ~s.rec
        /\ ~s.ioRun /\ ~s.playRun /\ ~s.reconnect /\ ~s.queue
        /\ tasks.io = "none" /\ tasks.play = "none" /\ net.link = "none"

\* What is held is owned: by the session, by the stop that saw it acquired, or by the
\* start attempt that acquired it too late to be seen.
HeldOwned ==
    /\ held.rec =>
          \/ starter.pc = "recorded"
          \/ s.rec /\ ~s.stopping
          \/ cleaner.step = "record" /\ cleaner.rec
    /\ held.focus =>
          \/ starter.pc = "focused"
          \/ s.focus /\ ~s.stopping
          \/ cleaner.step \in {"record", "close", "join"} /\ cleaner.focus
    /\ starter.pc = "focused" => held.focus
    /\ s.focus /\ ~s.stopping => held.focus
    /\ starter.pc \in BeforeFocus => ~s.focus /\ ~cleaner.focus

\* A start attempt that was not stopped has what it acquired, and its interaction to itself.
Attempted ==
    /\ starter.pc \in Attempt => ~s.queue /\ tasks.play # "writing"
    /\ starter.pc \in Attempt /\ ~s.stopping =>
          /\ s.gen = starter.gen /\ s.phase = "connecting" /\ ~s.active /\ ~s.reconnect
          /\ starter.pc \in HasIoTask => s.ioRun
          /\ starter.pc \in HasPlayTask => s.playRun
          /\ starter.pc \in AfterFocus => s.focus
    /\ starter.pc \in {"again", "mark"} /\ ~s.stopping => ~AtRest

InSession ==
    /\ ~s.stopping /\ ~AtRest => s.gen # 0
    /\ ~s.stopping /\ ~AtRest /\ starter.pc \notin Attempt =>
          /\ s.focus /\ s.ioRun /\ s.playRun
          /\ s.active \/ (s.reconnect /\ coord.inter = s.gen)

\* The coordinator works for the interaction that runs, or for the one being stopped.
Coordinated ==
    /\ coord.state \in AtWork =>
          /\ coord.inter # 0
          /\ s.stopping => cleaner.step \in {"record", "close", "join"}
                           /\ coord.inter = cleaner.inter
          /\ ~s.stopping => coord.inter = s.gen /\ ~AtRest
    /\ tasks.io \in RetryPlaces /\ ~s.stopping => Wanted
    /\ tasks.io \in {"sending", "commit", "adopt"} /\ ~s.stopping => s.tgen = tasks.net

VoiceInv ==
    /\ ServiceTypes /\ TaskTypes /\ StarterTypes /\ CleanerTypes /\ LinkTypes /\ CoordTypes
    /\ RareTypes
    /\ Roles /\ Stopped /\ Rested /\ HeldOwned /\ Attempted /\ InSession /\ Coordinated

(***************************************************************************)
(* The fields of the service.                                              *)
(***************************************************************************)
LEMMA Silenced ==
  ASSUME NEW r \in Service, NEW x,
         x = [r EXCEPT !.ioRun = FALSE, !.playRun = FALSE, !.reconnect = FALSE, !.tgen = 0,
                       !.timed = FALSE, !.queue = FALSE]
  PROVE  x \in Service
  BY ZenonT(30) DEF Service, Phases

\* What a stop leaves of the fields of the service (FinishInteraction).
LEMMA FinishedService ==
  ASSUME s \in Service,
         NEW final \in {"idle", "error"},
         s' = [s EXCEPT !.stopping = TRUE, !.released = FALSE, !.final = final, !.gen = @ + 1,
                       !.announce = FALSE, !.ioRun = FALSE, !.playRun = FALSE,
                       !.reconnect = FALSE, !.tgen = 0, !.timed = FALSE, !.queue = FALSE]
  PROVE  /\ s' \in Service
         /\ s'.phase = s.phase /\ s'.gen = s.gen + 1 /\ s'.stopping = TRUE
         /\ s'.starting = s.starting /\ s'.released = FALSE /\ s'.final = final
         /\ s'.focus = s.focus /\ s'.active = s.active /\ s'.rec = s.rec /\ s'.tgen = 0
         /\ s'.ioRun = FALSE /\ s'.playRun = FALSE /\ s'.reconnect = FALSE
         /\ s'.announce = FALSE /\ s'.timed = FALSE /\ s'.playFailed = s.playFailed
         /\ s'.queue = FALSE
<1> DEFINE n == s.gen + 1
<1>1. s' = [s EXCEPT !.stopping = TRUE, !.released = FALSE, !.final = final, !.gen = n,
                   !.announce = FALSE, !.ioRun = FALSE, !.playRun = FALSE,
                   !.reconnect = FALSE, !.tgen = 0, !.timed = FALSE, !.queue = FALSE]
  OBVIOUS
<1>2. n \in Nat
  BY DEF Service
<1> HIDE DEF n
<1> DEFINE half == [s EXCEPT !.stopping = TRUE, !.released = FALSE, !.final = final, !.gen = n,
                             !.announce = FALSE]
<1>2a. half \in Service
  BY <1>2 DEF Service, Phases
<1>2b. s' = [half EXCEPT !.ioRun = FALSE, !.playRun = FALSE, !.reconnect = FALSE, !.tgen = 0,
                         !.timed = FALSE, !.queue = FALSE]
  BY <1>1
<1> HIDE DEF half
<1>3. s' \in Service
  BY <1>2a, <1>2b, Silenced
<1>4. s'.phase = s.phase /\ s'.gen = n /\ s'.stopping = TRUE
  BY <1>1 DEF Service
<1>5. s'.starting = s.starting /\ s'.released = FALSE /\ s'.final = final
  BY <1>1 DEF Service
<1>6. s'.focus = s.focus /\ s'.active = s.active /\ s'.rec = s.rec /\ s'.tgen = 0
  BY <1>1 DEF Service
<1>7. s'.ioRun = FALSE /\ s'.playRun = FALSE /\ s'.reconnect = FALSE
  BY <1>1 DEF Service
<1>8. s'.announce = FALSE /\ s'.timed = FALSE /\ s'.playFailed = s.playFailed
  BY <1>1 DEF Service
<1>9. s'.queue = FALSE
  BY <1>1 DEF Service
<1> QED
  BY <1>3, <1>4, <1>5, <1>6, <1>7, <1>8, <1>9 DEF n

\* What a new attempt sets.
LEMMA ConnectingService ==
  ASSUME s \in Service,
         NEW announce \in BOOLEAN,
         s' = [s EXCEPT !.starting = TRUE, !.gen = @ + 1, !.phase = "connecting",
                       !.announce = announce, !.timed = FALSE, !.playFailed = FALSE]
  PROVE  /\ s' \in Service
         /\ s'.phase = "connecting" /\ s'.gen = s.gen + 1 /\ s'.stopping = s.stopping
         /\ s'.starting = TRUE /\ s'.released = s.released /\ s'.final = s.final
         /\ s'.focus = s.focus /\ s'.active = s.active /\ s'.rec = s.rec /\ s'.tgen = s.tgen
         /\ s'.ioRun = s.ioRun /\ s'.playRun = s.playRun /\ s'.reconnect = s.reconnect
         /\ s'.announce = announce /\ s'.timed = FALSE /\ s'.playFailed = FALSE
         /\ s'.queue = s.queue
<1> DEFINE n == s.gen + 1
<1>1. s' = [s EXCEPT !.starting = TRUE, !.gen = n, !.phase = "connecting",
                   !.announce = announce, !.timed = FALSE, !.playFailed = FALSE]
  OBVIOUS
<1>2. n \in Nat
  BY DEF Service
<1> HIDE DEF n
<1>3. s' \in Service
  BY ZenonT(30), <1>1, <1>2 DEF Service, Phases
<1>4. s'.phase = "connecting" /\ s'.gen = n /\ s'.stopping = s.stopping
  BY <1>1 DEF Service
<1>5. s'.starting = TRUE /\ s'.released = s.released /\ s'.final = s.final
  BY <1>1 DEF Service
<1>6. s'.focus = s.focus /\ s'.active = s.active /\ s'.rec = s.rec /\ s'.tgen = s.tgen
  BY <1>1 DEF Service
<1>7. s'.ioRun = s.ioRun /\ s'.playRun = s.playRun /\ s'.reconnect = s.reconnect
  BY <1>1 DEF Service
<1>8. s'.announce = announce /\ s'.timed = FALSE /\ s'.playFailed = FALSE
  BY <1>1 DEF Service
<1>9. s'.queue = s.queue
  BY <1>1 DEF Service
<1> QED
  BY <1>3, <1>4, <1>5, <1>6, <1>7, <1>8, <1>9 DEF n

\* What the completion of a stop sets.
LEMMA CompletedService ==
  ASSUME s \in Service,
         s' = [s EXCEPT !.phase = s.final, !.stopping = FALSE, !.released = FALSE]
  PROVE  /\ s' \in Service
         /\ s'.phase = s.final /\ s'.gen = s.gen /\ s'.stopping = FALSE
         /\ s'.starting = s.starting /\ s'.released = FALSE /\ s'.final = s.final
         /\ s'.focus = s.focus /\ s'.active = s.active /\ s'.rec = s.rec /\ s'.tgen = s.tgen
         /\ s'.ioRun = s.ioRun /\ s'.playRun = s.playRun /\ s'.reconnect = s.reconnect
         /\ s'.announce = s.announce /\ s'.timed = s.timed /\ s'.playFailed = s.playFailed
         /\ s'.queue = s.queue
  BY DEF Service, Phases

\* What the cleaner sets at its end.
LEMMA ReleasedService ==
  ASSUME s \in Service,
         s' = [s EXCEPT !.focus = FALSE, !.active = FALSE, !.rec = FALSE, !.released = TRUE]
  PROVE  /\ s' \in Service
         /\ s'.phase = s.phase /\ s'.gen = s.gen /\ s'.stopping = s.stopping
         /\ s'.starting = s.starting /\ s'.released = TRUE /\ s'.final = s.final
         /\ s'.focus = FALSE /\ s'.active = FALSE /\ s'.rec = FALSE /\ s'.tgen = s.tgen
         /\ s'.ioRun = s.ioRun /\ s'.playRun = s.playRun /\ s'.reconnect = s.reconnect
         /\ s'.announce = s.announce /\ s'.timed = s.timed /\ s'.playFailed = s.playFailed
         /\ s'.queue = s.queue
  BY DEF Service, Phases

\* What a failure that may be retried sets.
LEMMA ReconnectingService ==
  ASSUME s \in Service,
         s' = [s EXCEPT !.active = FALSE, !.tgen = 0, !.reconnect = TRUE, !.timed = FALSE,
                       !.phase = "connecting", !.queue = FALSE]
  PROVE  /\ s' \in Service
         /\ s'.phase = "connecting" /\ s'.gen = s.gen /\ s'.stopping = s.stopping
         /\ s'.starting = s.starting /\ s'.released = s.released /\ s'.final = s.final
         /\ s'.focus = s.focus /\ s'.active = FALSE /\ s'.rec = s.rec /\ s'.tgen = 0
         /\ s'.ioRun = s.ioRun /\ s'.playRun = s.playRun /\ s'.reconnect = TRUE
         /\ s'.announce = s.announce /\ s'.timed = FALSE /\ s'.playFailed = s.playFailed
         /\ s'.queue = FALSE
  BY DEF Service, Phases

\* What a reply sets.
LEMMA SpokenService ==
  ASSUME s \in Service,
         s' = [s EXCEPT !.phase = "speaking", !.timed = TRUE, !.queue = TRUE]
  PROVE  /\ s' \in Service
         /\ s'.phase = "speaking" /\ s'.gen = s.gen /\ s'.stopping = s.stopping
         /\ s'.starting = s.starting /\ s'.released = s.released /\ s'.final = s.final
         /\ s'.focus = s.focus /\ s'.active = s.active /\ s'.rec = s.rec /\ s'.tgen = s.tgen
         /\ s'.ioRun = s.ioRun /\ s'.playRun = s.playRun /\ s'.reconnect = s.reconnect
         /\ s'.announce = s.announce /\ s'.timed = TRUE /\ s'.playFailed = s.playFailed
         /\ s'.queue = TRUE
  BY DEF Service, Phases

\* What the commit of an announcement sets.
LEMMA AnnouncedService ==
  ASSUME s \in Service,
         s' = [s EXCEPT !.phase = "speaking", !.active = TRUE, !.timed = TRUE]
  PROVE  /\ s' \in Service
         /\ s'.phase = "speaking" /\ s'.gen = s.gen /\ s'.stopping = s.stopping
         /\ s'.starting = s.starting /\ s'.released = s.released /\ s'.final = s.final
         /\ s'.focus = s.focus /\ s'.active = TRUE /\ s'.rec = s.rec /\ s'.tgen = s.tgen
         /\ s'.ioRun = s.ioRun /\ s'.playRun = s.playRun /\ s'.reconnect = s.reconnect
         /\ s'.announce = s.announce /\ s'.timed = TRUE /\ s'.playFailed = s.playFailed
         /\ s'.queue = s.queue
  BY DEF Service, Phases

\* What a follow-up turn sets.
LEMMA ListeningService ==
  ASSUME s \in Service,
         s' = [s EXCEPT !.phase = "listening", !.timed = TRUE]
  PROVE  /\ s' \in Service
         /\ s'.phase = "listening" /\ s'.gen = s.gen /\ s'.stopping = s.stopping
         /\ s'.starting = s.starting /\ s'.released = s.released /\ s'.final = s.final
         /\ s'.focus = s.focus /\ s'.active = s.active /\ s'.rec = s.rec /\ s'.tgen = s.tgen
         /\ s'.ioRun = s.ioRun /\ s'.playRun = s.playRun /\ s'.reconnect = s.reconnect
         /\ s'.announce = s.announce /\ s'.timed = TRUE /\ s'.playFailed = s.playFailed
         /\ s'.queue = s.queue
  BY DEF Service, Phases

\* What the commit of a wake sets.
LEMMA CommittedService ==
  ASSUME s \in Service,
         s' = [s EXCEPT !.phase = "listening", !.active = TRUE]
  PROVE  /\ s' \in Service
         /\ s'.phase = "listening" /\ s'.gen = s.gen /\ s'.stopping = s.stopping
         /\ s'.starting = s.starting /\ s'.released = s.released /\ s'.final = s.final
         /\ s'.focus = s.focus /\ s'.active = TRUE /\ s'.rec = s.rec /\ s'.tgen = s.tgen
         /\ s'.ioRun = s.ioRun /\ s'.playRun = s.playRun /\ s'.reconnect = s.reconnect
         /\ s'.announce = s.announce /\ s'.timed = s.timed /\ s'.playFailed = s.playFailed
         /\ s'.queue = s.queue
  BY DEF Service, Phases

\* What the commit of a retry sets.
LEMMA RecommittedService ==
  ASSUME s \in Service,
         s' = [s EXCEPT !.active = TRUE, !.reconnect = FALSE, !.phase = "listening"]
  PROVE  /\ s' \in Service
         /\ s'.phase = "listening" /\ s'.gen = s.gen /\ s'.stopping = s.stopping
         /\ s'.starting = s.starting /\ s'.released = s.released /\ s'.final = s.final
         /\ s'.focus = s.focus /\ s'.active = TRUE /\ s'.rec = s.rec /\ s'.tgen = s.tgen
         /\ s'.ioRun = s.ioRun /\ s'.playRun = s.playRun /\ s'.reconnect = FALSE
         /\ s'.announce = s.announce /\ s'.timed = s.timed /\ s'.playFailed = s.playFailed
         /\ s'.queue = s.queue
  BY DEF Service, Phases

\* What a wake word sets first.
LEMMA StartingService ==
  ASSUME s \in Service,
         s' = [s EXCEPT !.starting = TRUE]
  PROVE  /\ s' \in Service
         /\ s'.phase = s.phase /\ s'.gen = s.gen /\ s'.stopping = s.stopping
         /\ s'.starting = TRUE /\ s'.released = s.released /\ s'.final = s.final
         /\ s'.focus = s.focus /\ s'.active = s.active /\ s'.rec = s.rec /\ s'.tgen = s.tgen
         /\ s'.ioRun = s.ioRun /\ s'.playRun = s.playRun /\ s'.reconnect = s.reconnect
         /\ s'.announce = s.announce /\ s'.timed = s.timed /\ s'.playFailed = s.playFailed
         /\ s'.queue = s.queue
  BY DEF Service, Phases

\* What the started recorder sets.
LEMMA RecordingService ==
  ASSUME s \in Service,
         s' = [s EXCEPT !.rec = TRUE]
  PROVE  /\ s' \in Service
         /\ s'.phase = s.phase /\ s'.gen = s.gen /\ s'.stopping = s.stopping
         /\ s'.starting = s.starting /\ s'.released = s.released /\ s'.final = s.final
         /\ s'.focus = s.focus /\ s'.active = s.active /\ s'.rec = TRUE /\ s'.tgen = s.tgen
         /\ s'.ioRun = s.ioRun /\ s'.playRun = s.playRun /\ s'.reconnect = s.reconnect
         /\ s'.announce = s.announce /\ s'.timed = s.timed /\ s'.playFailed = s.playFailed
         /\ s'.queue = s.queue
  BY DEF Service, Phases

\* What the started I/O task sets.
LEMMA IoService ==
  ASSUME s \in Service,
         s' = [s EXCEPT !.ioRun = TRUE]
  PROVE  /\ s' \in Service
         /\ s'.phase = s.phase /\ s'.gen = s.gen /\ s'.stopping = s.stopping
         /\ s'.starting = s.starting /\ s'.released = s.released /\ s'.final = s.final
         /\ s'.focus = s.focus /\ s'.active = s.active /\ s'.rec = s.rec /\ s'.tgen = s.tgen
         /\ s'.ioRun = TRUE /\ s'.playRun = s.playRun /\ s'.reconnect = s.reconnect
         /\ s'.announce = s.announce /\ s'.timed = s.timed /\ s'.playFailed = s.playFailed
         /\ s'.queue = s.queue
  BY DEF Service, Phases

\* What the started playback task sets.
LEMMA PlayService ==
  ASSUME s \in Service,
         s' = [s EXCEPT !.playRun = TRUE]
  PROVE  /\ s' \in Service
         /\ s'.phase = s.phase /\ s'.gen = s.gen /\ s'.stopping = s.stopping
         /\ s'.starting = s.starting /\ s'.released = s.released /\ s'.final = s.final
         /\ s'.focus = s.focus /\ s'.active = s.active /\ s'.rec = s.rec /\ s'.tgen = s.tgen
         /\ s'.ioRun = s.ioRun /\ s'.playRun = TRUE /\ s'.reconnect = s.reconnect
         /\ s'.announce = s.announce /\ s'.timed = s.timed /\ s'.playFailed = s.playFailed
         /\ s'.queue = s.queue
  BY DEF Service, Phases

\* What the focus that came in time sets.
LEMMA FocusedService ==
  ASSUME s \in Service,
         s' = [s EXCEPT !.focus = TRUE]
  PROVE  /\ s' \in Service
         /\ s'.phase = s.phase /\ s'.gen = s.gen /\ s'.stopping = s.stopping
         /\ s'.starting = s.starting /\ s'.released = s.released /\ s'.final = s.final
         /\ s'.focus = TRUE /\ s'.active = s.active /\ s'.rec = s.rec /\ s'.tgen = s.tgen
         /\ s'.ioRun = s.ioRun /\ s'.playRun = s.playRun /\ s'.reconnect = s.reconnect
         /\ s'.announce = s.announce /\ s'.timed = s.timed /\ s'.playFailed = s.playFailed
         /\ s'.queue = s.queue
  BY DEF Service, Phases

\* What a bound connection sets, or one that is given up.
LEMMA BoundService ==
  ASSUME s \in Service,
         NEW t \in Nat,
         s' = [s EXCEPT !.tgen = t]
  PROVE  /\ s' \in Service
         /\ s'.phase = s.phase /\ s'.gen = s.gen /\ s'.stopping = s.stopping
         /\ s'.starting = s.starting /\ s'.released = s.released /\ s'.final = s.final
         /\ s'.focus = s.focus /\ s'.active = s.active /\ s'.rec = s.rec /\ s'.tgen = t
         /\ s'.ioRun = s.ioRun /\ s'.playRun = s.playRun /\ s'.reconnect = s.reconnect
         /\ s'.announce = s.announce /\ s'.timed = s.timed /\ s'.playFailed = s.playFailed
         /\ s'.queue = s.queue
  BY DEF Service, Phases

\* What a wake word during a session sets.
LEMMA MarkedService ==
  ASSUME s \in Service,
         NEW p \in Phases,
         s' = [s EXCEPT !.phase = p]
  PROVE  /\ s' \in Service
         /\ s'.phase = p /\ s'.gen = s.gen /\ s'.stopping = s.stopping
         /\ s'.starting = s.starting /\ s'.released = s.released /\ s'.final = s.final
         /\ s'.focus = s.focus /\ s'.active = s.active /\ s'.rec = s.rec /\ s'.tgen = s.tgen
         /\ s'.ioRun = s.ioRun /\ s'.playRun = s.playRun /\ s'.reconnect = s.reconnect
         /\ s'.announce = s.announce /\ s'.timed = s.timed /\ s'.playFailed = s.playFailed
         /\ s'.queue = s.queue
  BY DEF Service, Phases

\* What the end of an attempt sets.
LEMMA EndedService ==
  ASSUME s \in Service,
         s' = [s EXCEPT !.starting = FALSE]
  PROVE  /\ s' \in Service
         /\ s'.phase = s.phase /\ s'.gen = s.gen /\ s'.stopping = s.stopping
         /\ s'.starting = FALSE /\ s'.released = s.released /\ s'.final = s.final
         /\ s'.focus = s.focus /\ s'.active = s.active /\ s'.rec = s.rec /\ s'.tgen = s.tgen
         /\ s'.ioRun = s.ioRun /\ s'.playRun = s.playRun /\ s'.reconnect = s.reconnect
         /\ s'.announce = s.announce /\ s'.timed = s.timed /\ s'.playFailed = s.playFailed
         /\ s'.queue = s.queue
  BY DEF Service, Phases

\* What a write takes.
LEMMA TakenService ==
  ASSUME s \in Service,
         s' = [s EXCEPT !.queue = FALSE]
  PROVE  /\ s' \in Service
         /\ s'.phase = s.phase /\ s'.gen = s.gen /\ s'.stopping = s.stopping
         /\ s'.starting = s.starting /\ s'.released = s.released /\ s'.final = s.final
         /\ s'.focus = s.focus /\ s'.active = s.active /\ s'.rec = s.rec /\ s'.tgen = s.tgen
         /\ s'.ioRun = s.ioRun /\ s'.playRun = s.playRun /\ s'.reconnect = s.reconnect
         /\ s'.announce = s.announce /\ s'.timed = s.timed /\ s'.playFailed = s.playFailed
         /\ s'.queue = FALSE
  BY DEF Service, Phases

\* What a failed write sets.
LEMMA FailedService ==
  ASSUME s \in Service,
         s' = [s EXCEPT !.playFailed = TRUE]
  PROVE  /\ s' \in Service
         /\ s'.phase = s.phase /\ s'.gen = s.gen /\ s'.stopping = s.stopping
         /\ s'.starting = s.starting /\ s'.released = s.released /\ s'.final = s.final
         /\ s'.focus = s.focus /\ s'.active = s.active /\ s'.rec = s.rec /\ s'.tgen = s.tgen
         /\ s'.ioRun = s.ioRun /\ s'.playRun = s.playRun /\ s'.reconnect = s.reconnect
         /\ s'.announce = s.announce /\ s'.timed = s.timed /\ s'.playFailed = TRUE
         /\ s'.queue = s.queue
  BY DEF Service, Phases

\* What the end of an attempt sets that completes a stop.
LEMMA EndedAndCompleted ==
  ASSUME s \in Service,
         s' = [s EXCEPT !.starting = FALSE, !.phase = s.final, !.stopping = FALSE,
                       !.released = FALSE]
  PROVE  /\ s' \in Service
         /\ s'.phase = s.final /\ s'.gen = s.gen /\ s'.stopping = FALSE /\ s'.starting = FALSE
         /\ s'.released = FALSE /\ s'.final = s.final /\ s'.focus = s.focus
         /\ s'.active = s.active /\ s'.rec = s.rec /\ s'.tgen = s.tgen /\ s'.ioRun = s.ioRun
         /\ s'.playRun = s.playRun /\ s'.reconnect = s.reconnect /\ s'.announce = s.announce
         /\ s'.timed = s.timed /\ s'.playFailed = s.playFailed /\ s'.queue = s.queue
  BY DEF Service, Phases

\* What the end of the cleaner sets that completes a stop.
LEMMA ReleasedAndCompleted ==
  ASSUME s \in Service,
         s' = [s EXCEPT !.focus = FALSE, !.active = FALSE, !.rec = FALSE, !.released = FALSE,
                       !.phase = s.final, !.stopping = FALSE]
  PROVE  /\ s' \in Service
         /\ s'.phase = s.final /\ s'.gen = s.gen /\ s'.stopping = FALSE
         /\ s'.starting = s.starting /\ s'.released = FALSE /\ s'.final = s.final
         /\ s'.focus = FALSE /\ s'.active = FALSE /\ s'.rec = FALSE /\ s'.tgen = s.tgen
         /\ s'.ioRun = s.ioRun /\ s'.playRun = s.playRun /\ s'.reconnect = s.reconnect
         /\ s'.announce = s.announce /\ s'.timed = s.timed /\ s'.playFailed = s.playFailed
         /\ s'.queue = s.queue
  BY DEF Service, Phases
LEMMA InvParts ==
  ASSUME VoiceInv
  PROVE  /\ s \in Service /\ TaskTypes /\ StarterTypes /\ CleanerTypes /\ LinkTypes
         /\ CoordTypes /\ RareTypes
         /\ Roles /\ Stopped /\ Rested /\ HeldOwned /\ Attempted /\ InSession /\ Coordinated
  BY DEF VoiceInv, ServiceTypes

(***************************************************************************)
(* What kinds of steps keep the invariant.                                  *)
(***************************************************************************)
\* A stop, whoever carries it out.
LEMMA FinishKeeps ==
  ASSUME VoiceInv, NEW by \in {"ext", "start", "io"}, NEW final \in {"idle", "error"},
         Finish(by, final),
         TaskTypes', StarterTypes', LinkTypes', CoordTypes', RareTypes',
         held' = held, tasks'.play = tasks.play,
         by # "io" => tasks'.io = tasks.io,
         by = "io" => tasks'.io = "cleaning",
         by # "start" => starter' = starter,
         by = "start" => /\ starter.pc \in Attempt \ {"recorded", "focused"}
                         /\ starter'.pc = "cleaning",
         coord'.state \in AtWork => coord.state \in AtWork /\ coord'.inter = coord.inter
  PROVE  VoiceInv'
<1>1. /\ s \in Service /\ TaskTypes /\ StarterTypes /\ CleanerTypes
      /\ Roles /\ Stopped /\ Rested /\ HeldOwned /\ Attempted /\ InSession /\ Coordinated
  BY InvParts
<1>2. /\ s' \in Service
      /\ s'.phase = s.phase /\ s'.gen = s.gen + 1 /\ s'.stopping
      /\ s'.starting = s.starting /\ ~s'.released /\ s'.focus = s.focus
      /\ s'.active = s.active /\ s'.rec = s.rec
      /\ ~s'.ioRun /\ ~s'.playRun /\ ~s'.reconnect /\ ~s'.queue
  <2>1. s' = [s EXCEPT !.stopping = TRUE, !.released = FALSE, !.final = final, !.gen = @ + 1,
                       !.announce = FALSE, !.ioRun = FALSE, !.playRun = FALSE,
                       !.reconnect = FALSE, !.tgen = 0, !.timed = FALSE, !.queue = FALSE]
    BY DEF Finish
  <2>2. s \in Service
    BY <1>1
  <2> QED
    BY <2>1, <2>2, FinishedService
<1>3. /\ cleaner' = [by |-> by, step |-> "record", inter |-> s.gen, focus |-> s.focus,
                     rec |-> s.rec]
      /\ ~s.stopping /\ events' = {}
  BY DEF Finish
<1>4. CleanerTypes'
  BY <1>1, <1>3 DEF CleanerTypes, Service
<1>5. /\ cleaner'.by = by /\ cleaner'.step = "record" /\ cleaner'.inter = s.gen
      /\ cleaner'.focus = s.focus /\ cleaner'.rec = s.rec
  BY <1>3
<1>6. cleaner = NoCleaner /\ cleaner.by = "none" /\ cleaner.step = "none"
  BY <1>1, <1>3 DEF Roles, NoCleaner
<1>7. Roles'
  BY <1>1, <1>2, <1>5, <1>6 DEF Roles, Attempt, BeforeFocus, AfterFocus
<1>8. Stopped'
  BY <1>2, <1>3, <1>5 DEF Stopped
<1>9. Rested'
  BY <1>2 DEF Rested
<1>10. HeldOwned'
  BY <1>1, <1>2, <1>3, <1>5, <1>6 DEF HeldOwned, BeforeFocus
<1>11. Attempted'
  BY <1>1, <1>2 DEF Attempted, Attempt, BeforeFocus, AfterFocus
<1>12. InSession'
  BY <1>2 DEF InSession
<1>13. Coordinated'
  BY <1>1, <1>2, <1>3, <1>5 DEF Coordinated
<1> QED
  BY <1>2, <1>4, <1>7, <1>8, <1>9, <1>10, <1>11, <1>12, <1>13 DEF VoiceInv, ServiceTypes

\* A step outside the service: of the connection, of the report on its way, of the budget.
LEMMA OutsideKeeps ==
  ASSUME VoiceInv, UNCHANGED <<s, held, tasks, starter, cleaner, coord>>,
         LinkTypes', RareTypes',
         net.link = "none" => net'.link = "none",
         ~s.ioRun => events' = {}
  PROVE  VoiceInv'
<1>1. /\ s \in Service /\ TaskTypes /\ StarterTypes /\ CleanerTypes /\ CoordTypes
      /\ Roles /\ Stopped /\ Rested /\ HeldOwned /\ Attempted /\ InSession /\ Coordinated
  BY InvParts
<1>2. Stopped'
  BY <1>1 DEF Stopped
<1>3. Rested'
  BY <1>1 DEF Rested, AtRest
<1>4. Coordinated'
  BY <1>1 DEF Coordinated, Wanted, Current, AtRest
<1>5. Roles' /\ HeldOwned' /\ Attempted' /\ InSession'
  BY <1>1 DEF Roles, HeldOwned, Attempted, InSession, AtRest
<1>6. ServiceTypes' /\ TaskTypes' /\ StarterTypes' /\ CleanerTypes' /\ CoordTypes'
  BY <1>1 DEF ServiceTypes, TaskTypes, StarterTypes, CleanerTypes, CoordTypes
<1> QED
  BY <1>2, <1>3, <1>4, <1>5, <1>6 DEF VoiceInv

\* A step of the I/O task from one place of its loop to another, the service unchanged.
LEMMA IoMovesKeeps ==
  ASSUME VoiceInv, UNCHANGED <<s, held, starter, cleaner>>,
         TaskTypes', LinkTypes', CoordTypes', RareTypes',
         tasks.io \notin {"none", "cleaning"}, tasks'.io \notin {"none", "cleaning"},
         tasks'.play = tasks.play,
         net.link = "none" => net'.link = "none",
         ~s.ioRun => events' = {},
         coord' = coord \/ (s.stopping /\ coord'.state \notin AtWork),
         tasks'.io \in RetryPlaces /\ ~s.stopping => Wanted,
         tasks'.io \in {"sending", "commit", "adopt"} /\ ~s.stopping => s.tgen = tasks'.net
  PROVE  VoiceInv'
<1>1. /\ s \in Service /\ TaskTypes /\ StarterTypes /\ CleanerTypes /\ CoordTypes
      /\ Roles /\ Stopped /\ Rested /\ HeldOwned /\ Attempted /\ InSession /\ Coordinated
  BY InvParts
<1>2. Stopped'
  BY <1>1 DEF Stopped
<1>3. Rested'
  BY <1>1 DEF Rested, AtRest
<1>4. Coordinated'
  BY <1>1 DEF Coordinated, Wanted, Current, AtRest
<1>5. Roles' /\ HeldOwned'
  BY <1>1 DEF Roles, HeldOwned
<1>6. Attempted'
  BY <1>1 DEF Attempted, AtRest
<1>7. InSession'
  BY <1>1 DEF InSession, AtRest
<1>8. ServiceTypes' /\ StarterTypes' /\ CleanerTypes'
  BY <1>1 DEF ServiceTypes, StarterTypes, CleanerTypes
<1> QED
  BY <1>2, <1>3, <1>4, <1>5, <1>6, <1>7, <1>8 DEF VoiceInv

\* A step of the start attempt that acquires a thing, gives one back or moves on, the
\* service unchanged.
LEMMA StarterMovesKeeps ==
  ASSUME VoiceInv, UNCHANGED <<s, tasks, cleaner, coord>>,
         StarterTypes', TaskTypes', LinkTypes', RareTypes',
         starter'.gen = starter.gen,
         starter.pc \notin {"none", "cleaning"}, starter'.pc \notin {"none", "cleaning"},
         net.link = "none" => net'.link = "none" \/ (~s.stopping /\ ~AtRest),
         ~s.ioRun => events' = {},
         held'.rec => starter'.pc = "recorded" \/ (held.rec /\ starter.pc # "recorded"),
         held'.focus => starter'.pc = "focused" \/ (held.focus /\ starter.pc # "focused"),
         starter'.pc = "focused" => held'.focus,
         held.focus => held'.focus \/ ~s.focus \/ s.stopping,
         starter'.pc \in Attempt => starter.pc \in Attempt,
         starter'.pc \in BeforeFocus => starter.pc \in BeforeFocus,
         starter'.pc \in AfterFocus => starter.pc \in AfterFocus,
         starter'.pc \in HasIoTask => starter.pc \in HasIoTask,
         starter'.pc \in HasPlayTask => starter.pc \in HasPlayTask,
         starter.pc \in Attempt /\ starter'.pc \notin Attempt => s.stopping,
         starter'.pc \in {"again", "mark"} => starter.pc \in {"again", "mark"}
  PROVE  VoiceInv'
<1>1. /\ s \in Service /\ TaskTypes /\ StarterTypes /\ CleanerTypes /\ CoordTypes
      /\ Roles /\ Stopped /\ Rested /\ HeldOwned /\ Attempted /\ InSession /\ Coordinated
  BY InvParts
<1>2. Stopped'
  BY <1>1 DEF Stopped
<1>3. Rested'
  BY <1>1 DEF Rested, AtRest
<1>4. Coordinated'
  BY <1>1 DEF Coordinated, Wanted, Current, AtRest
<1>5. Roles'
  BY <1>1 DEF Roles
<1>6. HeldOwned'
  BY <1>1 DEF HeldOwned
<1>7. Attempted'
  BY <1>1 DEF Attempted, AtRest
<1>8. InSession'
  BY <1>1 DEF InSession, AtRest
<1>9. ServiceTypes' /\ CleanerTypes' /\ CoordTypes'
  BY <1>1 DEF ServiceTypes, CleanerTypes, CoordTypes
<1> QED
  BY <1>2, <1>3, <1>4, <1>5, <1>6, <1>7, <1>8, <1>9 DEF VoiceInv

(***************************************************************************)
(* Types.                                                                  *)
(***************************************************************************)
LEMMA SpendKeepsRare ==
  ASSUME RareTypes, NEW what \in Rare, SpendTalk(what)
  PROVE  RareTypes'
  BY DEF RareTypes, SpendTalk

LEMMA FailingKeepsRare ==
  ASSUME RareTypes, Failing
  PROVE  RareTypes'
  BY SpendKeepsRare DEF Failing, Rare

LEMMA ClosedLink ==
  ASSUME LinkTypes
  PROVE  LinkClosed \in Links /\ LinkClosed.link = "none"
  BY DEF LinkTypes, LinkClosed, Links

LEMMA OpeningTyped ==
  ASSUME LinkTypes, Opening
  PROVE  net' \in Links /\ claim' \in Claims
<1>1. LinkClosed.gen \in Nat
  BY ClosedLink DEF Links
<1>2. LinkClosed.gen + 1 \in Nat
  BY <1>1
<1> QED
  BY <1>2 DEF Opening, Links, Claims

LEMMA SendFailsTyped ==
  ASSUME LinkTypes, RareTypes, NEW gen, SendFails(gen)
  PROVE  claim' \in Claims /\ RareTypes'
<1>1. claim' \in Claims
  BY DEF SendFails, LinkTypes, Claims
<1>2. CASE Connected(gen)
  <2>1. SpendTalk("faults")
    BY <1>2 DEF SendFails, SpendTalk
  <2> QED
    BY <1>1, <2>1, SpendKeepsRare DEF Rare
<1>3. CASE ~Connected(gen)
  <2>1. rare' = rare
    BY <1>3 DEF SendFails
  <2> QED
    BY <1>1, <2>1 DEF RareTypes
<1> QED
  BY <1>1, <1>2, <1>3

LEMMA StarterTyped ==
  ASSUME StarterTypes, NEW pc, StarterTo(pc),
         pc \in {"none", "admit", "again", "mark", "cleaning", "end"} \cup Attempt
  PROVE  StarterTypes' /\ starter'.pc = pc /\ starter'.gen = starter.gen
         /\ starter'.kind = starter.kind /\ starter'.net = starter.net
  BY DEF StarterTypes, StarterTo

LEMMA IoTyped ==
  ASSUME TaskTypes, UNCHANGED held, NEW pc, AtIo(pc),
         pc \in {"none", "loop", "cleaning", "draining", "closing"} \cup RetryPlaces
  PROVE  TaskTypes' /\ tasks'.io = pc /\ tasks'.play = tasks.play /\ tasks'.net = tasks.net
  BY DEF TaskTypes, AtIo

(***************************************************************************)
(* The steps outside the service.                                          *)
(***************************************************************************)
LEMMA NetReadyKeeps ==
  ASSUME VoiceInv, NetReady
  PROVE  VoiceInv'
<1>1. LinkTypes /\ RareTypes /\ Stopped
  BY InvParts
<1>2. LinkTypes'
  BY <1>1 DEF LinkTypes, NetReady, Links
<1>3. RareTypes'
  BY <1>1 DEF RareTypes, NetReady
<1> QED
  BY <1>1, <1>2, <1>3, OutsideKeeps DEF NetReady, Stopped

LEMMA LatchKeeps ==
  ASSUME VoiceInv, NEW kind \in {"error", "finished"}, NEW link \in {"dead", "ended"},
         NEW retry \in BOOLEAN, Latch(kind, link, retry), net.link # "none"
  PROVE  VoiceInv'
<1>1. LinkTypes /\ RareTypes /\ Stopped
  BY InvParts
<1>2. net' \in Links /\ claim' \in Claims
  BY <1>1 DEF Latch, LinkTypes, Links, Claims
<1>3. report' \in Reports
  BY <1>1 DEF Latch, LinkTypes, Links, Reports
<1>4. RareTypes'
  BY <1>1, SpendKeepsRare DEF Latch, Rare
<1>5. UNCHANGED <<s, held, tasks, starter, cleaner, events, coord>>
  BY DEF Latch
<1> QED
  BY <1>1, <1>2, <1>3, <1>4, <1>5, OutsideKeeps DEF Stopped, LinkTypes

LEMMA DeliverKeeps ==
  ASSUME VoiceInv, Deliver
  PROVE  VoiceInv'
<1>1. LinkTypes /\ RareTypes /\ Stopped
  BY InvParts
<1>2. LinkTypes'
  BY <1>1 DEF LinkTypes, Deliver, NoReport, Reports
<1>3. RareTypes'
  BY <1>1 DEF RareTypes, Deliver
<1>4. ~s.ioRun => events' = {}
  BY <1>1 DEF Deliver, Accepted, Stopped
<1> QED
  BY <1>2, <1>3, <1>4, OutsideKeeps DEF Deliver

\* A recorder that stops by itself.
LEMMA RecorderDiesKeeps ==
  ASSUME VoiceInv, RecorderDies
  PROVE  VoiceInv'
<1>1. /\ s \in Service /\ TaskTypes /\ StarterTypes /\ CleanerTypes /\ LinkTypes /\ CoordTypes
      /\ RareTypes
      /\ Roles /\ Stopped /\ Rested /\ HeldOwned /\ Attempted /\ InSession /\ Coordinated
  BY InvParts
<1>2. UNCHANGED <<s, tasks, starter, cleaner, events, coord, net, claim, report>>
  BY DEF RecorderDies, outside
<1>3. TaskTypes' /\ ~held'.rec /\ held'.focus = held.focus
  BY <1>1 DEF RecorderDies, TaskTypes
<1>4. RareTypes'
  BY <1>1, FailingKeepsRare DEF RecorderDies
<1>5. HeldOwned'
  BY <1>1, <1>2, <1>3 DEF HeldOwned
<1>6. Roles' /\ Stopped' /\ Rested' /\ Attempted' /\ InSession'
  BY <1>1, <1>2 DEF Roles, Stopped, Rested, Attempted, InSession, AtRest
<1>7. Coordinated'
  BY <1>1, <1>2 DEF Coordinated, Wanted, Current, AtRest
<1>8. ServiceTypes' /\ StarterTypes' /\ CleanerTypes' /\ LinkTypes' /\ CoordTypes'
  BY <1>1, <1>2 DEF ServiceTypes, StarterTypes, CleanerTypes, LinkTypes, CoordTypes
<1> QED
  BY <1>3, <1>4, <1>5, <1>6, <1>7, <1>8 DEF VoiceInv

\* A stop from outside, or by the watchdog.
LEMMA StopKeeps ==
  ASSUME VoiceInv, Finish("ext", "idle"),
         UNCHANGED <<held, tasks, starter, net, claim, report, coord>>, RareTypes'
  PROVE  VoiceInv'
<1>1. TaskTypes /\ StarterTypes /\ LinkTypes /\ CoordTypes
  BY InvParts
<1>2. events' = {}
  BY DEF Finish
<1>3. TaskTypes' /\ StarterTypes' /\ LinkTypes' /\ CoordTypes'
  BY <1>1, <1>2 DEF TaskTypes, StarterTypes, LinkTypes, CoordTypes
<1> QED
  BY <1>3, FinishKeeps

(***************************************************************************)
(* The start attempt.                                                      *)
(***************************************************************************)
\* A step that fails, whether or not a stop overtook the attempt.
LEMMA GiveUpKeeps ==
  ASSUME VoiceInv, NEW final \in {"idle", "error"}, GiveUp(final),
         starter.pc \in Attempt \ {"recorded", "focused"},
         UNCHANGED <<held, tasks, coord, report>>, net' \in Links, claim' \in Claims,
         RareTypes', net.link = "none" => net'.link = "none"
  PROVE  VoiceInv'
<1>1. /\ TaskTypes /\ StarterTypes /\ LinkTypes /\ CoordTypes /\ Attempted /\ Stopped
      /\ HeldOwned
  BY InvParts
<1>2. TaskTypes' /\ CoordTypes'
  BY <1>1 DEF TaskTypes, CoordTypes
<1>3. CASE Finish("start", final) /\ StarterTo("cleaning")
  <2>1. StarterTypes' /\ starter'.pc = "cleaning"
    BY <1>1, <1>3, StarterTyped
  <2>2. LinkTypes'
    BY <1>1, <1>3 DEF Finish, LinkTypes
  <2> QED
    BY <1>2, <1>3, <2>1, <2>2, FinishKeeps
<1>4. CASE /\ s.gen # starter.gen \/ s.stopping
           /\ StarterTo("end") /\ UNCHANGED <<s, cleaner, events>>
  <2>1. s.stopping
    BY <1>1, <1>4 DEF Attempted
  <2>2. StarterTypes' /\ starter'.pc = "end" /\ starter'.gen = starter.gen
    BY <1>1, <1>4, StarterTyped
  <2>3. LinkTypes'
    BY <1>1, <1>4 DEF LinkTypes
  <2>4. ~s.ioRun => events' = {}
    BY <1>1, <1>4 DEF Stopped
  <2>5. starter.pc \notin {"none", "cleaning"}
    BY DEF Attempt, BeforeFocus, AfterFocus
  <2>6. starter'.pc \notin Attempt \cup BeforeFocus \cup AfterFocus \cup HasIoTask \cup HasPlayTask
    BY <2>2 DEF Attempt, BeforeFocus, AfterFocus, HasIoTask, HasPlayTask
  <2> QED
    BY <1>2, <1>4, <2>1, <2>2, <2>3, <2>4, <2>5, <2>6, StarterMovesKeeps
<1> QED
  BY <1>3, <1>4 DEF GiveUp

\* StartInteraction takes the attempt.
LEMMA WakeKeeps ==
  ASSUME VoiceInv, Wake
  PROVE  VoiceInv'
<1>1. /\ s \in Service /\ TaskTypes /\ StarterTypes /\ CleanerTypes /\ LinkTypes /\ CoordTypes
      /\ RareTypes
      /\ Roles /\ Stopped /\ Rested /\ HeldOwned /\ Attempted /\ InSession /\ Coordinated
  BY InvParts
<1>2. s' = [s EXCEPT !.starting = TRUE] /\ ~s.starting /\ (AlreadyActive \/ Vacant)
  BY DEF Wake
<1>3. /\ s' \in Service /\ s'.phase = s.phase /\ s'.gen = s.gen /\ s'.stopping = s.stopping
      /\ s'.starting /\ s'.released = s.released /\ s'.focus = s.focus
      /\ s'.active = s.active /\ s'.rec = s.rec /\ s'.tgen = s.tgen
      /\ s'.ioRun = s.ioRun /\ s'.playRun = s.playRun /\ s'.reconnect = s.reconnect
      /\ s'.queue = s.queue
  BY <1>1, <1>2, StartingService
<1>4. UNCHANGED <<held, tasks, cleaner, events, coord, net, claim, report>>
  BY DEF Wake, outside
<1>5. StarterTypes' /\ starter'.pc \in {"again", "admit"}
      /\ (starter'.pc = "again" => AlreadyActive)
  BY <1>1 DEF Wake, StarterTypes, Service
<1>6. starter.pc = "none"
  BY <1>1, <1>2 DEF Roles
<1>7. RareTypes'
  BY <1>1, SpendKeepsRare DEF Wake, Rare
<1>8. AlreadyActive => ~AtRest
  BY <1>1 DEF AlreadyActive, Rested
<1>9. Roles'
  BY <1>1, <1>2, <1>3, <1>4, <1>5, <1>6, <1>7, <1>8 DEF Roles, NoCleaner, Attempt,
     BeforeFocus, AfterFocus, HasIoTask, HasPlayTask
<1>10. Stopped'
  BY <1>1, <1>2, <1>3, <1>4, <1>5, <1>6, <1>7, <1>8 DEF Stopped
<1>11. Rested'
  BY <1>1, <1>2, <1>3, <1>4, <1>5, <1>6, <1>7, <1>8 DEF Rested, AtRest
<1>12. HeldOwned'
  BY <1>1, <1>2, <1>3, <1>4, <1>5, <1>6, <1>7, <1>8 DEF HeldOwned, Attempt, BeforeFocus,
     AfterFocus, HasIoTask, HasPlayTask
<1>13. Attempted'
  BY <1>1, <1>2, <1>3, <1>4, <1>5, <1>6, <1>7, <1>8 DEF Attempted, AtRest, Attempt,
     BeforeFocus, AfterFocus, HasIoTask, HasPlayTask
<1>14. InSession'
  BY <1>1, <1>2, <1>3, <1>4, <1>5, <1>6, <1>7, <1>8 DEF InSession, AtRest, Attempt,
     BeforeFocus, AfterFocus, HasIoTask, HasPlayTask
<1>15. Coordinated'
  BY <1>1, <1>2, <1>3, <1>4, <1>5, <1>6, <1>7, <1>8 DEF Coordinated, AtRest, Wanted,
     Current, RetryPlaces, AtWork, Attempt, BeforeFocus, AfterFocus, HasIoTask, HasPlayTask
<1>16. ServiceTypes' /\ CleanerTypes' /\ TaskTypes' /\ LinkTypes' /\ CoordTypes'
  BY <1>1, <1>2, <1>3, <1>4, <1>5, <1>6, <1>7, <1>8 DEF ServiceTypes, CleanerTypes,
     TaskTypes, LinkTypes, CoordTypes
<1> QED
  BY <1>2, <1>3, <1>4, <1>5, <1>6, <1>7, <1>8, <1>9, <1>10, <1>11, <1>12, <1>13,
     <1>14, <1>15, <1>16 DEF VoiceInv

\* StartAnnounce takes the attempt and the interaction.
LEMMA AnnounceKeeps ==
  ASSUME VoiceInv, Announce
  PROVE  VoiceInv'
<1>1. /\ s \in Service /\ TaskTypes /\ StarterTypes /\ CleanerTypes /\ LinkTypes /\ CoordTypes
      /\ RareTypes
      /\ Roles /\ Stopped /\ Rested /\ HeldOwned /\ Attempted /\ InSession /\ Coordinated
  BY InvParts
<1>2. Connecting(TRUE) /\ Vacant /\ ~s.starting
  BY DEF Announce, Vacant
<1>3. /\ s' \in Service /\ s'.phase = "connecting" /\ s'.gen = s.gen + 1
      /\ s'.stopping = s.stopping /\ s'.starting /\ s'.released = s.released
      /\ s'.focus = s.focus /\ s'.active = s.active /\ s'.rec = s.rec
      /\ s'.tgen = s.tgen /\ s'.ioRun = s.ioRun /\ s'.playRun = s.playRun
      /\ s'.reconnect = s.reconnect /\ s'.queue = s.queue /\ s'.announce = TRUE
  BY <1>1, <1>2, ConnectingService DEF Connecting
<1>4. UNCHANGED <<held, tasks, cleaner, events, coord, net, claim, report>>
  BY DEF Announce, outside
<1>5. s.gen + 1 \in Nat /\ s.gen + 1 # 0
  BY <1>1 DEF Service
<1>6. StarterTypes' /\ starter'.pc = "prepare" /\ starter'.gen = s.gen + 1
  BY <1>5 DEF Announce, StarterTypes, Attempt, BeforeFocus, AfterFocus, HasIoTask,
     HasPlayTask
<1>7. starter.pc = "none"
  BY <1>1, <1>2 DEF Roles
<1>8. RareTypes'
  BY <1>1, SpendKeepsRare DEF Announce, Rare
<1>9. ~s.stopping /\ AtRest /\ tasks.play = "none"
  BY <1>2 DEF Vacant
<1>10. ~s.focus /\ ~s.queue /\ ~s.active /\ ~s.reconnect /\ ~cleaner.focus
  BY <1>1, <1>2 DEF Rested, Roles, NoCleaner, Vacant
<1>11. Roles'
  BY <1>1, <1>2, <1>3, <1>4, <1>5, <1>6, <1>7, <1>8, <1>9, <1>10 DEF Roles, NoCleaner,
     Attempt, BeforeFocus, AfterFocus, HasIoTask, HasPlayTask
<1>12. Stopped'
  BY <1>1, <1>2, <1>3, <1>4, <1>5, <1>6, <1>7, <1>8, <1>9, <1>10 DEF Stopped
<1>13. Rested'
  BY <1>1, <1>2, <1>3, <1>4, <1>5, <1>6, <1>7, <1>8, <1>9, <1>10 DEF Rested, AtRest
<1>14. HeldOwned'
  BY <1>1, <1>2, <1>3, <1>4, <1>5, <1>6, <1>7, <1>8, <1>9, <1>10 DEF HeldOwned, Attempt,
     BeforeFocus, AfterFocus, HasIoTask, HasPlayTask
<1>15. Attempted'
  BY <1>1, <1>2, <1>3, <1>4, <1>5, <1>6, <1>7, <1>8, <1>9, <1>10 DEF Attempted,
     AtRest, Attempt, BeforeFocus, AfterFocus, HasIoTask, HasPlayTask
<1>16. InSession'
  BY <1>1, <1>2, <1>3, <1>4, <1>5, <1>6, <1>7, <1>8, <1>9, <1>10 DEF InSession,
     AtRest, Attempt, BeforeFocus, AfterFocus, HasIoTask, HasPlayTask
<1>17. Coordinated'
  BY <1>1, <1>2, <1>3, <1>4, <1>5, <1>6, <1>7, <1>8, <1>9, <1>10 DEF Coordinated,
     AtRest, Wanted, Current, RetryPlaces, AtWork, Attempt, BeforeFocus, AfterFocus,
     HasIoTask, HasPlayTask
<1>18. ServiceTypes' /\ CleanerTypes' /\ TaskTypes' /\ LinkTypes' /\ CoordTypes'
  BY <1>1, <1>2, <1>3, <1>4, <1>5, <1>6, <1>7, <1>8, <1>9, <1>10 DEF ServiceTypes,
     CleanerTypes, TaskTypes, LinkTypes, CoordTypes
<1> QED
  BY <1>2, <1>3, <1>4, <1>5, <1>6, <1>7, <1>8, <1>9, <1>10, <1>11, <1>12, <1>13,
     <1>14, <1>15, <1>16, <1>17, <1>18 DEF VoiceInv

\* An admitted wake word takes the interaction.
LEMMA AdmitKeeps ==
  ASSUME VoiceInv, VoiceAdmit,
         ~(s.stopping \/ tasks.io # "none" \/ tasks.play # "none" \/ ~AtRest)
  PROVE  VoiceInv'
<1>1. /\ s \in Service /\ TaskTypes /\ StarterTypes /\ CleanerTypes /\ LinkTypes /\ CoordTypes
      /\ RareTypes
      /\ Roles /\ Stopped /\ Rested /\ HeldOwned /\ Attempted /\ InSession /\ Coordinated
  BY InvParts
<1>2. Connecting(FALSE) /\ starter.pc = "admit"
  BY DEF VoiceAdmit
<1>3. /\ s' \in Service /\ s'.phase = "connecting" /\ s'.gen = s.gen + 1
      /\ s'.stopping = s.stopping /\ s'.starting /\ s'.released = s.released
      /\ s'.focus = s.focus /\ s'.active = s.active /\ s'.rec = s.rec
      /\ s'.tgen = s.tgen /\ s'.ioRun = s.ioRun /\ s'.playRun = s.playRun
      /\ s'.reconnect = s.reconnect /\ s'.queue = s.queue /\ s'.announce = FALSE
  BY <1>1, <1>2, ConnectingService DEF Connecting
<1>4. UNCHANGED <<held, tasks, cleaner, events, coord, rare, net, claim, report>>
  BY DEF VoiceAdmit, outside
<1>5. s.gen + 1 \in Nat /\ s.gen + 1 # 0
  BY <1>1 DEF Service
<1>6. StarterTypes' /\ starter'.pc = "record" /\ starter'.gen = s.gen + 1
  BY <1>1, <1>5 DEF VoiceAdmit, StarterTypes, Attempt, BeforeFocus, AfterFocus,
     HasIoTask, HasPlayTask
<1>7. ~s.focus /\ ~s.queue /\ ~s.active /\ ~s.reconnect /\ ~cleaner.focus
  BY <1>1, <1>2 DEF Rested, Roles, NoCleaner
<1>8. Roles'
  BY <1>1, <1>2, <1>3, <1>4, <1>5, <1>6, <1>7 DEF Roles, NoCleaner, Attempt,
     BeforeFocus, AfterFocus, HasIoTask, HasPlayTask
<1>9. Stopped'
  BY <1>1, <1>2, <1>3, <1>4, <1>5, <1>6, <1>7 DEF Stopped
<1>10. Rested'
  BY <1>1, <1>2, <1>3, <1>4, <1>5, <1>6, <1>7 DEF Rested, AtRest
<1>11. HeldOwned'
  BY <1>1, <1>2, <1>3, <1>4, <1>5, <1>6, <1>7 DEF HeldOwned, Attempt, BeforeFocus,
     AfterFocus, HasIoTask, HasPlayTask
<1>12. Attempted'
  BY <1>1, <1>2, <1>3, <1>4, <1>5, <1>6, <1>7 DEF Attempted, AtRest, Attempt,
     BeforeFocus, AfterFocus, HasIoTask, HasPlayTask
<1>13. InSession'
  BY <1>1, <1>2, <1>3, <1>4, <1>5, <1>6, <1>7 DEF InSession, AtRest, Attempt,
     BeforeFocus, AfterFocus, HasIoTask, HasPlayTask
<1>14. Coordinated'
  BY <1>1, <1>2, <1>3, <1>4, <1>5, <1>6, <1>7 DEF Coordinated, AtRest, Wanted,
     Current, RetryPlaces, AtWork, Attempt, BeforeFocus, AfterFocus, HasIoTask, HasPlayTask
<1>15. ServiceTypes' /\ CleanerTypes' /\ TaskTypes' /\ LinkTypes' /\ CoordTypes' /\ RareTypes'
  BY <1>1, <1>2, <1>3, <1>4, <1>5, <1>6, <1>7 DEF ServiceTypes, CleanerTypes,
     TaskTypes, LinkTypes, CoordTypes, RareTypes
<1> QED
  BY <1>2, <1>3, <1>4, <1>5, <1>6, <1>7, <1>8, <1>9, <1>10, <1>11, <1>12, <1>13,
     <1>14, <1>15 DEF VoiceInv

\* Recorded, for an attempt that is still wanted.
LEMMA RecordedInTime ==
  ASSUME VoiceInv, Recorded,
         MineStill
  PROVE  VoiceInv'
<1>1. /\ s \in Service /\ TaskTypes /\ StarterTypes /\ CleanerTypes /\ LinkTypes /\ CoordTypes
      /\ RareTypes
      /\ Roles /\ Stopped /\ Rested /\ HeldOwned /\ Attempted /\ InSession /\ Coordinated
  BY InvParts
<1>2. starter.pc = "recorded" /\ ~s.stopping /\ s' = [s EXCEPT !.rec = TRUE]
  BY DEF Recorded, MineStill, Mine, Current
<1>3. /\ s' \in Service /\ s'.phase = s.phase /\ s'.gen = s.gen
      /\ s'.stopping = s.stopping /\ s'.starting = s.starting
      /\ s'.released = s.released /\ s'.focus = s.focus /\ s'.active = s.active
      /\ s'.rec /\ s'.tgen = s.tgen /\ s'.ioRun = s.ioRun /\ s'.playRun = s.playRun
      /\ s'.reconnect = s.reconnect /\ s'.queue = s.queue /\ s'.announce = s.announce
  BY <1>1, <1>2, RecordingService
<1>4. UNCHANGED <<held, tasks, cleaner, events, coord, rare, net, claim, report>>
  BY DEF Recorded, outside
<1>5. /\ StarterTypes' /\ starter'.pc = "prepare"
      /\ starter'.gen = starter.gen /\ starter'.kind = starter.kind
  BY <1>1, StarterTyped DEF Recorded, Attempt, BeforeFocus, AfterFocus, HasIoTask,
     HasPlayTask
<1>6. starter'.pc # "none" /\ starter.pc # "none" /\ s.phase = "connecting"
  BY <1>2, <1>5 DEF MineStill
<1>7. Roles'
  BY <1>1, <1>2, <1>3, <1>4, <1>5, <1>6 DEF Roles, NoCleaner, Attempt, BeforeFocus,
     AfterFocus, HasIoTask, HasPlayTask
<1>8. Stopped'
  BY <1>1, <1>2, <1>3, <1>4, <1>5, <1>6 DEF Stopped
<1>9. Rested'
  BY <1>1, <1>2, <1>3, <1>4, <1>5, <1>6 DEF Rested, AtRest
<1>10. HeldOwned'
  BY <1>1, <1>2, <1>3, <1>4, <1>5, <1>6 DEF HeldOwned, Attempt, BeforeFocus, AfterFocus,
     HasIoTask, HasPlayTask
<1>11. Attempted'
  BY <1>1, <1>2, <1>3, <1>4, <1>5, <1>6 DEF Attempted, AtRest, Attempt, BeforeFocus,
     AfterFocus, HasIoTask, HasPlayTask
<1>12. InSession'
  BY <1>1, <1>2, <1>3, <1>4, <1>5, <1>6 DEF InSession, AtRest, Attempt, BeforeFocus,
     AfterFocus, HasIoTask, HasPlayTask
<1>13. Coordinated'
  BY <1>1, <1>2, <1>3, <1>4, <1>5, <1>6 DEF Coordinated, AtRest, Wanted, Current,
     RetryPlaces, AtWork, Attempt, BeforeFocus, AfterFocus, HasIoTask, HasPlayTask
<1>14. ServiceTypes' /\ CleanerTypes' /\ TaskTypes' /\ LinkTypes' /\ CoordTypes' /\ RareTypes'
  BY <1>1, <1>2, <1>3, <1>4, <1>5, <1>6 DEF ServiceTypes, CleanerTypes, TaskTypes,
     LinkTypes, CoordTypes, RareTypes
<1> QED
  BY <1>2, <1>3, <1>4, <1>5, <1>6, <1>7, <1>8, <1>9, <1>10, <1>11, <1>12, <1>13, <1>14
     DEF VoiceInv

\* Focused, for an attempt that is still wanted.
LEMMA FocusedInTime ==
  ASSUME VoiceInv, Focused,
         MineStill
  PROVE  VoiceInv'
<1>1. /\ s \in Service /\ TaskTypes /\ StarterTypes /\ CleanerTypes /\ LinkTypes /\ CoordTypes
      /\ RareTypes
      /\ Roles /\ Stopped /\ Rested /\ HeldOwned /\ Attempted /\ InSession /\ Coordinated
  BY InvParts
<1>2. starter.pc = "focused" /\ ~s.stopping /\ s' = [s EXCEPT !.focus = TRUE]
  BY DEF Focused, MineStill, Mine, Current
<1>3. /\ s' \in Service /\ s'.phase = s.phase /\ s'.gen = s.gen
      /\ s'.stopping = s.stopping /\ s'.starting = s.starting
      /\ s'.released = s.released /\ s'.focus /\ s'.active = s.active
      /\ s'.rec = s.rec /\ s'.tgen = s.tgen /\ s'.ioRun = s.ioRun
      /\ s'.playRun = s.playRun /\ s'.reconnect = s.reconnect /\ s'.queue = s.queue
      /\ s'.announce = s.announce
  BY <1>1, <1>2, FocusedService
<1>4. UNCHANGED <<held, tasks, cleaner, events, coord, rare, net, claim, report>>
  BY DEF Focused, outside
<1>5. /\ StarterTypes' /\ starter'.pc = "open"
      /\ starter'.gen = starter.gen /\ starter'.kind = starter.kind
  BY <1>1, StarterTyped DEF Focused, Attempt, BeforeFocus, AfterFocus, HasIoTask,
     HasPlayTask
<1>6. starter'.pc # "none" /\ starter.pc # "none" /\ s.phase = "connecting"
  BY <1>2, <1>5 DEF MineStill
<1>7. Roles'
  BY <1>1, <1>2, <1>3, <1>4, <1>5, <1>6 DEF Roles, NoCleaner, Attempt, BeforeFocus,
     AfterFocus, HasIoTask, HasPlayTask
<1>8. Stopped'
  BY <1>1, <1>2, <1>3, <1>4, <1>5, <1>6 DEF Stopped
<1>9. Rested'
  BY <1>1, <1>2, <1>3, <1>4, <1>5, <1>6 DEF Rested, AtRest
<1>10. HeldOwned'
  BY <1>1, <1>2, <1>3, <1>4, <1>5, <1>6 DEF HeldOwned, Attempt, BeforeFocus, AfterFocus,
     HasIoTask, HasPlayTask
<1>11. Attempted'
  BY <1>1, <1>2, <1>3, <1>4, <1>5, <1>6 DEF Attempted, AtRest, Attempt, BeforeFocus,
     AfterFocus, HasIoTask, HasPlayTask
<1>12. InSession'
  BY <1>1, <1>2, <1>3, <1>4, <1>5, <1>6 DEF InSession, AtRest, Attempt, BeforeFocus,
     AfterFocus, HasIoTask, HasPlayTask
<1>13. Coordinated'
  BY <1>1, <1>2, <1>3, <1>4, <1>5, <1>6 DEF Coordinated, AtRest, Wanted, Current,
     RetryPlaces, AtWork, Attempt, BeforeFocus, AfterFocus, HasIoTask, HasPlayTask
<1>14. ServiceTypes' /\ CleanerTypes' /\ TaskTypes' /\ LinkTypes' /\ CoordTypes' /\ RareTypes'
  BY <1>1, <1>2, <1>3, <1>4, <1>5, <1>6 DEF ServiceTypes, CleanerTypes, TaskTypes,
     LinkTypes, CoordTypes, RareTypes
<1> QED
  BY <1>2, <1>3, <1>4, <1>5, <1>6, <1>7, <1>8, <1>9, <1>10, <1>11, <1>12, <1>13, <1>14
     DEF VoiceInv

\* StartIoTask, for an attempt that is still wanted.
LEMMA StartIoTaskInTime ==
  ASSUME VoiceInv, MineStill,
         starter.pc = "io",
         s' = [s EXCEPT !.ioRun = TRUE],
         tasks' = [tasks EXCEPT !.io = "loop"],
         StarterTo("play"),
         UNCHANGED <<cleaner, events, rare, held, coord, net, claim, report>>
  PROVE  VoiceInv'
<1>1. /\ s \in Service /\ TaskTypes /\ StarterTypes /\ CleanerTypes /\ LinkTypes /\ CoordTypes
      /\ RareTypes
      /\ Roles /\ Stopped /\ Rested /\ HeldOwned /\ Attempted /\ InSession /\ Coordinated
  BY InvParts
<1>2. ~s.stopping /\ s.phase = "connecting"
  BY DEF MineStill, Mine, Current
<1>3. /\ s' \in Service /\ s'.phase = s.phase /\ s'.gen = s.gen
      /\ s'.stopping = s.stopping /\ s'.starting = s.starting
      /\ s'.released = s.released /\ s'.focus = s.focus /\ s'.active = s.active
      /\ s'.rec = s.rec /\ s'.tgen = s.tgen /\ s'.ioRun /\ s'.playRun = s.playRun
      /\ s'.reconnect = s.reconnect /\ s'.queue = s.queue /\ s'.announce = s.announce
  BY <1>1, IoService
<1>4. /\ StarterTypes' /\ starter'.pc = "play"
      /\ starter'.gen = starter.gen
  BY <1>1, StarterTyped DEF Attempt, BeforeFocus, AfterFocus, HasIoTask, HasPlayTask
<1>5. TaskTypes' /\ tasks'.io = "loop" /\ tasks'.play = tasks.play
  BY <1>1 DEF TaskTypes
<1>6. Roles'
  BY <1>1, <1>2, <1>3, <1>4, <1>5 DEF Roles, NoCleaner, Attempt, BeforeFocus,
     AfterFocus, HasIoTask, HasPlayTask
<1>7. Stopped'
  BY <1>1, <1>2, <1>3, <1>4, <1>5 DEF Stopped
<1>8. Rested'
  BY <1>1, <1>2, <1>3, <1>4, <1>5 DEF Rested, AtRest
<1>9. HeldOwned'
  BY <1>1, <1>2, <1>3, <1>4, <1>5 DEF HeldOwned, Attempt, BeforeFocus, AfterFocus,
     HasIoTask, HasPlayTask
<1>10. Attempted'
  BY <1>1, <1>2, <1>3, <1>4, <1>5 DEF Attempted, AtRest, Attempt, BeforeFocus,
     AfterFocus, HasIoTask, HasPlayTask
<1>11. InSession'
  BY <1>1, <1>2, <1>3, <1>4, <1>5 DEF InSession, AtRest, Attempt, BeforeFocus,
     AfterFocus, HasIoTask, HasPlayTask
<1>12. Coordinated'
  BY <1>1, <1>2, <1>3, <1>4, <1>5 DEF Coordinated, AtRest, Wanted, Current,
     RetryPlaces, AtWork, Attempt, BeforeFocus, AfterFocus, HasIoTask, HasPlayTask
<1>13. ServiceTypes' /\ CleanerTypes' /\ LinkTypes' /\ CoordTypes' /\ RareTypes'
  BY <1>1, <1>2, <1>3, <1>4, <1>5 DEF ServiceTypes, CleanerTypes, LinkTypes,
     CoordTypes, RareTypes
<1> QED
  BY <1>2, <1>3, <1>4, <1>5, <1>6, <1>7, <1>8, <1>9, <1>10, <1>11, <1>12, <1>13 DEF
     VoiceInv

\* StartPlaybackTask, for an attempt that is still wanted.
LEMMA StartPlaybackTaskInTime ==
  ASSUME VoiceInv, MineStill,
         starter.pc = "play",
         s' = [s EXCEPT !.playRun = TRUE],
         tasks' = [tasks EXCEPT !.play = "idle"],
         StarterTo("focus"),
         UNCHANGED <<cleaner, events, rare, held, coord, net, claim, report>>
  PROVE  VoiceInv'
<1>1. /\ s \in Service /\ TaskTypes /\ StarterTypes /\ CleanerTypes /\ LinkTypes /\ CoordTypes
      /\ RareTypes
      /\ Roles /\ Stopped /\ Rested /\ HeldOwned /\ Attempted /\ InSession /\ Coordinated
  BY InvParts
<1>2. ~s.stopping /\ s.phase = "connecting"
  BY DEF MineStill, Mine, Current
<1>3. /\ s' \in Service /\ s'.phase = s.phase /\ s'.gen = s.gen
      /\ s'.stopping = s.stopping /\ s'.starting = s.starting
      /\ s'.released = s.released /\ s'.focus = s.focus /\ s'.active = s.active
      /\ s'.rec = s.rec /\ s'.tgen = s.tgen /\ s'.ioRun = s.ioRun /\ s'.playRun
      /\ s'.reconnect = s.reconnect /\ s'.queue = s.queue /\ s'.announce = s.announce
  BY <1>1, PlayService
<1>4. /\ StarterTypes' /\ starter'.pc = "focus"
      /\ starter'.gen = starter.gen
  BY <1>1, StarterTyped DEF Attempt, BeforeFocus, AfterFocus, HasIoTask, HasPlayTask
<1>5. TaskTypes' /\ tasks'.play = "idle" /\ tasks'.io = tasks.io /\ tasks'.net = tasks.net
  BY <1>1 DEF TaskTypes
<1>6. Roles'
  BY <1>1, <1>2, <1>3, <1>4, <1>5 DEF Roles, NoCleaner, Attempt, BeforeFocus,
     AfterFocus, HasIoTask, HasPlayTask
<1>7. Stopped'
  BY <1>1, <1>2, <1>3, <1>4, <1>5 DEF Stopped
<1>8. Rested'
  BY <1>1, <1>2, <1>3, <1>4, <1>5 DEF Rested, AtRest
<1>9. HeldOwned'
  BY <1>1, <1>2, <1>3, <1>4, <1>5 DEF HeldOwned, Attempt, BeforeFocus, AfterFocus,
     HasIoTask, HasPlayTask
<1>10. Attempted'
  BY <1>1, <1>2, <1>3, <1>4, <1>5 DEF Attempted, AtRest, Attempt, BeforeFocus,
     AfterFocus, HasIoTask, HasPlayTask
<1>11. InSession'
  BY <1>1, <1>2, <1>3, <1>4, <1>5 DEF InSession, AtRest, Attempt, BeforeFocus,
     AfterFocus, HasIoTask, HasPlayTask
<1>12. Coordinated'
  BY <1>1, <1>2, <1>3, <1>4, <1>5 DEF Coordinated, AtRest, Wanted, Current,
     RetryPlaces, AtWork, Attempt, BeforeFocus, AfterFocus, HasIoTask, HasPlayTask
<1>13. ServiceTypes' /\ CleanerTypes' /\ LinkTypes' /\ CoordTypes' /\ RareTypes'
  BY <1>1, <1>2, <1>3, <1>4, <1>5 DEF ServiceTypes, CleanerTypes, LinkTypes,
     CoordTypes, RareTypes
<1> QED
  BY <1>2, <1>3, <1>4, <1>5, <1>6, <1>7, <1>8, <1>9, <1>10, <1>11, <1>12, <1>13 DEF
     VoiceInv

\* Bind, for an attempt that is still wanted.
LEMMA BindInTime ==
  ASSUME VoiceInv, Bind,
         MineStill
  PROVE  VoiceInv'
<1>1. /\ s \in Service /\ TaskTypes /\ StarterTypes /\ CleanerTypes /\ LinkTypes /\ CoordTypes
      /\ RareTypes
      /\ Roles /\ Stopped /\ Rested /\ HeldOwned /\ Attempted /\ InSession /\ Coordinated
  BY InvParts
<1>2. starter.pc = "opened" /\ ~s.stopping /\ s' = [s EXCEPT !.tgen = starter.net]
      /\ s.phase = "connecting"
  BY DEF Bind, MineStill, Mine, Current
<1>3. starter.net \in Nat
  BY <1>1 DEF StarterTypes
<1>4. /\ s' \in Service /\ s'.phase = s.phase /\ s'.gen = s.gen
      /\ s'.stopping = s.stopping /\ s'.starting = s.starting
      /\ s'.released = s.released /\ s'.focus = s.focus /\ s'.active = s.active
      /\ s'.rec = s.rec /\ s'.tgen = starter.net /\ s'.ioRun = s.ioRun
      /\ s'.playRun = s.playRun /\ s'.reconnect = s.reconnect /\ s'.queue = s.queue
      /\ s'.announce = s.announce
  BY <1>1, <1>2, <1>3, BoundService
<1>5. UNCHANGED <<held, tasks, cleaner, events, coord, rare, net, claim, report>>
  BY DEF Bind
<1>6. /\ StarterTypes' /\ starter'.pc = "send"
      /\ starter'.gen = starter.gen
  BY <1>1, StarterTyped DEF Bind, Attempt, BeforeFocus, AfterFocus, HasIoTask,
     HasPlayTask
<1>7. tasks.io \notin RetryPlaces
  BY <1>1, <1>2 DEF Coordinated, Attempted, Wanted, Attempt, BeforeFocus, AfterFocus,
     HasIoTask, HasPlayTask
<1>8. Roles'
  BY <1>1, <1>2, <1>3, <1>4, <1>5, <1>6, <1>7 DEF Roles, NoCleaner, Attempt,
     BeforeFocus, AfterFocus, HasIoTask, HasPlayTask
<1>9. Stopped'
  BY <1>1, <1>2, <1>3, <1>4, <1>5, <1>6, <1>7 DEF Stopped
<1>10. Rested'
  BY <1>1, <1>2, <1>3, <1>4, <1>5, <1>6, <1>7 DEF Rested, AtRest
<1>11. HeldOwned'
  BY <1>1, <1>2, <1>3, <1>4, <1>5, <1>6, <1>7 DEF HeldOwned, Attempt, BeforeFocus,
     AfterFocus, HasIoTask, HasPlayTask
<1>12. Attempted'
  BY <1>1, <1>2, <1>3, <1>4, <1>5, <1>6, <1>7 DEF Attempted, AtRest, Attempt,
     BeforeFocus, AfterFocus, HasIoTask, HasPlayTask
<1>13. InSession'
  BY <1>1, <1>2, <1>3, <1>4, <1>5, <1>6, <1>7 DEF InSession, AtRest, Attempt,
     BeforeFocus, AfterFocus, HasIoTask, HasPlayTask
<1>14. Coordinated'
  BY <1>1, <1>2, <1>3, <1>4, <1>5, <1>6, <1>7 DEF Coordinated, AtRest, Wanted,
     Current, RetryPlaces, AtWork, Attempt, BeforeFocus, AfterFocus, HasIoTask, HasPlayTask
<1>15. ServiceTypes' /\ CleanerTypes' /\ TaskTypes' /\ LinkTypes' /\ CoordTypes' /\ RareTypes'
  BY <1>1, <1>2, <1>3, <1>4, <1>5, <1>6, <1>7 DEF ServiceTypes, CleanerTypes,
     TaskTypes, LinkTypes, CoordTypes, RareTypes
<1> QED
  BY <1>2, <1>3, <1>4, <1>5, <1>6, <1>7, <1>8, <1>9, <1>10, <1>11, <1>12, <1>13,
     <1>14, <1>15 DEF VoiceInv

\* The session of a wake word begins.
LEMMA CommitWakeKeeps ==
  ASSUME VoiceInv, starter.pc = "commit",
         s.gen = starter.gen,
         ~s.stopping,
         s.focus,
         s' = [s EXCEPT !.phase = "listening", !.active = TRUE],
         coord' = Begun(starter.net),
         StarterTo("end"),
         UNCHANGED <<held, tasks, cleaner, events, rare, net, claim, report>>
  PROVE  VoiceInv'
<1>1. /\ s \in Service /\ TaskTypes /\ StarterTypes /\ CleanerTypes /\ LinkTypes /\ CoordTypes
      /\ RareTypes
      /\ Roles /\ Stopped /\ Rested /\ HeldOwned /\ Attempted /\ InSession /\ Coordinated
  BY InvParts
<1>2. s.gen # 0
  BY <1>1 DEF InSession, Attempted, AtRest, Attempt, BeforeFocus, AfterFocus,
     HasIoTask, HasPlayTask
<1>3. /\ s' \in Service /\ s'.phase = "listening" /\ s'.gen = s.gen
      /\ s'.stopping = s.stopping /\ s'.starting = s.starting
      /\ s'.released = s.released /\ s'.focus = s.focus /\ s'.active /\ s'.rec = s.rec
      /\ s'.tgen = s.tgen /\ s'.ioRun = s.ioRun /\ s'.playRun = s.playRun
      /\ s'.reconnect = s.reconnect /\ s'.queue = s.queue /\ s'.announce = s.announce
  BY <1>1, CommittedService
<1>4. /\ StarterTypes' /\ starter'.pc = "end"
      /\ starter'.gen = starter.gen
  BY <1>1, StarterTyped
<1>5. /\ CoordTypes' /\ coord'.inter = starter.gen /\ coord'.state = "active"
  BY <1>1, VoiceAssumption DEF Begun, CoordTypes, StarterTypes, AtWork
<1>6. s.phase = "connecting" /\ s.ioRun /\ s.playRun /\ ~s.reconnect
  BY <1>1 DEF Attempted, Attempt, BeforeFocus, AfterFocus, HasIoTask, HasPlayTask
<1>7. Roles'
  BY <1>1, <1>2, <1>3, <1>4, <1>5, <1>6 DEF Roles, NoCleaner, Attempt, BeforeFocus,
     AfterFocus, HasIoTask, HasPlayTask
<1>8. Stopped'
  BY <1>1, <1>2, <1>3, <1>4, <1>5, <1>6 DEF Stopped
<1>9. Rested'
  BY <1>1, <1>2, <1>3, <1>4, <1>5, <1>6 DEF Rested, AtRest
<1>10. HeldOwned'
  BY <1>1, <1>2, <1>3, <1>4, <1>5, <1>6 DEF HeldOwned, Attempt, BeforeFocus, AfterFocus,
     HasIoTask, HasPlayTask
<1>11. Attempted'
  BY <1>1, <1>2, <1>3, <1>4, <1>5, <1>6 DEF Attempted, AtRest, Attempt, BeforeFocus,
     AfterFocus, HasIoTask, HasPlayTask
<1>12. InSession'
  BY <1>1, <1>2, <1>3, <1>4, <1>5, <1>6 DEF InSession, AtRest, Attempt, BeforeFocus,
     AfterFocus, HasIoTask, HasPlayTask
<1>13. Coordinated'
  BY <1>1, <1>2, <1>3, <1>4, <1>5, <1>6 DEF Coordinated, AtRest, Wanted, Current,
     RetryPlaces, AtWork, Attempt, BeforeFocus, AfterFocus, HasIoTask, HasPlayTask
<1>14. ServiceTypes' /\ CleanerTypes' /\ TaskTypes' /\ LinkTypes' /\ RareTypes'
  BY <1>1, <1>2, <1>3, <1>4, <1>5, <1>6 DEF ServiceTypes, CleanerTypes, TaskTypes,
     LinkTypes, RareTypes
<1> QED
  BY <1>2, <1>3, <1>4, <1>5, <1>6, <1>7, <1>8, <1>9, <1>10, <1>11, <1>12, <1>13, <1>14
     DEF VoiceInv

\* The session of an announcement begins.
LEMMA CommitAnnounceKeeps ==
  ASSUME VoiceInv, starter.pc = "commit",
         s.gen = starter.gen,
         ~s.stopping,
         s.focus,
         s' = [s EXCEPT !.phase = "speaking", !.active = TRUE, !.timed = TRUE],
         StarterTo("end"),
         UNCHANGED <<held, tasks, cleaner, events, coord, rare, net, claim, report>>
  PROVE  VoiceInv'
<1>1. /\ s \in Service /\ TaskTypes /\ StarterTypes /\ CleanerTypes /\ LinkTypes /\ CoordTypes
      /\ RareTypes
      /\ Roles /\ Stopped /\ Rested /\ HeldOwned /\ Attempted /\ InSession /\ Coordinated
  BY InvParts
<1>2. /\ s' \in Service /\ s'.phase = "speaking" /\ s'.gen = s.gen
      /\ s'.stopping = s.stopping /\ s'.starting = s.starting
      /\ s'.released = s.released /\ s'.focus = s.focus /\ s'.active /\ s'.rec = s.rec
      /\ s'.tgen = s.tgen /\ s'.ioRun = s.ioRun /\ s'.playRun = s.playRun
      /\ s'.reconnect = s.reconnect /\ s'.queue = s.queue /\ s'.announce = s.announce
  BY <1>1, AnnouncedService
<1>3. /\ StarterTypes' /\ starter'.pc = "end"
      /\ starter'.gen = starter.gen
  BY <1>1, StarterTyped
<1>4. s.phase = "connecting" /\ s.ioRun /\ s.playRun /\ ~s.reconnect
  BY <1>1 DEF Attempted, Attempt, BeforeFocus, AfterFocus, HasIoTask, HasPlayTask
<1>5. Roles'
  BY <1>1, <1>2, <1>3, <1>4 DEF Roles, NoCleaner, Attempt, BeforeFocus, AfterFocus,
     HasIoTask, HasPlayTask
<1>6. Stopped'
  BY <1>1, <1>2, <1>3, <1>4 DEF Stopped
<1>7. Rested'
  BY <1>1, <1>2, <1>3, <1>4 DEF Rested, AtRest
<1>8. HeldOwned'
  BY <1>1, <1>2, <1>3, <1>4 DEF HeldOwned, Attempt, BeforeFocus, AfterFocus, HasIoTask,
     HasPlayTask
<1>9. Attempted'
  BY <1>1, <1>2, <1>3, <1>4 DEF Attempted, AtRest, Attempt, BeforeFocus, AfterFocus,
     HasIoTask, HasPlayTask
<1>10. InSession'
  BY <1>1, <1>2, <1>3, <1>4 DEF InSession, AtRest, Attempt, BeforeFocus, AfterFocus,
     HasIoTask, HasPlayTask
<1>11. Coordinated'
  BY <1>1, <1>2, <1>3, <1>4 DEF Coordinated, AtRest, Wanted, Current, RetryPlaces,
     AtWork, Attempt, BeforeFocus, AfterFocus, HasIoTask, HasPlayTask
<1>12. ServiceTypes' /\ CleanerTypes' /\ TaskTypes' /\ LinkTypes' /\ CoordTypes' /\ RareTypes'
  BY <1>1, <1>2, <1>3, <1>4 DEF ServiceTypes, CleanerTypes, TaskTypes, LinkTypes,
     CoordTypes, RareTypes
<1> QED
  BY <1>2, <1>3, <1>4, <1>5, <1>6, <1>7, <1>8, <1>9, <1>10, <1>11, <1>12 DEF VoiceInv

\* A wake word during a session restarts the turn.
LEMMA MarkKeeps ==
  ASSUME VoiceInv, MarkListening
  PROVE  VoiceInv'
<1>1. /\ s \in Service /\ TaskTypes /\ StarterTypes /\ CleanerTypes /\ LinkTypes /\ CoordTypes
      /\ RareTypes
      /\ Roles /\ Stopped /\ Rested /\ HeldOwned /\ Attempted /\ InSession /\ Coordinated
  BY InvParts
<1>2. starter.pc = "mark" /\ (~s.stopping => ~AtRest)
  BY <1>1 DEF MarkListening, Attempted
<1>3. /\ s.stopping => s' = [s EXCEPT !.phase = s.phase]
      /\ ~s.stopping => s' = [s EXCEPT !.phase = "listening"]
  BY DEF MarkListening
<1>4. s.phase \in Phases /\ "listening" \in Phases
  BY <1>1 DEF Service, Phases
<1>5. /\ s' \in Service /\ s'.phase = IF s.stopping THEN s.phase ELSE "listening"
      /\ s'.gen = s.gen /\ s'.stopping = s.stopping /\ s'.starting = s.starting
      /\ s'.released = s.released /\ s'.focus = s.focus /\ s'.active = s.active
      /\ s'.rec = s.rec /\ s'.tgen = s.tgen /\ s'.ioRun = s.ioRun
      /\ s'.playRun = s.playRun /\ s'.reconnect = s.reconnect /\ s'.queue = s.queue
      /\ s'.announce = s.announce
  BY <1>1, <1>3, <1>4, MarkedService
<1>6. UNCHANGED <<held, tasks, cleaner, events, coord, rare, net, claim, report>>
  BY DEF MarkListening, outside
<1>7. /\ StarterTypes' /\ starter'.pc = "end"
      /\ starter'.gen = starter.gen
  BY <1>1, StarterTyped DEF MarkListening
<1>8. Roles'
  BY <1>1, <1>2, <1>3, <1>4, <1>5, <1>6, <1>7 DEF Roles, NoCleaner, Attempt,
     BeforeFocus, AfterFocus, HasIoTask, HasPlayTask
<1>9. Stopped'
  BY <1>1, <1>2, <1>3, <1>4, <1>5, <1>6, <1>7 DEF Stopped
<1>10. Rested'
  BY <1>1, <1>2, <1>3, <1>4, <1>5, <1>6, <1>7 DEF Rested, AtRest
<1>11. HeldOwned'
  BY <1>1, <1>2, <1>3, <1>4, <1>5, <1>6, <1>7 DEF HeldOwned, Attempt, BeforeFocus,
     AfterFocus, HasIoTask, HasPlayTask
<1>12. Attempted'
  BY <1>1, <1>2, <1>3, <1>4, <1>5, <1>6, <1>7 DEF Attempted, AtRest, Attempt,
     BeforeFocus, AfterFocus, HasIoTask, HasPlayTask
<1>13. InSession'
  BY <1>1, <1>2, <1>3, <1>4, <1>5, <1>6, <1>7 DEF InSession, AtRest, Attempt,
     BeforeFocus, AfterFocus, HasIoTask, HasPlayTask
<1>14. Coordinated'
  BY <1>1, <1>2, <1>3, <1>4, <1>5, <1>6, <1>7 DEF Coordinated, AtRest, Wanted,
     Current, RetryPlaces, AtWork, Attempt, BeforeFocus, AfterFocus, HasIoTask, HasPlayTask
<1>15. ServiceTypes' /\ CleanerTypes' /\ TaskTypes' /\ LinkTypes' /\ CoordTypes' /\ RareTypes'
  BY <1>1, <1>2, <1>3, <1>4, <1>5, <1>6, <1>7 DEF ServiceTypes, CleanerTypes,
     TaskTypes, LinkTypes, CoordTypes, RareTypes
<1> QED
  BY <1>2, <1>3, <1>4, <1>5, <1>6, <1>7, <1>8, <1>9, <1>10, <1>11, <1>12, <1>13,
     <1>14, <1>15 DEF VoiceInv
(***************************************************************************)
(* The ends of an attempt, of the tasks and of the cleaner: the last one     *)
(* completes the stop.                                                     *)
(***************************************************************************)
LEMMA EndedCases ==
  ASSUME s \in Service, s' = Completed([s EXCEPT !.starting = FALSE], tasks.io, tasks.play)
  PROVE  \/ /\ s.stopping /\ s.released /\ tasks.io = "none" /\ tasks.play = "none"
            /\ s' = [s EXCEPT !.starting = FALSE, !.phase = s.final, !.stopping = FALSE,
                             !.released = FALSE]
         \/ s' = [s EXCEPT !.starting = FALSE]
  BY DEF Completed, Service

LEMMA ReleasedCases ==
  ASSUME s \in Service,
         s' = Completed([s EXCEPT !.focus = FALSE, !.active = FALSE, !.rec = FALSE,
                                  !.released = TRUE], tasks.io, tasks.play)
  PROVE  \/ /\ s.stopping /\ ~s.starting /\ tasks.io = "none" /\ tasks.play = "none"
            /\ s' = [s EXCEPT !.focus = FALSE, !.active = FALSE, !.rec = FALSE,
                             !.released = FALSE, !.phase = s.final, !.stopping = FALSE]
         \/ s' = [s EXCEPT !.focus = FALSE, !.active = FALSE, !.rec = FALSE, !.released = TRUE]
<1> DEFINE x == [s EXCEPT !.focus = FALSE, !.active = FALSE, !.rec = FALSE, !.released = TRUE]
<1>1. x.stopping = s.stopping /\ x.starting = s.starting /\ x.released /\ x.final = s.final
  BY DEF Service
<1>2. CASE x.stopping /\ ~x.starting /\ x.released /\ tasks.io = "none" /\ tasks.play = "none"
  <2>1. s' = [x EXCEPT !.phase = s.final, !.stopping = FALSE, !.released = FALSE]
    BY <1>1, <1>2 DEF Completed
  <2>2. s' = [s EXCEPT !.focus = FALSE, !.active = FALSE, !.rec = FALSE, !.released = FALSE,
                       !.phase = s.final, !.stopping = FALSE]
    BY <2>1 DEF Service
  <2> QED
    BY <1>1, <1>2, <2>2
<1>3. CASE ~(x.stopping /\ ~x.starting /\ x.released /\ tasks.io = "none" /\ tasks.play = "none")
  BY <1>3 DEF Completed
<1> QED
  BY <1>2, <1>3

\* An attempt ends, and completes no stop.
LEMMA EndKeeps ==
  ASSUME VoiceInv, StartEnd,
         s' = [s EXCEPT !.starting = FALSE]
  PROVE  VoiceInv'
<1>1. /\ s \in Service /\ TaskTypes /\ StarterTypes /\ CleanerTypes /\ LinkTypes /\ CoordTypes
      /\ RareTypes
      /\ Roles /\ Stopped /\ Rested /\ HeldOwned /\ Attempted /\ InSession /\ Coordinated
  BY InvParts
<1>2. starter.pc = "end" /\ StarterTypes' /\ starter'.pc = "none"
  BY <1>1 DEF StartEnd, NoStart, StarterTypes
<1>3. UNCHANGED <<held, tasks, cleaner, events, coord, rare, net, claim, report>>
  BY DEF StartEnd, outside
<1>4. /\ s' \in Service /\ s'.phase = s.phase /\ s'.gen = s.gen
      /\ s'.stopping = s.stopping /\ ~s'.starting /\ s'.released = s.released
      /\ s'.focus = s.focus /\ s'.active = s.active /\ s'.rec = s.rec
      /\ s'.tgen = s.tgen /\ s'.ioRun = s.ioRun /\ s'.playRun = s.playRun
      /\ s'.reconnect = s.reconnect /\ s'.queue = s.queue /\ s'.announce = s.announce
  BY <1>1, EndedService
<1>5. Roles'
  BY <1>1, <1>2, <1>3, <1>4 DEF Roles, NoCleaner, Attempt, BeforeFocus, AfterFocus,
     HasIoTask, HasPlayTask
<1>6. Stopped'
  BY <1>1, <1>2, <1>3, <1>4 DEF Stopped
<1>7. Rested'
  BY <1>1, <1>2, <1>3, <1>4 DEF Rested, AtRest
<1>8. HeldOwned'
  BY <1>1, <1>2, <1>3, <1>4 DEF HeldOwned, Attempt, BeforeFocus, AfterFocus, HasIoTask,
     HasPlayTask
<1>9. Attempted'
  BY <1>1, <1>2, <1>3, <1>4 DEF Attempted, AtRest, Attempt, BeforeFocus, AfterFocus,
     HasIoTask, HasPlayTask
<1>10. InSession'
  BY <1>1, <1>2, <1>3, <1>4 DEF InSession, AtRest, Attempt, BeforeFocus, AfterFocus,
     HasIoTask, HasPlayTask
<1>11. Coordinated'
  BY <1>1, <1>2, <1>3, <1>4 DEF Coordinated, AtRest, Wanted, Current, RetryPlaces,
     AtWork, Attempt, BeforeFocus, AfterFocus, HasIoTask, HasPlayTask
<1>12. ServiceTypes' /\ CleanerTypes' /\ TaskTypes' /\ LinkTypes' /\ CoordTypes' /\ RareTypes'
  BY <1>1, <1>2, <1>3, <1>4 DEF ServiceTypes, CleanerTypes, TaskTypes, LinkTypes,
     CoordTypes, RareTypes
<1> QED
  BY <1>2, <1>3, <1>4, <1>5, <1>6, <1>7, <1>8, <1>9, <1>10, <1>11, <1>12 DEF VoiceInv

\* The end of an attempt completes the stop that waited for it.
LEMMA EndCompletes ==
  ASSUME VoiceInv, StartEnd,
         s' = [s EXCEPT !.starting = FALSE, !.phase = s.final, !.stopping = FALSE,
                          !.released = FALSE],
         s.stopping,
         s.released,
         tasks.io = "none",
         tasks.play = "none"
  PROVE  VoiceInv'
<1>1. /\ s \in Service /\ TaskTypes /\ StarterTypes /\ CleanerTypes /\ LinkTypes /\ CoordTypes
      /\ RareTypes
      /\ Roles /\ Stopped /\ Rested /\ HeldOwned /\ Attempted /\ InSession /\ Coordinated
  BY InvParts
<1>2. starter.pc = "end" /\ StarterTypes' /\ starter'.pc = "none"
  BY <1>1 DEF StartEnd, NoStart, StarterTypes
<1>3. UNCHANGED <<held, tasks, cleaner, events, coord, rare, net, claim, report>>
  BY DEF StartEnd, outside
<1>4. /\ s' \in Service /\ s'.phase = s.final /\ s'.gen = s.gen /\ ~s'.stopping
      /\ ~s'.starting /\ ~s'.released /\ s'.focus = s.focus /\ s'.active = s.active
      /\ s'.rec = s.rec /\ s'.tgen = s.tgen /\ s'.ioRun = s.ioRun
      /\ s'.playRun = s.playRun /\ s'.reconnect = s.reconnect /\ s'.queue = s.queue
      /\ s'.announce = s.announce
  BY <1>1, EndedAndCompleted
<1>5. /\ ~s.focus /\ ~s.active /\ ~s.rec /\ ~s.ioRun /\ ~s.playRun /\ ~s.reconnect /\ ~s.queue
      /\ cleaner.step = "none" /\ net.link = "none" /\ events = {}
  BY <1>1 DEF Stopped, Roles
<1>6. s.final \in {"idle", "error"}
  BY <1>1 DEF Service
<1>7. Roles'
  BY <1>1, <1>2, <1>3, <1>4, <1>5, <1>6 DEF Roles, NoCleaner, Attempt, BeforeFocus,
     AfterFocus, HasIoTask, HasPlayTask
<1>8. Stopped'
  BY <1>1, <1>2, <1>3, <1>4, <1>5, <1>6 DEF Stopped
<1>9. Rested'
  BY <1>1, <1>2, <1>3, <1>4, <1>5, <1>6 DEF Rested, AtRest
<1>10. HeldOwned'
  BY <1>1, <1>2, <1>3, <1>4, <1>5, <1>6 DEF HeldOwned, Attempt, BeforeFocus, AfterFocus,
     HasIoTask, HasPlayTask
<1>11. Attempted'
  BY <1>1, <1>2, <1>3, <1>4, <1>5, <1>6 DEF Attempted, AtRest, Attempt, BeforeFocus,
     AfterFocus, HasIoTask, HasPlayTask
<1>12. InSession'
  BY <1>1, <1>2, <1>3, <1>4, <1>5, <1>6 DEF InSession, AtRest, Attempt, BeforeFocus,
     AfterFocus, HasIoTask, HasPlayTask
<1>13. Coordinated'
  BY <1>1, <1>2, <1>3, <1>4, <1>5, <1>6 DEF Coordinated, AtRest, Wanted, Current,
     RetryPlaces, AtWork, Attempt, BeforeFocus, AfterFocus, HasIoTask, HasPlayTask
<1>14. ServiceTypes' /\ CleanerTypes' /\ TaskTypes' /\ LinkTypes' /\ CoordTypes' /\ RareTypes'
  BY <1>1, <1>2, <1>3, <1>4, <1>5, <1>6 DEF ServiceTypes, CleanerTypes, TaskTypes,
     LinkTypes, CoordTypes, RareTypes
<1> QED
  BY <1>2, <1>3, <1>4, <1>5, <1>6, <1>7, <1>8, <1>9, <1>10, <1>11, <1>12, <1>13, <1>14
     DEF VoiceInv

\* The I/O task ends, and completes no stop.
LEMMA IoExitKeeps ==
  ASSUME VoiceInv, IoExit,
         s' = s
  PROVE  VoiceInv'
<1>1. /\ s \in Service /\ TaskTypes /\ StarterTypes /\ CleanerTypes /\ LinkTypes /\ CoordTypes
      /\ RareTypes
      /\ Roles /\ Stopped /\ Rested /\ HeldOwned /\ Attempted /\ InSession /\ Coordinated
  BY InvParts
<1>2. UNCHANGED <<held, starter, cleaner, events, coord, rare, net, claim, report>> /\ ~s.ioRun
  BY DEF IoExit, outside
<1>3. /\ tasks.io \notin {"none", "cleaning"} /\ tasks' = [tasks EXCEPT !.io = "none"]
  BY DEF IoExit, AtIo
<1>4. TaskTypes' /\ tasks'.io = "none" /\ tasks'.play = tasks.play /\ tasks'.net = tasks.net
  BY <1>1, <1>2, <1>3 DEF TaskTypes
<1>5. Roles'
  BY <1>1, <1>2, <1>3, <1>4 DEF Roles, NoCleaner, Attempt, BeforeFocus, AfterFocus,
     HasIoTask, HasPlayTask
<1>6. Stopped'
  BY <1>1, <1>2, <1>3, <1>4 DEF Stopped
<1>7. Rested'
  BY <1>1, <1>2, <1>3, <1>4 DEF Rested, AtRest
<1>8. HeldOwned'
  BY <1>1, <1>2, <1>3, <1>4 DEF HeldOwned, Attempt, BeforeFocus, AfterFocus, HasIoTask,
     HasPlayTask
<1>9. Attempted'
  BY <1>1, <1>2, <1>3, <1>4 DEF Attempted, AtRest, Attempt, BeforeFocus, AfterFocus,
     HasIoTask, HasPlayTask
<1>10. InSession'
  BY <1>1, <1>2, <1>3, <1>4 DEF InSession, AtRest, Attempt, BeforeFocus, AfterFocus,
     HasIoTask, HasPlayTask
<1>11. Coordinated'
  BY <1>1, <1>2, <1>3, <1>4 DEF Coordinated, AtRest, Wanted, Current, RetryPlaces,
     AtWork, Attempt, BeforeFocus, AfterFocus, HasIoTask, HasPlayTask
<1>12. ServiceTypes' /\ StarterTypes' /\ CleanerTypes' /\ LinkTypes' /\ CoordTypes' /\ RareTypes'
  BY <1>1, <1>2, <1>3, <1>4 DEF ServiceTypes, StarterTypes, CleanerTypes, LinkTypes,
     CoordTypes, RareTypes
<1> QED
  BY <1>2, <1>3, <1>4, <1>5, <1>6, <1>7, <1>8, <1>9, <1>10, <1>11, <1>12 DEF VoiceInv

\* The end of the I/O task completes a stop.
LEMMA IoExitCompletes ==
  ASSUME VoiceInv, IoExit,
         s' = [s EXCEPT !.phase = s.final, !.stopping = FALSE, !.released = FALSE],
         s.stopping,
         ~s.starting,
         s.released,
         tasks.play = "none"
  PROVE  VoiceInv'
<1>1. /\ s \in Service /\ TaskTypes /\ StarterTypes /\ CleanerTypes /\ LinkTypes /\ CoordTypes
      /\ RareTypes
      /\ Roles /\ Stopped /\ Rested /\ HeldOwned /\ Attempted /\ InSession /\ Coordinated
  BY InvParts
<1>2. UNCHANGED <<held, starter, cleaner, events, coord, rare, net, claim, report>> /\ ~s.ioRun
  BY DEF IoExit, outside
<1>3. /\ tasks.io \notin {"none", "cleaning"} /\ tasks' = [tasks EXCEPT !.io = "none"]
  BY DEF IoExit, AtIo
<1>4. TaskTypes' /\ tasks'.io = "none" /\ tasks'.play = tasks.play /\ tasks'.net = tasks.net
  BY <1>1, <1>2, <1>3 DEF TaskTypes
<1>5. /\ s' \in Service /\ s'.phase = s.final /\ s'.gen = s.gen /\ ~s'.stopping
      /\ s'.starting = s.starting /\ ~s'.released /\ s'.focus = s.focus
      /\ s'.active = s.active /\ s'.rec = s.rec /\ s'.tgen = s.tgen
      /\ s'.ioRun = s.ioRun /\ s'.playRun = s.playRun /\ s'.reconnect = s.reconnect
      /\ s'.queue = s.queue /\ s'.announce = s.announce
  BY <1>1, CompletedService
<1>6. /\ ~s.focus /\ ~s.active /\ ~s.rec /\ ~s.ioRun /\ ~s.playRun /\ ~s.reconnect /\ ~s.queue
      /\ cleaner.step = "none" /\ net.link = "none" /\ events = {} /\ starter.pc = "none"
  BY <1>1 DEF Stopped, Roles
<1>7. s.final \in {"idle", "error"}
  BY <1>1 DEF Service
<1>8. Roles'
  BY <1>1, <1>2, <1>3, <1>4, <1>5, <1>6, <1>7 DEF Roles, NoCleaner, Attempt,
     BeforeFocus, AfterFocus, HasIoTask, HasPlayTask
<1>9. Stopped'
  BY <1>1, <1>2, <1>3, <1>4, <1>5, <1>6, <1>7 DEF Stopped
<1>10. Rested'
  BY <1>1, <1>2, <1>3, <1>4, <1>5, <1>6, <1>7 DEF Rested, AtRest
<1>11. HeldOwned'
  BY <1>1, <1>2, <1>3, <1>4, <1>5, <1>6, <1>7 DEF HeldOwned, Attempt, BeforeFocus,
     AfterFocus, HasIoTask, HasPlayTask
<1>12. Attempted'
  BY <1>1, <1>2, <1>3, <1>4, <1>5, <1>6, <1>7 DEF Attempted, AtRest, Attempt,
     BeforeFocus, AfterFocus, HasIoTask, HasPlayTask
<1>13. InSession'
  BY <1>1, <1>2, <1>3, <1>4, <1>5, <1>6, <1>7 DEF InSession, AtRest, Attempt,
     BeforeFocus, AfterFocus, HasIoTask, HasPlayTask
<1>14. Coordinated'
  BY <1>1, <1>2, <1>3, <1>4, <1>5, <1>6, <1>7 DEF Coordinated, AtRest, Wanted,
     Current, RetryPlaces, AtWork, Attempt, BeforeFocus, AfterFocus, HasIoTask, HasPlayTask
<1>15. ServiceTypes' /\ StarterTypes' /\ CleanerTypes' /\ LinkTypes' /\ CoordTypes' /\ RareTypes'
  BY <1>1, <1>2, <1>3, <1>4, <1>5, <1>6, <1>7 DEF ServiceTypes, StarterTypes,
     CleanerTypes, LinkTypes, CoordTypes, RareTypes
<1> QED
  BY <1>2, <1>3, <1>4, <1>5, <1>6, <1>7, <1>8, <1>9, <1>10, <1>11, <1>12, <1>13,
     <1>14, <1>15 DEF VoiceInv

\* The playback task ends, and completes no stop.
LEMMA PlayExitKeeps ==
  ASSUME VoiceInv, PlayExit,
         s' = s
  PROVE  VoiceInv'
<1>1. /\ s \in Service /\ TaskTypes /\ StarterTypes /\ CleanerTypes /\ LinkTypes /\ CoordTypes
      /\ RareTypes
      /\ Roles /\ Stopped /\ Rested /\ HeldOwned /\ Attempted /\ InSession /\ Coordinated
  BY InvParts
<1>2. UNCHANGED <<held, starter, cleaner, events, coord, rare, net, claim, report>> /\ ~s.playRun
  BY DEF PlayExit, outside
<1>3. /\ tasks.play \notin {"none", "cleaning"} /\ tasks' = [tasks EXCEPT !.play = "none"]
  BY DEF PlayExit, AtIo
<1>4. TaskTypes' /\ tasks'.play = "none" /\ tasks'.io = tasks.io /\ tasks'.net = tasks.net
  BY <1>1, <1>2, <1>3 DEF TaskTypes
<1>5. Roles'
  BY <1>1, <1>2, <1>3, <1>4 DEF Roles, NoCleaner, Attempt, BeforeFocus, AfterFocus,
     HasIoTask, HasPlayTask
<1>6. Stopped'
  BY <1>1, <1>2, <1>3, <1>4 DEF Stopped
<1>7. Rested'
  BY <1>1, <1>2, <1>3, <1>4 DEF Rested, AtRest
<1>8. HeldOwned'
  BY <1>1, <1>2, <1>3, <1>4 DEF HeldOwned, Attempt, BeforeFocus, AfterFocus, HasIoTask,
     HasPlayTask
<1>9. Attempted'
  BY <1>1, <1>2, <1>3, <1>4 DEF Attempted, AtRest, Attempt, BeforeFocus, AfterFocus,
     HasIoTask, HasPlayTask
<1>10. InSession'
  BY <1>1, <1>2, <1>3, <1>4 DEF InSession, AtRest, Attempt, BeforeFocus, AfterFocus,
     HasIoTask, HasPlayTask
<1>11. Coordinated'
  BY <1>1, <1>2, <1>3, <1>4 DEF Coordinated, AtRest, Wanted, Current, RetryPlaces,
     AtWork, Attempt, BeforeFocus, AfterFocus, HasIoTask, HasPlayTask
<1>12. ServiceTypes' /\ StarterTypes' /\ CleanerTypes' /\ LinkTypes' /\ CoordTypes' /\ RareTypes'
  BY <1>1, <1>2, <1>3, <1>4 DEF ServiceTypes, StarterTypes, CleanerTypes, LinkTypes,
     CoordTypes, RareTypes
<1> QED
  BY <1>2, <1>3, <1>4, <1>5, <1>6, <1>7, <1>8, <1>9, <1>10, <1>11, <1>12 DEF VoiceInv

\* The end of the playback task completes a stop.
LEMMA PlayExitCompletes ==
  ASSUME VoiceInv, PlayExit,
         s' = [s EXCEPT !.phase = s.final, !.stopping = FALSE, !.released = FALSE],
         s.stopping,
         ~s.starting,
         s.released,
         tasks.io = "none"
  PROVE  VoiceInv'
<1>1. /\ s \in Service /\ TaskTypes /\ StarterTypes /\ CleanerTypes /\ LinkTypes /\ CoordTypes
      /\ RareTypes
      /\ Roles /\ Stopped /\ Rested /\ HeldOwned /\ Attempted /\ InSession /\ Coordinated
  BY InvParts
<1>2. UNCHANGED <<held, starter, cleaner, events, coord, rare, net, claim, report>> /\ ~s.playRun
  BY DEF PlayExit, outside
<1>3. /\ tasks.play \notin {"none", "cleaning"} /\ tasks' = [tasks EXCEPT !.play = "none"]
  BY DEF PlayExit, AtIo
<1>4. TaskTypes' /\ tasks'.play = "none" /\ tasks'.io = tasks.io /\ tasks'.net = tasks.net
  BY <1>1, <1>2, <1>3 DEF TaskTypes
<1>5. /\ s' \in Service /\ s'.phase = s.final /\ s'.gen = s.gen /\ ~s'.stopping
      /\ s'.starting = s.starting /\ ~s'.released /\ s'.focus = s.focus
      /\ s'.active = s.active /\ s'.rec = s.rec /\ s'.tgen = s.tgen
      /\ s'.ioRun = s.ioRun /\ s'.playRun = s.playRun /\ s'.reconnect = s.reconnect
      /\ s'.queue = s.queue /\ s'.announce = s.announce
  BY <1>1, CompletedService
<1>6. /\ ~s.focus /\ ~s.active /\ ~s.rec /\ ~s.ioRun /\ ~s.playRun /\ ~s.reconnect /\ ~s.queue
      /\ cleaner.step = "none" /\ net.link = "none" /\ events = {} /\ starter.pc = "none"
  BY <1>1 DEF Stopped, Roles
<1>7. s.final \in {"idle", "error"}
  BY <1>1 DEF Service
<1>8. Roles'
  BY <1>1, <1>2, <1>3, <1>4, <1>5, <1>6, <1>7 DEF Roles, NoCleaner, Attempt,
     BeforeFocus, AfterFocus, HasIoTask, HasPlayTask
<1>9. Stopped'
  BY <1>1, <1>2, <1>3, <1>4, <1>5, <1>6, <1>7 DEF Stopped
<1>10. Rested'
  BY <1>1, <1>2, <1>3, <1>4, <1>5, <1>6, <1>7 DEF Rested, AtRest
<1>11. HeldOwned'
  BY <1>1, <1>2, <1>3, <1>4, <1>5, <1>6, <1>7 DEF HeldOwned, Attempt, BeforeFocus,
     AfterFocus, HasIoTask, HasPlayTask
<1>12. Attempted'
  BY <1>1, <1>2, <1>3, <1>4, <1>5, <1>6, <1>7 DEF Attempted, AtRest, Attempt,
     BeforeFocus, AfterFocus, HasIoTask, HasPlayTask
<1>13. InSession'
  BY <1>1, <1>2, <1>3, <1>4, <1>5, <1>6, <1>7 DEF InSession, AtRest, Attempt,
     BeforeFocus, AfterFocus, HasIoTask, HasPlayTask
<1>14. Coordinated'
  BY <1>1, <1>2, <1>3, <1>4, <1>5, <1>6, <1>7 DEF Coordinated, AtRest, Wanted,
     Current, RetryPlaces, AtWork, Attempt, BeforeFocus, AfterFocus, HasIoTask, HasPlayTask
<1>15. ServiceTypes' /\ StarterTypes' /\ CleanerTypes' /\ LinkTypes' /\ CoordTypes' /\ RareTypes'
  BY <1>1, <1>2, <1>3, <1>4, <1>5, <1>6, <1>7 DEF ServiceTypes, StarterTypes,
     CleanerTypes, LinkTypes, CoordTypes, RareTypes
<1> QED
  BY <1>2, <1>3, <1>4, <1>5, <1>6, <1>7, <1>8, <1>9, <1>10, <1>11, <1>12, <1>13,
     <1>14, <1>15 DEF VoiceInv

(***************************************************************************)
(* The cleaner.                                                            *)
(***************************************************************************)

\* The cleaner stops the recorder that it saw running.
LEMMA CleanRecorderKeeps ==
  ASSUME VoiceInv, CleanRecorder
  PROVE  VoiceInv'
<1>1. /\ s \in Service /\ TaskTypes /\ StarterTypes /\ CleanerTypes /\ LinkTypes /\ CoordTypes
      /\ RareTypes
      /\ Roles /\ Stopped /\ Rested /\ HeldOwned /\ Attempted /\ InSession /\ Coordinated
  BY InvParts
<1>2. cleaner.step = "record" /\ cleaner' = [cleaner EXCEPT !.step = "close"]
  BY DEF CleanRecorder
<1>3. /\ CleanerTypes' /\ cleaner'.step = "close" /\ cleaner'.by = cleaner.by
      /\ cleaner'.inter = cleaner.inter /\ cleaner'.focus = cleaner.focus
      /\ cleaner'.rec = cleaner.rec
  BY <1>1, <1>2 DEF CleanerTypes
<1>4. UNCHANGED <<s, tasks, starter, net, claim, report, events, coord, rare>>
  BY DEF CleanRecorder
<1>5. s.stopping /\ ~s.released
  BY <1>1, <1>2 DEF Roles
<1>6. /\ TaskTypes' /\ held'.rec = (held.rec /\ ~cleaner.rec) /\ held'.focus = held.focus
  BY <1>1 DEF CleanRecorder, TaskTypes, CleanerTypes
<1>7. Roles'
  BY <1>1, <1>2, <1>3, <1>4, <1>5, <1>6 DEF Roles, NoCleaner, Attempt, BeforeFocus,
     AfterFocus, HasIoTask, HasPlayTask
<1>8. Stopped'
  BY <1>1, <1>2, <1>3, <1>4, <1>5, <1>6 DEF Stopped
<1>9. Rested'
  BY <1>1, <1>2, <1>3, <1>4, <1>5, <1>6 DEF Rested, AtRest
<1>10. HeldOwned'
  BY <1>1, <1>2, <1>3, <1>4, <1>5, <1>6 DEF HeldOwned, Attempt, BeforeFocus, AfterFocus,
     HasIoTask, HasPlayTask
<1>11. Attempted'
  BY <1>1, <1>2, <1>3, <1>4, <1>5, <1>6 DEF Attempted, AtRest, Attempt, BeforeFocus,
     AfterFocus, HasIoTask, HasPlayTask
<1>12. InSession'
  BY <1>1, <1>2, <1>3, <1>4, <1>5, <1>6 DEF InSession, AtRest, Attempt, BeforeFocus,
     AfterFocus, HasIoTask, HasPlayTask
<1>13. Coordinated'
  BY <1>1, <1>2, <1>3, <1>4, <1>5, <1>6 DEF Coordinated, AtRest, Wanted, Current,
     RetryPlaces, AtWork, Attempt, BeforeFocus, AfterFocus, HasIoTask, HasPlayTask
<1>14. ServiceTypes' /\ StarterTypes' /\ LinkTypes' /\ CoordTypes' /\ RareTypes'
  BY <1>1, <1>2, <1>3, <1>4, <1>5, <1>6 DEF ServiceTypes, StarterTypes, LinkTypes,
     CoordTypes, RareTypes
<1> QED
  BY <1>2, <1>3, <1>4, <1>5, <1>6, <1>7, <1>8, <1>9, <1>10, <1>11, <1>12, <1>13, <1>14
     DEF VoiceInv

\* The cleaner closes the connection.
LEMMA CleanCloseKeeps ==
  ASSUME VoiceInv, CleanClose
  PROVE  VoiceInv'
<1>1. /\ s \in Service /\ TaskTypes /\ StarterTypes /\ CleanerTypes /\ LinkTypes /\ CoordTypes
      /\ RareTypes
      /\ Roles /\ Stopped /\ Rested /\ HeldOwned /\ Attempted /\ InSession /\ Coordinated
  BY InvParts
<1>2. cleaner.step = "close" /\ cleaner' = [cleaner EXCEPT !.step = "join"]
  BY DEF CleanClose
<1>3. /\ CleanerTypes' /\ cleaner'.step = "join" /\ cleaner'.by = cleaner.by
      /\ cleaner'.inter = cleaner.inter /\ cleaner'.focus = cleaner.focus
      /\ cleaner'.rec = cleaner.rec
  BY <1>1, <1>2 DEF CleanerTypes
<1>4. UNCHANGED <<s, held, tasks, starter, claim, report, events, coord, rare>>
  BY DEF CleanClose
<1>5. s.stopping /\ ~s.released
  BY <1>1, <1>2 DEF Roles
<1>6. LinkTypes' /\ net'.link = "none"
  BY <1>1, <1>4, ClosedLink DEF CleanClose, LinkTypes
<1>7. Roles'
  BY <1>1, <1>2, <1>3, <1>4, <1>5, <1>6 DEF Roles, NoCleaner, Attempt, BeforeFocus,
     AfterFocus, HasIoTask, HasPlayTask
<1>8. Stopped'
  BY <1>1, <1>2, <1>3, <1>4, <1>5, <1>6 DEF Stopped
<1>9. Rested'
  BY <1>1, <1>2, <1>3, <1>4, <1>5, <1>6 DEF Rested, AtRest
<1>10. HeldOwned'
  BY <1>1, <1>2, <1>3, <1>4, <1>5, <1>6 DEF HeldOwned, Attempt, BeforeFocus, AfterFocus,
     HasIoTask, HasPlayTask
<1>11. Attempted'
  BY <1>1, <1>2, <1>3, <1>4, <1>5, <1>6 DEF Attempted, AtRest, Attempt, BeforeFocus,
     AfterFocus, HasIoTask, HasPlayTask
<1>12. InSession'
  BY <1>1, <1>2, <1>3, <1>4, <1>5, <1>6 DEF InSession, AtRest, Attempt, BeforeFocus,
     AfterFocus, HasIoTask, HasPlayTask
<1>13. Coordinated'
  BY <1>1, <1>2, <1>3, <1>4, <1>5, <1>6 DEF Coordinated, AtRest, Wanted, Current,
     RetryPlaces, AtWork, Attempt, BeforeFocus, AfterFocus, HasIoTask, HasPlayTask
<1>14. ServiceTypes' /\ StarterTypes' /\ TaskTypes' /\ CoordTypes' /\ RareTypes'
  BY <1>1, <1>2, <1>3, <1>4, <1>5, <1>6 DEF ServiceTypes, StarterTypes, TaskTypes,
     CoordTypes, RareTypes
<1> QED
  BY <1>2, <1>3, <1>4, <1>5, <1>6, <1>7, <1>8, <1>9, <1>10, <1>11, <1>12, <1>13, <1>14
     DEF VoiceInv

\* The cleaner cancels the coordinator and returns the focus that it saw.
LEMMA CleanReleaseKeeps ==
  ASSUME VoiceInv, CleanRelease
  PROVE  VoiceInv'
<1>1. /\ s \in Service /\ TaskTypes /\ StarterTypes /\ CleanerTypes /\ LinkTypes /\ CoordTypes
      /\ RareTypes
      /\ Roles /\ Stopped /\ Rested /\ HeldOwned /\ Attempted /\ InSession /\ Coordinated
  BY InvParts
<1>2. cleaner.step = "join" /\ cleaner' = [cleaner EXCEPT !.step = "finish"]
  BY DEF CleanRelease
<1>3. /\ CleanerTypes' /\ cleaner'.step = "finish" /\ cleaner'.by = cleaner.by
      /\ cleaner'.inter = cleaner.inter /\ cleaner'.focus = cleaner.focus
      /\ cleaner'.rec = cleaner.rec
  BY <1>1, <1>2 DEF CleanerTypes
<1>4. UNCHANGED <<s, tasks, starter, net, claim, report, events, rare>>
  BY DEF CleanRelease
<1>5. s.stopping /\ ~s.released
  BY <1>1, <1>2 DEF Roles
<1>6. /\ TaskTypes' /\ held'.rec = held.rec /\ held'.focus = (held.focus /\ ~cleaner.focus)
  BY <1>1 DEF CleanRelease, TaskTypes, CleanerTypes
<1>7. CoordTypes' /\ coord'.state \notin AtWork
  BY <1>1, <1>2, <1>5 DEF CleanRelease, Cancelled, Coordinated, CoordTypes, AtWork
<1>8. Roles'
  BY <1>1, <1>2, <1>3, <1>4, <1>5, <1>6, <1>7 DEF Roles, NoCleaner, Attempt,
     BeforeFocus, AfterFocus, HasIoTask, HasPlayTask
<1>9. Stopped'
  BY <1>1, <1>2, <1>3, <1>4, <1>5, <1>6, <1>7 DEF Stopped
<1>10. Rested'
  BY <1>1, <1>2, <1>3, <1>4, <1>5, <1>6, <1>7 DEF Rested, AtRest
<1>11. HeldOwned'
  BY <1>1, <1>2, <1>3, <1>4, <1>5, <1>6, <1>7 DEF HeldOwned, Attempt, BeforeFocus,
     AfterFocus, HasIoTask, HasPlayTask
<1>12. Attempted'
  BY <1>1, <1>2, <1>3, <1>4, <1>5, <1>6, <1>7 DEF Attempted, AtRest, Attempt,
     BeforeFocus, AfterFocus, HasIoTask, HasPlayTask
<1>13. InSession'
  BY <1>1, <1>2, <1>3, <1>4, <1>5, <1>6, <1>7 DEF InSession, AtRest, Attempt,
     BeforeFocus, AfterFocus, HasIoTask, HasPlayTask
<1>14. Coordinated'
  BY <1>1, <1>2, <1>3, <1>4, <1>5, <1>6, <1>7 DEF Coordinated, AtRest, Wanted,
     Current, RetryPlaces, AtWork, Attempt, BeforeFocus, AfterFocus, HasIoTask, HasPlayTask
<1>15. ServiceTypes' /\ StarterTypes' /\ LinkTypes' /\ RareTypes'
  BY <1>1, <1>2, <1>3, <1>4, <1>5, <1>6, <1>7 DEF ServiceTypes, StarterTypes,
     LinkTypes, RareTypes
<1> QED
  BY <1>2, <1>3, <1>4, <1>5, <1>6, <1>7, <1>8, <1>9, <1>10, <1>11, <1>12, <1>13,
     <1>14, <1>15 DEF VoiceInv

\* The cleaner ends, and completes no stop.
LEMMA ReleaseKeeps ==
  ASSUME VoiceInv, CleanFinish,
         s' = [s EXCEPT !.focus = FALSE, !.active = FALSE, !.rec = FALSE, !.released = TRUE]
  PROVE  VoiceInv'
<1>1. /\ s \in Service /\ TaskTypes /\ StarterTypes /\ CleanerTypes /\ LinkTypes /\ CoordTypes
      /\ RareTypes
      /\ Roles /\ Stopped /\ Rested /\ HeldOwned /\ Attempted /\ InSession /\ Coordinated
  BY InvParts
<1>2. cleaner.step = "finish" /\ s.stopping /\ ~s.released /\ cleaner' = NoCleaner
      /\ (cleaner.by = "io" => tasks.io = "cleaning")
      /\ (cleaner.by = "start" <=> starter.pc = "cleaning")
  BY <1>1 DEF CleanFinish, Roles
<1>3. /\ CleanerTypes' /\ cleaner'.step = "none" /\ cleaner'.by = "none" /\ ~cleaner'.focus
      /\ ~cleaner'.rec
  BY <1>2 DEF CleanerTypes, NoCleaner
<1>4. UNCHANGED <<held, net, claim, report, events, coord, rare>>
  BY DEF CleanFinish
<1>5. /\ TaskTypes' /\ tasks'.play = tasks.play
      /\ tasks'.io = IF cleaner.by = "io" THEN "loop" ELSE tasks.io
  BY <1>1, <1>4 DEF CleanFinish, TaskTypes
<1>6. /\ StarterTypes' /\ starter'.gen = starter.gen
      /\ starter'.pc = IF cleaner.by = "start" THEN "end" ELSE starter.pc
  BY <1>1 DEF CleanFinish, StarterTypes
<1>7. /\ ~s.ioRun /\ ~s.playRun /\ ~s.reconnect /\ ~s.queue
      /\ net.link = "none" /\ events = {} /\ coord.state \notin AtWork
  BY <1>1, <1>2 DEF Stopped, Coordinated
<1>8. /\ held.rec => starter.pc = "recorded"
      /\ held.focus => starter.pc = "focused"
  BY <1>1, <1>2 DEF HeldOwned
<1>9. /\ s' \in Service /\ s'.phase = s.phase /\ s'.gen = s.gen
      /\ s'.stopping = s.stopping /\ s'.starting = s.starting /\ s'.released
      /\ ~s'.focus /\ ~s'.active /\ ~s'.rec /\ s'.tgen = s.tgen /\ s'.ioRun = s.ioRun
      /\ s'.playRun = s.playRun /\ s'.reconnect = s.reconnect /\ s'.queue = s.queue
      /\ s'.announce = s.announce
  BY <1>1, ReleasedService
<1>10. Roles'
  BY <1>1, <1>2, <1>3, <1>4, <1>5, <1>6, <1>7, <1>8, <1>9 DEF Roles, NoCleaner,
     Attempt, BeforeFocus, AfterFocus, HasIoTask, HasPlayTask
<1>11. Stopped'
  BY <1>1, <1>2, <1>3, <1>4, <1>5, <1>6, <1>7, <1>8, <1>9 DEF Stopped
<1>12. Rested'
  BY <1>1, <1>2, <1>3, <1>4, <1>5, <1>6, <1>7, <1>8, <1>9 DEF Rested, AtRest
<1>13. HeldOwned'
  BY <1>1, <1>2, <1>3, <1>4, <1>5, <1>6, <1>7, <1>8, <1>9 DEF HeldOwned, Attempt,
     BeforeFocus, AfterFocus, HasIoTask, HasPlayTask
<1>14. Attempted'
  BY <1>1, <1>2, <1>3, <1>4, <1>5, <1>6, <1>7, <1>8, <1>9 DEF Attempted, AtRest,
     Attempt, BeforeFocus, AfterFocus, HasIoTask, HasPlayTask
<1>15. InSession'
  BY <1>1, <1>2, <1>3, <1>4, <1>5, <1>6, <1>7, <1>8, <1>9 DEF InSession, AtRest,
     Attempt, BeforeFocus, AfterFocus, HasIoTask, HasPlayTask
<1>16. Coordinated'
  BY <1>1, <1>2, <1>3, <1>4, <1>5, <1>6, <1>7, <1>8, <1>9 DEF Coordinated, AtRest,
     Wanted, Current, RetryPlaces, AtWork, Attempt, BeforeFocus, AfterFocus, HasIoTask,
     HasPlayTask
<1>17. ServiceTypes' /\ LinkTypes' /\ CoordTypes' /\ RareTypes'
  BY <1>1, <1>2, <1>3, <1>4, <1>5, <1>6, <1>7, <1>8, <1>9 DEF ServiceTypes, LinkTypes,
     CoordTypes, RareTypes
<1> QED
  BY <1>2, <1>3, <1>4, <1>5, <1>6, <1>7, <1>8, <1>9, <1>10, <1>11, <1>12, <1>13,
     <1>14, <1>15, <1>16, <1>17 DEF VoiceInv

\* The end of the cleaner completes the stop.
LEMMA ReleaseCompletes ==
  ASSUME VoiceInv, CleanFinish,
         ~s.starting,
         tasks.io = "none",
         tasks.play = "none",
         s' = [s EXCEPT !.focus = FALSE, !.active = FALSE, !.rec = FALSE, !.released = FALSE,
                          !.phase = s.final, !.stopping = FALSE]
  PROVE  VoiceInv'
<1>1. /\ s \in Service /\ TaskTypes /\ StarterTypes /\ CleanerTypes /\ LinkTypes /\ CoordTypes
      /\ RareTypes
      /\ Roles /\ Stopped /\ Rested /\ HeldOwned /\ Attempted /\ InSession /\ Coordinated
  BY InvParts
<1>2. cleaner.step = "finish" /\ s.stopping /\ ~s.released /\ cleaner' = NoCleaner
      /\ (cleaner.by = "io" => tasks.io = "cleaning")
      /\ (cleaner.by = "start" <=> starter.pc = "cleaning")
  BY <1>1 DEF CleanFinish, Roles
<1>3. /\ CleanerTypes' /\ cleaner'.step = "none" /\ cleaner'.by = "none" /\ ~cleaner'.focus
      /\ ~cleaner'.rec
  BY <1>2 DEF CleanerTypes, NoCleaner
<1>4. UNCHANGED <<held, net, claim, report, events, coord, rare>>
  BY DEF CleanFinish
<1>5. /\ TaskTypes' /\ tasks'.play = tasks.play
      /\ tasks'.io = IF cleaner.by = "io" THEN "loop" ELSE tasks.io
  BY <1>1, <1>4 DEF CleanFinish, TaskTypes
<1>6. /\ StarterTypes' /\ starter'.gen = starter.gen
      /\ starter'.pc = IF cleaner.by = "start" THEN "end" ELSE starter.pc
  BY <1>1 DEF CleanFinish, StarterTypes
<1>7. /\ ~s.ioRun /\ ~s.playRun /\ ~s.reconnect /\ ~s.queue
      /\ net.link = "none" /\ events = {} /\ coord.state \notin AtWork
  BY <1>1, <1>2 DEF Stopped, Coordinated
<1>8. /\ held.rec => starter.pc = "recorded"
      /\ held.focus => starter.pc = "focused"
  BY <1>1, <1>2 DEF HeldOwned
<1>9. /\ s' \in Service /\ s'.phase = s.final /\ s'.gen = s.gen /\ ~s'.stopping
      /\ s'.starting = s.starting /\ ~s'.released /\ ~s'.focus /\ ~s'.active
      /\ ~s'.rec /\ s'.tgen = s.tgen /\ s'.ioRun = s.ioRun /\ s'.playRun = s.playRun
      /\ s'.reconnect = s.reconnect /\ s'.queue = s.queue /\ s'.announce = s.announce
  BY <1>1, ReleasedAndCompleted
<1>10. s.final \in {"idle", "error"} /\ starter.pc = "none" /\ cleaner.by # "io" /\ cleaner.by # "start"
  BY <1>1, <1>2 DEF Service, Roles
<1>11. Roles'
  BY <1>1, <1>2, <1>3, <1>4, <1>5, <1>6, <1>7, <1>8, <1>9, <1>10 DEF Roles, NoCleaner,
     Attempt, BeforeFocus, AfterFocus, HasIoTask, HasPlayTask
<1>12. Stopped'
  BY <1>1, <1>2, <1>3, <1>4, <1>5, <1>6, <1>7, <1>8, <1>9, <1>10 DEF Stopped
<1>13. Rested'
  BY <1>1, <1>2, <1>3, <1>4, <1>5, <1>6, <1>7, <1>8, <1>9, <1>10 DEF Rested, AtRest
<1>14. HeldOwned'
  BY <1>1, <1>2, <1>3, <1>4, <1>5, <1>6, <1>7, <1>8, <1>9, <1>10 DEF HeldOwned, Attempt,
     BeforeFocus, AfterFocus, HasIoTask, HasPlayTask
<1>15. Attempted'
  BY <1>1, <1>2, <1>3, <1>4, <1>5, <1>6, <1>7, <1>8, <1>9, <1>10 DEF Attempted,
     AtRest, Attempt, BeforeFocus, AfterFocus, HasIoTask, HasPlayTask
<1>16. InSession'
  BY <1>1, <1>2, <1>3, <1>4, <1>5, <1>6, <1>7, <1>8, <1>9, <1>10 DEF InSession,
     AtRest, Attempt, BeforeFocus, AfterFocus, HasIoTask, HasPlayTask
<1>17. Coordinated'
  BY <1>1, <1>2, <1>3, <1>4, <1>5, <1>6, <1>7, <1>8, <1>9, <1>10 DEF Coordinated,
     AtRest, Wanted, Current, RetryPlaces, AtWork, Attempt, BeforeFocus, AfterFocus,
     HasIoTask, HasPlayTask
<1>18. ServiceTypes' /\ LinkTypes' /\ CoordTypes' /\ RareTypes'
  BY <1>1, <1>2, <1>3, <1>4, <1>5, <1>6, <1>7, <1>8, <1>9, <1>10 DEF ServiceTypes,
     LinkTypes, CoordTypes, RareTypes
<1> QED
  BY <1>2, <1>3, <1>4, <1>5, <1>6, <1>7, <1>8, <1>9, <1>10, <1>11, <1>12, <1>13,
     <1>14, <1>15, <1>16, <1>17, <1>18 DEF VoiceInv

(***************************************************************************)
(* The I/O task.                                                           *)
(***************************************************************************)
LEMMA IoFinishKeeps ==
  ASSUME VoiceInv, NEW final \in {"idle", "error"}, IoFinish(final),
         UNCHANGED <<held, starter, report>>, net' \in Links, claim' \in Claims,
         CoordTypes', RareTypes',
         coord'.state \in AtWork => coord' = coord
  PROVE  VoiceInv'
<1>1. TaskTypes /\ StarterTypes /\ LinkTypes
  BY InvParts
<1>2. TaskTypes' /\ tasks'.io = "cleaning" /\ tasks'.play = tasks.play
  BY <1>1, IoTyped DEF IoFinish
<1>3. StarterTypes' /\ LinkTypes'
  BY <1>1 DEF StarterTypes, LinkTypes, IoFinish, Finish
<1> QED
  BY <1>2, <1>3, FinishKeeps DEF IoFinish

LEMMA LoopFacts ==
  ASSUME VoiceInv, InLoop
  PROVE  /\ ~s.stopping /\ ~AtRest /\ s.ioRun /\ tasks.io = "loop" /\ s.gen # 0
         /\ s.active => starter.pc \notin Attempt
<1>1. Stopped /\ Rested /\ InSession /\ Attempted
  BY InvParts
<1>2. ~s.stopping /\ s.ioRun /\ tasks.io = "loop"
  BY <1>1 DEF InLoop, Stopped
<1> QED
  BY <1>1, <1>2 DEF Rested, InSession, Attempted

\* A failure that is retried: the interaction goes on without a connection.
LEMMA ReconnectingKeeps ==
  ASSUME VoiceInv, InLoop,
         s.active,
         Reconnecting,
         coord.inter = s.gen,
         coord'.inter = coord.inter,
         CoordTypes',
         RareTypes',
         UNCHANGED <<held, starter, net, report>>,
         claim' \in Claims
  PROVE  VoiceInv'
<1>1. /\ s \in Service /\ TaskTypes /\ StarterTypes /\ CleanerTypes /\ LinkTypes /\ CoordTypes
      /\ RareTypes
      /\ Roles /\ Stopped /\ Rested /\ HeldOwned /\ Attempted /\ InSession /\ Coordinated
  BY InvParts
<1>2. /\ ~s.stopping /\ ~AtRest /\ s.ioRun /\ tasks.io = "loop" /\ s.gen # 0
      /\ s.active => starter.pc \notin Attempt
  BY LoopFacts
<1>3. /\ s' \in Service /\ s'.phase = "connecting" /\ s'.gen = s.gen
      /\ s'.stopping = s.stopping /\ s'.starting = s.starting
      /\ s'.released = s.released /\ s'.focus = s.focus /\ ~s'.active
      /\ s'.rec = s.rec /\ s'.tgen = 0 /\ s'.ioRun = s.ioRun /\ s'.playRun = s.playRun
      /\ s'.reconnect /\ ~s'.queue /\ s'.announce = s.announce
  BY <1>1, ReconnectingService DEF Reconnecting
<1>4. events' = {} /\ cleaner' = cleaner
  BY DEF Reconnecting
<1>5. TaskTypes' /\ tasks'.io = "closing" /\ tasks'.play = tasks.play
  BY <1>1, IoTyped DEF Reconnecting, RetryPlaces
<1>6. s.focus /\ s.playRun
  BY <1>1, <1>2 DEF InSession
<1>7. LinkTypes'
  BY <1>1, <1>4 DEF LinkTypes
<1>8. Roles'
  BY <1>1, <1>2, <1>3, <1>4, <1>5, <1>6, <1>7 DEF Roles, NoCleaner, Attempt,
     BeforeFocus, AfterFocus, HasIoTask, HasPlayTask
<1>9. Stopped'
  BY <1>1, <1>2, <1>3, <1>4, <1>5, <1>6, <1>7 DEF Stopped
<1>10. Rested'
  BY <1>1, <1>2, <1>3, <1>4, <1>5, <1>6, <1>7 DEF Rested, AtRest
<1>11. HeldOwned'
  BY <1>1, <1>2, <1>3, <1>4, <1>5, <1>6, <1>7 DEF HeldOwned, Attempt, BeforeFocus,
     AfterFocus, HasIoTask, HasPlayTask
<1>12. Attempted'
  BY <1>1, <1>2, <1>3, <1>4, <1>5, <1>6, <1>7 DEF Attempted, AtRest, Attempt,
     BeforeFocus, AfterFocus, HasIoTask, HasPlayTask
<1>13. InSession'
  BY <1>1, <1>2, <1>3, <1>4, <1>5, <1>6, <1>7 DEF InSession, AtRest, Attempt,
     BeforeFocus, AfterFocus, HasIoTask, HasPlayTask
<1>14. Coordinated'
  BY <1>1, <1>2, <1>3, <1>4, <1>5, <1>6, <1>7 DEF Coordinated, AtRest, Wanted,
     Current, RetryPlaces, AtWork, Attempt, BeforeFocus, AfterFocus, HasIoTask, HasPlayTask
<1>15. ServiceTypes' /\ StarterTypes' /\ CleanerTypes'
  BY <1>1, <1>2, <1>3, <1>4, <1>5, <1>6, <1>7 DEF ServiceTypes, StarterTypes,
     CleanerTypes
<1> QED
  BY <1>2, <1>3, <1>4, <1>5, <1>6, <1>7, <1>8, <1>9, <1>10, <1>11, <1>12, <1>13,
     <1>14, <1>15 DEF VoiceInv

LEMMA RecommittedCoord ==
  ASSUME CoordTypes, NEW n \in Nat,
         coord' = [coord EXCEPT !.state = "active", !.gen = n, !.attempt = 0]
  PROVE  CoordTypes' /\ coord'.inter = coord.inter
<1>1. 0 \in 0 .. MaxAttempts
  BY VoiceAssumption
<1> QED
  BY <1>1 DEF CoordTypes, AtWork

LEMMA WaitingCoord ==
  ASSUME CoordTypes, coord.attempt + 1 \in 0 .. MaxAttempts,
         coord' = [coord EXCEPT !.state = "waiting", !.attempt = @ + 1]
  PROVE  CoordTypes' /\ coord'.inter = coord.inter /\ coord'.state = "waiting"
<1> DEFINE n == coord.attempt + 1
<1>1. n \in 0 .. MaxAttempts /\ coord' = [coord EXCEPT !.state = "waiting", !.attempt = n]
  OBVIOUS
<1> HIDE DEF n
<1> QED
  BY <1>1 DEF CoordTypes, AtWork

\* A failure, whether it is retried, ends the interaction or is none of this connection.
LEMMA FailKeeps ==
  ASSUME VoiceInv, InLoop, s.active, NEW gen, NEW retry \in BOOLEAN, Fail(gen, retry),
         UNCHANGED <<held, starter, net, report>>, claim' \in Claims, RareTypes'
  PROVE  VoiceInv'
<1>1. LinkTypes /\ CoordTypes /\ Stopped
  BY InvParts
<1>2. net' \in Links
  BY <1>1 DEF LinkTypes
<1>3. CASE Handled(gen) /\ s.announce /\ IoFinish("error") /\ UNCHANGED coord
  <2>1. CoordTypes'
    BY <1>1, <1>3 DEF CoordTypes
  <2> QED
    BY <1>2, <1>3, <2>1, IoFinishKeeps
<1>4. CASE /\ coord.inter = s.gen /\ retry /\ coord.attempt < MaxAttempts
           /\ coord' = [coord EXCEPT !.state = "waiting", !.attempt = @ + 1] /\ Reconnecting
  <2>1. coord.attempt + 1 \in 0 .. MaxAttempts
    BY <1>1, <1>4, VoiceAssumption DEF CoordTypes
  <2>2. CoordTypes' /\ coord'.inter = coord.inter
    BY <1>1, <1>4, <2>1, WaitingCoord
  <2> QED
    BY <1>4, <2>2, ReconnectingKeeps
<1>5. CASE coord' = [coord EXCEPT !.state = "terminal"] /\ IoFinish("error")
  <2>1. CoordTypes' /\ coord'.state \notin AtWork
    BY <1>1, <1>5 DEF CoordTypes, AtWork
  <2> QED
    BY <1>2, <1>5, <2>1, IoFinishKeeps
<1>6. CASE UNCHANGED <<s, tasks, cleaner, events, coord>>
  <2>1. LinkTypes'
    BY <1>1, <1>6 DEF LinkTypes
  <2>2. ~s.ioRun => events' = {}
    BY <1>1, <1>6 DEF Stopped
  <2> QED
    BY <1>6, <2>1, <2>2, OutsideKeeps
<1> QED
  BY <1>3, <1>4, <1>5, <1>6 DEF Fail

LEMMA IoEventKeeps ==
  ASSUME VoiceInv, NEW e \in events, IoEvent(e)
  PROVE  VoiceInv'
<1>1. /\ TaskTypes /\ LinkTypes /\ RareTypes /\ CoordTypes
  BY InvParts
<1>2. /\ InLoop /\ s.active /\ UNCHANGED <<held, starter, rare, net, claim, report>>
  BY DEF IoEvent, outside
<1>3. RareTypes' /\ claim' \in Claims
  BY <1>1, <1>2 DEF RareTypes, LinkTypes
<1>4. s.ioRun /\ tasks.io = "loop"
  BY <1>2 DEF InLoop
<1>5. CASE events' = events \ {e} /\ UNCHANGED <<s, tasks, cleaner, coord>>
  <2>1. LinkTypes'
    BY <1>1, <1>2, <1>5 DEF LinkTypes
  <2> QED
    BY <1>2, <1>3, <1>4, <1>5, <2>1, OutsideKeeps
<1>6. CASE AtIo("draining") /\ events' = events \ {e} /\ UNCHANGED <<s, cleaner, coord>>
  <2>1. LinkTypes' /\ CoordTypes'
    BY <1>1, <1>2, <1>6 DEF LinkTypes, CoordTypes
  <2>2. TaskTypes' /\ tasks'.io = "draining" /\ tasks'.play = tasks.play
    BY <1>1, <1>2, <1>6, IoTyped
  <2>3. tasks'.io \notin RetryPlaces
    BY <2>2 DEF RetryPlaces
  <2> QED
    BY <1>2, <1>3, <1>4, <1>6, <2>1, <2>2, <2>3, IoMovesKeeps
<1>7. CASE Fail(e.gen, e.retry)
  <2>1. e.retry \in BOOLEAN
    BY <1>1 DEF LinkTypes, Reports
  <2> QED
    BY <1>2, <1>3, <1>7, <2>1, FailKeeps
<1> QED
  BY <1>5, <1>6, <1>7 DEF IoEvent

LEMMA IoDrainedKeeps ==
  ASSUME VoiceInv, IoDrained
  PROVE  VoiceInv'
<1>1. TaskTypes /\ LinkTypes /\ RareTypes /\ CoordTypes /\ Stopped
  BY InvParts
<1>2. UNCHANGED <<held, starter, coord, rare, net, claim, report>> /\ tasks.io = "draining"
  BY DEF IoDrained, outside
<1>3. net' \in Links /\ claim' \in Claims /\ CoordTypes' /\ RareTypes'
  BY <1>1, <1>2 DEF LinkTypes, CoordTypes, RareTypes
<1>4. CASE IoFinish("idle")
  BY <1>2, <1>3, <1>4, IoFinishKeeps
<1>5. CASE s.stopping /\ AtIo("loop") /\ UNCHANGED <<s, cleaner, events>>
  <2>1. LinkTypes'
    BY <1>1, <1>2, <1>5 DEF LinkTypes
  <2>2. TaskTypes' /\ tasks'.io = "loop" /\ tasks'.play = tasks.play
    BY <1>1, <1>2, <1>5, IoTyped
  <2>3. ~s.ioRun => events' = {}
    BY <1>1, <1>5 DEF Stopped
  <2> QED
    BY <1>2, <1>3, <1>5, <2>1, <2>2, <2>3, IoMovesKeeps
<1> QED
  BY <1>4, <1>5 DEF IoDrained

LEMMA IoClosingKeeps ==
  ASSUME VoiceInv, IoClosing
  PROVE  VoiceInv'
<1>1. TaskTypes /\ LinkTypes /\ RareTypes /\ CoordTypes /\ Stopped
  BY InvParts
<1>2. /\ UNCHANGED <<s, held, starter, cleaner, claim, report, events, coord, rare>>
      /\ tasks.io = "closing" /\ AtIo("loop") /\ net' = LinkClosed
  BY DEF IoClosing
<1>3. net'.link = "none" /\ LinkTypes' /\ CoordTypes' /\ RareTypes'
  BY <1>1, <1>2, ClosedLink DEF LinkTypes, CoordTypes, RareTypes
<1>4. TaskTypes' /\ tasks'.io = "loop" /\ tasks'.play = tasks.play
  BY <1>1, <1>2, IoTyped
<1>5. ~s.ioRun => events' = {}
  BY <1>1, <1>2 DEF Stopped
<1>6. tasks'.io \notin RetryPlaces
  BY <1>4 DEF RetryPlaces
<1> QED
  BY <1>2, <1>3, <1>4, <1>5, <1>6, IoMovesKeeps

\* The I/O task ends the interaction: of itself, or after a failed write.
LEMMA IoEndsKeeps ==
  ASSUME VoiceInv, IoCapture \/ IoTimeout \/ IoPlaybackFailed
  PROVE  VoiceInv'
<1>1. LinkTypes /\ RareTypes /\ CoordTypes
  BY InvParts
<1>2. /\ UNCHANGED <<held, starter, coord, rare, net, claim, report>>
      /\ IoFinish("error") \/ IoFinish("idle")
  BY DEF IoCapture, IoTimeout, IoPlaybackFailed, IoFinish, outside
<1>3. net' \in Links /\ claim' \in Claims /\ CoordTypes' /\ RareTypes'
  BY <1>1, <1>2 DEF LinkTypes, CoordTypes, RareTypes
<1> QED
  BY <1>2, <1>3, IoFinishKeeps

LEMMA IoSendKeeps ==
  ASSUME VoiceInv, IoSend
  PROVE  VoiceInv'
<1>1. LinkTypes /\ RareTypes
  BY InvParts
<1>2. /\ InLoop /\ s.active /\ SendFails(s.tgen) /\ UNCHANGED <<held, starter, net, report>>
      /\ \E retry \in BOOLEAN : Fail(s.tgen, retry)
  BY DEF IoSend
<1>3. claim' \in Claims /\ RareTypes'
  BY <1>1, <1>2, SendFailsTyped
<1> QED
  BY <1>2, <1>3, FailKeeps

\* A reply begins.
LEMMA IoReplyKeeps ==
  ASSUME VoiceInv, IoReply
  PROVE  VoiceInv'
<1>1. /\ s \in Service /\ TaskTypes /\ StarterTypes /\ CleanerTypes /\ LinkTypes /\ CoordTypes
      /\ RareTypes
      /\ Roles /\ Stopped /\ Rested /\ HeldOwned /\ Attempted /\ InSession /\ Coordinated
  BY InvParts
<1>2. InLoop /\ s.active /\ s' = [s EXCEPT !.phase = "speaking", !.timed = TRUE, !.queue = TRUE]
  BY DEF IoReply
<1>3. /\ ~s.stopping /\ ~AtRest /\ s.ioRun /\ tasks.io = "loop" /\ s.gen # 0
      /\ starter.pc \notin Attempt
  BY <1>2, LoopFacts
<1>4. /\ s' \in Service /\ s'.phase = "speaking" /\ s'.gen = s.gen
      /\ s'.stopping = s.stopping /\ s'.starting = s.starting
      /\ s'.released = s.released /\ s'.focus = s.focus /\ s'.active = s.active
      /\ s'.rec = s.rec /\ s'.tgen = s.tgen /\ s'.ioRun = s.ioRun
      /\ s'.playRun = s.playRun /\ s'.reconnect = s.reconnect /\ s'.queue
      /\ s'.announce = s.announce
  BY <1>1, <1>2, SpokenService
<1>5. UNCHANGED <<held, tasks, starter, cleaner, events, coord, net, claim, report>>
  BY DEF IoReply, outside
<1>6. RareTypes'
  BY <1>1, SpendKeepsRare DEF IoReply, Rare
<1>7. Roles'
  BY <1>1, <1>2, <1>3, <1>4, <1>5, <1>6 DEF Roles, NoCleaner, Attempt, BeforeFocus,
     AfterFocus, HasIoTask, HasPlayTask
<1>8. Stopped'
  BY <1>1, <1>2, <1>3, <1>4, <1>5, <1>6 DEF Stopped
<1>9. Rested'
  BY <1>1, <1>2, <1>3, <1>4, <1>5, <1>6 DEF Rested, AtRest
<1>10. HeldOwned'
  BY <1>1, <1>2, <1>3, <1>4, <1>5, <1>6 DEF HeldOwned, Attempt, BeforeFocus, AfterFocus,
     HasIoTask, HasPlayTask
<1>11. Attempted'
  BY <1>1, <1>2, <1>3, <1>4, <1>5, <1>6 DEF Attempted, AtRest, Attempt, BeforeFocus,
     AfterFocus, HasIoTask, HasPlayTask
<1>12. InSession'
  BY <1>1, <1>2, <1>3, <1>4, <1>5, <1>6 DEF InSession, AtRest, Attempt, BeforeFocus,
     AfterFocus, HasIoTask, HasPlayTask
<1>13. Coordinated'
  BY <1>1, <1>2, <1>3, <1>4, <1>5, <1>6 DEF Coordinated, AtRest, Wanted, Current,
     RetryPlaces, AtWork, Attempt, BeforeFocus, AfterFocus, HasIoTask, HasPlayTask
<1>14. ServiceTypes' /\ StarterTypes' /\ CleanerTypes' /\ TaskTypes' /\ LinkTypes' /\ CoordTypes'
  BY <1>1, <1>2, <1>3, <1>4, <1>5, <1>6 DEF ServiceTypes, StarterTypes, CleanerTypes,
     TaskTypes, LinkTypes, CoordTypes
<1> QED
  BY <1>2, <1>3, <1>4, <1>5, <1>6, <1>7, <1>8, <1>9, <1>10, <1>11, <1>12, <1>13, <1>14
     DEF VoiceInv

\* A follow-up turn begins.
LEMMA FollowUpKeeps ==
  ASSUME VoiceInv, InLoop,
         s.active,
         s.phase = "speaking",
         s' = [s EXCEPT !.phase = "listening", !.timed = TRUE],
         UNCHANGED <<held, tasks, starter, cleaner, events, coord, rare, net, claim, report>>
  PROVE  VoiceInv'
<1>1. /\ s \in Service /\ TaskTypes /\ StarterTypes /\ CleanerTypes /\ LinkTypes /\ CoordTypes
      /\ RareTypes
      /\ Roles /\ Stopped /\ Rested /\ HeldOwned /\ Attempted /\ InSession /\ Coordinated
  BY InvParts
<1>2. /\ ~s.stopping /\ ~AtRest /\ s.ioRun /\ tasks.io = "loop" /\ s.gen # 0
      /\ s.active => starter.pc \notin Attempt
  BY LoopFacts
<1>3. /\ s' \in Service /\ s'.phase = "listening" /\ s'.gen = s.gen
      /\ s'.stopping = s.stopping /\ s'.starting = s.starting
      /\ s'.released = s.released /\ s'.focus = s.focus /\ s'.active = s.active
      /\ s'.rec = s.rec /\ s'.tgen = s.tgen /\ s'.ioRun = s.ioRun
      /\ s'.playRun = s.playRun /\ s'.reconnect = s.reconnect /\ s'.queue = s.queue
      /\ s'.announce = s.announce
  BY <1>1, ListeningService
<1>4. Roles'
  BY <1>1, <1>2, <1>3 DEF Roles, NoCleaner, Attempt, BeforeFocus, AfterFocus,
     HasIoTask, HasPlayTask
<1>5. Stopped'
  BY <1>1, <1>2, <1>3 DEF Stopped
<1>6. Rested'
  BY <1>1, <1>2, <1>3 DEF Rested, AtRest
<1>7. HeldOwned'
  BY <1>1, <1>2, <1>3 DEF HeldOwned, Attempt, BeforeFocus, AfterFocus, HasIoTask,
     HasPlayTask
<1>8. Attempted'
  BY <1>1, <1>2, <1>3 DEF Attempted, AtRest, Attempt, BeforeFocus, AfterFocus,
     HasIoTask, HasPlayTask
<1>9. InSession'
  BY <1>1, <1>2, <1>3 DEF InSession, AtRest, Attempt, BeforeFocus, AfterFocus,
     HasIoTask, HasPlayTask
<1>10. Coordinated'
  BY <1>1, <1>2, <1>3 DEF Coordinated, AtRest, Wanted, Current, RetryPlaces, AtWork,
     Attempt, BeforeFocus, AfterFocus, HasIoTask, HasPlayTask
<1>11. /\ ServiceTypes' /\ StarterTypes' /\ CleanerTypes' /\ TaskTypes' /\ LinkTypes'
       /\ CoordTypes' /\ RareTypes'
  BY <1>1, <1>2, <1>3 DEF ServiceTypes, StarterTypes, CleanerTypes, TaskTypes,
     LinkTypes, CoordTypes, RareTypes
<1> QED
  BY <1>4, <1>5, <1>6, <1>7, <1>8, <1>9, <1>10, <1>11 DEF VoiceInv

LEMMA IoFollowUpKeeps ==
  ASSUME VoiceInv, IoFollowUp
  PROVE  VoiceInv'
<1>1. LinkTypes /\ RareTypes
  BY InvParts
<1>2. InLoop /\ s.active /\ s.phase = "speaking" /\ UNCHANGED <<held, starter, net, report>>
  BY DEF IoFollowUp
<1>3. CASE /\ s' = [s EXCEPT !.phase = "listening", !.timed = TRUE]
           /\ UNCHANGED <<tasks, cleaner, events, coord, claim, rare>>
  BY <1>2, <1>3, FollowUpKeeps
<1>4. CASE SendFails(s.tgen) /\ \E retry \in BOOLEAN : Fail(s.tgen, retry)
  <2>1. claim' \in Claims /\ RareTypes'
    BY <1>1, <1>4, SendFailsTyped
  <2> QED
    BY <1>2, <1>4, <2>1, FailKeeps
<1> QED
  BY <1>3, <1>4 DEF IoFollowUp

(***************************************************************************)
(* The attempts of the coordinator.                                         *)
(***************************************************************************)

\* The I/O task begins an attempt.
LEMMA RetryKeeps ==
  ASSUME VoiceInv, Retry
  PROVE  VoiceInv'
<1>1. /\ s \in Service /\ TaskTypes /\ StarterTypes /\ CleanerTypes /\ LinkTypes /\ CoordTypes
      /\ RareTypes
      /\ Roles /\ Stopped /\ Rested /\ HeldOwned /\ Attempted /\ InSession /\ Coordinated
  BY InvParts
<1>2. InLoop /\ s.reconnect /\ ~s.active /\ coord.inter = s.gen /\ Opening
  BY DEF Retry
<1>3. /\ ~s.stopping /\ ~AtRest /\ s.ioRun /\ tasks.io = "loop" /\ s.gen # 0
  BY <1>2, LoopFacts
<1>4. UNCHANGED <<s, held, starter, cleaner, report, events, rare>>
  BY DEF Retry
<1>5. LinkTypes'
  BY <1>1, <1>2, <1>4, OpeningTyped DEF LinkTypes
<1>6. CoordTypes' /\ coord'.inter = coord.inter
  BY <1>1 DEF Retry, CoordTypes, AtWork
<1>7. LinkClosed.gen + 1 \in Nat
  BY <1>1, ClosedLink DEF Links
<1>8. TaskTypes' /\ tasks'.io = "opening" /\ tasks'.play = tasks.play
  BY <1>1, <1>4, <1>7 DEF Retry, TaskTypes, RetryPlaces
<1>9. Wanted
  BY <1>2, <1>3 DEF Wanted, Current
<1>10. Roles'
  BY <1>1, <1>2, <1>3, <1>4, <1>5, <1>6, <1>7, <1>8, <1>9 DEF Roles, NoCleaner,
     Attempt, BeforeFocus, AfterFocus, HasIoTask, HasPlayTask
<1>11. Stopped'
  BY <1>1, <1>2, <1>3, <1>4, <1>5, <1>6, <1>7, <1>8, <1>9 DEF Stopped
<1>12. Rested'
  BY <1>1, <1>2, <1>3, <1>4, <1>5, <1>6, <1>7, <1>8, <1>9 DEF Rested, AtRest
<1>13. HeldOwned'
  BY <1>1, <1>2, <1>3, <1>4, <1>5, <1>6, <1>7, <1>8, <1>9 DEF HeldOwned, Attempt,
     BeforeFocus, AfterFocus, HasIoTask, HasPlayTask
<1>14. Attempted'
  BY <1>1, <1>2, <1>3, <1>4, <1>5, <1>6, <1>7, <1>8, <1>9 DEF Attempted, AtRest,
     Attempt, BeforeFocus, AfterFocus, HasIoTask, HasPlayTask
<1>15. InSession'
  BY <1>1, <1>2, <1>3, <1>4, <1>5, <1>6, <1>7, <1>8, <1>9 DEF InSession, AtRest,
     Attempt, BeforeFocus, AfterFocus, HasIoTask, HasPlayTask
<1>16. Coordinated'
  BY <1>1, <1>2, <1>3, <1>4, <1>5, <1>6, <1>7, <1>8, <1>9 DEF Coordinated, AtRest,
     Wanted, Current, RetryPlaces, AtWork, Attempt, BeforeFocus, AfterFocus, HasIoTask,
     HasPlayTask
<1>17. ServiceTypes' /\ StarterTypes' /\ CleanerTypes' /\ RareTypes'
  BY <1>1, <1>2, <1>3, <1>4, <1>5, <1>6, <1>7, <1>8, <1>9 DEF ServiceTypes,
     StarterTypes, CleanerTypes, RareTypes
<1> QED
  BY <1>2, <1>3, <1>4, <1>5, <1>6, <1>7, <1>8, <1>9, <1>10, <1>11, <1>12, <1>13,
     <1>14, <1>15, <1>16, <1>17 DEF VoiceInv

\* Outside a stop, the attempt that is being made is wanted: it is given up only by a stop.
LEMMA CancelKeeps ==
  ASSUME VoiceInv, RetryCancelled, tasks.io \in RetryPlaces, s.stopping,
         UNCHANGED <<held, starter, report>>, net' \in Links, claim' \in Claims, RareTypes',
         net.link = "none" => net'.link = "none"
  PROVE  VoiceInv'
<1>1. TaskTypes /\ LinkTypes /\ CoordTypes /\ Stopped /\ Coordinated
  BY InvParts
<1>2. UNCHANGED <<s, cleaner, events>> /\ AtIo("loop") /\ coord' = Cancelled(coord, coord.inter)
  BY DEF RetryCancelled
<1>3. TaskTypes' /\ tasks'.io = "loop" /\ tasks'.play = tasks.play
  BY <1>1, <1>2, IoTyped
<1>4. CoordTypes' /\ coord'.state \notin AtWork
  BY <1>1, <1>2 DEF Cancelled, CoordTypes, Coordinated, AtWork
<1>5. LinkTypes' /\ (~s.ioRun => events' = {})
  BY <1>1, <1>2 DEF LinkTypes, Stopped
<1>6. tasks.io \notin {"none", "cleaning"} /\ tasks'.io \notin RetryPlaces
  BY <1>3 DEF RetryPlaces
<1> QED
  BY <1>2, <1>3, <1>4, <1>5, <1>6, IoMovesKeeps

\* A failed attempt is followed by another.
LEMMA RetryAgainKeeps ==
  ASSUME VoiceInv, tasks.io \in RetryPlaces,
         Wanted,
         coord.attempt < MaxAttempts,
         coord' = [coord EXCEPT !.state = "waiting", !.attempt = @ + 1],
         s' = [s EXCEPT !.tgen = 0],
         events' = {},
         AtIo("loop"),
         UNCHANGED <<held, starter, cleaner, report>>,
         net' \in Links,
         claim' \in Claims,
         RareTypes'
  PROVE  VoiceInv'
<1>1. /\ s \in Service /\ TaskTypes /\ StarterTypes /\ CleanerTypes /\ LinkTypes /\ CoordTypes
      /\ RareTypes
      /\ Roles /\ Stopped /\ Rested /\ HeldOwned /\ Attempted /\ InSession /\ Coordinated
  BY InvParts
<1>2. /\ ~s.stopping /\ ~AtRest /\ s.reconnect /\ ~s.active /\ coord.inter = s.gen
  BY DEF Wanted, Current
<1>3. /\ s' \in Service /\ s'.phase = s.phase /\ s'.gen = s.gen
      /\ s'.stopping = s.stopping /\ s'.starting = s.starting
      /\ s'.released = s.released /\ s'.focus = s.focus /\ s'.active = s.active
      /\ s'.rec = s.rec /\ s'.tgen = 0 /\ s'.ioRun = s.ioRun /\ s'.playRun = s.playRun
      /\ s'.reconnect = s.reconnect /\ s'.queue = s.queue /\ s'.announce = s.announce
  BY <1>1, BoundService
<1>4. TaskTypes' /\ tasks'.io = "loop" /\ tasks'.play = tasks.play
  BY <1>1, IoTyped
<1>5. coord.attempt + 1 \in 0 .. MaxAttempts
  BY <1>1, VoiceAssumption DEF CoordTypes
<1>6. CoordTypes' /\ coord'.inter = coord.inter
  BY <1>1, <1>5, WaitingCoord
<1>7. LinkTypes'
  BY <1>1 DEF LinkTypes
<1>8. s.gen # 0
  BY <1>1, <1>2 DEF InSession
<1>9. Roles'
  BY <1>1, <1>2, <1>3, <1>4, <1>5, <1>6, <1>7, <1>8 DEF Roles, NoCleaner, Attempt,
     BeforeFocus, AfterFocus, HasIoTask, HasPlayTask
<1>10. Stopped'
  BY <1>1, <1>2, <1>3, <1>4, <1>5, <1>6, <1>7, <1>8 DEF Stopped
<1>11. Rested'
  BY <1>1, <1>2, <1>3, <1>4, <1>5, <1>6, <1>7, <1>8 DEF Rested, AtRest
<1>12. HeldOwned'
  BY <1>1, <1>2, <1>3, <1>4, <1>5, <1>6, <1>7, <1>8 DEF HeldOwned, Attempt, BeforeFocus,
     AfterFocus, HasIoTask, HasPlayTask
<1>13. Attempted'
  BY <1>1, <1>2, <1>3, <1>4, <1>5, <1>6, <1>7, <1>8 DEF Attempted, AtRest, Attempt,
     BeforeFocus, AfterFocus, HasIoTask, HasPlayTask
<1>14. InSession'
  BY <1>1, <1>2, <1>3, <1>4, <1>5, <1>6, <1>7, <1>8 DEF InSession, AtRest, Attempt,
     BeforeFocus, AfterFocus, HasIoTask, HasPlayTask
<1>15. Coordinated'
  BY <1>1, <1>2, <1>3, <1>4, <1>5, <1>6, <1>7, <1>8 DEF Coordinated, AtRest, Wanted,
     Current, RetryPlaces, AtWork, Attempt, BeforeFocus, AfterFocus, HasIoTask, HasPlayTask
<1>16. ServiceTypes' /\ StarterTypes' /\ CleanerTypes'
  BY <1>1, <1>2, <1>3, <1>4, <1>5, <1>6, <1>7, <1>8 DEF ServiceTypes, StarterTypes,
     CleanerTypes
<1> QED
  BY <1>2, <1>3, <1>4, <1>5, <1>6, <1>7, <1>8, <1>9, <1>10, <1>11, <1>12, <1>13,
     <1>14, <1>15, <1>16 DEF VoiceInv

LEMMA RetryFailedKeeps ==
  ASSUME VoiceInv, NEW retry \in BOOLEAN, RetryFailed(retry), tasks.io \in RetryPlaces,
         UNCHANGED <<held, starter, report>>, net' = LinkClosed, claim' \in Claims, RareTypes'
  PROVE  VoiceInv'
<1>1. LinkTypes /\ CoordTypes /\ Coordinated
  BY InvParts
<1>2. net' \in Links /\ net'.link = "none"
  BY <1>1, ClosedLink
<1>3. CASE ~Wanted /\ RetryCancelled
  <2>1. s.stopping
    BY <1>1, <1>3 DEF Coordinated
  <2> QED
    BY <1>2, <1>3, <2>1, CancelKeeps
<1>4. CASE /\ Wanted /\ retry /\ coord.attempt < MaxAttempts
           /\ coord' = [coord EXCEPT !.state = "waiting", !.attempt = @ + 1]
           /\ s' = [s EXCEPT !.tgen = 0] /\ events' = {} /\ AtIo("loop") /\ UNCHANGED cleaner
  BY <1>2, <1>4, RetryAgainKeeps
<1>5. CASE coord' = [coord EXCEPT !.state = "terminal"] /\ IoFinish("error")
  <2>1. CoordTypes' /\ coord'.state \notin AtWork
    BY <1>1, <1>5 DEF CoordTypes, AtWork
  <2> QED
    BY <1>2, <1>5, <2>1, IoFinishKeeps
<1> QED
  BY <1>3, <1>4, <1>5 DEF RetryFailed

LEMMA RetryOpenedKeeps ==
  ASSUME VoiceInv, RetryOpened
  PROVE  VoiceInv'
<1>1. TaskTypes /\ LinkTypes /\ CoordTypes /\ RareTypes /\ Stopped
  BY InvParts
<1>2. UNCHANGED <<held, starter, claim, report, rare>> /\ tasks.io = "opening"
  BY DEF RetryOpened
<1>3. claim' \in Claims /\ RareTypes' /\ tasks.io \in RetryPlaces
  BY <1>1, <1>2 DEF LinkTypes, RareTypes, RetryPlaces
<1>4. CASE /\ Opens(tasks.net) /\ Wanted /\ net' = [net EXCEPT !.link = "open"]
           /\ AtIo("bind") /\ UNCHANGED <<s, cleaner, events, coord>>
  <2>1. net.link # "none"
    BY <1>4 DEF Opens
  <2>2. LinkTypes' /\ CoordTypes' /\ (~s.ioRun => events' = {})
    BY <1>1, <1>2, <1>4 DEF LinkTypes, Links, CoordTypes, Stopped
  <2>3. TaskTypes' /\ tasks'.io = "bind" /\ tasks'.play = tasks.play
    BY <1>1, <1>2, <1>4, IoTyped DEF RetryPlaces
  <2> QED
    BY <1>2, <1>3, <1>4, <2>1, <2>2, <2>3, IoMovesKeeps
<1>5. CASE net' = LinkClosed /\ \E retry \in BOOLEAN : RetryFailed(retry)
  BY <1>2, <1>3, <1>5, RetryFailedKeeps
<1> QED
  BY <1>4, <1>5 DEF RetryOpened

\* An opened connection is bound, for an attempt that is still wanted.
LEMMA RetryBindInTime ==
  ASSUME VoiceInv, RetryBind,
         Wanted
  PROVE  VoiceInv'
<1>1. /\ s \in Service /\ TaskTypes /\ StarterTypes /\ CleanerTypes /\ LinkTypes /\ CoordTypes
      /\ RareTypes
      /\ Roles /\ Stopped /\ Rested /\ HeldOwned /\ Attempted /\ InSession /\ Coordinated
  BY InvParts
<1>2. /\ tasks.io = "bind" /\ s' = [s EXCEPT !.tgen = tasks.net] /\ AtIo("sending")
      /\ UNCHANGED <<net, coord, cleaner, events, held, starter, claim, report, rare>>
  BY DEF RetryBind
<1>3. /\ ~s.stopping /\ ~AtRest /\ s.reconnect /\ ~s.active /\ coord.inter = s.gen
  BY DEF Wanted, Current
<1>4. tasks.net \in Nat
  BY <1>1 DEF TaskTypes
<1>5. /\ s' \in Service /\ s'.phase = s.phase /\ s'.gen = s.gen
      /\ s'.stopping = s.stopping /\ s'.starting = s.starting
      /\ s'.released = s.released /\ s'.focus = s.focus /\ s'.active = s.active
      /\ s'.rec = s.rec /\ s'.tgen = tasks.net /\ s'.ioRun = s.ioRun
      /\ s'.playRun = s.playRun /\ s'.reconnect = s.reconnect /\ s'.queue = s.queue
      /\ s'.announce = s.announce
  BY <1>1, <1>2, <1>4, BoundService
<1>6. /\ TaskTypes' /\ tasks'.io = "sending" /\ tasks'.play = tasks.play
      /\ tasks'.net = tasks.net
  BY <1>1, <1>2, IoTyped DEF RetryPlaces
<1>7. Roles'
  BY <1>1, <1>2, <1>3, <1>4, <1>5, <1>6 DEF Roles, NoCleaner, Attempt, BeforeFocus,
     AfterFocus, HasIoTask, HasPlayTask
<1>8. Stopped'
  BY <1>1, <1>2, <1>3, <1>4, <1>5, <1>6 DEF Stopped
<1>9. Rested'
  BY <1>1, <1>2, <1>3, <1>4, <1>5, <1>6 DEF Rested, AtRest
<1>10. HeldOwned'
  BY <1>1, <1>2, <1>3, <1>4, <1>5, <1>6 DEF HeldOwned, Attempt, BeforeFocus, AfterFocus,
     HasIoTask, HasPlayTask
<1>11. Attempted'
  BY <1>1, <1>2, <1>3, <1>4, <1>5, <1>6 DEF Attempted, AtRest, Attempt, BeforeFocus,
     AfterFocus, HasIoTask, HasPlayTask
<1>12. InSession'
  BY <1>1, <1>2, <1>3, <1>4, <1>5, <1>6 DEF InSession, AtRest, Attempt, BeforeFocus,
     AfterFocus, HasIoTask, HasPlayTask
<1>13. Coordinated'
  BY <1>1, <1>2, <1>3, <1>4, <1>5, <1>6 DEF Coordinated, AtRest, Wanted, Current,
     RetryPlaces, AtWork, Attempt, BeforeFocus, AfterFocus, HasIoTask, HasPlayTask
<1>14. ServiceTypes' /\ StarterTypes' /\ CleanerTypes' /\ LinkTypes' /\ CoordTypes' /\ RareTypes'
  BY <1>1, <1>2, <1>3, <1>4, <1>5, <1>6 DEF ServiceTypes, StarterTypes, CleanerTypes,
     LinkTypes, CoordTypes, RareTypes
<1> QED
  BY <1>2, <1>3, <1>4, <1>5, <1>6, <1>7, <1>8, <1>9, <1>10, <1>11, <1>12, <1>13, <1>14
     DEF VoiceInv

\* The interaction goes on.
LEMMA RetryAdoptInTime ==
  ASSUME VoiceInv, RetryAdopt,
         Wanted,
         s.tgen = tasks.net
  PROVE  VoiceInv'
<1>1. /\ s \in Service /\ TaskTypes /\ StarterTypes /\ CleanerTypes /\ LinkTypes /\ CoordTypes
      /\ RareTypes
      /\ Roles /\ Stopped /\ Rested /\ HeldOwned /\ Attempted /\ InSession /\ Coordinated
  BY InvParts
<1>2. /\ tasks.io = "adopt" /\ AtIo("loop")
      /\ s' = [s EXCEPT !.active = TRUE, !.reconnect = FALSE, !.phase = "listening"]
      /\ UNCHANGED <<net, cleaner, events, held, starter, claim, report, coord, rare>>
  BY DEF RetryAdopt
<1>3. /\ ~s.stopping /\ ~AtRest /\ s.reconnect /\ ~s.active /\ coord.inter = s.gen
  BY DEF Wanted, Current
<1>4. /\ s' \in Service /\ s'.phase = "listening" /\ s'.gen = s.gen
      /\ s'.stopping = s.stopping /\ s'.starting = s.starting
      /\ s'.released = s.released /\ s'.focus = s.focus /\ s'.active /\ s'.rec = s.rec
      /\ s'.tgen = s.tgen /\ s'.ioRun = s.ioRun /\ s'.playRun = s.playRun
      /\ ~s'.reconnect /\ s'.queue = s.queue /\ s'.announce = s.announce
  BY <1>1, <1>2, RecommittedService
<1>5. /\ TaskTypes' /\ tasks'.io = "loop" /\ tasks'.play = tasks.play
  BY <1>1, <1>2, IoTyped DEF RetryPlaces
<1>6. tasks.net \in Nat
  BY <1>1 DEF TaskTypes
<1>7. CoordTypes' /\ coord'.inter = coord.inter
  BY <1>1, <1>2 DEF CoordTypes
<1>8. s.gen # 0 /\ starter.pc \notin Attempt
  BY <1>1, <1>3 DEF InSession, Attempted
<1>9. Roles'
  BY <1>1, <1>2, <1>3, <1>4, <1>5, <1>6, <1>7, <1>8 DEF Roles, NoCleaner, Attempt,
     BeforeFocus, AfterFocus, HasIoTask, HasPlayTask
<1>10. Stopped'
  BY <1>1, <1>2, <1>3, <1>4, <1>5, <1>6, <1>7, <1>8 DEF Stopped
<1>11. Rested'
  BY <1>1, <1>2, <1>3, <1>4, <1>5, <1>6, <1>7, <1>8 DEF Rested, AtRest
<1>12. HeldOwned'
  BY <1>1, <1>2, <1>3, <1>4, <1>5, <1>6, <1>7, <1>8 DEF HeldOwned, Attempt, BeforeFocus,
     AfterFocus, HasIoTask, HasPlayTask
<1>13. Attempted'
  BY <1>1, <1>2, <1>3, <1>4, <1>5, <1>6, <1>7, <1>8 DEF Attempted, AtRest, Attempt,
     BeforeFocus, AfterFocus, HasIoTask, HasPlayTask
<1>14. InSession'
  BY <1>1, <1>2, <1>3, <1>4, <1>5, <1>6, <1>7, <1>8 DEF InSession, AtRest, Attempt,
     BeforeFocus, AfterFocus, HasIoTask, HasPlayTask
<1>15. Coordinated'
  BY <1>1, <1>2, <1>3, <1>4, <1>5, <1>6, <1>7, <1>8 DEF Coordinated, AtRest, Wanted,
     Current, RetryPlaces, AtWork, Attempt, BeforeFocus, AfterFocus, HasIoTask, HasPlayTask
<1>16. ServiceTypes' /\ StarterTypes' /\ CleanerTypes' /\ LinkTypes' /\ RareTypes'
  BY <1>1, <1>2, <1>3, <1>4, <1>5, <1>6, <1>7, <1>8 DEF ServiceTypes, StarterTypes,
     CleanerTypes, LinkTypes, RareTypes
<1> QED
  BY <1>2, <1>3, <1>4, <1>5, <1>6, <1>7, <1>8, <1>9, <1>10, <1>11, <1>12, <1>13,
     <1>14, <1>15, <1>16 DEF VoiceInv

LEMMA RetryBindKeeps ==
  ASSUME VoiceInv, RetryBind
  PROVE  VoiceInv'
<1>1. LinkTypes /\ RareTypes /\ Coordinated
  BY InvParts
<1>2. CASE Wanted
  BY <1>2, RetryBindInTime
<1>3. CASE ~Wanted
  <2>1. /\ RetryCancelled /\ net' = LinkClosed /\ UNCHANGED <<held, starter, claim, report, rare>>
        /\ tasks.io \in RetryPlaces
    BY <1>3 DEF RetryBind, RetryPlaces
  <2>2. s.stopping
    BY <1>1, <1>3, <2>1 DEF Coordinated
  <2>3. net' \in Links /\ net'.link = "none" /\ claim' \in Claims /\ RareTypes'
    BY <1>1, <2>1, ClosedLink DEF LinkTypes, RareTypes
  <2> QED
    BY <2>1, <2>2, <2>3, CancelKeeps
<1> QED
  BY <1>2, <1>3

LEMMA RetrySendKeeps ==
  ASSUME VoiceInv, RetrySend
  PROVE  VoiceInv'
<1>1. TaskTypes /\ LinkTypes /\ CoordTypes /\ RareTypes /\ Stopped /\ Coordinated
  BY InvParts
<1>2. UNCHANGED <<held, starter, report>> /\ tasks.io = "sending" /\ tasks.io \in RetryPlaces
  BY DEF RetrySend, RetryPlaces
<1>3. CASE AtIo("commit") /\ UNCHANGED <<s, cleaner, events, coord, net, claim, rare>>
  <2>1. LinkTypes' /\ CoordTypes' /\ RareTypes' /\ (~s.ioRun => events' = {})
    BY <1>1, <1>2, <1>3 DEF LinkTypes, CoordTypes, RareTypes, Stopped
  <2>2. /\ TaskTypes' /\ tasks'.io = "commit" /\ tasks'.play = tasks.play
        /\ tasks'.net = tasks.net
    BY <1>1, <1>2, <1>3, IoTyped DEF RetryPlaces
  <2>3. ~s.stopping => Wanted /\ s.tgen = tasks.net
    BY <1>1, <1>2 DEF Coordinated
  <2> QED
    BY <1>2, <1>3, <2>1, <2>2, <2>3, IoMovesKeeps
<1>4. CASE /\ SendFails(tasks.net) /\ net' = LinkClosed
           /\ \E retry \in BOOLEAN : RetryFailed(retry)
  <2>1. claim' \in Claims /\ RareTypes'
    BY <1>1, <1>4, SendFailsTyped
  <2> QED
    BY <1>2, <1>4, <2>1, RetryFailedKeeps
<1> QED
  BY <1>3, <1>4 DEF RetrySend

\* The coordinator takes the connection; the service has yet to take it.
LEMMA RetryCommitInTime ==
  ASSUME VoiceInv, RetryCommit, Wanted
  PROVE  VoiceInv'
<1>1. /\ s \in Service /\ TaskTypes /\ StarterTypes /\ CleanerTypes /\ LinkTypes /\ CoordTypes
      /\ RareTypes
      /\ Roles /\ Stopped /\ Rested /\ HeldOwned /\ Attempted /\ InSession /\ Coordinated
  BY InvParts
<1>2. /\ tasks.io = "commit" /\ AtIo("adopt")
      /\ UNCHANGED <<s, net, cleaner, events, held, starter, claim, report, rare>>
  BY DEF RetryCommit
<1>3. ~s.stopping /\ ~AtRest /\ s.reconnect /\ ~s.active /\ coord.inter = s.gen
  BY DEF Wanted, Current
<1>4. tasks.net \in Nat /\ coord' = [coord EXCEPT !.state = "active", !.gen = tasks.net, !.attempt = 0]
  BY <1>1 DEF RetryCommit, TaskTypes
<1>5. CoordTypes' /\ coord'.inter = coord.inter
  BY <1>1, <1>4, RecommittedCoord
<1>6. /\ TaskTypes' /\ tasks'.io = "adopt" /\ tasks'.play = tasks.play
      /\ tasks'.net = tasks.net
  BY <1>1, <1>2, IoTyped DEF RetryPlaces
<1>7. Roles'
  BY <1>1, <1>2, <1>6 DEF Roles, NoCleaner
<1>8. Stopped' /\ Rested'
  BY <1>1, <1>2, <1>3 DEF Stopped, Rested, AtRest
<1>9. HeldOwned'
  BY <1>1, <1>2 DEF HeldOwned
<1>10. Attempted'
  BY <1>1, <1>2, <1>6 DEF Attempted, AtRest
<1>11. InSession'
  BY <1>1, <1>2, <1>5 DEF InSession, AtRest
<1>12. s.gen # 0
  BY <1>1, <1>3 DEF InSession
<1>13. s.tgen = tasks.net
  BY <1>1, <1>2, <1>3 DEF Coordinated
<1>14. Wanted' /\ ~AtRest'
  BY <1>2, <1>3, <1>5 DEF Wanted, Current, AtRest
<1>15. Coordinated'
  BY <1>2, <1>3, <1>5, <1>6, <1>12, <1>13, <1>14 DEF Coordinated
<1>16. ServiceTypes' /\ StarterTypes' /\ CleanerTypes' /\ LinkTypes' /\ RareTypes'
  BY <1>1, <1>2 DEF ServiceTypes, StarterTypes, CleanerTypes, LinkTypes, RareTypes
<1> QED
  BY <1>5, <1>6, <1>7, <1>8, <1>9, <1>10, <1>11, <1>15, <1>16 DEF VoiceInv

LEMMA RetryCommitKeeps ==
  ASSUME VoiceInv, RetryCommit
  PROVE  VoiceInv'
<1>1. LinkTypes /\ RareTypes /\ Coordinated
  BY InvParts
<1>2. CASE Wanted
  BY <1>2, RetryCommitInTime
<1>3. CASE ~Wanted
  <2>1. /\ RetryCancelled /\ net' = LinkClosed /\ UNCHANGED <<held, starter, claim, report, rare>>
        /\ tasks.io = "commit" /\ tasks.io \in RetryPlaces
    BY <1>3 DEF RetryCommit, RetryPlaces
  <2>2. s.stopping
    BY <1>1, <1>3, <2>1 DEF Coordinated
  <2>3. net' \in Links /\ net'.link = "none" /\ claim' \in Claims /\ RareTypes'
    BY <1>1, <2>1, ClosedLink DEF LinkTypes, RareTypes
  <2> QED
    BY <2>1, <2>2, <2>3, CancelKeeps
<1> QED
  BY <1>2, <1>3

LEMMA RetryAdoptKeeps ==
  ASSUME VoiceInv, RetryAdopt
  PROVE  VoiceInv'
<1>1. TaskTypes /\ LinkTypes /\ CoordTypes /\ RareTypes /\ Stopped /\ Coordinated
  BY InvParts
<1>2. CASE Wanted /\ s.tgen = tasks.net
  BY <1>2, RetryAdoptInTime
<1>3. CASE ~(Wanted /\ s.tgen = tasks.net)
  <2>1. /\ net' = LinkClosed /\ AtIo("loop") /\ tasks.io = "adopt" /\ tasks.io \in RetryPlaces
        /\ UNCHANGED <<s, held, starter, cleaner, claim, report, events, coord, rare>>
    BY <1>3 DEF RetryAdopt, RetryPlaces
  <2>2. LinkTypes' /\ CoordTypes' /\ RareTypes' /\ (~s.ioRun => events' = {})
    BY <1>1, <2>1, ClosedLink DEF LinkTypes, CoordTypes, RareTypes, Stopped
  <2>3. TaskTypes' /\ tasks'.io = "loop" /\ tasks'.play = tasks.play
    BY <1>1, <2>1, IoTyped DEF RetryPlaces
  <2>4. net'.link = "none"
    BY <1>1, <2>1, ClosedLink DEF LinkTypes
  <2> QED
    BY <2>1, <2>2, <2>3, <2>4, IoMovesKeeps DEF RetryPlaces
<1> QED
  BY <1>2, <1>3

(***************************************************************************)
(* The playback task.                                                       *)
(***************************************************************************)

\* A write begins.
LEMMA PlayWriteKeeps ==
  ASSUME VoiceInv, PlayWrite
  PROVE  VoiceInv'
<1>1. /\ s \in Service /\ TaskTypes /\ StarterTypes /\ CleanerTypes /\ LinkTypes /\ CoordTypes
      /\ RareTypes
      /\ Roles /\ Stopped /\ Rested /\ HeldOwned /\ Attempted /\ InSession /\ Coordinated
  BY InvParts
<1>2. tasks.play = "idle" /\ s.playRun /\ s.queue /\ s' = [s EXCEPT !.queue = FALSE]
  BY DEF PlayWrite
<1>3. /\ s' \in Service /\ s'.phase = s.phase /\ s'.gen = s.gen
      /\ s'.stopping = s.stopping /\ s'.starting = s.starting
      /\ s'.released = s.released /\ s'.focus = s.focus /\ s'.active = s.active
      /\ s'.rec = s.rec /\ s'.tgen = s.tgen /\ s'.ioRun = s.ioRun
      /\ s'.playRun = s.playRun /\ s'.reconnect = s.reconnect /\ ~s'.queue
      /\ s'.announce = s.announce
  BY <1>1, <1>2, TakenService
<1>4. UNCHANGED <<held, starter, cleaner, events, coord, rare, net, claim, report>>
  BY DEF PlayWrite, outside
<1>5. /\ TaskTypes' /\ tasks'.play = "writing" /\ tasks'.io = tasks.io
      /\ tasks'.net = tasks.net
  BY <1>1, <1>4 DEF PlayWrite, TaskTypes
<1>6. Roles'
  BY <1>1, <1>2, <1>3, <1>4, <1>5 DEF Roles, NoCleaner, Attempt, BeforeFocus,
     AfterFocus, HasIoTask, HasPlayTask
<1>7. Stopped'
  BY <1>1, <1>2, <1>3, <1>4, <1>5 DEF Stopped
<1>8. Rested'
  BY <1>1, <1>2, <1>3, <1>4, <1>5 DEF Rested, AtRest
<1>9. HeldOwned'
  BY <1>1, <1>2, <1>3, <1>4, <1>5 DEF HeldOwned, Attempt, BeforeFocus, AfterFocus,
     HasIoTask, HasPlayTask
<1>10. Attempted'
  BY <1>1, <1>2, <1>3, <1>4, <1>5 DEF Attempted, AtRest, Attempt, BeforeFocus,
     AfterFocus, HasIoTask, HasPlayTask
<1>11. InSession'
  BY <1>1, <1>2, <1>3, <1>4, <1>5 DEF InSession, AtRest, Attempt, BeforeFocus,
     AfterFocus, HasIoTask, HasPlayTask
<1>12. Coordinated'
  BY <1>1, <1>2, <1>3, <1>4, <1>5 DEF Coordinated, AtRest, Wanted, Current,
     RetryPlaces, AtWork, Attempt, BeforeFocus, AfterFocus, HasIoTask, HasPlayTask
<1>13. ServiceTypes' /\ StarterTypes' /\ CleanerTypes' /\ LinkTypes' /\ CoordTypes' /\ RareTypes'
  BY <1>1, <1>2, <1>3, <1>4, <1>5 DEF ServiceTypes, StarterTypes, CleanerTypes,
     LinkTypes, CoordTypes, RareTypes
<1> QED
  BY <1>2, <1>3, <1>4, <1>5, <1>6, <1>7, <1>8, <1>9, <1>10, <1>11, <1>12, <1>13 DEF
     VoiceInv

\* A write ends.
LEMMA PlayWrittenKeeps ==
  ASSUME VoiceInv, PlayWritten,
         UNCHANGED <<s, rare>>
  PROVE  VoiceInv'
<1>1. /\ s \in Service /\ TaskTypes /\ StarterTypes /\ CleanerTypes /\ LinkTypes /\ CoordTypes
      /\ RareTypes
      /\ Roles /\ Stopped /\ Rested /\ HeldOwned /\ Attempted /\ InSession /\ Coordinated
  BY InvParts
<1>2. UNCHANGED <<held, starter, cleaner, events, coord, net, claim,
                  report>> /\ tasks.play = "writing"
  BY DEF PlayWritten, outside
<1>3. /\ TaskTypes' /\ tasks'.play = "idle" /\ tasks'.io = tasks.io
      /\ tasks'.net = tasks.net
  BY <1>1, <1>2 DEF PlayWritten, TaskTypes
<1>4. Roles'
  BY <1>1, <1>2, <1>3 DEF Roles, NoCleaner, Attempt, BeforeFocus, AfterFocus,
     HasIoTask, HasPlayTask
<1>5. Stopped'
  BY <1>1, <1>2, <1>3 DEF Stopped
<1>6. Rested'
  BY <1>1, <1>2, <1>3 DEF Rested, AtRest
<1>7. HeldOwned'
  BY <1>1, <1>2, <1>3 DEF HeldOwned, Attempt, BeforeFocus, AfterFocus, HasIoTask,
     HasPlayTask
<1>8. Attempted'
  BY <1>1, <1>2, <1>3 DEF Attempted, AtRest, Attempt, BeforeFocus, AfterFocus,
     HasIoTask, HasPlayTask
<1>9. InSession'
  BY <1>1, <1>2, <1>3 DEF InSession, AtRest, Attempt, BeforeFocus, AfterFocus,
     HasIoTask, HasPlayTask
<1>10. Coordinated'
  BY <1>1, <1>2, <1>3 DEF Coordinated, AtRest, Wanted, Current, RetryPlaces, AtWork,
     Attempt, BeforeFocus, AfterFocus, HasIoTask, HasPlayTask
<1>11. ServiceTypes' /\ StarterTypes' /\ CleanerTypes' /\ LinkTypes' /\ CoordTypes' /\ RareTypes'
  BY <1>1, <1>2, <1>3 DEF ServiceTypes, StarterTypes, CleanerTypes, LinkTypes,
     CoordTypes, RareTypes
<1> QED
  BY <1>2, <1>3, <1>4, <1>5, <1>6, <1>7, <1>8, <1>9, <1>10, <1>11 DEF VoiceInv

\* A write fails.
LEMMA PlayFailedKeeps ==
  ASSUME VoiceInv, PlayWritten,
         Failing,
         s' = [s EXCEPT !.playFailed = TRUE]
  PROVE  VoiceInv'
<1>1. /\ s \in Service /\ TaskTypes /\ StarterTypes /\ CleanerTypes /\ LinkTypes /\ CoordTypes
      /\ RareTypes
      /\ Roles /\ Stopped /\ Rested /\ HeldOwned /\ Attempted /\ InSession /\ Coordinated
  BY InvParts
<1>2. UNCHANGED <<held, starter, cleaner, events, coord, net, claim,
                  report>> /\ tasks.play = "writing"
  BY DEF PlayWritten, outside
<1>3. /\ TaskTypes' /\ tasks'.play = "idle" /\ tasks'.io = tasks.io
      /\ tasks'.net = tasks.net
  BY <1>1, <1>2 DEF PlayWritten, TaskTypes
<1>4. /\ s' \in Service /\ s'.phase = s.phase /\ s'.gen = s.gen
      /\ s'.stopping = s.stopping /\ s'.starting = s.starting
      /\ s'.released = s.released /\ s'.focus = s.focus /\ s'.active = s.active
      /\ s'.rec = s.rec /\ s'.tgen = s.tgen /\ s'.ioRun = s.ioRun
      /\ s'.playRun = s.playRun /\ s'.reconnect = s.reconnect /\ s'.queue = s.queue
      /\ s'.announce = s.announce
  BY <1>1, FailedService
<1>5. RareTypes'
  BY <1>1, FailingKeepsRare
<1>6. Roles'
  BY <1>1, <1>2, <1>3, <1>4, <1>5 DEF Roles, NoCleaner, Attempt, BeforeFocus,
     AfterFocus, HasIoTask, HasPlayTask
<1>7. Stopped'
  BY <1>1, <1>2, <1>3, <1>4, <1>5 DEF Stopped
<1>8. Rested'
  BY <1>1, <1>2, <1>3, <1>4, <1>5 DEF Rested, AtRest
<1>9. HeldOwned'
  BY <1>1, <1>2, <1>3, <1>4, <1>5 DEF HeldOwned, Attempt, BeforeFocus, AfterFocus,
     HasIoTask, HasPlayTask
<1>10. Attempted'
  BY <1>1, <1>2, <1>3, <1>4, <1>5 DEF Attempted, AtRest, Attempt, BeforeFocus,
     AfterFocus, HasIoTask, HasPlayTask
<1>11. InSession'
  BY <1>1, <1>2, <1>3, <1>4, <1>5 DEF InSession, AtRest, Attempt, BeforeFocus,
     AfterFocus, HasIoTask, HasPlayTask
<1>12. Coordinated'
  BY <1>1, <1>2, <1>3, <1>4, <1>5 DEF Coordinated, AtRest, Wanted, Current,
     RetryPlaces, AtWork, Attempt, BeforeFocus, AfterFocus, HasIoTask, HasPlayTask
<1>13. ServiceTypes' /\ StarterTypes' /\ CleanerTypes' /\ LinkTypes' /\ CoordTypes'
  BY <1>1, <1>2, <1>3, <1>4, <1>5 DEF ServiceTypes, StarterTypes, CleanerTypes,
     LinkTypes, CoordTypes
<1> QED
  BY <1>2, <1>3, <1>4, <1>5, <1>6, <1>7, <1>8, <1>9, <1>10, <1>11, <1>12, <1>13 DEF
     VoiceInv

(***************************************************************************)
(* The steps of the start attempt.                                         *)
(***************************************************************************)
\* The attempt goes on, or ends because a stop overtook it, and neither takes a thing nor
\* gives one back.
LEMMA GoesOnKeeps ==
  ASSUME VoiceInv, NEW pc \in {"admit", "again", "mark", "end"} \cup Attempt, StarterTo(pc),
         UNCHANGED <<s, held, tasks, cleaner, coord, report>>,
         net' \in Links, claim' \in Claims, events' \subseteq Reports, RareTypes',
         net.link = "none" => net'.link = "none" \/ (~s.stopping /\ ~AtRest),
         ~s.ioRun => events' = {},
         starter.pc \notin {"none", "cleaning", "recorded", "focused"},
         pc \notin {"recorded", "focused"},
         pc \in Attempt => starter.pc \in Attempt,
         pc \in BeforeFocus => starter.pc \in BeforeFocus,
         pc \in AfterFocus => starter.pc \in AfterFocus,
         pc \in HasIoTask => starter.pc \in HasIoTask,
         pc \in HasPlayTask => starter.pc \in HasPlayTask,
         starter.pc \in Attempt /\ pc \notin Attempt => s.stopping,
         pc \in {"again", "mark"} => starter.pc \in {"again", "mark"}
  PROVE  VoiceInv'
<1>1. TaskTypes /\ StarterTypes /\ LinkTypes
  BY InvParts
<1>2. StarterTypes' /\ starter'.pc = pc /\ starter'.gen = starter.gen
  BY <1>1, StarterTyped
<1>3. TaskTypes' /\ LinkTypes'
  BY <1>1 DEF TaskTypes, LinkTypes
<1>4. pc \notin {"none", "cleaning"}
  BY DEF Attempt, BeforeFocus, AfterFocus
<1> QED
  BY <1>2, <1>3, <1>4, StarterMovesKeeps

\* An attempt that no stop overtook has the service to itself.
LEMMA AttemptFacts ==
  ASSUME VoiceInv, starter.pc \in Attempt
  PROVE  /\ ~s.stopping => s.gen = starter.gen /\ s.phase = "connecting" /\ ~AtRest
         /\ ~s.stopping => Mine /\ MineStill
         /\ tasks.play # "writing"
<1>1. Attempted
  BY InvParts
<1> QED
  BY <1>1 DEF Attempted, AtRest, Mine, MineStill, Current

LEMMA VoiceAdmitKeeps ==
  ASSUME VoiceInv, VoiceAdmit
  PROVE  VoiceInv'
<1>1. LinkTypes /\ RareTypes /\ Stopped
  BY InvParts
<1>2. CASE s.stopping \/ tasks.io # "none" \/ tasks.play # "none" \/ ~AtRest
  <2>1. /\ starter.pc = "admit" /\ StarterTo("end")
        /\ UNCHANGED <<s, held, tasks, cleaner, events, coord, rare, net, claim, report>>
    BY <1>2 DEF VoiceAdmit, outside
  <2>2. RareTypes' /\ net' \in Links /\ claim' \in Claims /\ events' \subseteq Reports
    BY <1>1, <2>1 DEF RareTypes, LinkTypes
  <2>3. ~s.ioRun => events' = {}
    BY <1>1, <2>1 DEF Stopped
  <2> QED
    BY <2>1, <2>2, <2>3, GoesOnKeeps DEF Attempt, BeforeFocus, AfterFocus, HasIoTask, HasPlayTask
<1>3. CASE ~(s.stopping \/ tasks.io # "none" \/ tasks.play # "none" \/ ~AtRest)
  BY <1>3, AdmitKeeps
<1> QED
  BY <1>2, <1>3

LEMMA RecordKeeps ==
  ASSUME VoiceInv, Record
  PROVE  VoiceInv'
<1>1. TaskTypes /\ StarterTypes /\ LinkTypes /\ RareTypes /\ Stopped
  BY InvParts
<1>2. /\ starter.pc = "record" /\ UNCHANGED <<tasks, coord, net, claim, report>>
      /\ starter.pc \in Attempt \ {"recorded", "focused"}
  BY DEF Record, outside, Attempt, BeforeFocus
<1>3. net' \in Links /\ claim' \in Claims
  BY <1>1, <1>2 DEF LinkTypes
<1>4. CASE Failing /\ (\E final \in {"idle", "error"} : GiveUp(final)) /\ UNCHANGED held
  <2>1. RareTypes'
    BY <1>1, <1>4, FailingKeepsRare
  <2> QED
    BY <1>2, <1>3, <1>4, <2>1, GiveUpKeeps
<1>5. CASE /\ held' = [held EXCEPT !.rec = TRUE] /\ StarterTo("recorded")
           /\ UNCHANGED <<s, cleaner, events, rare>>
  <2>1. TaskTypes' /\ held'.focus = held.focus /\ RareTypes' /\ LinkTypes'
    BY <1>1, <1>2, <1>5 DEF TaskTypes, RareTypes, LinkTypes
  <2>2. StarterTypes' /\ starter'.pc = "recorded" /\ starter'.gen = starter.gen
    BY <1>1, <1>5, StarterTyped DEF Attempt, BeforeFocus
  <2>3. ~s.ioRun => events' = {}
    BY <1>1, <1>5 DEF Stopped
  <2> QED
    BY <1>2, <1>5, <2>1, <2>2, <2>3, StarterMovesKeeps
       DEF Attempt, BeforeFocus, AfterFocus, HasIoTask, HasPlayTask
<1> QED
  BY <1>4, <1>5 DEF Record

\* What was acquired too late is given back by the attempt itself.
LEMMA GivenBackKeeps ==
  ASSUME VoiceInv, s.stopping, StarterTo("end"), starter.pc \in {"recorded", "focused"},
         UNCHANGED <<s, tasks, cleaner, events, coord, rare, net, claim, report>>,
         TaskTypes', held'.rec => held.rec /\ starter.pc # "recorded",
         held'.focus => held.focus /\ starter.pc # "focused"
  PROVE  VoiceInv'
<1>1. TaskTypes /\ StarterTypes /\ LinkTypes /\ RareTypes /\ Stopped
  BY InvParts
<1>2. StarterTypes' /\ starter'.pc = "end" /\ starter'.gen = starter.gen
  BY <1>1, StarterTyped
<1>3. LinkTypes' /\ RareTypes' /\ (~s.ioRun => events' = {})
  BY <1>1 DEF LinkTypes, RareTypes, Stopped
<1>4. starter'.pc \notin Attempt \cup BeforeFocus \cup AfterFocus \cup HasIoTask \cup HasPlayTask
  BY <1>2 DEF Attempt, BeforeFocus, AfterFocus, HasIoTask, HasPlayTask
<1> QED
  BY <1>2, <1>3, <1>4, StarterMovesKeeps

LEMMA RecordedKeeps ==
  ASSUME VoiceInv, Recorded
  PROVE  VoiceInv'
<1>1. TaskTypes /\ StarterTypes
  BY InvParts
<1>2. CASE MineStill
  BY <1>2, RecordedInTime
<1>3. CASE ~MineStill
  <2>1. /\ starter.pc = "recorded" /\ held' = [held EXCEPT !.rec = FALSE] /\ StarterTo("end")
        /\ UNCHANGED <<s, tasks, cleaner, events, coord, rare, net, claim, report>>
    BY <1>3 DEF Recorded, outside
  <2>2. s.stopping
    BY <1>3, <2>1, AttemptFacts DEF Attempt, BeforeFocus
  <2>3. TaskTypes' /\ ~held'.rec /\ held'.focus = held.focus
    BY <1>1, <2>1 DEF TaskTypes
  <2> QED
    BY <2>1, <2>2, <2>3, GivenBackKeeps
<1> QED
  BY <1>2, <1>3

LEMMA FocusedKeeps ==
  ASSUME VoiceInv, Focused
  PROVE  VoiceInv'
<1>1. TaskTypes /\ StarterTypes
  BY InvParts
<1>2. CASE MineStill
  BY <1>2, FocusedInTime
<1>3. CASE ~MineStill
  <2>1. /\ starter.pc = "focused" /\ StarterTo("end")
        /\ held' = [rec |-> held.rec /\ starter.kind # "wake", focus |-> FALSE]
        /\ UNCHANGED <<s, tasks, cleaner, events, coord, rare, net, claim, report>>
    BY <1>3 DEF Focused, outside
  <2>2. s.stopping
    BY <1>3, <2>1, AttemptFacts DEF Attempt, BeforeFocus
  <2>3. TaskTypes' /\ ~held'.focus /\ (held'.rec => held.rec)
    BY <1>1, <2>1 DEF TaskTypes
  <2> QED
    BY <2>1, <2>2, <2>3, GivenBackKeeps
<1> QED
  BY <1>2, <1>3

LEMMA PrepareKeeps ==
  ASSUME VoiceInv, Prepare
  PROVE  VoiceInv'
<1>1. LinkTypes /\ RareTypes /\ Stopped
  BY InvParts
<1>2. /\ starter.pc = "prepare" /\ UNCHANGED <<held, tasks, coord, net, claim, report>>
      /\ starter.pc \in Attempt \ {"recorded", "focused"}
  BY DEF Prepare, outside, Attempt, BeforeFocus
<1>3. net' \in Links /\ claim' \in Claims
  BY <1>1, <1>2 DEF LinkTypes
<1>4. CASE Failing /\ \E final \in {"idle", "error"} : GiveUp(final)
  <2>1. RareTypes'
    BY <1>1, <1>4, FailingKeepsRare
  <2> QED
    BY <1>2, <1>3, <1>4, <2>1, GiveUpKeeps
<1>5. CASE /\ StarterTo(IF Mine THEN "io" ELSE "end")
           /\ UNCHANGED <<s, cleaner, events, rare>>
  <2>1. RareTypes' /\ events' \subseteq Reports /\ (~s.ioRun => events' = {})
    BY <1>1, <1>5 DEF RareTypes, LinkTypes, Stopped
  <2>2. ~Mine => s.stopping
    BY <1>2, AttemptFacts
  <2>3. CASE Mine
    BY <1>2, <1>3, <1>5, <2>1, <2>3, GoesOnKeeps
       DEF Attempt, BeforeFocus, AfterFocus, HasIoTask, HasPlayTask
  <2>4. CASE ~Mine
    BY <1>2, <1>3, <1>5, <2>1, <2>2, <2>4, GoesOnKeeps
       DEF Attempt, BeforeFocus, AfterFocus, HasIoTask, HasPlayTask
  <2> QED
    BY <2>3, <2>4
<1> QED
  BY <1>4, <1>5 DEF Prepare

\* A task is started for an attempt that is still wanted, and otherwise given up.
LEMMA StartTasksKeeps ==
  ASSUME VoiceInv, StartIoTask \/ StartPlaybackTask
  PROVE  VoiceInv'
<1>1. LinkTypes /\ RareTypes
  BY InvParts
<1>2. /\ starter.pc \in {"io", "play"} /\ UNCHANGED <<held, coord, net, claim, report>>
      /\ starter.pc \in Attempt \ {"recorded", "focused"}
  BY DEF StartIoTask, StartPlaybackTask, outside, Attempt, BeforeFocus
<1>3. net' \in Links /\ claim' \in Claims
  BY <1>1, <1>2 DEF LinkTypes
<1>4. CASE /\ MineStill => Failing
           /\ ~MineStill => UNCHANGED rare
           /\ GiveUp("error") /\ UNCHANGED tasks
  <2>1. RareTypes'
    BY <1>1, <1>4, FailingKeepsRare DEF RareTypes
  <2> QED
    BY <1>2, <1>3, <1>4, <2>1, GiveUpKeeps
<1>5. CASE /\ starter.pc = "io" /\ MineStill /\ s' = [s EXCEPT !.ioRun = TRUE]
           /\ tasks' = [tasks EXCEPT !.io = "loop"] /\ StarterTo("play")
           /\ UNCHANGED <<cleaner, events, rare>>
  BY <1>2, <1>5, StartIoTaskInTime
<1>6. CASE /\ starter.pc = "play" /\ MineStill /\ s' = [s EXCEPT !.playRun = TRUE]
           /\ tasks' = [tasks EXCEPT !.play = "idle"] /\ StarterTo("focus")
           /\ UNCHANGED <<cleaner, events, rare>>
  BY <1>2, <1>6, StartPlaybackTaskInTime
<1> QED
  BY <1>4, <1>5, <1>6 DEF StartIoTask, StartPlaybackTask

LEMMA RequestVoiceFocusKeeps ==
  ASSUME VoiceInv, RequestVoiceFocus
  PROVE  VoiceInv'
<1>1. TaskTypes /\ StarterTypes /\ LinkTypes /\ RareTypes /\ Stopped
  BY InvParts
<1>2. /\ starter.pc = "focus" /\ UNCHANGED <<tasks, coord, net, claim, report>>
      /\ starter.pc \in Attempt \ {"recorded", "focused"}
  BY DEF RequestVoiceFocus, outside, Attempt, BeforeFocus
<1>3. net' \in Links /\ claim' \in Claims
  BY <1>1, <1>2 DEF LinkTypes
<1>4. CASE Failing /\ GiveUp("error") /\ UNCHANGED held
  <2>1. RareTypes'
    BY <1>1, <1>4, FailingKeepsRare
  <2> QED
    BY <1>2, <1>3, <1>4, <2>1, GiveUpKeeps
<1>5. CASE /\ held' = [held EXCEPT !.focus = TRUE] /\ StarterTo("focused")
           /\ UNCHANGED <<s, cleaner, events, rare>>
  <2>1. TaskTypes' /\ held'.focus /\ held'.rec = held.rec /\ RareTypes' /\ LinkTypes'
    BY <1>1, <1>2, <1>5 DEF TaskTypes, RareTypes, LinkTypes
  <2>2. StarterTypes' /\ starter'.pc = "focused" /\ starter'.gen = starter.gen
    BY <1>1, <1>5, StarterTyped DEF Attempt, BeforeFocus
  <2>3. ~s.ioRun => events' = {}
    BY <1>1, <1>5 DEF Stopped
  <2> QED
    BY <1>2, <1>5, <2>1, <2>2, <2>3, StarterMovesKeeps
       DEF Attempt, BeforeFocus, AfterFocus, HasIoTask, HasPlayTask
<1> QED
  BY <1>4, <1>5 DEF RequestVoiceFocus

LEMMA OpenLinkKeeps ==
  ASSUME VoiceInv, OpenLink
  PROVE  VoiceInv'
<1>1. TaskTypes /\ StarterTypes /\ LinkTypes /\ RareTypes /\ Stopped
  BY InvParts
<1>2. /\ starter.pc = "open" /\ UNCHANGED <<held, tasks, report, coord, rare>>
      /\ starter.pc \in Attempt \ {"recorded", "focused"}
  BY DEF OpenLink, Attempt, AfterFocus
<1>3. RareTypes' /\ TaskTypes'
  BY <1>1, <1>2 DEF RareTypes, TaskTypes
<1>4. CASE Mine
  <2>1. /\ Opening /\ starter' = [starter EXCEPT !.pc = "opening", !.net = LinkClosed.gen + 1]
        /\ UNCHANGED <<s, cleaner, events>>
    BY <1>4 DEF OpenLink
  <2>2. LinkClosed.gen + 1 \in Nat
    BY <1>1, ClosedLink DEF Links
  <2>3. StarterTypes' /\ starter'.pc = "opening" /\ starter'.gen = starter.gen
    BY <1>1, <2>1, <2>2 DEF StarterTypes, Attempt, AfterFocus
  <2>4. LinkTypes' /\ (~s.ioRun => events' = {})
    BY <1>1, <1>2, <2>1, OpeningTyped DEF LinkTypes, Stopped
  <2>5. ~s.stopping /\ ~AtRest
    BY <1>4 DEF Mine, Current
  <2> QED
    BY <1>2, <1>3, <2>1, <2>3, <2>4, <2>5, StarterMovesKeeps
       DEF Attempt, BeforeFocus, AfterFocus, HasIoTask, HasPlayTask
<1>5. CASE ~Mine
  <2>1. GiveUp("error") /\ UNCHANGED <<net, claim>>
    BY <1>5 DEF OpenLink
  <2>2. net' \in Links /\ claim' \in Claims
    BY <1>1, <2>1 DEF LinkTypes
  <2> QED
    BY <1>2, <1>3, <2>1, <2>2, GiveUpKeeps
<1> QED
  BY <1>4, <1>5

LEMMA OpenedKeeps ==
  ASSUME VoiceInv, Opened
  PROVE  VoiceInv'
<1>1. LinkTypes /\ RareTypes /\ Stopped
  BY InvParts
<1>2. /\ starter.pc = "opening" /\ UNCHANGED <<held, tasks, claim, report, coord, rare>>
      /\ starter.pc \in Attempt \ {"recorded", "focused"}
  BY DEF Opened, Attempt, AfterFocus
<1>3. RareTypes' /\ claim' \in Claims
  BY <1>1, <1>2 DEF RareTypes, LinkTypes
<1>4. CASE /\ Opens(starter.net) /\ net' = [net EXCEPT !.link = "open"]
           /\ StarterTo("opened") /\ UNCHANGED <<s, cleaner, events>>
  <2>1. net.link # "none"
    BY <1>4 DEF Opens
  <2>2. net' \in Links /\ events' \subseteq Reports /\ (~s.ioRun => events' = {})
    BY <1>1, <1>4 DEF LinkTypes, Links, Stopped
  <2> QED
    BY <1>2, <1>3, <1>4, <2>1, <2>2, GoesOnKeeps
       DEF Attempt, BeforeFocus, AfterFocus, HasIoTask, HasPlayTask
<1>5. CASE /\ net' = IF net.gen = starter.net THEN LinkClosed ELSE net
           /\ \E final \in {"idle", "error"} : GiveUp(final)
  <2>1. net' \in Links /\ (net.link = "none" => net'.link = "none")
    BY <1>1, <1>5, ClosedLink DEF LinkTypes
  <2> QED
    BY <1>2, <1>3, <1>5, <2>1, GiveUpKeeps
<1> QED
  BY <1>4, <1>5 DEF Opened

LEMMA BindKeeps ==
  ASSUME VoiceInv, Bind
  PROVE  VoiceInv'
<1>1. LinkTypes /\ RareTypes /\ Stopped
  BY InvParts
<1>2. CASE MineStill
  BY <1>2, BindInTime
<1>3. CASE ~MineStill
  <2>1. /\ starter.pc = "opened" /\ net' = LinkClosed /\ StarterTo("end")
        /\ UNCHANGED <<s, held, tasks, cleaner, events, coord, rare, claim, report>>
    BY <1>3 DEF Bind
  <2>2. s.stopping
    BY <1>3, <2>1, AttemptFacts DEF Attempt, AfterFocus
  <2>3. /\ net' \in Links /\ net'.link = "none" /\ claim' \in Claims /\ events' \subseteq Reports
        /\ RareTypes' /\ (~s.ioRun => events' = {})
    BY <1>1, <2>1, ClosedLink DEF LinkTypes, RareTypes, Stopped
  <2> QED
    BY <2>1, <2>2, <2>3, GoesOnKeeps DEF Attempt, BeforeFocus, AfterFocus, HasIoTask, HasPlayTask
<1> QED
  BY <1>2, <1>3

LEMMA SendKeeps ==
  ASSUME VoiceInv, Send
  PROVE  VoiceInv'
<1>1. LinkTypes /\ RareTypes /\ Stopped
  BY InvParts
<1>2. /\ starter.pc = "send" /\ UNCHANGED <<held, tasks, report, coord>>
      /\ starter.pc \in Attempt \ {"recorded", "focused"}
  BY DEF Send, Attempt, AfterFocus
<1>3. CASE StarterTo("commit") /\ UNCHANGED <<s, cleaner, events, net, claim, rare>>
  <2>1. /\ net' \in Links /\ claim' \in Claims /\ events' \subseteq Reports
        /\ RareTypes' /\ (~s.ioRun => events' = {})
    BY <1>1, <1>3 DEF LinkTypes, RareTypes, Stopped
  <2> QED
    BY <1>2, <1>3, <2>1, GoesOnKeeps DEF Attempt, BeforeFocus, AfterFocus, HasIoTask, HasPlayTask
<1>4. CASE SendFails(starter.net) /\ GiveUp("error") /\ net' \in {net, LinkClosed}
  <2>1. claim' \in Claims /\ RareTypes'
    BY <1>1, <1>4, SendFailsTyped
  <2>2. net' \in Links /\ (net.link = "none" => net'.link = "none")
    BY <1>1, <1>4, ClosedLink DEF LinkTypes
  <2> QED
    BY <1>2, <1>4, <2>1, <2>2, GiveUpKeeps
<1> QED
  BY <1>3, <1>4 DEF Send

LEMMA CommitKeeps ==
  ASSUME VoiceInv, Commit
  PROVE  VoiceInv'
<1>1. LinkTypes /\ RareTypes
  BY InvParts
<1>2. /\ starter.pc = "commit" /\ UNCHANGED <<held, tasks, rare, net, claim, report>>
      /\ starter.pc \in Attempt \ {"recorded", "focused"}
  BY DEF Commit, outside, Attempt, AfterFocus
<1>3. RareTypes' /\ net' \in Links /\ claim' \in Claims
  BY <1>1, <1>2 DEF RareTypes, LinkTypes
<1>4. CASE /\ s.gen = starter.gen /\ ~s.stopping /\ s.focus
           /\ s' = [s EXCEPT !.phase = "listening", !.active = TRUE]
           /\ coord' = Begun(starter.net) /\ StarterTo("end") /\ UNCHANGED <<cleaner, events>>
  BY <1>2, <1>4, CommitWakeKeeps
<1>5. CASE /\ s.gen = starter.gen /\ ~s.stopping /\ s.focus
           /\ s' = [s EXCEPT !.phase = "speaking", !.active = TRUE, !.timed = TRUE]
           /\ StarterTo("end") /\ UNCHANGED <<cleaner, events, coord>>
  BY <1>2, <1>5, CommitAnnounceKeeps
<1>6. CASE (GiveUp("error") \/ GiveUp("idle")) /\ UNCHANGED coord
  BY <1>2, <1>3, <1>6, GiveUpKeeps
<1> QED
  BY <1>4, <1>5, <1>6 DEF Commit

LEMMA AgainKeeps ==
  ASSUME VoiceInv, Again
  PROVE  VoiceInv'
<1>1. StarterTypes /\ LinkTypes /\ RareTypes /\ Stopped
  BY InvParts
<1>2. starter.pc = "again" /\ UNCHANGED <<s, held, tasks, cleaner, net, report, coord>>
  BY DEF Again
<1>3. net' \in Links
  BY <1>1, <1>2 DEF LinkTypes
<1>4. CASE StarterTo("mark") /\ UNCHANGED <<events, claim, rare>>
  <2>1. /\ claim' \in Claims /\ events' \subseteq Reports
        /\ RareTypes' /\ (~s.ioRun => events' = {})
    BY <1>1, <1>4 DEF LinkTypes, RareTypes, Stopped
  <2> QED
    BY <1>2, <1>3, <1>4, <2>1, GoesOnKeeps
       DEF Attempt, BeforeFocus, AfterFocus, HasIoTask, HasPlayTask
<1>5. ASSUME NEW retry \in BOOLEAN, SendFails(starter.net), StarterTo("end"),
             LET e == [kind |-> "error", gen |-> starter.net, retry |-> retry]
             IN  events' = IF s.active /\ ~s.stopping /\ Accepted(e)
                           THEN events \cup {e} ELSE events
      PROVE  VoiceInv'
  <2> DEFINE e == [kind |-> "error", gen |-> starter.net, retry |-> retry]
  <2>1. e \in Reports
    BY <1>1 DEF Reports, StarterTypes
  <2>2. events' \subseteq Reports /\ (~s.ioRun => events' = {})
    BY <1>1, <1>5, <2>1 DEF LinkTypes, Stopped, Accepted
  <2>3. claim' \in Claims /\ RareTypes'
    BY <1>1, <1>5, SendFailsTyped
  <2> QED
    BY <1>2, <1>3, <1>5, <2>2, <2>3, GoesOnKeeps
       DEF Attempt, BeforeFocus, AfterFocus, HasIoTask, HasPlayTask
<1> QED
  BY <1>4, <1>5 DEF Again

LEMMA StartEndKeeps ==
  ASSUME VoiceInv, StartEnd
  PROVE  VoiceInv'
<1>1. s \in Service
  BY InvParts
<1>2. s' = Completed([s EXCEPT !.starting = FALSE], tasks.io, tasks.play)
  BY DEF StartEnd
<1> QED
  BY <1>1, <1>2, EndedCases, EndKeeps, EndCompletes

LEMMA CleanFinishKeeps ==
  ASSUME VoiceInv, CleanFinish
  PROVE  VoiceInv'
<1>1. s \in Service
  BY InvParts
<1>2. s' = Completed([s EXCEPT !.focus = FALSE, !.active = FALSE, !.rec = FALSE,
                               !.released = TRUE], tasks.io, tasks.play)
  BY DEF CleanFinish
<1> QED
  BY <1>1, <1>2, ReleasedCases, ReleaseKeeps, ReleaseCompletes

LEMMA ExitsKeep ==
  ASSUME VoiceInv, IoExit \/ PlayExit
  PROVE  VoiceInv'
<1>1. CASE IoExit
  <2>1. s' = Completed(s, "none", tasks.play)
    BY <1>1 DEF IoExit
  <2> QED
    BY <1>1, <2>1, IoExitKeeps, IoExitCompletes DEF Completed
<1>2. CASE PlayExit
  <2>1. s' = Completed(s, tasks.io, "none")
    BY <1>2 DEF PlayExit
  <2> QED
    BY <1>2, <2>1, PlayExitKeeps, PlayExitCompletes DEF Completed
<1> QED
  BY <1>1, <1>2

LEMMA PlayWrittenHolds ==
  ASSUME VoiceInv, PlayWritten
  PROVE  VoiceInv'
  BY PlayWrittenKeeps, PlayFailedKeeps DEF PlayWritten

(***************************************************************************)
(* The invariant.                                                          *)
(***************************************************************************)
LEMMA VoiceInitHolds == VoiceInit => VoiceInv
<1> SUFFICES ASSUME VoiceInit
             PROVE  VoiceInv
  OBVIOUS
<1>1. s \in Service
  BY DEF VoiceInit, Service, Phases
<1>2. /\ s.phase = "idle" /\ ~s.stopping /\ ~s.starting /\ ~s.focus /\ ~s.active /\ ~s.rec
      /\ ~s.ioRun /\ ~s.playRun /\ ~s.reconnect /\ ~s.queue
  BY DEF VoiceInit
<1>3. ~held.rec /\ ~held.focus /\ TaskTypes /\ tasks.io = "none" /\ tasks.play = "none"
  BY DEF VoiceInit, TaskTypes
<1>4. StarterTypes /\ starter.pc = "none"
  BY DEF VoiceInit, NoStart, StarterTypes
<1>5. CleanerTypes /\ cleaner = NoCleaner /\ cleaner.step = "none" /\ cleaner.by = "none"
  BY DEF VoiceInit, NoCleaner, CleanerTypes
<1>6. LinkTypes /\ net.link = "none" /\ events = {}
  BY DEF VoiceInit, LinkTypes, Links, Claims, Reports, NoReport
<1>7. CoordTypes /\ coord.state = "idle"
  BY VoiceAssumption DEF VoiceInit, CoordTypes
<1>8. RareTypes
  BY VoiceAssumption DEF VoiceInit, RareTypes
<1>9. Roles /\ Stopped /\ Rested
  BY <1>2, <1>3, <1>4, <1>5, <1>6 DEF Roles, Stopped, Rested
<1>10. HeldOwned /\ Attempted /\ InSession
  BY <1>2, <1>3, <1>4, <1>5
     DEF HeldOwned, Attempted, InSession, AtRest, Attempt, BeforeFocus, AfterFocus
<1>11. Coordinated
  BY <1>2, <1>3, <1>7 DEF Coordinated, AtWork, RetryPlaces
<1> QED
  BY <1>1, <1>3, <1>4, <1>5, <1>6, <1>7, <1>8, <1>9, <1>10, <1>11 DEF VoiceInv, ServiceTypes

LEMMA VoiceStutters ==
  ASSUME VoiceInv, UNCHANGED voiceVars
  PROVE  VoiceInv'
<1>1. LinkTypes /\ RareTypes /\ Stopped
  BY InvParts
<1>2. LinkTypes' /\ RareTypes' /\ (~s.ioRun => events' = {})
  BY <1>1 DEF voiceVars, LinkTypes, RareTypes, Stopped
<1> QED
  BY <1>2, OutsideKeeps DEF voiceVars

\* The steps outside the service, and the stops.
LEMMA OtherStepsKeep ==
  ASSUME VoiceInv,
         StopVoice \/ Watchdog \/ RecorderDies \/ NetReady \/ Disconnected \/ ServerError
         \/ SessionEnd \/ Deliver
  PROVE  VoiceInv'
<1>1. RareTypes
  BY InvParts
<1>2. CASE StopVoice
  <2>1. RareTypes'
    BY <1>1, <1>2, SpendKeepsRare DEF StopVoice, Rare
  <2> QED
    BY <1>2, <2>1, StopKeeps DEF StopVoice
<1>3. CASE Watchdog
  <2>1. RareTypes'
    BY <1>1, <1>3 DEF Watchdog, RareTypes
  <2> QED
    BY <1>3, <2>1, StopKeeps DEF Watchdog
<1>4. CASE Disconnected
  BY <1>4, LatchKeeps DEF Disconnected
<1>5. CASE SessionEnd
  BY <1>5, LatchKeeps DEF SessionEnd
<1>6. CASE ServerError
  BY <1>6, LatchKeeps DEF ServerError
<1> QED
  BY <1>2, <1>3, <1>4, <1>5, <1>6, RecorderDiesKeeps, NetReadyKeeps, DeliverKeeps

LEMMA StarterKeeps ==
  ASSUME VoiceInv, Starter
  PROVE  VoiceInv'
  BY VoiceAdmitKeeps, RecordKeeps, RecordedKeeps, PrepareKeeps, StartTasksKeeps,
     RequestVoiceFocusKeeps, FocusedKeeps, OpenLinkKeeps, OpenedKeeps, BindKeeps, SendKeeps,
     CommitKeeps, AgainKeeps, MarkKeeps, StartEndKeeps DEF Starter

LEMMA CleanerKeeps ==
  ASSUME VoiceInv, Cleaner
  PROVE  VoiceInv'
  BY CleanRecorderKeeps, CleanCloseKeeps, CleanReleaseKeeps, CleanFinishKeeps DEF Cleaner

LEMMA IoTaskKeeps ==
  ASSUME VoiceInv, IoTask
  PROVE  VoiceInv'
  BY ExitsKeep, IoEventKeeps, IoDrainedKeeps, IoClosingKeeps, IoEndsKeeps, IoFollowUpKeeps,
     RetryKeeps, RetryOpenedKeeps, RetryBindKeeps, RetrySendKeeps, RetryCommitKeeps,
     RetryAdoptKeeps DEF IoTask

LEMMA PlaybackKeeps ==
  ASSUME VoiceInv, Playback
  PROVE  VoiceInv'
  BY PlayWriteKeeps, PlayWrittenHolds, ExitsKeep DEF Playback

LEMMA VoiceNextKeeps ==
  ASSUME VoiceInv, [VoiceNext]_voiceVars
  PROVE  VoiceInv'
<1>1. CASE VoiceNext
  BY <1>1, WakeKeeps, AnnounceKeeps, OtherStepsKeep, StarterKeeps, CleanerKeeps, IoTaskKeeps,
     IoSendKeeps, IoReplyKeeps, PlaybackKeeps DEF VoiceNext
<1>2. CASE UNCHANGED voiceVars
  BY <1>2, VoiceStutters
<1> QED
  BY <1>1, <1>2

\* The invariant of the voice session.
THEOREM VoiceInvariant == VoiceSpec => []VoiceInv
<1>1. VoiceInit => VoiceInv
  BY VoiceInitHolds
<1>2. VoiceInv /\ [VoiceNext]_voiceVars => VoiceInv'
  BY VoiceNextKeeps
<1> QED
  BY <1>1, <1>2, PTL DEF VoiceSpec

\* The invariant gives every variable its type.
LEMMA VoiceTypesGiven ==
  ASSUME VoiceInv
  PROVE  VoiceTypeOK
<1>1. /\ s \in Service /\ TaskTypes /\ StarterTypes /\ CleanerTypes /\ LinkTypes
      /\ CoordTypes /\ RareTypes
  BY InvParts
<1>2. s.phase \in Phases /\ s.final \in {"idle", "error"} /\ {s.gen, s.tgen} \subseteq Nat
  BY <1>1 DEF Service
<1>3. /\ tasks.io \in {"none", "loop", "cleaning", "draining", "closing",
                      "opening", "bind", "sending", "commit", "adopt"}
      /\ tasks.play \in {"none", "idle", "writing"} /\ held \in [rec : BOOLEAN, focus : BOOLEAN]
  BY <1>1 DEF TaskTypes, RetryPlaces
<1>4. starter.kind \in {"none", "wake", "announce"} /\ cleaner.by \in {"none", "ext", "start", "io"}
  BY <1>1 DEF StarterTypes, CleanerTypes
<1>5. /\ net.link \in {"none", "opening", "ready", "open", "ended", "dead"}
      /\ claim.origin \in {"none", "inbound", "local"}
      /\ \A e \in events \cup {report} : e.kind \in {"none", "error", "finished"}
  BY <1>1 DEF LinkTypes, Links, Claims, Reports
<1>6. /\ coord.state \in {"idle", "active", "waiting", "attempting", "cancelled", "terminal"}
      /\ coord.attempt \in 0 .. MaxAttempts
  BY <1>1 DEF CoordTypes, AtWork
<1> QED
  BY <1>1, <1>2, <1>3, <1>4, <1>5, <1>6 DEF VoiceTypeOK, RareTypes

\* The voice session keeps its types, and no failure is retried more often than the policy
\* of the coordinator allows.
THEOREM VoiceTyped == VoiceSpec => []VoiceTypeOK
<1>1. VoiceInv => VoiceTypeOK
  BY VoiceTypesGiven
<1> QED
  BY <1>1, VoiceInvariant, PTL

\* Whatever start attempts, stops, failures and retries met on the way, a service at rest
\* holds nothing, and a session that goes on has its tasks, the speaker and a connection or
\* the coordinator that opens one (FinishInteraction, CompleteInteractionCleanupLocked).
THEOREM NothingIsLeftBehind == VoiceSpec => []Consistent
<1>1. ASSUME VoiceInv
      PROVE  Consistent
  <2>1. /\ TaskTypes /\ Roles /\ Stopped /\ Rested /\ HeldOwned /\ InSession /\ Coordinated
    BY <1>1, InvParts
  <2> SUFFICES ASSUME ~s.stopping, ~s.starting
               PROVE  Consistent
    BY DEF Consistent
  <2>2. starter.pc = "none" /\ cleaner.step = "none"
    BY <2>1 DEF Roles
  <2>3. CASE AtRest
    <3>1. /\ ~s.focus /\ ~s.rec /\ ~s.ioRun /\ tasks.io = "none" /\ tasks.play = "none"
          /\ net.link = "none"
      BY <2>1, <2>3 DEF Rested
    <3>2. ~held.rec /\ ~held.focus
      BY <2>1, <2>2, <3>1 DEF HeldOwned
    <3>3. held = [rec |-> FALSE, focus |-> FALSE]
      BY <2>1, <3>2 DEF TaskTypes
    <3>4. events = {} /\ coord.state \notin AtWork
      BY <2>1, <2>3, <3>1 DEF Stopped, Coordinated
    <3> QED
      BY <2>3, <3>1, <3>3, <3>4 DEF Consistent, AtWork
  <2>4. CASE ~AtRest
    <3>1. /\ s.focus /\ s.ioRun /\ s.playRun
          /\ s.active \/ (s.reconnect /\ coord.inter = s.gen)
      BY <2>1, <2>2, <2>4 DEF InSession, Attempt, BeforeFocus, AfterFocus
    <3>2. held.focus
      BY <2>1, <3>1 DEF HeldOwned
    <3> QED
      BY <2>4, <3>1, <3>2 DEF Consistent
  <2> QED
    BY <2>3, <2>4
<1> QED
  BY <1>1, VoiceInvariant, PTL

(***************************************************************************)
(* The focus and the writes.                                               *)
(***************************************************************************)
\* Only the cleaner and a late start attempt give the focus back.
LEMMA FocusIsGivenBack ==
  ASSUME VoiceInv, VoiceNext, held.focus, ~held'.focus
  PROVE  CleanRelease \/ (Focused /\ held' # held)
<1>1. TaskTypes
  BY InvParts
<1>2. CASE Starter
  <2>1. CASE Record \/ Recorded
    BY <1>1, <2>1 DEF Record, Recorded, TaskTypes
  <2>2. CASE RequestVoiceFocus
    BY <1>1, <2>2 DEF RequestVoiceFocus, TaskTypes
  <2>3. CASE VoiceAdmit \/ Prepare \/ StartIoTask \/ StartPlaybackTask \/ OpenLink \/ Opened
    BY <2>3 DEF VoiceAdmit, Prepare, StartIoTask, StartPlaybackTask, OpenLink, Opened
  <2>4. CASE Bind \/ Send \/ Commit \/ Again \/ MarkListening \/ StartEnd
    BY <2>4 DEF Bind, Send, Commit, Again, MarkListening, StartEnd
  <2> QED
    BY <1>2, <2>1, <2>2, <2>3, <2>4 DEF Starter
<1>3. CASE Cleaner
  BY <1>1, <1>3 DEF Cleaner, CleanRecorder, CleanClose, CleanFinish, TaskTypes
<1>4. CASE IoTask \/ IoSend \/ IoReply
  <2>1. CASE IoExit \/ IoDrained \/ IoClosing \/ IoCapture \/ IoTimeout \/ IoPlaybackFailed
    BY <2>1 DEF IoExit, IoDrained, IoClosing, IoCapture, IoTimeout, IoPlaybackFailed
  <2>2. CASE (\E e \in events : IoEvent(e)) \/ IoFollowUp \/ IoSend \/ IoReply
    BY <2>2 DEF IoEvent, IoFollowUp, IoSend, IoReply
  <2>3. CASE Retry \/ RetryOpened \/ RetryBind \/ RetrySend \/ RetryCommit \/ RetryAdopt
    BY <2>3 DEF Retry, RetryOpened, RetryBind, RetrySend, RetryCommit, RetryAdopt
  <2> QED
    BY <1>4, <2>1, <2>2, <2>3 DEF IoTask
<1>5. CASE Playback
  BY <1>5 DEF Playback, PlayWrite, PlayWritten, PlayExit
<1>6. CASE RecorderDies
  BY <1>1, <1>6 DEF RecorderDies, TaskTypes
<1>7. CASE Wake \/ Announce \/ StopVoice \/ Watchdog
  BY <1>7 DEF Wake, Announce, StopVoice, Watchdog
<1>8. CASE NetReady \/ Disconnected \/ ServerError \/ SessionEnd \/ Deliver
  BY <1>8 DEF NetReady, Disconnected, ServerError, SessionEnd, Latch, Deliver
<1> QED
  BY <1>2, <1>3, <1>4, <1>5, <1>6, <1>7, <1>8 DEF VoiceNext

\* The focus returns to the music only when the playback task is done with its writes:
\* the cleaner joined it, or it has not been given anything to write yet.
THEOREM MusicWaitsForTheSpeaker == VoiceSpec => QuietBeforeMusic
<1>1. VoiceInv /\ [VoiceNext]_voiceVars =>
        [held.focus /\ ~held'.focus => tasks.play # "writing"]_voiceVars
  <2> SUFFICES ASSUME VoiceInv, VoiceNext, held.focus, ~held'.focus
               PROVE  tasks.play # "writing"
    OBVIOUS
  <2>1. CASE CleanRelease
    BY <2>1 DEF CleanRelease, Joined
  <2>2. CASE Focused
    <3>1. starter.pc \in Attempt
      BY <2>2 DEF Focused, Attempt, BeforeFocus
    <3> QED
      BY <3>1, AttemptFacts
  <2> QED
    BY <2>1, <2>2, FocusIsGivenBack
<1> QED
  BY <1>1, VoiceInvariant, PTL DEF VoiceSpec, QuietBeforeMusic
===========================================================================
