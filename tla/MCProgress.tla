----------------------------- MODULE MCProgress -----------------------------
(***************************************************************************)
(* What must happen in the end, for parts that share no state, side by      *)
(* side: a record is saved (OtaJournal, over generations that wrap), a      *)
(* whole update is finished and reported (OtaSystem), a service's workers   *)
(* are reclaimed (TaskRetirement), a voice session ends (VoiceSession).  A  *)
(* behaviour belongs to one part, chosen at the start.                      *)
(***************************************************************************)
EXTENDS OtaJournal, FiniteSets

CONSTANTS None, s1, c1, main, h1, h2, t1, base

VARIABLES
    part,
    pool, records, nextGeneration, closed, member, mutex, active, stopRequested,
    task, call,
    journal, boot, flash, sd, mode, pc, loc, confirmed, handoff, acked, timer,
    connected, result, resets, faults,
    s, held, tasks, starter, cleaner, net, claim, report, events, coord, rare

Retirement == INSTANCE TaskRetirement WITH
                 NumSlots <- 2, Services <- {s1}, Clients <- {c1}, Main <- main,
                 Handles <- {h1, h2}, MaxGeneration <- 3

Budgets == {[tasks |-> 1, resets |-> 1, faults |-> 0]}
Update == INSTANCE OtaSystem WITH Tasks <- {t1}, Base <- base

Talk(w, a, st, d, r, f) ==
    [wakes |-> w, announces |-> a, stops |-> st, drops |-> d, replies |-> r, faults |-> f]
SomeTalks == {Talk(1, 0, 1, 1, 0, 1), Talk(2, 0, 1, 0, 1, 0), Talk(1, 1, 0, 1, 0, 0),
              Talk(1, 0, 0, 2, 0, 1)}
Voice == INSTANCE VoiceSession WITH
            Talks <- SomeTalks, MaxAttempts <- 1

R == <<pool, records, nextGeneration, closed, member, mutex, active, stopRequested,
       task, call>>
U == <<journal, boot, flash, sd, mode, pc, loc, confirmed, handoff, acked, timer,
       connected, result, resets, faults>>
V == <<s, held, tasks, starter, cleaner, net, claim, report, events, coord, rare>>
all == <<part, vars, R, U, V>>

ProgressInit ==
    /\ part \in {"journal", "retirement", "update", "voice"}
    /\ Init /\ Retirement!Init /\ Update!Init /\ Voice!VoiceInit
    /\ part # "voice" => rare = Talk(2, 0, 1, 0, 1, 0)

JournalNext    == part = "journal" /\ Next /\ UNCHANGED <<part, R, U, V>>
RetirementNext == part = "retirement" /\ Retirement!Next /\ UNCHANGED <<part, vars, U, V>>
UpdateNext     == part = "update" /\ Update!Next /\ UNCHANGED <<part, vars, R, V>>
VoiceNext      == part = "voice" /\ Voice!VoiceNext /\ UNCHANGED <<part, vars, R, U>>
ProgressNext   == JournalNext \/ RetirementNext \/ UpdateNext \/ VoiceNext

\* The fairness of the modules, for the part that runs; a condition of each part may
\* share one SF, because steps of one part alone are ever enabled.
RetirementDoes(A) == part = "retirement" /\ A /\ UNCHANGED <<part, vars, U, V>>
UpdateDoes(A)     == part = "update" /\ A /\ UNCHANGED <<part, vars, R, V>>
Retiring == part = "retirement"
Updating == part = "update"
Talking  == part = "voice"
ProgressFairness ==
    /\ \A c \in Retirement!Callers : WF_R(Retiring /\ Retirement!Runs(c))
    /\ \A c \in {c1, h1, h2} : SF_R(Retiring /\ Retirement!CopyTicket(c))
    /\ \A h \in {h1, h2} : SF_R(Retiring /\ Retirement!Works(h))
    /\ SF_all(\/ RetirementDoes(Retirement!PumpSlot(1))
              \/ UpdateDoes(\E p \in Update!Procs : Update!StagedAcknowledged(p)))
    /\ SF_all(\/ RetirementDoes(Retirement!PumpSlot(2))
              \/ UpdateDoes(Update!ReportAnswered))
    /\ WF_U(Updating /\ Update!Recovery) /\ WF_U(Updating /\ Update!Reporting)
    /\ WF_U(Updating /\ (Update!Staging \/ Update!StagingFails))
    /\ \A p \in Update!Procs : WF_U(Updating /\ Update!Working(p))
    /\ WF_U(Updating /\ Update!TimerFires)
    /\ WF_U(Updating /\ ~connected /\ Update!MqttConnected)
    /\ WF_V(Talking /\ Voice!Starter) /\ WF_V(Talking /\ Voice!Cleaner)
    /\ WF_V(Talking /\ Voice!IoTask) /\ WF_V(Talking /\ Voice!Playback)
    /\ WF_V(Talking /\ Voice!Deliver) /\ WF_V(Talking /\ Voice!Watchdog)

ProgressSpec == ProgressInit /\ [][ProgressNext]_all /\ ProgressFairness

\* The properties of the parts, stated and explained in their modules.
ProgressTypeOK    == TypeOK /\ Retirement!TypeOK /\ Update!TypeOK /\ Voice!VoiceTypeOK
ParkedIsReclaimed == Retiring => Retirement!ParkedIsReclaimed
StopReturns       == Retiring => Retirement!StopReturns
TaskEnds          == Updating => Update!TaskEnds
EverySessionEnds  == Talking => Voice!EverySessionEnds
=============================================================================
