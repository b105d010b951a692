------------------------------ MODULE MCDevice ------------------------------
(***************************************************************************)
(* Four parts of the device, side by side, as they share no state: the      *)
(* retirement of worker tasks (TaskRetirement: two slots, two services, two *)
(* client tasks, workers at two reusable TCB addresses and the pump), the   *)
(* voice assistant (VoiceSession), the player with the output it lends      *)
(* (AudioPlayback) and the files that are being written (FileLeases).  A    *)
(* behaviour belongs to one part, chosen at the start.                      *)
(***************************************************************************)
EXTENDS TaskRetirement, VoiceSession, AudioPlayback, FileLeases, TLC

VARIABLE part

\* Nothing orders clients, services and addresses; slots are scanned in order.
Symmetry == Permutations(Clients) \cup Permutations(Services) \cup Permutations(Handles)

Talk(w, a, st, d, r, f) ==
    [wakes |-> w, announces |-> a, stops |-> st, drops |-> d, replies |-> r, faults |-> f]
SomeTalks == {Talk(2, 0, 1, 0, 1, 1), Talk(1, 1, 1, 1, 1, 0), Talk(1, 0, 0, 2, 0, 1),
              Talk(2, 0, 0, 1, 0, 0)}

Listen(p, t, st, c, se, r, f) ==
    [plays |-> p, toggles |-> t, stops |-> st, clips |-> c, sessions |-> se,
     recordings |-> r, faults |-> f]
SomeListens == {Listen(2, 1, 0, 0, 2, 0, 0), Listen(2, 2, 0, 0, 1, 0, 1),
                Listen(1, 1, 1, 1, 1, 0, 0), Listen(1, 1, 0, 2, 1, 1, 0),
                Listen(2, 0, 1, 0, 1, 1, 1)}

D == <<"d">>
A == <<"d", "a">>
B == <<"d", "b">>
E == <<"e">>
F == <<"e", "b">>
Names   == <<A, B>>
Uploads == {A, B, F}
Places  == {D, A, B, E, F}

all == <<part, vars, voiceVars, playerVars, fileVars>>

DeviceInit ==
    /\ part \in {"retirement", "voice", "player", "files"}
    /\ Init /\ VoiceInit /\ PlayerInit /\ FilesInit
    /\ part # "voice" => rare = Talk(2, 0, 0, 1, 0, 0)
    /\ part # "player" => left = Listen(2, 1, 0, 0, 2, 0, 0)

RetirementRuns ==
    part = "retirement" /\ Next /\ UNCHANGED <<part, voiceVars, playerVars, fileVars>>
VoiceRuns ==
    part = "voice" /\ VoiceNext /\ UNCHANGED <<part, vars, playerVars, fileVars>>
PlayerRuns ==
    part = "player" /\ PlayerNext /\ UNCHANGED <<part, vars, voiceVars, fileVars>>
FilesRun ==
    part = "files" /\ FilesNext /\ UNCHANGED <<part, vars, voiceVars, playerVars>>
DeviceNext == RetirementRuns \/ VoiceRuns \/ PlayerRuns \/ FilesRun

DeviceSpec == DeviceInit /\ [][DeviceNext]_all

\* The types of the parts.
DeviceTypeOK == TypeOK /\ VoiceTypeOK /\ PlayerTypeOK /\ FilesTypeOK
=============================================================================
