--------------------------- MODULE MCAudioPlayback ---------------------------
(* One track, two touches of play and pause, two assistant sessions. *)
EXTENDS AudioPlayback
Rarely == {[plays |-> 1, toggles |-> 2, stops |-> 0, clips |-> 0, sessions |-> 2,
            recordings |-> 0, faults |-> 0]}
=============================================================================
