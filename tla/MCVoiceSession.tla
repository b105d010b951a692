--------------------------- MODULE MCVoiceSession ---------------------------
(* One wake, one connection that is lost. *)
EXTENDS VoiceSession
Rarely == {[wakes |-> 1, announces |-> 0, stops |-> 0, drops |-> 1, replies |-> 0,
            faults |-> 0]}
=============================================================================
