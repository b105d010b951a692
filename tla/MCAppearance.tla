---------------------------- MODULE MCAppearance ----------------------------
(* A publisher with two packages and a later return to the built-in look; the
   liveness run has the two packages only. *)
EXTENDS Appearance
CONSTANT k1
Deploy(r, m) == [key |-> k1, rev |-> r, mode |-> m]
TwoPackages  == {Deploy(1, Custom), Deploy(2, Custom)}
ThenBuiltin  == TwoPackages \cup {Deploy(3, Builtin)}
=============================================================================
