--------------------------- MODULE MCAuthSession ---------------------------
(* Instances of AuthSession for TLC. *)
EXTENDS AuthSession, TLC

Symmetry == Permutations(Browser) \cup Permutations(Request)

\* A second code or link, or a second second, but not both in one run.
ClockOrSecrets == clock + issued <= 3
=============================================================================
