----------------------------- MODULE MCLiveTurns -----------------------------
(* Instances of LiveTurns for TLC. *)
EXTENDS LiveTurns, TLC

=============================================================================
