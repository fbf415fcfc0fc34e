---------------------------- MODULE MCInterviews ----------------------------
(* Instances of Interviews for TLC. *)
EXTENDS Interviews, TLC

SymPeople == Permutations(People)

=============================================================================
