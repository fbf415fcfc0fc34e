----------------------------- MODULE MCClientScope -----------------------------
(* Small instances of ClientScope: one long name whose legacy norm differs. *)
EXTENDS ClientScope, TLC

MCNormOf == [n \in Names |-> n]
MCLegacyOf == [n \in Names |-> IF n = "longname" THEN "longn" ELSE n]
SymOwners == Permutations(Owners)
================================================================================
