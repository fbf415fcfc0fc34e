----------------------------- MODULE MCSynthetic -----------------------------
(* Two clients with codes of their own, and two role catalogs of two personas, *)
(* which take their names from their places and share the first persona.       *)
EXTENDS Synthetic, TLC
CONSTANTS c1, c2
Symmetry == Permutations(Names)
MCNorm == [n \in {c1, c2} |-> <<"norm", n>>]
MCSynCode == [n \in {c1, c2} |-> <<"SYN1", n>>]
Persona(name, role) == [name |-> name, role |-> role]
MCCatalogs ==
  <<<<Persona("Hale", "CEO"), Persona("Webb", "COO")>>,
    <<Persona("Hale", "CEO"), Persona("Webb", "CIO")>>>>
=============================================================================
