----------------------------- MODULE MCClientKeys ------------------------------
(* Small instances of ClientKeys, with the production policy's chain the   *)
(* other way round.                                                        *)
EXTENDS ClientKeys, TLC

VendorTable ==
  [gv |-> "google", g1 |-> "google", g2 |-> "google", av |-> "anthropic", a1 |-> "anthropic"]
MCVendorOf == [a \in Adapters |-> IF VendorTable[a] \in Vendors THEN VendorTable[a] ELSE None]
MCByokAdapters == [v \in Vendors |-> IF v = "google" THEN <<"g1", "g2">> ELSE <<"a1">>]
MCChains == {<<"av", "gv">>}
SymAll == Permutations(Links) \cup Permutations(Clients) \cup Permutations(Names)
================================================================================
