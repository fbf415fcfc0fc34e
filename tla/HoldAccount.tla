---------------------------- MODULE HoldAccount ----------------------------
(***************************************************************************)
(* What the live-session ledger promises about each session, without any   *)
(* of the rows, clocks or requests that keep the promise: budget is        *)
(* reserved at most once, given back at most once and in full, and at most *)
(* one charge follows, no larger than what was reserved.                   *)
(***************************************************************************)
EXTENDS Integers

CONSTANTS
  Sessions,     \* live-session identifiers
  HoldOf        \* the tokens a session reserves

VARIABLES
  status,       \* where each session's account stands
  charge        \* what the session was finally billed

accountVars == <<status, charge>>

AccountInit ==
  /\ status = [s \in Sessions |-> "none"]
  /\ charge = [s \in Sessions |-> 0]

\* One admission may give back any number of abandoned reservations and
\* make at most one new one.
Reserve(opened, swept) ==
  /\ opened \subseteq {s \in Sessions : status[s] = "none"}
  /\ \A s, t \in opened : s = t
  /\ swept \subseteq {s \in Sessions : status[s] = "held"}
  /\ status' = [s \in Sessions |-> IF s \in opened THEN "held"
                                   ELSE IF s \in swept THEN "released"
                                   ELSE status[s]]
  /\ UNCHANGED charge

\* A session that has been given back is billed once, within its reservation.
Charge(s, n) ==
  /\ status[s] = "released"
  /\ n \in 1 .. HoldOf[s]
  /\ status' = [status EXCEPT ![s] = "charged"]
  /\ charge' = [charge EXCEPT ![s] = n]

AccountNext ==
  \/ \E opened, swept \in SUBSET Sessions : Reserve(opened, swept)
  \/ \E s \in Sessions : \E n \in 1 .. HoldOf[s] : Charge(s, n)

AccountSpec == AccountInit /\ [][AccountNext]_accountVars
=============================================================================
