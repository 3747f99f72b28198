------------------------------ MODULE Session ------------------------------
(***************************************************************************)
(* What the commands of an administrator's shell have in common: one       *)
(* process at a time, which may die between two calls, a session that may  *)
(* expire in a call and makes the provider send it again, and others who   *)
(* change the tenant meanwhile.                                            *)
(***************************************************************************)
EXTENDS Integers, FiniteSets

CONSTANT Mishaps   \* how often a call fails or is repeated, or others interfere

ASSUME SessionAssumption == Mishaps \in Nat

VARIABLES
  pc,       \* "idle", or the step of the process
  calm,     \* nobody else has acted since the plan
  quiet,    \* nobody else has acted since the listing the next step relies on
  mishaps

process == <<pc, calm, quiet, mishaps>>

SessionInit == pc = "idle" /\ calm = TRUE /\ quiet = TRUE /\ mishaps = 0

\* _with_keeper_session_refresh: the call had its effect, and is made once more
Twice(again) ==
  /\ again => mishaps < Mishaps
  /\ mishaps' = IF again THEN mishaps + 1 ELSE mishaps

Mishap == mishaps < Mishaps /\ mishaps' = mishaps + 1

\* Uids for what a command and others may still make: a bound of the model
Room(S, given) == Cardinality(S \ given) > 3

\* The first n of the uids that were not given out
FreshOf(S, given, n) == {i \in S \ given : Cardinality({j \in S \ given : j < i}) < n}
============================================================================
