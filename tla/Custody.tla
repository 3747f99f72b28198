------------------------------ MODULE Custody ------------------------------
(***************************************************************************)
(* What the SDK promises about ownership, without plans, titles or steps:  *)
(* every record of the folder is in somebody's custody, and custody only   *)
(* changes along a few edges.  A manifest comes to hold a record in one    *)
(* way only, by creating it and then marking it; nobody takes a record     *)
(* from another manifest, from another tool or from a person.              *)
(***************************************************************************)
CONSTANTS Uid, Party, NoParty

VARIABLE custody

\* "fresh" is a record its creator has yet to mark, "outside" one that no
\* manifest has a claim on: a person's, another tool's, or an abandoned one.
Stages == {"unborn", "fresh", "held", "outside", "gone"}

Custodies == [stage : Stages, by : Party \union {NoParty}]

In(stage)    == [stage |-> stage, by |-> NoParty]
FreshOf(m)   == [stage |-> "fresh", by |-> m]
HeldBy(m)    == [stage |-> "held", by |-> m]

Move(u, from, to) ==
  /\ custody[u] = from
  /\ custody' = [custody EXCEPT ![u] = to]

Arrive(u)     == Move(u, In("unborn"), In("outside"))
Begin(u, m)   == Move(u, In("unborn"), FreshOf(m))
Take(u, m)    == Move(u, FreshOf(m), HeldBy(m))
Abandon(u, m) == Move(u, FreshOf(m), In("outside"))
Vanish(u)     == /\ custody[u].stage \notin {"unborn", "gone"}
                 /\ custody' = [custody EXCEPT ![u] = In("gone")]

CustodyInit == custody = [u \in Uid |-> In("unborn")]

CustodyNext ==
  \E u \in Uid :
     \/ Arrive(u) \/ Vanish(u)
     \/ \E m \in Party : Begin(u, m) \/ Take(u, m) \/ Abandon(u, m)

CustodySpec == CustodyInit /\ [][CustodyNext]_custody
=============================================================================
