------------------------------- MODULE MspDiff -------------------------------
(***************************************************************************)
(* compute_msp_diff: the managed companies of an msp-environment.v1        *)
(* manifest against those of the tenant.  Commander keeps no manager with  *)
(* a company, so identity is the casefolded name and nothing else.         *)
(* Numbers of seats take four forms on their way: manifest, command, the   *)
(* server's, and the discovered one.                                       *)
(***************************************************************************)
EXTENDS Integers, FiniteSets

CONSTANTS
  CompanyName,  \* spellings
  Folded,       \* spelling -> its casefold
  NoFile,       \* no file plan
  Unlimited,    \* from here on seats are unlimited
  Top           \* what the server holds for unlimited seats

ASSUME MspDiffAssumption ==
  /\ Folded \in [CompanyName -> CompanyName]
  /\ Unlimited \in Nat /\ Top \in Nat /\ Unlimited < Top

Key(c) == Folded[c.name]
Keys(S) == {Key(c) : c \in S}
Companies(mcs) == {mcs[i] : i \in DOMAIN mcs}

\* seats in a command, on the server, in a discovered row, and in the comparison
Ordered(s) == IF s >= Unlimited THEN -1 ELSE s
Held(s) == IF s = -1 THEN Top ELSE s
Reported(s) == IF s < 0 \/ s > Top - 1 THEN -1 ELSE s
Canonical(s) == IF s = -1 \/ s >= Unlimited THEN Unlimited ELSE s

Normal(c) ==
  [c EXCEPT !.seats = Canonical(@), !.addons = [a \in DOMAIN @ |-> Canonical(@[a])]]

Discovered(c) ==
  Normal([c EXCEPT !.seats = Reported(@), !.addons = [a \in DOMAIN @ |-> Reported(@[a])]])

\* name is not among the fields compared
Differs(row, c) == Normal(row) # [Discovered(c) EXCEPT !.name = row.name]

CompanyFields == {"name", "plan", "seats", "file", "addons"}

LoadsCompanies(rows) ==
  /\ \A r \in rows : DOMAIN r = CompanyFields /\ r.name \in CompanyName
  /\ \A r, s \in rows : Key(r) = Key(s) => r = s
  /\ \A r \in rows : r.seats \in Nat /\ \A a \in DOMAIN r.addons : r.addons[a] \in Nat

Duplicated(mcs) ==
  {k \in Keys(Companies(mcs)) : Cardinality({i \in DOMAIN mcs : Key(mcs[i]) = k}) > 1}

\* The company of a row; the plan keeps its id
Company(mcs, k) == CHOOSE i \in DOMAIN mcs : Key(mcs[i]) = k

Founded(mcs, rows) == {r \in rows : Key(r) \notin Keys(Companies(mcs))}

Changed(mcs, rows) ==
  {r \in rows \ Founded(mcs, rows) :
     Key(r) \notin Duplicated(mcs) /\ Differs(r, mcs[Company(mcs, Key(r))])}

\* Whoever made them
Dissolved(mcs, rows, allow) ==
  {i \in DOMAIN mcs : allow /\ Key(mcs[i]) \notin Keys(rows) \union Duplicated(mcs)}

NothingToDo(mcs, rows, allow) ==
  /\ Founded(mcs, rows) = {} /\ Changed(mcs, rows) = {}
  /\ Dissolved(mcs, rows, allow) = {} /\ Duplicated(mcs) = {}

\* MockProvider.apply_msp_plan: each change replaces the company of its name
MockApplied(mcs, rows, allow) ==
  LET written == Founded(mcs, rows) \union Changed(mcs, rows) IN
  {Normal(r) : r \in written} \union
  {Discovered(mcs[i]) : i \in {j \in DOMAIN mcs \ Dissolved(mcs, rows, allow) :
                                 Key(mcs[j]) \notin Keys(written)}}
==============================================================================
