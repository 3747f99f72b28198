------------------------------ MODULE MspApply ------------------------------
(***************************************************************************)
(* `dsk apply` of managed companies through Commander: before each change  *)
(* the companies are listed again, then one command is run.  The plan's    *)
(* ids and its view of the addons are used without another look.           *)
(***************************************************************************)
EXTENDS MspDiff, Session

CONSTANTS
  Portfolios,   \* contents of the manifest: sets of rows
  Rivals,       \* companies that people add
  McId          \* ids of companies

ASSUME MspApplyAssumption ==
  /\ McId \subseteq Nat \ {0}
  /\ \A v \in Portfolios : LoadsCompanies(v)
  /\ \A r \in Rivals :
       /\ DOMAIN r = CompanyFields /\ r.name \in CompanyName /\ r.seats \in 0..Top
       /\ \A a \in DOMAIN r.addons : r.addons[a] \in 0..Top

VARIABLES
  mcs,      \* the tenant: id -> company
  spent,    \* ids that were given out
  rows, allowed, base, \* the plan: rows, --allow-delete, and the tenant it saw
  open,     \* names of the rows still to write
  doomed,   \* ids still to delete
  cur       \* the change under way

company == <<mcs, spent, rows, allowed, base, open, doomed, cur>>

NobodyYet == [i \in {} |-> i]
NoChange == [kind |-> "none", id |-> 0, name |-> "none"]

MspInit ==
  /\ mcs = NobodyYet /\ spent = {} /\ rows = {} /\ allowed = FALSE /\ base = NobodyYet
  /\ open = {} /\ doomed = {} /\ cur = NoChange

Row(k) == CHOOSE r \in rows : Key(r) = k

\* plan and apply; a conflict stops it, unless with --allow-delete
MspPlan ==
  /\ pc = "idle" /\ Room(McId, spent)
  /\ \E v \in Portfolios, allow \in BOOLEAN :
       /\ ~NothingToDo(mcs, v, allow)
       /\ Duplicated(mcs) # {} => allow
       /\ rows' = v /\ allowed' = allow /\ base' = mcs
       /\ doomed' = Dissolved(mcs, v, allow)
       /\ open' = Keys(Founded(mcs, v) \union Changed(mcs, v))
  /\ pc' = "msp" /\ calm' = TRUE
  /\ UNCHANGED <<mcs, spent, cur, quiet, mishaps>>

\* The change of a plan: writes in the order of names, which may be any, then
\* deletes.  The target is the plan's id.
NextChange ==
  {[kind |-> "create", id |-> 0, name |-> k] : k \in open \ Keys(Companies(base))} \union
  {[kind |-> "update", id |-> Company(base, k), name |-> k] :
     k \in open \intersect Keys(Companies(base))} \union
  {[kind |-> "delete", id |-> i, name |-> Key(base[i])] : i \in IF open = {} THEN doomed ELSE {}}

\* A create is refused when the name is taken
NeverTaken(c) == FALSE
Taken(c) == c.kind = "create" /\ c.name \in Keys(Companies(mcs))

MspLook ==
  /\ pc = "msp"
  /\ cur' \in {c \in NextChange : ~Taken(c)}
  /\ pc' = "msp-call" /\ quiet' = TRUE
  /\ UNCHANGED <<mcs, spent, rows, allowed, base, open, doomed, calm, mishaps>>

\* msp-add: what the server holds then
Incorporated(r) ==
  [r EXCEPT !.seats = Held(Ordered(@)), !.addons = [a \in DOMAIN @ |-> Held(Ordered(@[a]))]]

\* msp-update: a file plan is set but never removed; addons are added and removed
\* by comparison with the plan's view
UpdatedIgnoringRemovals(now, seen, r) ==
  [Incorporated(r) EXCEPT
     !.file = IF r.file = NoFile THEN now.file ELSE @,
     !.addons = [a \in DOMAIN now.addons \union DOMAIN r.addons |->
                   IF a \in DOMAIN r.addons THEN Held(Ordered(r.addons[a])) ELSE now.addons[a]]]

Updated(now, seen, r) ==
  LET dropped == DOMAIN seen.addons \ DOMAIN r.addons
      added == {a \in DOMAIN r.addons :
                  a \notin DOMAIN seen.addons \/ Ordered(seen.addons[a]) # Ordered(r.addons[a])}
  IN [Incorporated(r) EXCEPT
        !.file = IF r.file = NoFile THEN now.file ELSE @,
        !.addons = [a \in (DOMAIN now.addons \union added) \ dropped |->
                      IF a \in added THEN Held(Ordered(r.addons[a])) ELSE now.addons[a]]]

MspAdd ==
  /\ pc = "msp-call" /\ cur.kind = "create"
  /\ \E twice \in BOOLEAN :
       LET new == FreshOf(McId, spent, IF twice THEN 2 ELSE 1) IN
       /\ Cardinality(new) = IF twice THEN 2 ELSE 1
       /\ Twice(twice)
       /\ mcs' = [i \in DOMAIN mcs \union new |-> IF i \in new THEN Incorporated(Row(cur.name)) ELSE mcs[i]]
       /\ spent' = spent \union new
  /\ open' = open \ {cur.name}
  /\ pc' = "msp" /\ cur' = NoChange
  /\ UNCHANGED <<rows, allowed, base, doomed, calm, quiet>>

\* msp-update and msp-remove; an id that is gone is passed over by the command, or
\* makes it fail (see Stop in Tenant)
MspEdit ==
  /\ pc = "msp-call" /\ cur.kind = "update"
  /\ mcs' = [i \in DOMAIN mcs |->
               IF i = cur.id THEN Updated(mcs[i], Discovered(base[i]), Row(cur.name)) ELSE mcs[i]]
  /\ open' = open \ {cur.name}
  /\ pc' = "msp" /\ cur' = NoChange
  /\ UNCHANGED <<spent, rows, allowed, base, doomed, calm, quiet, mishaps>>

MspRemove ==
  /\ pc = "msp-call" /\ cur.kind = "delete"
  /\ mcs' = [i \in DOMAIN mcs \ {cur.id} |-> mcs[i]]
  /\ doomed' = doomed \ {cur.id}
  /\ pc' = "msp" /\ cur' = NoChange
  /\ UNCHANGED <<spent, rows, allowed, base, open, calm, quiet, mishaps>>

MspIdle ==
  /\ pc' = "idle"
  /\ rows' = {} /\ allowed' = FALSE /\ base' = NobodyYet /\ open' = {} /\ doomed' = {} /\ cur' = NoChange
  /\ UNCHANGED <<mcs, spent, quiet>>

MspFinish ==
  /\ pc = "msp" /\ open = {} /\ doomed = {}
  /\ MspIdle /\ UNCHANGED <<calm, mishaps>>

\* ConflictError, which `dsk apply` does not catch
MspRefuse ==
  /\ pc = "msp" /\ \E c \in NextChange : Taken(c)
  /\ MspIdle /\ UNCHANGED <<calm, mishaps>>

MspStop == pc \in {"msp", "msp-call"} /\ MspIdle

\* Others add, edit and remove companies
MspOthers ==
  /\ \/ \E r \in Rivals, i \in FreshOf(McId, spent, 1) :
          /\ Room(McId, spent)
          /\ mcs' = [j \in DOMAIN mcs \union {i} |-> IF j = i THEN r ELSE mcs[j]]
          /\ spent' = spent \union {i}
     \/ \E r \in Rivals, i \in DOMAIN mcs :
          mcs' = [mcs EXCEPT ![i] = [r EXCEPT !.name = mcs[i].name]] /\ UNCHANGED spent
     \/ \E i \in DOMAIN mcs :
          mcs' = [j \in DOMAIN mcs \ {i} |-> mcs[j]] /\ UNCHANGED spent
  /\ UNCHANGED <<rows, allowed, base, open, doomed, cur>>

------------------------------------------------------------------------------
CompanyTypeOK ==
  /\ DOMAIN mcs \subseteq spent /\ spent \subseteq McId
  /\ \A c \in Companies(mcs) : c.name \in CompanyName /\ c.seats \in 0..Top
  /\ pc = "msp-call" <=> cur # NoChange
  /\ pc = "idle" => rows = {} /\ open = {} /\ doomed = {}
  /\ open \subseteq Keys(rows) /\ doomed \subseteq DOMAIN base

\* File plans that the manifest no longer has: the update does not remove them
Blurred(c) == IF Key(c) \in {Key(r) : r \in {s \in rows : s.file = NoFile}}
              THEN [c EXCEPT !.file = NoFile] ELSE c

CompaniesAsMock ==
  {Blurred(Discovered(mcs[i])) : i \in DOMAIN mcs} =
  {Blurred(c) : c \in MockApplied(base, rows, allowed)}

\* How many steps an apply has still to make
MspLeft == 2 * (Cardinality(open) + Cardinality(doomed)) + (IF pc = "msp" THEN 1 ELSE 0)

\* Two companies of one name
CompanyTwins(m) == {p \in (DOMAIN m) \X (DOMAIN m) : p[1] < p[2] /\ Key(m[p[1]]) = Key(m[p[2]])}
=============================================================================
