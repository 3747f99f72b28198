------------------------------ MODULE KsmApply ------------------------------
(***************************************************************************)
(* `dsk apply` of applications through Commander.  The listing of the      *)
(* applications is kept from the plan on, and only a change of the         *)
(* process's own makes it list them again; a new application and its       *)
(* marker are two calls.  Rows that Commander cannot apply are met in the  *)
(* middle, after others have been.                                         *)
(***************************************************************************)
EXTENDS KsmDiff, Session

CONSTANTS
  AppId,      \* uids of applications
  Rollouts,   \* contents of the manifest
  Unlisted    \* the listing is to be made again

ASSUME KsmApplyAssumption ==
  /\ AppId \subseteq Nat \ {0}
  /\ \A v \in Rollouts : LoadsApps(v)

VARIABLES
  apps,      \* the tenant: uid -> application
  given,     \* uids that were given out
  target,    \* the manifest applied
  deleting,  \* --allow-delete
  before,    \* the tenant as the plan saw it
  listed,    \* names of the applications in the kept listing, or Unlisted
  todo,      \* uid_refs to create or to rename
  reshare,   \* shares to update
  retired,   \* uids to delete
  at         \* the application under way

apply == <<target, deleting, before, listed, todo, reshare, retired, at>>
application == <<apps, given, apply>>

NoTarget ==
  [names |-> [r \in {} |-> r], shares |-> [p \in {} |-> p], extras |-> {}, scoped |-> {}]
NoApps == [u \in {} |-> u]
Nowhere == [ref |-> NoMark, uid |-> 0]

KsmInit ==
  /\ apps = NoApps /\ given = {} /\ target = NoTarget /\ deleting = FALSE /\ before = NoApps
  /\ listed = Unlisted /\ todo = {} /\ reshare = {} /\ retired = {} /\ at = Nowhere

Named(n) == {u \in DOMAIN apps : apps[u].name = n}
NamesNow == {apps[u].name : u \in DOMAIN apps}

KsmPlan ==
  /\ pc = "idle" /\ Room(AppId, given)
  /\ \E v \in Rollouts, allow \in BOOLEAN :
       /\ ~CleanApps(apps, v, allow)
       /\ Contested(apps) => allow
       /\ target' = v /\ deleting' = allow
       /\ todo' = NewApps(apps, v) \union ChangedApps(apps, v)
       /\ reshare' = ChangedShares(apps, v)
       /\ retired' = GoneApps(apps, v, allow)
  /\ before' = apps /\ listed' = NamesNow
  /\ pc' = "ksm" /\ calm' = TRUE /\ quiet' = TRUE
  /\ UNCHANGED <<apps, given, at, mishaps>>

Planned(r) == AppOf(before, r)

\* A rename goes by the uid of the plan; Commander refuses a name that is taken
KsmRename ==
  /\ pc = "ksm"
  /\ \E r \in todo \intersect OwnedRefs(before) :
       /\ Planned(r) \in DOMAIN apps
       /\ target.names[r] # before[Planned(r)].name
       /\ Named(target.names[r]) \subseteq {Planned(r)}
       /\ apps' = [apps EXCEPT ![Planned(r)].name = target.names[r]]
       /\ todo' = todo \ {r}
  /\ listed' = Unlisted
  /\ UNCHANGED <<pc, calm, quiet, mishaps, given, target, deleting, before, reshare, retired, at>>

\* _ksm_app_rows
Listing == IF listed = Unlisted THEN NamesNow ELSE listed

InNoListing(n) == FALSE
InListing(n) == n \in Listing

KsmLook ==
  /\ pc = "ksm"
  /\ \E r \in todo \ OwnedRefs(before) :
       /\ ~InListing(target.names[r])
       /\ at' = [ref |-> r, uid |-> 0]
  /\ listed' = Listing
  /\ quiet' = (quiet \/ listed = Unlisted)
  /\ pc' = "ksm-create"
  /\ UNCHANGED <<calm, mishaps, apps, given, target, deleting, before, todo, reshare, retired>>

NewApp(n) == [name |-> n, mark |-> NoMark, shares |-> [v \in {} |-> v]]

\* add_new_v5_app, and again when the session had expired.  When there is one of
\* that name by now, Commander makes another or leaves it, and the latter is then
\* looked up by its name.
KsmCreate ==
  /\ pc = "ksm-create"
  /\ LET n == target.names[at.ref] IN
     \E again \in BOOLEAN, k \in 0..2 :
       LET new == FreshOf(AppId, given, k) IN
       /\ Cardinality(new) = k
       /\ k = 0 => Named(n) # {}
       /\ k = 2 => again
       /\ Twice(again)
       /\ apps' = [u \in DOMAIN apps \union new |-> IF u \in new THEN NewApp(n) ELSE apps[u]]
       /\ given' = given \union new
       /\ \E u \in (IF k = 0 THEN Named(n) ELSE new) : at' = [at EXCEPT !.uid = u]
  /\ pc' = "ksm-mark"
  /\ UNCHANGED <<calm, quiet, target, deleting, before, listed, todo, reshare, retired>>

KsmMark ==
  /\ pc = "ksm-mark" /\ at.uid \in DOMAIN apps
  /\ apps' = [apps EXCEPT ![at.uid].mark = at.ref]
  /\ todo' = todo \ {at.ref}
  /\ listed' = Unlisted
  /\ pc' = "ksm" /\ at' = Nowhere
  /\ UNCHANGED <<calm, quiet, mishaps, given, target, deleting, before, reshare, retired>>

\* update_app_share, by the two uids of the plan
KsmReshare ==
  /\ pc = "ksm" /\ todo = {}
  /\ \E p \in reshare : \E u \in SharedWith(before, p) \intersect DOMAIN apps :
       /\ p[2] \in DOMAIN apps[u].shares
       /\ apps' = [apps EXCEPT ![u].shares[p[2]] = target.shares[p]]
       /\ reshare' = reshare \ {p}
  /\ UNCHANGED <<pc, calm, quiet, mishaps, given, target, deleting, before, listed, todo, retired, at>>

\* Deletes come last, in the order of titles
Blocked == GoneShares(before, target, deleting)
Unshared == NewShares(before, target)

KsmDelete ==
  /\ pc = "ksm" /\ todo = {} /\ reshare = {} /\ Unshared = {} /\ target.extras = {}
  /\ \E u \in retired :
       /\ before[u].name \notin EarlyName =>
            Blocked = {} /\ \A w \in retired : before[w].name \notin EarlyName
       /\ apps' = [w \in DOMAIN apps \ {u} |-> apps[w]]
       /\ retired' = retired \ {u}
  /\ listed' = Unlisted
  /\ UNCHANGED <<pc, calm, quiet, mishaps, given, target, deleting, before, todo, reshare, at>>

KsmIdle ==
  /\ pc' = "idle"
  /\ target' = NoTarget /\ deleting' = FALSE /\ before' = NoApps /\ listed' = Unlisted
  /\ todo' = {} /\ reshare' = {} /\ retired' = {} /\ at' = Nowhere
  /\ UNCHANGED <<apps, given, quiet>>

KsmFinish ==
  /\ pc = "ksm" /\ todo = {} /\ reshare = {} /\ retired = {}
  /\ Blocked = {} /\ Unshared = {} /\ target.extras = {}
  /\ KsmIdle /\ UNCHANGED <<calm, mishaps>>

\* CapabilityError: scopes without a new name, a token or an output, a share to add
\* or to remove, a name that is taken or an uid that is gone.  ConflictError: a
\* name in the listing.
KsmRefuse ==
  /\ \/ pc = "ksm" /\ \E r \in todo \intersect OwnedRefs(before) :
          \/ target.names[r] = before[Planned(r)].name
          \/ Planned(r) \notin DOMAIN apps
          \/ Named(target.names[r]) \ {Planned(r)} # {}
     \/ pc = "ksm" /\ \E r \in todo \ OwnedRefs(before) : InListing(target.names[r])
     \/ pc = "ksm" /\ \E r \in target.extras : r \notin todo
     \/ pc = "ksm" /\ todo = {} /\ Unshared # {}
     \/ pc = "ksm" /\ todo = {} /\ \E p \in reshare :
          \A u \in SharedWith(before, p) \intersect DOMAIN apps : p[2] \notin DOMAIN apps[u].shares
     \/ /\ pc = "ksm" /\ todo = {} /\ reshare = {} /\ Blocked # {}
        /\ \A u \in retired : before[u].name \notin EarlyName
     \/ pc = "ksm-mark" /\ at.uid \notin DOMAIN apps
  /\ KsmIdle /\ UNCHANGED <<calm, mishaps>>

KsmStop == pc \in {"ksm", "ksm-create", "ksm-mark"} /\ KsmIdle

------------------------------------------------------------------------------
AppsTypeOK ==
  /\ DOMAIN apps \subseteq given /\ given \subseteq AppId
  /\ \A u \in DOMAIN apps :
       /\ apps[u].name \in AppName /\ apps[u].mark \in Marks
       /\ DOMAIN apps[u].shares \subseteq Vault
  /\ pc \in {"ksm-create", "ksm-mark"} <=> at # Nowhere
  /\ todo \subseteq DOMAIN target.names /\ reshare \subseteq DOMAIN target.shares
  /\ retired \subseteq DOMAIN before

\* How many steps an apply has still to make
KsmLeft ==
  3 * Cardinality(todo) + Cardinality(reshare) + Cardinality(retired) +
  (IF pc = "ksm" THEN 2 ELSE IF pc = "ksm-create" THEN 1 ELSE 0)

AppTwins(a) == {p \in (DOMAIN a) \X (DOMAIN a) : p[1] < p[2] /\ a[p[1]].name = a[p[2]].name}

AppsAsMock ==
  /\ {[ref |-> apps[u].mark, name |-> apps[u].name] : u \in Owned(apps)} =
       MockApps(before, target, deleting)
  /\ {[pair |-> p, editable |-> apps[CHOOSE u \in SharedWith(apps, p) : TRUE].shares[p[2]]] :
        p \in ClearPairs(apps)} =
       MockShares(before, target, deleting)
=============================================================================
