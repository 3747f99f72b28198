------------------------------- MODULE KsmDiff -------------------------------
(***************************************************************************)
(* compute_ksm_diff: applications of a keeper-ksm.v1 manifest and the      *)
(* records shared with them, against the applications that carry the       *)
(* manifest's marker.  The manager in the marker is not looked at, and     *)
(* tokens, outputs, scopes and addresses are never found in the tenant.    *)
(***************************************************************************)
EXTENDS Integers, FiniteSets

CONSTANTS
  AppName,   \* names that differ in more than case
  EarlyName, \* names that sort before "keeper-ksm:apps:", the titles of shares
  AppRef,    \* uid_refs of applications
  Vault,     \* records that can be shared
  NoMark     \* no marker

Marks == AppRef \union {NoMark}

ASSUME KsmDiffAssumption == EarlyName \subseteq AppName /\ NoMark \notin AppRef

\* A manifest: names by uid_ref, shares (editable by application and record),
\* applications with tokens or config outputs, and with scopes or addresses
LoadsApps(v) ==
  /\ DOMAIN v.names \subseteq AppRef /\ (\A r \in DOMAIN v.names : v.names[r] \in AppName)
  /\ v.extras \subseteq DOMAIN v.names /\ v.scoped \subseteq DOMAIN v.names
  /\ \A p \in DOMAIN v.shares : p[1] \in DOMAIN v.names /\ p[2] \in Vault

\* discover_ksm_state: only applications with a marker of this manifest
Owned(apps) == {u \in DOMAIN apps : apps[u].mark # NoMark}
OfRef(apps, r) == {u \in Owned(apps) : apps[u].mark = r}
OwnedRefs(apps) == {apps[u].mark : u \in Owned(apps)}
Ambiguous(apps) == {r \in OwnedRefs(apps) : Cardinality(OfRef(apps, r)) > 1}
AppOf(apps, r) == CHOOSE u \in OfRef(apps, r) : TRUE

\* the shares found, with the application they are of
SharedWith(apps, p) == {u \in OfRef(apps, p[1]) : p[2] \in DOMAIN apps[u].shares}
LivePairs(apps) == {p \in AppRef \X Vault : SharedWith(apps, p) # {}}
ClearPairs(apps) == {p \in LivePairs(apps) : Cardinality(SharedWith(apps, p)) = 1}

NewApps(apps, v) == DOMAIN v.names \ OwnedRefs(apps)

\* scopes and allowed_ips are reported empty
ChangedApps(apps, v) ==
  {r \in DOMAIN v.names \intersect (OwnedRefs(apps) \ Ambiguous(apps)) :
     apps[AppOf(apps, r)].name # v.names[r] \/ r \in v.scoped}

GoneApps(apps, v, allow) ==
  {u \in Owned(apps) : allow /\ apps[u].mark \notin DOMAIN v.names \union Ambiguous(apps)}

NewShares(apps, v) == DOMAIN v.shares \ LivePairs(apps)

ChangedShares(apps, v) ==
  {p \in DOMAIN v.shares \intersect ClearPairs(apps) :
     \E u \in SharedWith(apps, p) : apps[u].shares[p[2]] # v.shares[p]}

GoneShares(apps, v, allow) == {p \in ClearPairs(apps) : allow /\ p \notin DOMAIN v.shares}

Contested(apps) == Ambiguous(apps) # {} \/ LivePairs(apps) # ClearPairs(apps)

CleanApps(apps, v, allow) ==
  /\ NewApps(apps, v) = {} /\ ChangedApps(apps, v) = {} /\ GoneApps(apps, v, allow) = {}
  /\ NewShares(apps, v) = {} /\ ChangedShares(apps, v) = {} /\ GoneShares(apps, v, allow) = {}
  /\ v.extras = {} /\ ~Contested(apps)

\* KsmMockProvider.apply_ksm_plan: every row is put in place
MockApps(apps, v, allow) ==
  {[ref |-> r, name |-> v.names[r]] : r \in DOMAIN v.names \ Ambiguous(apps)} \union
  {[ref |-> apps[u].mark, name |-> apps[u].name] :
     u \in {w \in Owned(apps) \ GoneApps(apps, v, allow) :
              apps[w].mark \notin DOMAIN v.names \ Ambiguous(apps)}}

MockShares(apps, v, allow) ==
  {[pair |-> p, editable |-> v.shares[p]] : p \in DOMAIN v.shares} \union
  {[pair |-> p, editable |-> apps[CHOOSE u \in SharedWith(apps, p) : TRUE].shares[p[2]]] :
     p \in ClearPairs(apps) \ (DOMAIN v.shares \union GoneShares(apps, v, allow))}
==============================================================================
