------------------------------- MODULE PamDiff -------------------------------
(***************************************************************************)
(* pam-environment.v1 manifests: the graph of their rows, the comparison   *)
(* of a row with a discovered record, and the plan, on top of the matching *)
(* and the ownership rules of LifecycleDiff.                               *)
(*                                                                         *)
(* Data abstraction.  A record has a body (what the import writes), its    *)
(* pam_settings (a function from the option and connection keys that are   *)
(* set; also the options of a PAM configuration), and the rotation that    *)
(* Commander reads back, if any.  A row has the same and the scripts that  *)
(* rotation is to run.  Uids are numbers, in the order of the listing.     *)
(***************************************************************************)
EXTENDS LifecycleDiff, Naturals

LOCAL G == INSTANCE Graphs

CONSTANTS
  Kind,       \* title -> its resource_type
  Name,       \* title -> the title without its resource_type
  Unowned,    \* options that Commander sets by itself, with their values
  Off         \* no rotation_settings

Resources == {"pamMachine", "pamDatabase", "pamDirectory", "pamRemoteBrowser"}

\* Manifest: what a row has besides its uid_ref and title.  refs are all its
\* *_uid_ref fields, parent the resource that a nested user is under.
IsRow(row) ==
  /\ row.ref \in Ref /\ row.title \in Title /\ row.body \in Body
  /\ row.refs \subseteq Ref /\ row.parent \in Ref \union {NoRef}
  /\ row.parent # NoRef => Kind[row.title] = "pamUser"
  /\ row.rotation # Off => Kind[row.title] = "pamUser"
  /\ row.scripts \in BOOLEAN

------------------------------------------------------------------------------
(* build_graph and execution_order *)

RefsOf(rows) == {row.ref : row \in rows}

Nested(rows, row) == {u.ref : u \in {x \in rows : x.parent = row.ref}}

\* A resource may name the users nested in it, who depend on it all the same
DependsOn(rows, row) ==
  (row.refs \ Nested(rows, row)) \union (IF row.parent = NoRef THEN {} ELSE {row.parent})

Graph(rows) ==
  [node |-> RefsOf(rows),
   edge |-> UNION {{<<row.ref, d>> : d \in DependsOn(rows, row)} : row \in rows}]

Needs(rows) == G!ConnectionsIn(Graph(rows))

\* RefError: a duplicate, an unknown target, a cycle
Loads(rows) ==
  /\ \A x, y \in rows : x.ref = y.ref => x = y
  /\ \A row \in rows : row.refs \subseteq RefsOf(rows)
  /\ \A x, y \in rows : Needs(rows)[x.ref, y.ref] /\ Needs(rows)[y.ref, x.ref] => x = y

\* validate's rules, and what the provider reports it cannot do: rotation of
\* users that are not nested in a resource
Gaps(rows) == {row \in rows : row.rotation # Off /\ row.parent = NoRef}

------------------------------------------------------------------------------
(* The fields of a row against those of a record *)

\* Only the keys that the row sets are compared: Commander adds keys of its own
OverlayMatches(live, want) ==
  \A k \in DOMAIN want : k \in DOMAIN live /\ live[k] = want[k]

SettingsMatch(r, row) == OverlayMatches(r.settings, row.settings)

\* A record without readback is taken to have the rotation, if our marker for
\* this row is on it
TrustMissingRotation(r, row) ==
  /\ row.rotation # Off /\ r.rotation = Off
  /\ r.marker.manager = "sdk" /\ r.marker.ref = row.ref

RotationSet(r, row) ==
  row.rotation = Off \/ r.rotation # Off \/ TrustMissingRotation(r, row)

RotationMatches(r, row) ==
  row.rotation = Off \/ r.rotation = row.rotation \/ TrustMissingRotation(r, row)

\* A user's scripts cannot be read back and are not compared
FieldsDiffer(r, row) ==
  \/ r.title # row.title
  \/ r.body # row.body
  \/ ~SettingsMatch(r, row)
  \/ ~RotationMatches(r, row)

------------------------------------------------------------------------------
(* The plan *)

\* where records share a title, by_title keeps the last one listed
LastListed(S) == CHOOSE u \in S : \A v \in S : v <= u

ByTitle(s) ==
  [t \in Title |-> IF Titled(s, t) = {} THEN NoUid ELSE LastListed(Titled(s, t))]

Found(s, row) == Match(s, ByTitle(s), row)

DriftedOfAnyManager(s, rows) ==
  {row \in Matching(s, ByTitle(s), rows, Managers) : FieldsDiffer(s[Found(s, row)], row)}

Drifted(s, rows) ==
  {row \in Matching(s, ByTitle(s), rows, {"sdk", "blank"}) : FieldsDiffer(s[Found(s, row)], row)}

\* The rows that plan has creates or updates for: those of `apply`, and those
\* of `import`, which keeps nothing but the adoptions
Additions(s, rows)  == ToCreate(s, ByTitle(s), rows)

Adoptions(s, rows)  == ToAdopt(s, ByTitle(s), rows, TRUE)

RemovalsOfUnwritten(s, rows, m, allow) ==
  IF allow THEN {u \in Live(s) : s[u].marker.manager = "sdk" /\ s[u].marker.manifest = m}
                  \ {Found(s, row) : row \in Drifted(s, rows)}
  ELSE {}

Removals(s, rows, m, allow) == Deletes(s, ByTitle(s), rows, FALSE, m, allow)

Conflicts(s, rows, m, allow) == HasConflict(s, ByTitle(s), rows, FALSE, m, allow)

\* compute_diff raises CollisionError, ConflictError or OwnershipError
Raises(s, rows) == Collision(s) \/ Unsupported(s, ByTitle(s), rows)

Clean(s, rows, m, allow) ==
  /\ Additions(s, rows) = {} /\ Drifted(s, rows) = {}
  /\ Removals(s, rows, m, allow) = {}
  /\ ~Conflicts(s, rows, m, allow)

\* Plan.ordered and execution_order: row may come first among todo
MayComeFirst(rows, todo, row) ==
  row \in todo /\ \A other \in todo \ {row} : ~Needs(rows)[row.ref, other.ref]

------------------------------------------------------------------------------
(* Finding records again after the import *)

LastByIdentity(seen, t) ==
  LET S == {u \in DOMAIN seen : seen[u].title = t} IN IF S = {} THEN {} ELSE {LastListed(S)}

\* _live_matches_by_identity: by type and title, or else by title alone
ByIdentity(seen, t) ==
  LET exact == {u \in DOMAIN seen : seen[u].title = t} IN
  IF exact # {} THEN exact ELSE {u \in DOMAIN seen : Name[seen[u].title] = Name[t]}

ByMarker(seen, r) == {u \in DOMAIN seen : seen[u].ref = r}

\* _RotationRefResolver.resolve; no uid, or more than one, is a ValueError.
\* known are the uids of the plan's changes.
Resolve(seen, known, row) ==
  IF ByMarker(seen, row.ref) # {} THEN ByMarker(seen, row.ref)
  ELSE IF known[row.ref] # NoUid THEN {known[row.ref]}
  ELSE ByIdentity(seen, row.title)

Resolves(seen, known, row) == \E u \in DOMAIN seen : Resolve(seen, known, row) = {u}
==============================================================================
