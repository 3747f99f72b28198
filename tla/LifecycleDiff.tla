---------------------------- MODULE LifecycleDiff ----------------------------
(***************************************************************************)
(* What keeper_sdk/core/diff.py computes: the classification of the rows a *)
(* manifest desires against the records a discover() returned.  Everything *)
(* here is a pure function of a snapshot s of the folder, so the modules   *)
(* that model providers share it.                                          *)
(*                                                                         *)
(* Data abstraction.  A Title stands for a (resource_type, title) pair, a  *)
(* Body for all the other declarative fields of a record.                  *)
(***************************************************************************)
CONSTANTS
  Uid,           \* record uids the Keeper server may hand out
  Ref,           \* manifest uid_ref handles
  Title,         \* (resource_type, title) pairs
  Body,          \* declarative field contents
  ManifestName,  \* values of the marker's "manifest" key
  NoUid, NoRef, NoName, Keep

ASSUME NullsAreNew ==
  /\ NoUid \notin Uid
  /\ NoRef \notin Ref
  /\ NoName \notin ManifestName
  /\ Keep \notin Title
  /\ Keep \notin Body

(***************************************************************************)
(* Ownership markers.  manager is "sdk" for MANAGER_NAME, "foreign" for    *)
(* another tool, "blank" for a marker without a manager key, and "none"    *)
(* when the record has no marker at all.  supported says whether the       *)
(* marker's version is absent or MARKER_VERSION.                           *)
(***************************************************************************)
Managers == {"none", "sdk", "foreign", "blank"}

Markers == [manager : Managers, supported : BOOLEAN,
            ref : Ref \union {NoRef}, manifest : ManifestName \union {NoName}]

Unmarked == [manager |-> "none", supported |-> TRUE, ref |-> NoRef, manifest |-> NoName]

EncodeNewerMarker(r, m) ==
  [manager |-> "sdk", supported |-> FALSE, ref |-> r, manifest |-> m]

\* encode_marker as the providers call it: manager and version are constants
EncodeMarker(r, m) ==
  [manager |-> "sdk", supported |-> TRUE, ref |-> r, manifest |-> m]

Records == [title : Title, body : Body, marker : Markers]

\* A row of the manifest: _desired_vault_records / _desired_objects
Rows == [ref : Ref, title : Title, body : Body]

\* CREATE and UPDATE rows of a plan.  An update says Keep for a field that the
\* record already has right and that it does not patch.
Creates == [kind : {"create"}, ref : Ref, title : Title, body : Body]

Updates == [kind : {"update"}, ref : Ref, uid : Uid,
            title : Title \union {Keep}, body : Body \union {Keep}]

Changes == Creates \union Updates

------------------------------------------------------------------------------
(* _index_live and _raise_live_record_collisions *)

\* a snapshot maps the uids that exist to their records
Live(s) == DOMAIN s

Claimants(s, r) == {u \in Live(s) : s[u].marker.ref = r}

Titled(s, t) == {u \in Live(s) : s[u].title = t}

\* Two records that claim one uid_ref, or that share a title without each of
\* them carrying a uid_ref of its own, stop the planner.
Collision(s) ==
  \E u, v \in Live(s) :
     /\ u # v
     /\ \/ /\ s[u].marker.ref # NoRef
           /\ s[u].marker.ref = s[v].marker.ref
        \/ /\ s[u].title = s[v].title
           /\ \E w \in Titled(s, s[u].title) : s[w].marker.ref = NoRef

\* by_title keeps the record the listing shows last, and the listing's order
\* is the server's, so where records share a title the index is any of them.
TitleIndexes(s) ==
  {f \in [Title -> Uid \union {NoUid}] :
     \A t \in Title : IF Titled(s, t) = {} THEN f[t] = NoUid ELSE f[t] \in Titled(s, t)}

\* by_uid_ref.get(uid_ref) or by_title.get((resource_type, title))
MatchByTitle(s, f, row) == f[row.title]

Match(s, f, row) ==
  IF Claimants(s, row.ref) # {} THEN CHOOSE u \in Claimants(s, row.ref) : TRUE
                                ELSE f[row.title]

------------------------------------------------------------------------------
(* _classify_desired: which rows get which kind of change *)

Differs(s, u, row) == s[u].title # row.title \/ s[u].body # row.body

ToCreate(s, f, rows) == {row \in rows : Match(s, f, row) = NoUid}

Matching(s, f, rows, managers) ==
  {row \in rows : /\ Match(s, f, row) # NoUid
                  /\ s[Match(s, f, row)].marker.manager \in managers}

\* OwnershipError: a marker of ours written by another version of the core
Unsupported(s, f, rows) ==
  \E row \in Matching(s, f, rows, {"sdk", "blank"}) :
     ~s[Match(s, f, row)].marker.supported

ToAdopt(s, f, rows, adopt) == IF adopt THEN Matching(s, f, rows, {"none"}) ELSE {}

Refused(s, f, rows, adopt) ==
  Matching(s, f, rows, {"foreign"}) \union
    (Matching(s, f, rows, {"none"}) \ ToAdopt(s, f, rows, adopt))

InSync(s, f, rows) ==
  {row \in Matching(s, f, rows, {"sdk", "blank"}) : ~Differs(s, Match(s, f, row), row)}

ToUpdateUnmanaged(s, f, rows) ==
  Matching(s, f, rows, {"sdk", "blank", "none"}) \ InSync(s, f, rows)

ToUpdate(s, f, rows) ==
  Matching(s, f, rows, {"sdk", "blank"}) \ InSync(s, f, rows)

\* The creates and updates of the plan.  A plain update carries the drifted
\* fields only, an adoption the whole payload.
CreateOf(row) ==
  [kind |-> "create", ref |-> row.ref, title |-> row.title, body |-> row.body]

AdoptionOf(s, f, row) ==
  [kind |-> "update", ref |-> row.ref, uid |-> Match(s, f, row),
   title |-> row.title, body |-> row.body]

UpdateOf(s, f, row) ==
  LET u == Match(s, f, row) IN
  [kind |-> "update", ref |-> row.ref, uid |-> u,
   title |-> IF s[u].title # row.title THEN row.title ELSE Keep,
   body  |-> IF s[u].body # row.body THEN row.body ELSE Keep]

Writes(s, f, rows, adopt) ==
  {CreateOf(row) : row \in ToCreate(s, f, rows)} \union
  {UpdateOf(s, f, row) : row \in ToUpdate(s, f, rows)} \union
  {AdoptionOf(s, f, row) : row \in ToAdopt(s, f, rows, adopt)}

------------------------------------------------------------------------------
(* _classify_orphans *)

MatchedUpdates(s, f, rows, adopt) ==
  {Match(s, f, row) : row \in ToUpdate(s, f, rows) \union ToAdopt(s, f, rows, adopt)}

Matched(s, f, rows, adopt) ==
  {Match(s, f, row) : row \in Matching(s, f, rows, {"sdk", "blank"})
                                \union ToAdopt(s, f, rows, adopt)}

OrphansOfAnyManifest(s, f, rows, adopt, m) ==
  {u \in Live(s) \ Matched(s, f, rows, adopt) : s[u].marker.manager = "sdk"}

Orphans(s, f, rows, adopt, m) ==
  {u \in Live(s) \ Matched(s, f, rows, adopt) :
     /\ s[u].marker.manager = "sdk"
     /\ s[u].marker.manifest \in {NoName, m}}

Deletes(s, f, rows, adopt, m, allow) ==
  IF allow THEN Orphans(s, f, rows, adopt, m) ELSE {}

\* The plan has a CONFLICT row
HasConflict(s, f, rows, adopt, m, allow) ==
  \/ Refused(s, f, rows, adopt) # {}
  \/ ~allow /\ Orphans(s, f, rows, adopt, m) # {}

\* Plan.is_clean: no create, update, delete or conflict row
IsClean(s, f, rows, adopt, m, allow) ==
  /\ Writes(s, f, rows, adopt) = {}
  /\ Deletes(s, f, rows, adopt, m, allow) = {}
  /\ ~HasConflict(s, f, rows, adopt, m, allow)
==============================================================================
