---------------------------- MODULE SharingApply ----------------------------
(***************************************************************************)
(* `dsk apply` of keeper-vault-sharing.v1 files through Commander, one     *)
(* process at a time.  Each row takes four calls: put it in force (mkdir,  *)
(* share-folder, share-record), remove its old sidecar, add a new one, and *)
(* mark that.  The process may die between any two of them, and nothing    *)
(* ever compares the sidecars with what is in force.                       *)
(*                                                                         *)
(* An object is what Keeper enforces: a folder, or a grant.  A grant on a  *)
(* shared folder names it by its path ("in"), where its row has a uid_ref. *)
(***************************************************************************)
EXTENDS SharingDiff, FiniteSets

CONSTANTS
  Versions,       \* the row sets that the applied files hold
  Rank,           \* position of a uid_ref in sharing_apply_order
  UidsFor,        \* the uids that new sidecars for a ref get
  SharedRecords,  \* records whose uid_ref the folder can resolve
  OutsideRows, OutsideMarkers,  \* sidecars that other tools add
  MaxOutside, MaxFails

GrantKinds == {"grantee", "default", "default_record"}

Object == Place \union [kind : GrantKinds, in : Name, to : Name]

ASSUME SharingApplyAssumption ==
  /\ Versions \subseteq SUBSET Row
  /\ \A rows \in Versions : \A x, y \in rows :
       x.ref = y.ref \/ SamePlace(x.place, y.place) => x = y
  /\ \A rows \in Versions : \A x \in rows :
       Type(x) = "share_folder" =>
         \E y \in rows : y.ref = x.place.in /\ Type(y) = "shared_folder"
  /\ Rank \in [Ref -> Nat]
  /\ \A r, q \in Ref : Rank[r] = Rank[q] => r = q
  /\ \A rows \in Versions : \A x, y \in rows :
       x.place.in = y.ref => Rank[y.ref] < Rank[x.ref]
  /\ UidsFor \in [Ref -> SUBSET Uid]
  /\ \A rows \in Versions : \A x \in rows :
       x.terms = Unset => x.place.kind = "shared_folder"
  /\ Keep \notin Object
  /\ OutsideRows \subseteq Row /\ OutsideMarkers \subseteq Marker
  /\ MaxOutside \in Nat /\ MaxFails \in Nat

VARIABLES
  side,    \* the sidecar records: uid -> marker, row and object
  force,   \* what is in force on the server: object -> terms
  pc,      \* "idle", "apply", "drop", "add", "mark" or "forget"
  todo,    \* creates and updates still to run
  doomed,  \* deletes still to run
  cur,     \* the row whose calls are under way
  want,    \* the rows planned from
  held,    \* the refs whose row was planned from and passed over
  lost,    \* objects an interrupted process was busy with
  calm,    \* nobody else has touched the sidecars since the plan
  fails, outside

vars == <<side, force, pc, todo, doomed, cur, want, held, lost, calm, fails, outside>>

NoRow == [ref |-> NoRef, place |-> Keep, terms |-> Keep, at |-> Keep, uid |-> NoUid]
Nothing == [x \in {} |-> NoUid]

Put(f, x, y) == [z \in DOMAIN f \union {x} |-> IF z = x THEN y ELSE f[z]]
Drop(f, S)   == [z \in DOMAIN f \ S |-> f[z]]

Init ==
  /\ side = Nothing /\ force = Nothing
  /\ pc = "idle" /\ todo = {} /\ doomed = {} /\ cur = NoRow /\ want = {} /\ held = {}
  /\ lost = {} /\ calm = TRUE /\ fails = 0 /\ outside = 0

------------------------------------------------------------------------------
(* The plan *)

\* _build_sharing_changes, and apply's early exits: a clean plan, conflicts
\* without --allow-delete, and OwnershipError end the process without a call.
Plan ==
  /\ pc = "idle"
  /\ \E rows \in Versions, allow \in BOOLEAN :
       /\ ~Raises(side, rows)
       /\ ~Clean(side, rows, allow)
       /\ HasConflict(side, rows, allow) => allow
       /\ todo' = Writes(side, rows)
       /\ doomed' = Removals(side, rows, allow)
       /\ want' = rows
       /\ held' = {row.ref : row \in {x \in rows : Regranted(side, x)}} \union
                  {row.ref : row \in {x \in rows : /\ Match(side, x) # NoUid
                                                   /\ ~Managed(side, Match(side, x))}}
  /\ pc' = "apply"
  /\ calm' = TRUE
  /\ UNCHANGED <<side, force, cur, lost, fails, outside>>

\* sharing_apply_order and Plan.ordered: c is the next create or update
Next1(c) == c \in todo /\ \A d \in todo : Rank[c.ref] <= Rank[d.ref]

\* _sharing_full_payload: an update is merged over the payload of the sidecar
\* with its uid_ref, if there is one
Mergeable(c) == c.kind = "create" \/ OfRef(side, c.type, c.ref) # NoUid

FullPayload(c) ==
  LET r == side[OfRef(side, c.type, c.ref)] IN
  [ref   |-> c.ref,
   place |-> IF c.place = Keep THEN r.place ELSE c.place,
   terms |-> IF c.terms = Keep THEN r.terms ELSE c.terms,
   at    |-> IF c.kind = "create" THEN c.place ELSE r.at]

\* _sharing_resolve_ref: the folder that the shared folder's sidecar names
Resolved(r) == OfRef(side, "shared_folder", r)

\* The object a row is about.  A renamed shared folder keeps the path of its
\* sidecar's payload, since only its name is among the drifted fields.
Subject(c, row) ==
  LET pl == row.place IN
  CASE pl.kind = "folder"        -> [pl EXCEPT !.in = NoRef]
    [] pl.kind = "shared_folder" -> row.at
    [] pl.kind = "record_share"  -> pl
    [] OTHER -> [kind |-> IF pl.kind = "default" /\ row.terms \in RecordTerms
                          THEN "default_record" ELSE pl.kind,
                 in |-> side[Resolved(pl.in)].at.to, to |-> pl.to]

\* _require_payload_str and _sharing_resolve_ref raise CapabilityError, as does
\* a row of kind "record" always (see Fail)
Possible(c) ==
  /\ Mergeable(c)
  /\ LET pl == FullPayload(c).place IN
       /\ pl.kind = "record_share" => pl.in \in SharedRecords
       /\ pl.kind \in {"grantee", "default"} => Resolved(pl.in) # NoUid
       /\ pl.kind # "record"

\* mkdir leaves a folder that exists as it is (or raises: Fail); a grant
\* replaces the terms of the one before
EnforcedOnce(object, terms) ==
  IF object \in DOMAIN force THEN force ELSE Put(force, object, terms)

Enforced(object, terms) ==
  IF object.kind \in FolderKinds /\ object \in DOMAIN force
  THEN force ELSE Put(force, object, terms)

\* _sharing_apply_create_or_update, up to the sidecar
Enforce ==
  /\ pc = "apply"
  /\ \E c \in todo :
       /\ Next1(c) /\ Possible(c)
       /\ LET row == FullPayload(c)
              object == Subject(c, row) IN
            /\ force' = Enforced(object, row.terms)
            /\ cur' = [ref |-> row.ref, place |-> row.place, terms |-> row.terms,
                       at |-> object, uid |-> NoUid]
       /\ todo' = todo \ {c}
  /\ pc' = "drop"
  /\ UNCHANGED <<side, doomed, want, held, lost, calm, fails, outside>>

SidecarAtPlace(row) == {AtPlace(side, TypeOf(row.place.kind), row.place)} \ {NoUid}

SidecarOf(row) == {OfRef(side, TypeOf(row.place.kind), row.ref)} \ {NoUid}

\* _sharing_delete_sidecar: the first sidecar of that type and uid_ref, whoever's
DropSidecar ==
  /\ pc = "drop"
  /\ side' = Drop(side, SidecarOf(cur))
  /\ pc' = "add"
  /\ UNCHANGED <<force, todo, doomed, cur, want, held, lost, calm, fails, outside>>

\* _vault_add_login_record
AddSidecar ==
  /\ pc = "add" /\ UidsFor[cur.ref] \ DOMAIN side # {}
  /\ LET u == First(UidsFor[cur.ref] \ DOMAIN side) IN
       /\ side' = Put(side, u, [marker |-> Unmarked, place |-> cur.place,
                                terms |-> cur.terms, at |-> cur.at])
       /\ cur' = [cur EXCEPT !.uid = u]
  /\ pc' = "mark"
  /\ UNCHANGED <<force, todo, doomed, want, held, lost, calm, fails, outside>>

\* _write_marker
MarkSidecar ==
  /\ pc = "mark" /\ cur.uid \in DOMAIN side
  /\ side' = [side EXCEPT ![cur.uid].marker = EncodeMarker(cur.ref)]
  /\ lost' = lost \ {cur.at}
  /\ cur' = NoRow
  /\ pc' = "apply"
  /\ UNCHANGED <<force, todo, doomed, want, held, calm, fails, outside>>

------------------------------------------------------------------------------
(* Deletes, after all creates and updates *)

DeleteRank == [share_folder |-> 0, record_share |-> 1, shared_folder |-> 2, folder |-> 3]

\* _sharing_delete_order
DeletedBefore(d, e) ==
  \/ DeleteRank[TypeOf(d.place.kind)] < DeleteRank[TypeOf(e.place.kind)]
  \/ /\ TypeOf(d.place.kind) = TypeOf(e.place.kind)
     /\ Rank[d.ref] < Rank[e.ref]

\* rmdir -f takes the grants on the folder with it; revoking a default row
\* removes the default grantee, whichever target the row has
RevokedOnFolders(object) ==
  IF object.kind = "record_share" THEN {} ELSE {object}

Revoked(object) ==
  CASE object.kind \in FolderKinds ->
         {o \in DOMAIN force :
            \/ o = object
            \/ object.kind = "shared_folder" /\ o.kind \in GrantKinds /\ o.in = object.to}
    [] object.kind = "default_record" -> {[object EXCEPT !.kind = "default"]}
    [] OTHER -> {object}

\* _sharing_apply_delete: what the first sidecar with the uid_ref names, or else
\* what the plan saw
Revoke ==
  /\ pc = "apply" /\ todo = {}
  /\ \E d \in doomed :
       /\ \A e \in doomed : ~DeletedBefore(e, d)
       /\ LET at == IF SidecarOf(d) = {} THEN d.at ELSE side[OfRef(side, TypeOf(d.place.kind), d.ref)].at
          IN  /\ force' = Drop(force, Revoked(at))
              /\ cur' = [NoRow EXCEPT !.ref = d.ref, !.place = d.place, !.at = at]
       /\ doomed' = doomed \ {d}
  /\ pc' = "forget"
  /\ UNCHANGED <<side, todo, want, held, lost, calm, fails, outside>>

Forget ==
  /\ pc = "forget"
  /\ side' = Drop(side, SidecarOf(cur))
  /\ lost' = lost \ {cur.at}
  /\ cur' = NoRow
  /\ pc' = "apply"
  /\ UNCHANGED <<force, todo, doomed, want, held, calm, fails, outside>>

------------------------------------------------------------------------------
(* The end of the process *)

EndKeepingDeletes ==
  /\ pc' = "idle" /\ todo' = {} /\ cur' = NoRow /\ want' = {} /\ held' = {}
  /\ UNCHANGED <<side, force, outside, doomed>>

End ==
  /\ pc' = "idle" /\ todo' = {} /\ doomed' = {} /\ cur' = NoRow /\ want' = {} /\ held' = {}
  /\ UNCHANGED <<side, force, outside>>

Finish ==
  /\ pc = "apply" /\ todo = {} /\ doomed = {}
  /\ End
  /\ UNCHANGED <<lost, calm, fails>>

\* The next row cannot be applied at all
Refuse ==
  /\ pc = "apply"
  /\ \E c \in todo : Next1(c) /\ ~Possible(c)
  /\ End
  /\ UNCHANGED <<lost, calm, fails>>

\* A call raises CapabilityError, or the process is killed
Fail ==
  /\ pc # "idle" /\ fails < MaxFails
  /\ fails' = fails + 1
  /\ lost' = IF cur.at = Keep THEN lost ELSE lost \union {cur.at}
  /\ calm' = FALSE
  /\ End

\* Another tool keeps sidecars of its own in the folder
OutsideSidecar ==
  /\ outside < MaxOutside
  /\ outside' = outside + 1
  /\ calm' = FALSE
  /\ \E row \in OutsideRows, k \in OutsideMarkers : \E u \in UidsFor[row.ref] \ DOMAIN side :
       side' = Put(side, u, [marker |-> [k EXCEPT !.ref = row.ref], place |-> row.place,
                             terms |-> row.terms, at |-> row.place])
  /\ UNCHANGED <<force, pc, todo, doomed, cur, want, held, lost, fails>>

Next ==
  \/ Plan \/ Enforce \/ DropSidecar \/ AddSidecar \/ MarkSidecar \/ Revoke \/ Forget
  \/ Finish \/ Refuse \/ Fail \/ OutsideSidecar

Spec == Init /\ [][Next]_vars

------------------------------------------------------------------------------
(* What the sidecars say about what is in force *)

\* Every variable keeps its type: an idle process has no plan and no row under
\* way, and between two calls for a row it has one.
TypeOK ==
  /\ DOMAIN side \subseteq Uid
  /\ \A u \in DOMAIN side : side[u].marker \in Marker /\ side[u].place \in Place
  /\ \A o \in DOMAIN force : force[o] \in Terms
  /\ pc \in {"idle", "apply", "drop", "add", "mark", "forget"}
  /\ cur.ref # NoRef <=> pc \notin {"idle", "apply"}
  /\ pc = "idle" => todo = {} /\ doomed = {} /\ want = {}
  /\ want \in Versions \union {{}}
  /\ outside \in 0..MaxOutside /\ fails \in 0..MaxFails

Own == {u \in DOMAIN side : Managed(side, u)}

\* _sharing_upsert_sidecar removes before it adds, so that whatever call fails
\* no row ever has two sidecars of ours, between which the listing would choose.
OneSidecarPerRow ==
  \A u, v \in Own :
     side[u].marker.ref = side[v].marker.ref /\ TypeOf(side[u].place.kind) = TypeOf(side[v].place.kind)
       => u = v

\* Refs that the files over time give to different places, or to the two targets
\* of a default row: a move, for which the code has no call.
Target(row) ==
  IF row.place.kind = "default" /\ row.terms \in RecordTerms
  THEN [row.place EXCEPT !.kind = "default_record"] ELSE row.place

AllRows == UNION Versions

Moved == {x.ref : x \in {y \in AllRows : \E z \in AllRows : z.ref = y.ref /\ Target(z) # Target(y)}}

\* The objects of such rows, and of the grants on such a shared folder
Adrift(o) ==
  \E row \in AllRows :
     row.ref \in Moved /\ (row.place.to = o.to \/ (o.kind \in ShareKinds /\ row.place.to = o.in))

Interrupted(o) == o \in lost \/ o = cur.at

\* What the files over time should keep to, so that a sidecar found by its place is
\* the row's own: a path, a record's grantee, a folder's grantee has one uid_ref
PlacesKeepTheirRefs ==
  \A x, y \in AllRows :
     /\ x.place.kind = y.place.kind /\ x.place.to = y.place.to
     /\ x.place.in = y.place.in \/ x.place.kind \in FolderKinds
     => x.ref = y.ref

\* And other tools: they use uid_refs of their own, and markers that are not ours
OutsidersStayApart ==
  /\ \A row \in OutsideRows, x \in AllRows : row.ref # x.ref
  /\ \A k \in OutsideMarkers : k.manager # "sdk" \/ k.named = "other"

\* A grant that a run makes is one that later runs know of and can revoke, even
\* though grant and sidecar are written by calls that a crash may separate.
\* Excepted are the rows a process was interrupted at, rows that moved, and
\* default rows for records, whose deletion revokes another grant.
NothingForgotten ==
  \A o \in DOMAIN force :
     \/ Interrupted(o) \/ Adrift(o) \/ o.kind = "default_record"
     \/ \E u \in Own : side[u].at = o

\* What a sidecar of ours says is in force: the diff, which reads nothing else,
\* sees the server as it is, also when rows move.  Excepted are the rows a process
\* was interrupted at (new terms under an old sidecar, or none at all).
SidecarsTellTheTruth ==
  \A u \in Own :
     \/ Interrupted(side[u].at)
     \/ /\ side[u].at \in DOMAIN force
        /\ side[u].place.kind \in ShareKinds => force[side[u].at] = side[u].terms

InForce(row) ==
  \E u \in SidecarOf(row) :
     /\ u \in Own
     /\ side[u].place = row.place /\ side[u].terms \in {row.terms} \union
                                       (IF row.terms = Unset THEN Terms ELSE {})
     /\ side[u].at \in DOMAIN force
     /\ row.place.kind \in ShareKinds => force[side[u].at] = row.terms

\* An apply that ends with 0 has brought every row of its file in force, those
\* aside that it passed over, those that moved and those at which an earlier
\* process was interrupted; and a second plan has nothing to write for them.
AppliedIsInForce ==
  [][Finish /\ calm =>
       /\ \A row \in want :
            row.ref \notin held \union Moved =>
              InForce(row) \/ \E u \in SidecarOf(row) : side[u].at \in lost
       /\ \A c \in Writes(side, want) : c.ref \in Moved]_vars

\* Deletes come last and look the sidecar up again by its uid_ref: they never
\* take away what a row of the file was given before, unless it moved, or was
\* passed over because another tool's sidecar for the same grant is listed first
\* (our own sidecar then counts as an orphan, and is deleted).
RevokesOnlyUnwanted ==
  [][Revoke =>
       \A row \in want : row.ref \notin Moved \union held =>
          \A u \in SidecarOf(row) : Managed(side, u) /\ side[u].at \in DOMAIN force =>
             side[u].at \in DOMAIN force']_vars
==============================================================================
