----------------------------- MODULE SharingDiff -----------------------------
(***************************************************************************)
(* keeper_sdk/core/sharing_diff.py: the rows of a keeper-vault-sharing.v1  *)
(* manifest against the sidecar records that remember what earlier runs    *)
(* put in force.  Keeper's folders and grants cannot carry a marker, so    *)
(* the diff never looks at them: a sidecar is all it knows.                *)
(*                                                                         *)
(* Data abstraction.  The place of a row is what identifies its subject:   *)
(* path and parent of a folder, record and grantee of a record share,      *)
(* shared folder, kind and identifier of a share_folder row.  Its terms    *)
(* are all the other fields that are compared: permissions, expiry,        *)
(* colour, defaults.  A uid is a number, and listings are in their order.  *)
(***************************************************************************)
EXTENDS Naturals

CONSTANTS
  Uid,      \* uids of sidecar records
  Ref,      \* uid_refs of the rows, and of the records that are shared
  Name,     \* paths of folders, and grantees
  Terms,
  RecordTerms, \* terms of a default row whose target is the records
  Unset,    \* the defaults of a shared folder, when the manifest sets none
  Keep,     \* a field that an update leaves out
  NoRef

NoUid == 0

FolderKinds == {"folder", "shared_folder"}
ShareKinds  == {"record_share", "grantee", "default", "record"}

\* resource_type: the three kinds of share_folder rows have one type
TypeOf(kind) == IF kind \in {"grantee", "default", "record"} THEN "share_folder" ELSE kind

Place == [kind : FolderKinds \union ShareKinds, in : Ref \union {NoRef}, to : Name]

Row == [ref : Ref, place : Place, terms : Terms]

ASSUME SharingDiffAssumption ==
  /\ Uid \subseteq Nat \ {NoUid}
  /\ NoRef \notin Ref
  /\ RecordTerms \subseteq Terms
  /\ Unset \in Terms
  /\ Keep \notin Terms
  /\ Keep \notin Place

Type(row) == TypeOf(row.place.kind)

\* "named" is the marker's manifest: ours, none, or that of another manifest
Marker == [manager : {"none", "sdk", "foreign"}, supported : BOOLEAN,
           ref : Ref \union {NoRef}, named : {"ours", "absent", "other"}]

Unmarked == [manager |-> "none", supported |-> TRUE, ref |-> NoRef, named |-> "absent"]

EncodeMarker(r) == [manager |-> "sdk", supported |-> TRUE, ref |-> r, named |-> "ours"]

------------------------------------------------------------------------------
(* The indexes: the first sidecar in the listing wins *)

\* _discover_sharing_sidecars: the records that carry a marker of the type
Live(s, type) ==
  {u \in DOMAIN s : s[u].marker.manager # "none" /\ TypeOf(s[u].place.kind) = type}

First(S) == IF S = {} THEN NoUid ELSE CHOOSE u \in S : \A v \in S : u <= v

OfRef(s, type, r) == First({u \in Live(s, type) : s[u].marker.ref = r})

\* a folder is looked up by its path alone
SamePlace(pl, ql) ==
  pl.kind = ql.kind /\ pl.to = ql.to /\ (pl.in = ql.in \/ pl.kind = "folder")

AtPlace(s, type, pl) == First({u \in Live(s, type) : SamePlace(s[u].place, pl)})

\* _managed_by_manifest
Managed(s, u) == s[u].marker.manager = "sdk" /\ s[u].marker.named # "other"

\* _check_marker_supported raises OwnershipError
Unsupported(s, u) == s[u].marker.manager = "sdk" /\ ~s[u].marker.supported

------------------------------------------------------------------------------
(* One type of rows at a time: which sidecar a row is matched with, and    *)
(* which of its fields are compared.                                       *)

ByRefOrPlace(s, type, row) ==
  IF OfRef(s, type, row.ref) # NoUid THEN OfRef(s, type, row.ref)
                                     ELSE AtPlace(s, type, row.place)

\* folders[]: by uid_ref, then by path; the path is compared as well
FolderMatch(s, row) == ByRefOrPlace(s, "folder", row)

FolderDrift(r, row) == r.place # row.place \/ r.terms # row.terms

\* shared_folders[]: the same by name, and defaults the manifest does not set
\* are not compared
SharedFolderMatch(s, row) == ByRefOrPlace(s, "shared_folder", row)

SharedFolderDriftByName(r, row) == r.place # row.place

SharedFolderDrift(r, row) ==
  r.place # row.place \/ (row.terms # Unset /\ r.terms # row.terms)

\* share_records[]: by (record, grantee) only
RecordShareMatch(s, row) == AtPlace(s, "record_share", row.place)

\* ... and a row whose uid_ref is live with another grantee is a CONFLICT
Regranted(s, row) ==
  /\ Type(row) = "record_share"
  /\ RecordShareMatch(s, row) = NoUid
  /\ OfRef(s, "record_share", row.ref) # NoUid

\* share_folders[]: by (shared folder, kind, identifier) only
ShareFolderMatch(s, row) == AtPlace(s, "share_folder", row.place)

Match(s, row) ==
  CASE Type(row) = "folder"        -> FolderMatch(s, row)
    [] Type(row) = "shared_folder" -> SharedFolderMatch(s, row)
    [] Type(row) = "record_share"  -> RecordShareMatch(s, row)
    [] Type(row) = "share_folder"  -> ShareFolderMatch(s, row)

Drift(r, row) ==
  CASE Type(row) = "folder"        -> FolderDrift(r, row)
    [] Type(row) = "shared_folder" -> SharedFolderDrift(r, row)
    [] OTHER                       -> r.terms # row.terms

------------------------------------------------------------------------------
(* The changes.  SKIP rows, of which nothing comes, are left out.          *)

ToAdd(s, rows) == {row \in rows : Match(s, row) = NoUid /\ ~Regranted(s, row)}

ToUpdate(s, rows) ==
  {row \in rows : /\ Match(s, row) # NoUid
                  /\ Managed(s, Match(s, row))
                  /\ Drift(s[Match(s, row)], row)}

CreateOf(row) ==
  [kind |-> "create", ref |-> row.ref, place |-> row.place, terms |-> row.terms,
   type |-> Type(row)]

\* after holds the fields that drifted
UpdateOf(s, row) ==
  LET r == s[Match(s, row)] IN
  [kind |-> "update", ref |-> row.ref, type |-> Type(row),
   place |-> IF r.place # row.place THEN row.place ELSE Keep,
   terms |-> IF row.terms # Unset /\ r.terms # row.terms THEN row.terms ELSE Keep]

Writes(s, rows) ==
  {CreateOf(row) : row \in ToAdd(s, rows)} \union
  {UpdateOf(s, row) : row \in ToUpdate(s, rows)}

MatchedUpdates(s, rows) == {Match(s, row) : row \in ToUpdate(s, rows)}

Matched(s, rows) ==
  {Match(s, row) : row \in rows} \union
  {OfRef(s, "record_share", row.ref) : row \in {x \in rows : Regranted(s, x)}}

Unmatched(s, rows) == {u \in DOMAIN s : s[u].marker.manager # "none"} \ Matched(s, rows)

Orphans(s, rows) == {u \in Unmatched(s, rows) : Managed(s, u)}

\* DELETE rows; before is the payload of the sidecar
RemovalOf(s, u) ==
  [ref |-> s[u].marker.ref, place |-> s[u].place, at |-> s[u].at]

Removals(s, rows, allow) ==
  IF allow THEN {RemovalOf(s, u) : u \in Orphans(s, rows)} ELSE {}

\* Without --allow-delete an orphan is skipped, except a record's membership
HasConflict(s, rows, allow) ==
  \/ \E row \in rows : Regranted(s, row)
  \/ ~allow /\ \E u \in Orphans(s, rows) : s[u].place.kind = "record"

\* OwnershipError
Raises(s, rows) ==
  \/ \E u \in Unmatched(s, rows) : Unsupported(s, u)
  \/ \E row \in rows : Match(s, row) # NoUid /\ Unsupported(s, Match(s, row))

\* Plan.is_clean
Clean(s, rows, allow) ==
  Writes(s, rows) = {} /\ Removals(s, rows, allow) = {} /\ ~HasConflict(s, rows, allow)
==============================================================================
