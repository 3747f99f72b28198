---------------------------- MODULE SharingProofs ----------------------------
(***************************************************************************)
(* Theorems about SharingApply, for all files and however often processes  *)
(* die between the calls for a row: no row ever has two sidecars, what a   *)
(* sidecar says is in force, what is in force has a sidecar, a delete      *)
(* spares the rows of the file, and an apply that ends has done its work.  *)
(*                                                                         *)
(* Inductive is about the sidecars alone.  Strong adds what they say of    *)
(* the server, and what becomes of each row of a plan until it ends.       *)
(***************************************************************************)
EXTENDS SharingApply, WellFoundedInduction, TLAPS

RowRefs == {row.ref : row \in AllRows}

OursOrApart ==
  \A u \in DOMAIN side :
     side[u].marker.manager # "none" => Managed(side, u) \/ side[u].marker.ref \notin RowRefs

Folder ==
  /\ DOMAIN side \subseteq Uid
  /\ side = [u \in DOMAIN side |-> side[u]]
  /\ OursOrApart

\* What is planned, and what is under way, is for a row of the files
Planned ==
  /\ \A c \in todo : c.ref \in RowRefs
  /\ pc \in {"drop", "add", "mark"} =>
       /\ cur.ref \in RowRefs
       /\ cur = [ref |-> cur.ref, place |-> cur.place, terms |-> cur.terms,
                 at |-> cur.at, uid |-> cur.uid]

SameRow(u, ref, kind) == side[u].marker.ref = ref /\ TypeOf(side[u].place.kind) = TypeOf(kind)

\* Between the removal of the old sidecar and the new one's marker the row has none
NoneLeft ==
  pc \in {"add", "mark"} => \A u \in Own : ~SameRow(u, cur.ref, cur.place.kind)

NewIsThere ==
  pc = "mark" =>
    /\ cur.uid \in DOMAIN side
    /\ side[cur.uid] = [marker |-> Unmarked, place |-> cur.place, terms |-> cur.terms, at |-> cur.at]

Inductive == Folder /\ Planned /\ NoneLeft /\ NewIsThere /\ OneSidecarPerRow

------------------------------------------------------------------------------
\* A listing has a first record.
LEMMA Least ==
  ASSUME NEW S, S \subseteq Nat, S # {}
  PROVE  \E u \in S : \A v \in S : u <= v
<1>1. PICK u \in S : \A v \in S : ~(<<v, u>> \in OpToRel(<, Nat))
  BY WFMin, NatLessThanWellFounded
<1>2. \A v \in S : ~(v < u)
  <2> SUFFICES ASSUME NEW v \in S, v < u PROVE FALSE
    OBVIOUS
  <2>1. <<v, u>> \in OpToRel(<, Nat)
    BY DEF OpToRel
  <2> QED BY <1>1, <2>1
<1> QED BY <1>2

LEMMA FirstIsIn ==
  ASSUME NEW S, S \subseteq Uid, S # {}
  PROVE  First(S) \in S /\ First(S) # NoUid
<1>1. S \subseteq Nat \ {0}
  BY SharingDiffAssumption DEF NoUid
<1>2. \E u \in S : \A v \in S : u <= v
  BY <1>1, Least
<1> QED BY <1>1, <1>2 DEF First, NoUid

LEMMA RowsHaveRefs == RowRefs \subseteq Ref
BY SharingApplyAssumption DEF RowRefs, AllRows, Row

LEMMA Initially == Init => Inductive
BY DEF Init, Inductive, Folder, OursOrApart, Planned, NoneLeft, NewIsThere, OneSidecarPerRow, Own, Nothing

\* Steps that leave the sidecars and the row under way alone
LEMMA PlanWorks == ASSUME Inductive, Plan PROVE Inductive'
<1>1. PICK rows \in Versions : todo' = Writes(side, rows)
  BY DEF Plan
<1>2. \A c \in todo' : c.ref \in RowRefs
  BY <1>1 DEF Writes, CreateOf, UpdateOf, ToAdd, ToUpdate, RowRefs, AllRows
<1>3. UNCHANGED <<side, cur>> /\ pc' = "apply"
  BY DEF Plan
<1>4. Planned'
  BY <1>2, <1>3 DEF Planned
<1>5. Folder' /\ NoneLeft' /\ NewIsThere' /\ OneSidecarPerRow'
  BY <1>3 DEF Inductive, Folder, OursOrApart, NoneLeft, NewIsThere, OneSidecarPerRow, Own, Managed
<1> QED BY <1>4, <1>5 DEF Inductive

LEMMA EnforceWorks == ASSUME Inductive, Enforce PROVE Inductive'
<1>1. PICK c \in todo :
        /\ todo' = todo \ {c}
        /\ cur' = [ref |-> FullPayload(c).ref, place |-> FullPayload(c).place,
                   terms |-> FullPayload(c).terms, at |-> Subject(c, FullPayload(c)), uid |-> NoUid]
  BY DEF Enforce
<1>2. FullPayload(c).ref = c.ref
  BY DEF FullPayload
<1>3. UNCHANGED side /\ pc' = "drop"
  BY DEF Enforce
<1>4. Planned'
  BY <1>1, <1>2, <1>3 DEF Inductive, Planned
<1>5. Folder' /\ NoneLeft' /\ NewIsThere' /\ OneSidecarPerRow'
  BY <1>3 DEF Inductive, Folder, OursOrApart, NoneLeft, NewIsThere, OneSidecarPerRow, Own, Managed
<1> QED BY <1>4, <1>5 DEF Inductive

LEMMA RevokeWorks == ASSUME Inductive, Revoke PROVE Inductive'
<1>1. UNCHANGED <<side, todo>> /\ pc' = "forget"
  BY DEF Revoke
<1> QED BY <1>1 DEF Inductive, Folder, OursOrApart, Planned, NoneLeft, NewIsThere, OneSidecarPerRow, Own, Managed

LEMMA EndWorks == ASSUME Inductive, End PROVE Inductive'
BY DEF End, Inductive, Folder, OursOrApart, Planned, NoneLeft, NewIsThere, OneSidecarPerRow, Own, Managed

------------------------------------------------------------------------------
(* Steps that remove, add and mark a sidecar *)

LEMMA Dropped ==
  ASSUME Inductive, NEW S, side' = Drop(side, S)
  PROVE  /\ Folder' /\ OneSidecarPerRow'
         /\ \A u : u \in Own' <=> u \in Own \ S
         /\ \A u \in Own' : side'[u] = side[u]
<1>1. DOMAIN side' = DOMAIN side \ S /\ \A u \in DOMAIN side' : side'[u] = side[u]
  BY DEF Drop
<1>2. side' = [u \in DOMAIN side' |-> side'[u]]
  BY DEF Drop
<1>3. \A u \in DOMAIN side' : Managed(side', u) <=> Managed(side, u)
  BY <1>1 DEF Managed
<1>4. Folder'
  BY <1>1, <1>2, <1>3 DEF Inductive, Folder, OursOrApart
<1>5. \A u : u \in Own' <=> u \in Own \ S
  BY <1>1, <1>3 DEF Own
<1>6. OneSidecarPerRow'
  BY <1>1, <1>3 DEF Inductive, OneSidecarPerRow, Own
<1> QED BY <1>1, <1>4, <1>5, <1>6 DEF Own

LEMMA DropWorks == ASSUME Inductive, DropSidecar PROVE Inductive'
<1>1. side' = Drop(side, SidecarOf(cur)) /\ pc = "drop" /\ pc' = "add" /\ UNCHANGED <<cur, todo>>
  BY DEF DropSidecar
<1>2. Folder' /\ OneSidecarPerRow' /\ Planned'
  BY <1>1, Dropped DEF Inductive, Planned
<1>3. NoneLeft'
  <2> SUFFICES ASSUME NEW u \in Own', SameRow(u, cur.ref, cur.place.kind)' PROVE FALSE
    BY <1>1 DEF NoneLeft
  <2>1. u \in Own /\ u \notin SidecarOf(cur) /\ SameRow(u, cur.ref, cur.place.kind)
    BY <1>1, Dropped DEF SameRow
  <2> DEFINE S == {v \in Live(side, TypeOf(cur.place.kind)) : side[v].marker.ref = cur.ref}
  <2>2. u \in S /\ S \subseteq Uid
    BY <2>1 DEF Live, Own, Managed, SameRow, Inductive, Folder
  <2>3. First(S) \in S /\ First(S) \in SidecarOf(cur)
    <3>1. First(S) \in S /\ First(S) # NoUid
      BY <2>2, FirstIsIn
    <3> QED BY <3>1 DEF SidecarOf, OfRef
  <2> DEFINE w == First(S)
  <2>4. w \in DOMAIN side /\ side[w].marker.manager # "none" /\ SameRow(w, cur.ref, cur.place.kind)
    BY <2>3 DEF Live, SameRow
  <2>5. w \in Own
    BY <1>1, <2>4 DEF Inductive, Planned, Folder, OursOrApart, Own, SameRow
  <2>6. u = w
    BY <2>1, <2>4, <2>5 DEF Inductive, OneSidecarPerRow, SameRow
  <2> QED BY <2>1, <2>3, <2>6
<1>4. NewIsThere'
  BY <1>1 DEF NewIsThere
<1> QED BY <1>2, <1>3, <1>4 DEF Inductive

LEMMA ForgetWorks == ASSUME Inductive, Forget PROVE Inductive'
<1>1. side' = Drop(side, SidecarOf(cur)) /\ pc' = "apply" /\ UNCHANGED todo
  BY DEF Forget
<1>2. Folder' /\ OneSidecarPerRow'
  BY <1>1, Dropped
<1>3. Planned' /\ NoneLeft' /\ NewIsThere'
  BY <1>1 DEF Inductive, Planned, NoneLeft, NewIsThere
<1> QED BY <1>2, <1>3 DEF Inductive

\* A sidecar that is not ours comes into the folder
LEMMA Added ==
  ASSUME Inductive, NEW u \in Uid \ DOMAIN side, NEW r, side' = Put(side, u, r),
         ~(r.marker.manager = "sdk" /\ r.marker.named # "other"),
         r.marker.manager # "none" => r.marker.ref \notin RowRefs
  PROVE  /\ Folder' /\ OneSidecarPerRow'
         /\ DOMAIN side' = DOMAIN side \union {u} /\ side'[u] = r
         /\ \A v \in DOMAIN side : side'[v] = side[v]
         /\ Own' = Own
<1>1. /\ DOMAIN side' = DOMAIN side \union {u} /\ side'[u] = r
      /\ \A v \in DOMAIN side : side'[v] = side[v]
      /\ side' = [v \in DOMAIN side' |-> side'[v]]
  BY DEF Put
<1>2. ~Managed(side', u) /\ \A v \in DOMAIN side : Managed(side', v) <=> Managed(side, v)
  BY <1>1 DEF Managed
<1>3. Own' = Own
  BY <1>1, <1>2 DEF Own
<1>4. Folder'
  BY <1>1, <1>2 DEF Inductive, Folder, OursOrApart
<1>5. OneSidecarPerRow'
  BY <1>1, <1>3 DEF Inductive, OneSidecarPerRow, Own
<1> QED BY <1>1, <1>3, <1>4, <1>5

LEMMA AddWorks ==
  ASSUME Inductive, AddSidecar
  PROVE  Inductive'
<1> DEFINE u == First(UidsFor[cur.ref] \ DOMAIN side)
           r == [marker |-> Unmarked, place |-> cur.place, terms |-> cur.terms, at |-> cur.at]
<1>1. /\ side' = Put(side, u, r) /\ cur' = [cur EXCEPT !.uid = u]
      /\ pc = "add" /\ pc' = "mark" /\ UNCHANGED todo
      /\ UidsFor[cur.ref] \ DOMAIN side # {}
  BY DEF AddSidecar
<1>2. u \in Uid \ DOMAIN side
  <2>1. cur.ref \in Ref
    BY <1>1, RowsHaveRefs DEF Inductive, Planned
  <2>2. UidsFor[cur.ref] \subseteq Uid
    BY <2>1, SharingApplyAssumption
  <2> QED BY <1>1, <2>2, FirstIsIn
<1>3. ~(r.marker.manager = "sdk" /\ r.marker.named # "other") /\ r.marker.manager = "none"
  BY DEF Unmarked
<1> HIDE DEF u, r
<1>4. /\ Folder' /\ OneSidecarPerRow'
      /\ DOMAIN side' = DOMAIN side \union {u} /\ side'[u] = r
      /\ \A v \in DOMAIN side : side'[v] = side[v]
      /\ Own' = Own
  BY <1>1, <1>2, <1>3, Added
<1>5. cur' = [ref |-> cur.ref, place |-> cur.place, terms |-> cur.terms, at |-> cur.at, uid |-> u]
  BY <1>1 DEF Inductive, Planned
<1>6. Planned'
  BY <1>1, <1>5 DEF Inductive, Planned
<1>7. NoneLeft'
  BY <1>1, <1>4, <1>5 DEF Inductive, NoneLeft, SameRow, Own
<1>8. NewIsThere'
  BY <1>4, <1>5 DEF NewIsThere, r
<1> QED BY <1>4, <1>6, <1>7, <1>8 DEF Inductive

LEMMA MarkWorks ==
  ASSUME Inductive, MarkSidecar
  PROVE  Inductive'
<1>1. /\ pc = "mark" /\ pc' = "apply" /\ cur.uid \in DOMAIN side
      /\ side' = [side EXCEPT ![cur.uid].marker = EncodeMarker(cur.ref)]
      /\ UNCHANGED todo
  BY DEF MarkSidecar
<1>2. side[cur.uid] = [marker |-> Unmarked, place |-> cur.place, terms |-> cur.terms, at |-> cur.at]
  BY <1>1 DEF Inductive, NewIsThere
<1>3. /\ DOMAIN side' = DOMAIN side
      /\ side'[cur.uid] = [side[cur.uid] EXCEPT !.marker = EncodeMarker(cur.ref)]
      /\ \A v \in DOMAIN side \ {cur.uid} : side'[v] = side[v]
      /\ side' = [v \in DOMAIN side' |-> side'[v]]
  BY <1>1 DEF Inductive, Folder
<1>4. side'[cur.uid].marker = EncodeMarker(cur.ref) /\ side'[cur.uid].place = cur.place
  BY <1>2, <1>3
<1>5. Managed(side', cur.uid) /\ ~Managed(side, cur.uid)
  BY <1>2, <1>4 DEF Managed, EncodeMarker, Unmarked
<1>6. \A v \in DOMAIN side \ {cur.uid} : Managed(side', v) <=> Managed(side, v)
  BY <1>3 DEF Managed
<1>7. Own' = Own \union {cur.uid}
  BY <1>1, <1>3, <1>5, <1>6 DEF Own
<1>8. Folder'
  BY <1>3, <1>5, <1>6 DEF Inductive, Folder, OursOrApart
<1>9. \A v \in Own : v # cur.uid /\ side'[v] = side[v] /\ ~SameRow(v, cur.ref, cur.place.kind)
  BY <1>1, <1>3, <1>5 DEF Own, Inductive, NoneLeft
<1>10. side'[cur.uid].marker.ref = cur.ref
  BY <1>4 DEF EncodeMarker
<1>11. OneSidecarPerRow'
  BY <1>4, <1>7, <1>9, <1>10 DEF Inductive, OneSidecarPerRow, SameRow
<1>12. Planned' /\ NoneLeft' /\ NewIsThere'
  BY <1>1 DEF Inductive, Planned, NoneLeft, NewIsThere
<1> QED BY <1>8, <1>11, <1>12 DEF Inductive

LEMMA OutsideWorks ==
  ASSUME OutsidersStayApart, Inductive, OutsideSidecar
  PROVE  Inductive'
<1>1. PICK row \in OutsideRows, k \in OutsideMarkers : \E u \in UidsFor[row.ref] \ DOMAIN side :
        side' = Put(side, u, [marker |-> [k EXCEPT !.ref = row.ref], place |-> row.place,
                              terms |-> row.terms, at |-> row.place])
  BY DEF OutsideSidecar
<1> DEFINE r == [marker |-> [k EXCEPT !.ref = row.ref], place |-> row.place,
                 terms |-> row.terms, at |-> row.place]
<1>2. PICK u \in UidsFor[row.ref] \ DOMAIN side : side' = Put(side, u, r)
  BY <1>1
<1>3. u \in Uid \ DOMAIN side
  BY <1>2, SharingApplyAssumption DEF Row
<1>4. /\ r.marker.manager = k.manager /\ r.marker.named = k.named /\ r.marker.ref = row.ref
      /\ k.manager # "sdk" \/ k.named = "other"
      /\ row.ref \notin RowRefs
  BY SharingApplyAssumption DEF OutsidersStayApart, Marker, RowRefs
<1>5. UNCHANGED <<pc, cur, todo>>
  BY DEF OutsideSidecar
<1> HIDE DEF r
<1>6. /\ Folder' /\ OneSidecarPerRow'
      /\ DOMAIN side' = DOMAIN side \union {u}
      /\ \A v \in DOMAIN side : side'[v] = side[v]
      /\ Own' = Own
  BY <1>2, <1>3, <1>4, Added
<1>7. Planned'
  BY <1>5 DEF Inductive, Planned
<1>8. NoneLeft'
  BY <1>5, <1>6 DEF Inductive, NoneLeft, SameRow, Own
<1>9. NewIsThere'
  BY <1>5, <1>6 DEF Inductive, NewIsThere
<1> QED BY <1>6, <1>7, <1>8, <1>9 DEF Inductive

------------------------------------------------------------------------------
LEMMA NextWorks ==
  ASSUME OutsidersStayApart, Inductive, [Next]_vars
  PROVE  Inductive'
<1>1. CASE Plan
  BY <1>1, PlanWorks
<1>2. CASE Enforce
  BY <1>2, EnforceWorks
<1>3. CASE DropSidecar
  BY <1>3, DropWorks
<1>4. CASE AddSidecar
  BY <1>4, AddWorks
<1>5. CASE MarkSidecar
  BY <1>5, MarkWorks
<1>6. CASE Revoke
  BY <1>6, RevokeWorks
<1>7. CASE Forget
  BY <1>7, ForgetWorks
<1>8. CASE Finish \/ Refuse \/ Fail
  BY <1>8, EndWorks DEF Finish, Refuse, Fail
<1>9. CASE OutsideSidecar
  BY <1>9, OutsideWorks
<1>10. CASE UNCHANGED vars
  BY <1>10 DEF vars, Inductive, Folder, OursOrApart, Planned, NoneLeft, NewIsThere,
               OneSidecarPerRow, Own, Managed, SameRow
<1> QED BY <1>1, <1>2, <1>3, <1>4, <1>5, <1>6, <1>7, <1>8, <1>9, <1>10 DEF Next

\* However often a process is killed between the calls for a row, and a later
\* one starts over, _sharing_upsert_sidecar leaves no row with two sidecars of
\* ours, as long as other tools use uid_refs and markers of their own.
THEOREM OneSidecar == ASSUME OutsidersStayApart PROVE Spec => []OneSidecarPerRow
<1>1. Init => Inductive
  BY Initially
<1>2. Inductive /\ [Next]_vars => Inductive'
  BY NextWorks
<1>3. Inductive => OneSidecarPerRow
  BY DEF Inductive
<1> QED BY <1>1, <1>2, <1>3, PTL DEF Spec

------------------------------------------------------------------------------
(* What a sidecar says of its row and of the server *)

\* Paths that the files give to a shared folder
PathsOf(r) == {y.place.to : y \in {x \in AllRows : x.ref = r /\ x.place.kind = "shared_folder"}}

ObjectKind(kind, terms) ==
  IF kind = "default" /\ terms \in RecordTerms THEN "default_record" ELSE kind

\* The object at is what a row with this uid_ref and place is, or once was, about.
\* The place, the terms and a shared folder's path may each be of another version.
About(ref, place, terms, at) ==
  /\ \E x \in AllRows : x.ref = ref /\ x.place = place
  /\ \E y \in AllRows : y.ref = ref /\ y.terms = terms
  /\ place.kind # "record"
  /\ place.kind = "folder" => at = [place EXCEPT !.in = NoRef]
  /\ place.kind = "shared_folder" =>
       \E z \in AllRows : z.ref = ref /\ z.place.kind = "shared_folder" /\ at = z.place
  /\ place.kind = "record_share" => at = place
  /\ place.kind \in {"grantee", "default"} =>
       \E p \in PathsOf(place.in) :
          at = [kind |-> ObjectKind(place.kind, terms), in |-> p, to |-> place.to]

Rooted ==
  \A u \in Own : About(side[u].marker.ref, side[u].place, side[u].terms, side[u].at)

\* A change that is planned, of a row
ChangeOf(c, row) ==
  /\ c.ref = row.ref /\ c.type = Type(row)
  /\ c.kind = "create" => c.place = row.place /\ c.terms = row.terms
  /\ c.kind # "create" =>
       /\ c.place \in {row.place, Keep} /\ c.terms \in {row.terms, Keep}
       /\ \A u \in Own : SameRow(u, row.ref, row.place.kind) =>
            /\ c.place = Keep => side[u].place = row.place
            /\ c.terms = Keep => row.terms = Unset \/ side[u].terms = row.terms

TodoIsPlanned ==
  /\ \A c \in todo : c.ref \notin held /\ \E row \in want : ChangeOf(c, row)
  /\ \A c, d \in todo : c.ref = d.ref => c = d
  /\ pc = "forget" => todo = {}

UnderWay == pc \in {"drop", "add", "mark"}

\* The row under way is in force as its sidecar is going to say
CurIsPlanned ==
  UnderWay =>
    /\ cur.ref \notin held /\ \A c \in todo : c.ref # cur.ref
    /\ About(cur.ref, cur.place, cur.terms, cur.at)
    /\ \E row \in want : /\ row.ref = cur.ref /\ row.place = cur.place
                         /\ row.terms = cur.terms \/ row.terms = Unset
    /\ cur.at \in DOMAIN force
    /\ cur.place.kind \in ShareKinds => force[cur.at] = cur.terms

\* What is to be deleted is of no row of the file, unless that moved or was passed over
Unwanted(ref, place, at) ==
  /\ \E pl \in Place, t \in Terms : TypeOf(pl.kind) = TypeOf(place.kind) /\ About(ref, pl, t, at)
  /\ \A row \in want :
       row.ref = ref /\ Type(row) = TypeOf(place.kind) =>
         Type(row) \notin FolderKinds /\ row.ref \in Moved \union held

DoomedAreUnwanted ==
  /\ \A d \in doomed : Unwanted(d.ref, d.place, d.at)
  /\ pc = "forget" =>
       /\ Unwanted(cur.ref, cur.place, cur.at)
       /\ cur.at \notin DOMAIN force \/ cur.at.kind = "default_record"
  /\ pc \in {"idle", "apply"} => cur = NoRow

\* Once deletes begin, a grant on a folder is going too, or its folder is in the file
GrantsAreDoomedOrWanted ==
  doomed # {} \/ pc = "forget" =>
    \A v \in Own : TypeOf(side[v].place.kind) = "share_folder" =>
       \/ \E d \in doomed : SameRow(v, d.ref, d.place.kind)
       \/ pc = "forget" /\ SameRow(v, cur.ref, cur.place.kind)
       \/ \E row \in want : Type(row) = "share_folder" /\ row.place.in = side[v].place.in

Busy(o) == (UnderWay \/ pc = "forget") /\ o = cur.at

Truth ==
  \A u \in Own :
     \/ side[u].at \in lost \/ Busy(side[u].at)
     \/ /\ side[u].at \in DOMAIN force
        /\ side[u].place.kind \in ShareKinds => force[side[u].at] = side[u].terms

Remembered ==
  \A o \in DOMAIN force :
     \/ o \in lost \/ Busy(o) \/ Adrift(o) \/ o.kind = "default_record"
     \/ \E u \in Own : side[u].at = o

Settled(row) ==
  \E u \in Own :
     /\ side[u].marker.ref = row.ref /\ side[u].place = row.place
     /\ side[u].terms = row.terms \/ row.terms = Unset

\* A row that was passed over is hidden by a sidecar that is not ours
HiddenBy(w, row) ==
  /\ w \in Live(side, Type(row)) \ Own
  /\ SamePlace(side[w].place, row.place)
  /\ \A v \in Live(side, Type(row)) : SamePlace(side[v].place, row.place) => w <= v
  /\ Type(row) \in FolderKinds => \A v \in Live(side, Type(row)) : side[v].marker.ref # row.ref

Progress ==
  /\ pc # "idle" => want \in Versions
  /\ \A row \in want :
       \/ row.ref \in held \union Moved
       \/ \E c \in todo : c.ref = row.ref
       \/ UnderWay /\ cur.ref = row.ref
       \/ Settled(row)
  /\ calm => \A row \in want : row.ref \in held \ Moved => \E w \in DOMAIN side : HiddenBy(w, row)

Strong ==
  /\ Rooted /\ TodoIsPlanned /\ CurIsPlanned /\ DoomedAreUnwanted
  /\ GrantsAreDoomedOrWanted /\ Truth /\ Remembered /\ Progress

------------------------------------------------------------------------------
(* Objects, places and rows *)

LEMMA RowsAreTyped ==
  \A x \in AllRows : /\ x \in Row /\ x.place \in Place /\ x.terms \in Terms
                     /\ x.place = [kind |-> x.place.kind, in |-> x.place.in, to |-> x.place.to]
                     /\ x.place.kind \in FolderKinds \union ShareKinds
BY SharingApplyAssumption DEF AllRows, Row, Place

LEMMA AboutKind ==
  ASSUME NEW r, NEW pl, NEW t, NEW at, About(r, pl, t, at)
  PROVE  /\ at.kind = ObjectKind(pl.kind, t)
         /\ pl \in Place /\ t \in Terms /\ r \in RowRefs
         /\ \E z \in AllRows : z.ref = r /\ z.place.to = at.to
<1>1. PICK x \in AllRows : x.ref = r /\ x.place = pl
  BY DEF About
<1>2. pl \in Place /\ t \in Terms /\ r \in RowRefs
  BY <1>1, RowsAreTyped DEF About, RowRefs
<1>3. CASE pl.kind = "folder"
  BY <1>1, <1>2, <1>3 DEF About, ObjectKind, Place
<1>4. CASE pl.kind = "shared_folder"
  BY <1>2, <1>4 DEF About, ObjectKind
<1>5. CASE pl.kind = "record_share"
  BY <1>1, <1>2, <1>5 DEF About, ObjectKind
<1>6. CASE pl.kind \in {"grantee", "default"}
  BY <1>1, <1>2, <1>6 DEF About
<1> QED BY <1>2, <1>3, <1>4, <1>5, <1>6 DEF About, Place, FolderKinds, ShareKinds

LEMMA KindOfObject ==
  ASSUME NEW j \in FolderKinds \union ShareKinds, NEW k \in FolderKinds \union ShareKinds,
         NEW s, NEW t, ObjectKind(j, s) = ObjectKind(k, t)
  PROVE  j = k
BY DEF ObjectKind, FolderKinds, ShareKinds

\* An object is of one uid_ref and type
LEMMA OneRowEach ==
  ASSUME PlacesKeepTheirRefs, NEW r, NEW q, NEW pl, NEW ql, NEW s, NEW t, NEW at,
         About(r, pl, s, at), About(q, ql, t, at)
  PROVE  r = q /\ pl.kind = ql.kind
<1>1. pl.kind = ql.kind /\ pl \in Place /\ ql \in Place
  BY AboutKind, KindOfObject DEF Place
<1>2. PICK x \in AllRows, y \in AllRows : x.ref = r /\ x.place = pl /\ y.ref = q /\ y.place = ql
  BY DEF About
<1>3. CASE pl.kind = "folder"
  <2>1. pl.to = ql.to
    BY <1>1, <1>3 DEF About, Place
  <2> QED BY <1>1, <1>2, <1>3, <2>1 DEF PlacesKeepTheirRefs, FolderKinds
<1>4. CASE pl.kind = "shared_folder"
  BY <1>1, <1>4 DEF About, PlacesKeepTheirRefs
<1>5. CASE pl.kind = "record_share"
  BY <1>1, <1>2, <1>5 DEF About, PlacesKeepTheirRefs
<1>6. CASE pl.kind \in {"grantee", "default"}
  <2>1. PICK p \in PathsOf(pl.in) : at = [kind |-> ObjectKind(pl.kind, s), in |-> p, to |-> pl.to]
    BY <1>6 DEF About
  <2>2. PICK p2 \in PathsOf(ql.in) : at = [kind |-> ObjectKind(ql.kind, t), in |-> p2, to |-> ql.to]
    BY <1>1, <1>6 DEF About
  <2>3. p = p2 /\ pl.to = ql.to
    BY <2>1, <2>2
  <2>4. pl.in = ql.in
    BY <2>3 DEF PathsOf, PlacesKeepTheirRefs, FolderKinds
  <2> QED BY <1>1, <1>2, <2>3, <2>4 DEF PlacesKeepTheirRefs
<1> QED BY <1>1, <1>3, <1>4, <1>5, <1>6 DEF About, Place, FolderKinds, ShareKinds

\* Rows that never move
LEMMA Unmoved ==
  ASSUME NEW x \in AllRows, NEW y \in AllRows, x.ref = y.ref, x.ref \notin Moved
  PROVE  x.place = y.place /\ ObjectKind(x.place.kind, x.terms) = ObjectKind(y.place.kind, y.terms)
<1>1. Target(x) = Target(y)
  BY DEF Moved
<1>2. x.place \in Place /\ y.place \in Place
  BY RowsAreTyped
<1>3. /\ Target(x).kind = ObjectKind(x.place.kind, x.terms)
      /\ Target(y).kind = ObjectKind(y.place.kind, y.terms)
      /\ Target(x).in = x.place.in /\ Target(y).in = y.place.in
      /\ Target(x).to = x.place.to /\ Target(y).to = y.place.to
  BY <1>2 DEF Target, ObjectKind, Place
<1>4. x.place.kind = y.place.kind
  BY <1>1, <1>2, <1>3, KindOfObject DEF Place
<1> QED BY <1>1, <1>2, <1>3, <1>4 DEF Place

\* The objects of one uid_ref are one, unless they are excepted
LEMMA OneObject ==
  ASSUME NEW r, NEW pl, NEW ql, NEW s, NEW t, NEW at, NEW bt,
         About(r, pl, s, at), About(r, ql, t, bt)
  PROVE  at = bt \/ at.kind = "default_record" \/ Adrift(at)
<1>1. CASE r \in Moved
  BY <1>1, AboutKind DEF Adrift
<1>2. CASE r \notin Moved
  <2>1. PICK x \in AllRows, y \in AllRows, v \in AllRows, w \in AllRows :
          /\ x.ref = r /\ x.place = pl /\ y.ref = r /\ y.place = ql
          /\ v.ref = r /\ v.terms = s /\ w.ref = r /\ w.terms = t
    BY DEF About
  <2>2. pl = ql /\ pl = v.place /\ pl = w.place /\ pl \in Place
    BY <1>2, <2>1, Unmoved, RowsAreTyped
  <2>3. ObjectKind(pl.kind, s) = ObjectKind(pl.kind, t)
    BY <1>2, <2>1, <2>2, Unmoved
  <2>4. CASE pl.kind \in {"folder", "record_share"}
    BY <2>2, <2>4 DEF About
  <2>5. CASE pl.kind = "shared_folder"
    BY <1>2, <2>2, <2>5, Unmoved DEF About
  <2>6. CASE pl.kind \in {"grantee", "default"}
    <3>1. PICK p \in PathsOf(pl.in) : at = [kind |-> ObjectKind(pl.kind, s), in |-> p, to |-> pl.to]
      BY <2>6 DEF About
    <3>2. PICK q \in PathsOf(pl.in) : bt = [kind |-> ObjectKind(pl.kind, s), in |-> q, to |-> pl.to]
      BY <2>2, <2>3, <2>6 DEF About
    <3>3. CASE p # q
      <4>1. PICK a \in AllRows, b \in AllRows : a.ref = pl.in /\ b.ref = pl.in /\ a.place.to = p /\ b.place.to = q
        BY DEF PathsOf
      <4>2. a.ref \in Moved
        BY <3>3, <4>1, Unmoved
      <4>3. at.kind \in ShareKinds \union {"default_record"}
        BY <2>6, <3>1 DEF ObjectKind, ShareKinds
      <4> QED BY <3>1, <4>1, <4>2, <4>3 DEF Adrift
    <3> QED BY <3>1, <3>2, <3>3
  <2> QED BY <2>2, <2>4, <2>5, <2>6 DEF About, Place, FolderKinds, ShareKinds
<1> QED BY <1>1, <1>2

------------------------------------------------------------------------------
(* The listing *)

LEMMA FirstIs ==
  ASSUME NEW S, S \subseteq Uid, NEW w \in S, \A v \in S : w <= v
  PROVE  First(S) = w
<1>1. S \subseteq Nat
  BY SharingDiffAssumption
<1>2. First(S) \in S /\ \A v \in S : First(S) <= v
  BY DEF First
<1>3. First(S) \in Nat /\ w \in Nat /\ First(S) <= w /\ w <= First(S)
  BY <1>1, <1>2
<1>4. \A m, n \in Nat : m <= n /\ n <= m => m = n
  OBVIOUS
<1> QED BY <1>3, <1>4

LEMMA FirstIsLeast ==
  ASSUME NEW S, S \subseteq Uid, S # {}
  PROVE  \A v \in S : First(S) <= v
<1>1. \E u \in S : \A v \in S : u <= v
  BY SharingDiffAssumption, Least
<1> QED BY <1>1 DEF First

LEMMA NoUidIsNone == Folder => NoUid \notin DOMAIN side
BY SharingDiffAssumption DEF Folder

LEMMA LiveAreUids == Folder => \A type : Live(side, type) \subseteq Uid
BY DEF Folder, Live

\* The first sidecar with a uid_ref of the files is ours
LEMMA OwnOfRef ==
  ASSUME Inductive, NEW r \in RowRefs, NEW k
  PROVE  /\ \A u \in Own : SameRow(u, r, k) => OfRef(side, TypeOf(k), r) = u
         /\ OfRef(side, TypeOf(k), r) # NoUid =>
              OfRef(side, TypeOf(k), r) \in Own /\ SameRow(OfRef(side, TypeOf(k), r), r, k)
         /\ OfRef(side, TypeOf(k), r) = NoUid =>
              \A u \in Live(side, TypeOf(k)) : side[u].marker.ref # r
<1> DEFINE S == {v \in Live(side, TypeOf(k)) : side[v].marker.ref = r}
<1>1. S \subseteq Uid /\ OfRef(side, TypeOf(k), r) = First(S)
  BY LiveAreUids DEF Inductive, OfRef
<1>2. \A v \in S : v \in Own /\ SameRow(v, r, k)
  BY DEF Live, Own, SameRow, Inductive, Folder, OursOrApart
<1>3. \A u \in Own : SameRow(u, r, k) => u \in S
  BY DEF Live, Own, Managed, SameRow
<1>4. \A u, v \in S : u = v
  BY <1>2 DEF Inductive, OneSidecarPerRow, SameRow
<1>5. S # {} => First(S) \in S /\ First(S) # NoUid
  BY <1>1, FirstIsIn
<1>6. S = {} => First(S) = NoUid
  BY DEF First
<1> HIDE DEF S
<1>7. OfRef(side, TypeOf(k), r) = NoUid => S = {}
  BY <1>1, <1>5
<1> QED BY <1>1, <1>2, <1>3, <1>4, <1>5, <1>6, <1>7 DEF S

LEMMA SidecarsOfRow ==
  ASSUME Inductive, NEW d, d.ref \in RowRefs
  PROVE  \A u : u \in SidecarOf(d) <=> u \in Own /\ SameRow(u, d.ref, d.place.kind)
<1>1. \A u \in Own : u # NoUid
  BY NoUidIsNone DEF Inductive, Own
<1> QED BY <1>1, OwnOfRef DEF SidecarOf

LEMMA PlaceIs ==
  ASSUME Inductive, NEW type, NEW pl
  PROVE  LET w == AtPlace(side, type, pl) IN
         /\ w # NoUid =>
              /\ w \in Live(side, type) /\ SamePlace(side[w].place, pl)
              /\ \A v \in Live(side, type) : SamePlace(side[v].place, pl) => w <= v
         /\ w = NoUid => \A v \in Live(side, type) : ~SamePlace(side[v].place, pl)
<1> DEFINE S == {v \in Live(side, type) : SamePlace(side[v].place, pl)}
<1>1. S \subseteq Uid /\ AtPlace(side, type, pl) = First(S)
  BY LiveAreUids DEF Inductive, AtPlace
<1>2. S # {} => First(S) \in S /\ First(S) # NoUid /\ \A v \in S : First(S) <= v
  BY <1>1, FirstIsIn, FirstIsLeast
<1>3. S = {} => First(S) = NoUid
  BY DEF First
<1> QED BY <1>1, <1>2, <1>3

LEMMA OfARow ==
  ASSUME Rooted, NEW u \in Own
  PROVE  \E x \in AllRows : x.ref = side[u].marker.ref /\ x.place = side[u].place
<1>1. About(side[u].marker.ref, side[u].place, side[u].terms, side[u].at)
  BY DEF Rooted
<1> QED BY <1>1 DEF About

\* A sidecar of ours at the place of a row is that row's
LEMMA OwnAtPlace ==
  ASSUME PlacesKeepTheirRefs, Rooted, NEW u \in Own, NEW row \in AllRows,
         SamePlace(side[u].place, row.place)
  PROVE  /\ SameRow(u, row.ref, row.place.kind)
         /\ row.place.kind # "folder" => side[u].place = row.place
<1>1. PICK x \in AllRows : x.ref = side[u].marker.ref /\ x.place = side[u].place
  BY DEF Rooted, About
<1>2. x.ref = row.ref
  BY <1>1 DEF PlacesKeepTheirRefs, SamePlace, FolderKinds
<1>3. row.place.kind # "folder" => x.place = row.place
  BY <1>1, RowsAreTyped DEF SamePlace
<1> QED BY <1>1, <1>2, <1>3 DEF SameRow, SamePlace

LEMMA Types ==
  \A x \in AllRows :
     /\ Type(x) \in {"folder", "shared_folder", "record_share", "share_folder"}
     /\ Type(x) \in FolderKinds \union {"record_share"} => Type(x) = x.place.kind
     /\ Type(x) = "share_folder" => x.place.kind \in {"grantee", "default", "record"}
BY RowsAreTyped DEF Type, TypeOf, FolderKinds, ShareKinds

\* What a row is matched with: its own sidecar, or one of another tool at its place
LEMMA MatchIs ==
  ASSUME PlacesKeepTheirRefs, Inductive, Rooted, NEW row \in AllRows
  PROVE  LET w == Match(side, row) IN
         /\ w # NoUid => w \in Live(side, Type(row))
         /\ w # NoUid /\ Managed(side, w) =>
              /\ w \in Own /\ SameRow(w, row.ref, row.place.kind)
              /\ Type(row) \notin FolderKinds => side[w].place = row.place
         /\ w # NoUid /\ ~Managed(side, w) => HiddenBy(w, row)
         /\ w = NoUid =>
              \A v \in Live(side, Type(row)) :
                 /\ ~SamePlace(side[v].place, row.place)
                 /\ Type(row) \in FolderKinds => side[v].marker.ref # row.ref
<1> DEFINE w == Match(side, row)
           r == OfRef(side, Type(row), row.ref)
           a == AtPlace(side, Type(row), row.place)
<1>1. row.ref \in RowRefs /\ Type(row) = TypeOf(row.place.kind)
  BY DEF RowRefs, Type
<1>2. /\ r # NoUid => r \in Own /\ SameRow(r, row.ref, row.place.kind)
      /\ r = NoUid => \A v \in Live(side, Type(row)) : side[v].marker.ref # row.ref
  BY <1>1, OwnOfRef
<1>3. /\ a # NoUid =>
           /\ a \in Live(side, Type(row)) /\ SamePlace(side[a].place, row.place)
           /\ \A v \in Live(side, Type(row)) : SamePlace(side[v].place, row.place) => a <= v
      /\ a = NoUid => \A v \in Live(side, Type(row)) : ~SamePlace(side[v].place, row.place)
  BY PlaceIs
<1>4. a # NoUid /\ Managed(side, a) =>
        /\ a \in Own /\ SameRow(a, row.ref, row.place.kind)
        /\ row.place.kind # "folder" => side[a].place = row.place
  <2> SUFFICES ASSUME a # NoUid, Managed(side, a)
               PROVE  /\ a \in Own /\ SameRow(a, row.ref, row.place.kind)
                      /\ row.place.kind # "folder" => side[a].place = row.place
    OBVIOUS
  <2>1. a \in Own
    BY <1>3 DEF Own, Live
  <2> HIDE DEF a
  <2> QED BY <1>3, <2>1, OwnAtPlace DEF a
<1>5. Type(row) \in FolderKinds => w = IF r # NoUid THEN r ELSE a
  BY DEF Match, FolderKinds, FolderMatch, SharedFolderMatch, ByRefOrPlace
<1>6. Type(row) \notin FolderKinds => w = a
  BY Types DEF Match, FolderKinds, RecordShareMatch, ShareFolderMatch
<1>7. r # NoUid => r \in Live(side, Type(row)) /\ Managed(side, r)
  BY <1>1, <1>2 DEF Own, Live, SameRow, Managed
<1>8. a # NoUid /\ ~Managed(side, a) => a \notin Own
  BY DEF Own
<1>9. Type(row) \notin FolderKinds => row.place.kind # "folder"
  BY Types DEF Type, TypeOf, FolderKinds
<1> HIDE DEF w, r, a
<1>10. CASE Type(row) \in FolderKinds /\ r # NoUid
  <2>1. \A v \in Live(side, Type(row)) : w # NoUid
    BY <1>5, <1>10
  <2> QED BY <1>2, <1>5, <1>7, <1>10, <2>1 DEF w
<1>11. CASE ~(Type(row) \in FolderKinds /\ r # NoUid)
  <2>1. w = a
    BY <1>5, <1>6, <1>11
  <2> QED BY <1>2, <1>3, <1>4, <1>8, <1>9, <1>11, <2>1 DEF w, HiddenBy
<1> QED BY <1>10, <1>11

------------------------------------------------------------------------------
(* The plan *)

HeldBy(rows) ==
  {row.ref : row \in {x \in rows : Regranted(side, x)}} \union
  {row.ref : row \in {x \in rows : Match(side, x) # NoUid /\ ~Managed(side, Match(side, x))}}

LEMMA VersionRows ==
  ASSUME NEW rows \in Versions
  PROVE  /\ \A x \in rows : x \in AllRows /\ x.ref \in RowRefs
         /\ \A x, y \in rows : x.ref = y.ref => x = y
BY SharingApplyAssumption DEF AllRows, RowRefs

\* A row that is passed over has no change
LEMMA WritesAreNotHeld ==
  ASSUME NEW rows \in Versions, NEW row \in ToAdd(side, rows) \union ToUpdate(side, rows)
  PROVE  row \in rows /\ row.ref \notin HeldBy(rows)
<1>1. row \in rows
  BY DEF ToAdd, ToUpdate
<1>2. ~Regranted(side, row) /\ ~(Match(side, row) # NoUid /\ ~Managed(side, Match(side, row)))
  <2>1. Regranted(side, row) => Match(side, row) = NoUid
    BY DEF Regranted, Match
  <2> QED BY <2>1 DEF ToAdd, ToUpdate
<1> QED BY <1>1, <1>2, VersionRows DEF HeldBy

LEMMA PlanOfRows ==
  ASSUME PlacesKeepTheirRefs, Inductive, Rooted, NEW rows \in Versions
  PROVE  /\ \A c \in Writes(side, rows) : c.ref \notin HeldBy(rows) /\ \E row \in rows : ChangeOf(c, row)
         /\ \A c, d \in Writes(side, rows) : c.ref = d.ref => c = d
<1>1. ASSUME NEW row \in ToAdd(side, rows)
      PROVE  /\ CreateOf(row).ref = row.ref /\ row.ref \notin HeldBy(rows) /\ row \in rows
             /\ ChangeOf(CreateOf(row), row)
  BY WritesAreNotHeld DEF CreateOf, ChangeOf
<1>2. ASSUME NEW row \in ToUpdate(side, rows)
      PROVE  /\ UpdateOf(side, row).ref = row.ref /\ row.ref \notin HeldBy(rows) /\ row \in rows
             /\ ChangeOf(UpdateOf(side, row), row)
  <2> DEFINE w == Match(side, row)
             c == UpdateOf(side, row)
  <2>1. row \in rows /\ row \in AllRows /\ row.ref \notin HeldBy(rows)
    BY WritesAreNotHeld, VersionRows
  <2>2. w # NoUid /\ Managed(side, w)
    BY DEF ToUpdate
  <2>3. w \in Own /\ SameRow(w, row.ref, row.place.kind)
    BY <2>1, <2>2, MatchIs
  <2>4. \A u \in Own : SameRow(u, row.ref, row.place.kind) => u = w
    BY <2>3 DEF Inductive, OneSidecarPerRow, SameRow
  <2> HIDE DEF w
  <2>5. c = [kind |-> "update", ref |-> row.ref, type |-> Type(row),
             place |-> IF side[w].place # row.place THEN row.place ELSE Keep,
             terms |-> IF row.terms # Unset /\ side[w].terms # row.terms THEN row.terms ELSE Keep]
    BY DEF UpdateOf, w
  <2>6. row.place # Keep /\ row.terms # Keep
    BY <2>1, RowsAreTyped, SharingDiffAssumption
  <2> HIDE DEF c
  <2>7. ChangeOf(c, row)
    BY <2>4, <2>5, <2>6 DEF ChangeOf
  <2> QED BY <2>1, <2>5, <2>7 DEF c
<1>3. ToAdd(side, rows) \intersect ToUpdate(side, rows) = {}
  BY DEF ToAdd, ToUpdate
<1>4. \A c \in Writes(side, rows) :
        \/ \E row \in ToAdd(side, rows) : c = CreateOf(row)
        \/ \E row \in ToUpdate(side, rows) : c = UpdateOf(side, row)
  BY DEF Writes
<1> QED BY <1>1, <1>2, <1>3, <1>4, VersionRows

\* What the plan deletes is of no row
LEMMA OrphansAreUnwanted ==
  ASSUME PlacesKeepTheirRefs, Inductive, Rooted, NEW rows \in Versions, NEW v \in Orphans(side, rows),
         NEW row \in rows, SameRow(v, row.ref, row.place.kind)
  PROVE  Type(row) \notin FolderKinds /\ row.ref \in Moved \union HeldBy(rows)
<1>1. v \in Own /\ v \in Live(side, Type(row)) /\ v # Match(side, row)
  BY DEF Orphans, Unmatched, Matched, Own, Live, SameRow, Type
<1>2. row \in AllRows /\ row.ref \in RowRefs
  BY VersionRows
<1>3. Type(row) \notin FolderKinds
  <2> SUFFICES ASSUME Type(row) \in FolderKinds PROVE FALSE
    OBVIOUS
  <2>1. OfRef(side, Type(row), row.ref) = v
    BY <1>1, <1>2, OwnOfRef DEF Type
  <2>2. v # NoUid
    BY <1>1, NoUidIsNone DEF Own, Inductive
  <2>3. Match(side, row) = v
    BY <2>1, <2>2 DEF Match, FolderKinds, FolderMatch, SharedFolderMatch, ByRefOrPlace
  <2> QED BY <1>1, <2>3
<1>4. ASSUME row.ref \notin Moved PROVE row.ref \in HeldBy(rows)
  <2>1. PICK x \in AllRows : x.ref = row.ref /\ x.place = side[v].place
    BY <1>1, OfARow DEF SameRow
  <2>2. SamePlace(side[v].place, row.place)
    BY <1>2, <1>4, <2>1, Unmoved DEF SamePlace
  <2>3. Match(side, row) # NoUid
    BY <1>1, <1>2, <2>2, MatchIs
  <2>4. Managed(side, Match(side, row)) => Match(side, row) = v
    BY <1>1, <1>2, <2>3, MatchIs DEF Inductive, OneSidecarPerRow, SameRow
  <2> QED BY <1>1, <2>3, <2>4 DEF HeldBy
<1> QED BY <1>3, <1>4

LEMMA GrantsAtThePlan ==
  ASSUME PlacesKeepTheirRefs, Inductive, Rooted, NEW rows \in Versions, NEW v \in Own \ Orphans(side, rows),
         TypeOf(side[v].place.kind) = "share_folder"
  PROVE  \E row \in rows : Type(row) = "share_folder" /\ row.place.in = side[v].place.in
<1>1. v \in Matched(side, rows) /\ v # NoUid
  <2>1. v \in DOMAIN side /\ side[v].marker.manager # "none" /\ Managed(side, v)
    BY DEF Own, Managed
  <2> QED BY <2>1, NoUidIsNone DEF Inductive, Orphans, Unmatched
<1>2. CASE \E row \in rows : v = Match(side, row)
  <2>1. PICK row \in rows : v = Match(side, row)
    BY <1>2
  <2>2. row \in AllRows /\ v \in Live(side, Type(row))
    BY <1>1, <2>1, VersionRows, MatchIs
  <2>3. Type(row) = "share_folder"
    BY <2>2 DEF Live
  <2>4. side[v].place = row.place
    BY <1>1, <2>1, <2>2, <2>3, MatchIs DEF FolderKinds, Own
  <2> QED BY <2>3, <2>4
<1>3. CASE \E row \in rows : Regranted(side, row) /\ v = OfRef(side, "record_share", row.ref)
  <2>1. PICK row \in rows : Regranted(side, row) /\ v = OfRef(side, "record_share", row.ref)
    BY <1>3
  <2>2. SameRow(v, row.ref, "record_share")
    <3>1. row.ref \in RowRefs /\ TypeOf("record_share") = "record_share"
      BY VersionRows DEF TypeOf
    <3> QED BY <1>1, <2>1, <3>1, OwnOfRef
  <2> QED BY <2>2 DEF SameRow, TypeOf
<1> QED BY <1>1, <1>2, <1>3 DEF Matched

\* A row without a change is in force, or passed over
LEMMA NoChangeIsSettled ==
  ASSUME PlacesKeepTheirRefs, Inductive, Rooted, NEW rows \in Versions, NEW row \in rows,
         row.ref \notin HeldBy(rows), row \notin ToAdd(side, rows), row \notin ToUpdate(side, rows)
  PROVE  Settled(row)
<1> DEFINE w == Match(side, row)
<1>1. row \in AllRows
  BY VersionRows
<1>2. w # NoUid /\ Managed(side, w) /\ ~Drift(side[w], row)
  BY DEF ToAdd, ToUpdate, HeldBy
<1>3. w \in Own /\ SameRow(w, row.ref, row.place.kind) /\ (Type(row) \notin FolderKinds => side[w].place = row.place)
  BY <1>1, <1>2, MatchIs
<1> HIDE DEF w
<1>4. side[w].place = row.place /\ (side[w].terms = row.terms \/ row.terms = Unset)
  BY <1>1, <1>2, <1>3, Types DEF Drift, FolderDrift, SharedFolderDrift, FolderKinds
<1> QED BY <1>3, <1>4 DEF Settled, SameRow

LEMMA HeldAreHidden ==
  ASSUME PlacesKeepTheirRefs, Inductive, Rooted, NEW rows \in Versions, NEW row \in rows,
         row.ref \in HeldBy(rows) \ Moved
  PROVE  \E w \in DOMAIN side : HiddenBy(w, row)
<1>1. row \in AllRows /\ row.ref \in RowRefs
  BY VersionRows
<1>2. Regranted(side, row) \/ (Match(side, row) # NoUid /\ ~Managed(side, Match(side, row)))
  BY VersionRows DEF HeldBy
<1>3. ~Regranted(side, row)
  <2> SUFFICES ASSUME Regranted(side, row) PROVE FALSE
    OBVIOUS
  <2> DEFINE v == OfRef(side, "record_share", row.ref)
  <2>1. v # NoUid /\ Type(row) = "record_share" /\ Match(side, row) = NoUid
    BY DEF Regranted, Match
  <2>2. v \in Own /\ SameRow(v, row.ref, "record_share")
    <3>1. TypeOf("record_share") = "record_share"
      BY DEF TypeOf
    <3> QED BY <1>1, <2>1, <3>1, OwnOfRef
  <2> HIDE DEF v
  <2>3. PICK x \in AllRows : x.ref = row.ref /\ x.place = side[v].place
    BY <2>2, OfARow DEF SameRow
  <2>4. SamePlace(side[v].place, row.place) /\ v \in Live(side, Type(row))
    BY <1>1, <2>1, <2>2, <2>3, Unmoved DEF SamePlace, Live, Own, Managed, SameRow, TypeOf
  <2> QED BY <1>1, <2>1, <2>4, MatchIs
<1> QED BY <1>1, <1>2, <1>3, MatchIs DEF Live

------------------------------------------------------------------------------
(* Steps, one at a time *)

LEMMA SideKept ==
  ASSUME side' = side
  PROVE  /\ Own' = Own
         /\ \A type : Live(side, type)' = Live(side, type)
         /\ \A u, ref, kind : SameRow(u, ref, kind)' <=> SameRow(u, ref, kind)
         /\ \A c, row : ChangeOf(c, row)' <=> ChangeOf(c, row)
         /\ \A row : Settled(row)' <=> Settled(row)
         /\ \A w, row : HiddenBy(w, row)' <=> HiddenBy(w, row)
         /\ Rooted' <=> Rooted
<1>1. Own' = Own
  BY DEF Own, Managed
<1>2. \A type : Live(side, type)' = Live(side, type)
  BY DEF Live
<1>3. \A u, ref, kind : SameRow(u, ref, kind)' <=> SameRow(u, ref, kind)
  BY DEF SameRow
<1>4. \A c, row : ChangeOf(c, row)' <=> ChangeOf(c, row)
  BY <1>1, <1>3 DEF ChangeOf
<1>5. \A row : Settled(row)' <=> Settled(row)
  BY <1>1 DEF Settled
<1>6. \A w, row : HiddenBy(w, row)' <=> HiddenBy(w, row)
  BY <1>1, <1>2 DEF HiddenBy
<1>7. Rooted' <=> Rooted
  BY <1>1 DEF Rooted
<1> QED BY <1>1, <1>2, <1>3, <1>4, <1>5, <1>6, <1>7

LEMMA PlanSettles ==
  ASSUME PlacesKeepTheirRefs, Inductive, Strong, Plan
  PROVE  Strong'
<1>1. PICK rows \in Versions, allow \in BOOLEAN :
        /\ todo' = Writes(side, rows) /\ doomed' = Removals(side, rows, allow)
        /\ want' = rows /\ held' = HeldBy(rows)
  BY DEF Plan, HeldBy
<1>2. pc = "idle" /\ pc' = "apply" /\ UNCHANGED <<side, force, cur, lost>>
  BY DEF Plan
<1>3. cur = NoRow /\ Rooted
  BY <1>2 DEF Strong, DoomedAreUnwanted
<1>4. Rooted'
  BY <1>2, <1>3, SideKept
<1>5. TodoIsPlanned'
  BY <1>1, <1>2, <1>3, PlanOfRows, SideKept DEF TodoIsPlanned
<1>6. CurIsPlanned'
  BY <1>2 DEF CurIsPlanned, UnderWay
<1>7. DoomedAreUnwanted'
  <2> SUFFICES ASSUME NEW v \in Orphans(side, rows)
               PROVE  Unwanted(side[v].marker.ref, side[v].place, side[v].at)'
    BY <1>1, <1>2, <1>3 DEF DoomedAreUnwanted, Removals, RemovalOf
  <2>1. About(side[v].marker.ref, side[v].place, side[v].terms, side[v].at)
    BY <1>3 DEF Rooted, Orphans, Unmatched, Own
  <2>2. side[v].place \in Place /\ side[v].terms \in Terms
    BY <2>1, AboutKind
  <2>3. ASSUME NEW row \in rows, row.ref = side[v].marker.ref, Type(row) = TypeOf(side[v].place.kind)
        PROVE  Type(row) \notin FolderKinds /\ row.ref \in Moved \union HeldBy(rows)
    <3>1. SameRow(v, row.ref, row.place.kind)
      BY <2>3 DEF SameRow, Type
    <3> QED BY <1>3, <3>1, OrphansAreUnwanted
  <2> QED BY <1>1, <1>2, <2>1, <2>2, <2>3 DEF Unwanted
<1>8. GrantsAreDoomedOrWanted'
  <2> SUFFICES ASSUME doomed' # {}, NEW v \in Own, TypeOf(side[v].place.kind) = "share_folder"
               PROVE  \/ \E d \in doomed' : SameRow(v, d.ref, d.place.kind)
                      \/ \E row \in rows : Type(row) = "share_folder" /\ row.place.in = side[v].place.in
    BY <1>1, <1>2, SideKept DEF GrantsAreDoomedOrWanted
  <2>1. CASE v \in Orphans(side, rows)
    <3>1. RemovalOf(side, v) \in doomed'
      BY <1>1, <2>1 DEF Removals
    <3>2. SameRow(v, RemovalOf(side, v).ref, RemovalOf(side, v).place.kind)
      BY DEF SameRow, RemovalOf
    <3> QED BY <3>1, <3>2
  <2>2. CASE v \notin Orphans(side, rows)
    BY <1>3, <2>2, GrantsAtThePlan
  <2> QED BY <2>1, <2>2
<1>9. Truth' /\ Remembered'
  BY <1>2, SideKept DEF Strong, Truth, Remembered, Busy, UnderWay
<1>10. Progress'
  <2>1. ASSUME NEW row \in rows, row.ref \notin HeldBy(rows)
        PROVE  Settled(row) \/ \E c \in todo' : c.ref = row.ref
    <3>1. CASE row \in ToAdd(side, rows)
      <4>1. CreateOf(row) \in todo' /\ CreateOf(row).ref = row.ref
        BY <1>1, <3>1 DEF Writes, CreateOf
      <4> QED BY <4>1
    <3>2. CASE row \in ToUpdate(side, rows)
      <4>1. UpdateOf(side, row) \in todo'
        BY <1>1, <3>2 DEF Writes
      <4>2. UpdateOf(side, row).ref = row.ref
        BY DEF UpdateOf
      <4> QED BY <4>1, <4>2
    <3> QED BY <1>3, <2>1, <3>1, <3>2, NoChangeIsSettled
  <2>2. \A row \in rows : row.ref \in HeldBy(rows) \ Moved => \E w \in DOMAIN side : HiddenBy(w, row)
    BY <1>3, HeldAreHidden
  <2> QED BY <1>1, <1>2, <2>1, <2>2, SideKept DEF Progress
<1> QED BY <1>4, <1>5, <1>6, <1>7, <1>8, <1>9, <1>10 DEF Strong

\* What a change is merged into: its row, and terms and a path of that uid_ref
LEMMA PayloadIs ==
  ASSUME Inductive, Strong, NEW c, Mergeable(c), NEW x \in AllRows, ChangeOf(c, x)
  PROVE  LET row == FullPayload(c) IN
         /\ row.ref = x.ref /\ row.place = x.place
         /\ row.terms = x.terms \/ x.terms = Unset
         /\ \E y \in AllRows : y.ref = x.ref /\ y.terms = row.terms
         /\ x.place.kind = "shared_folder" =>
              \E z \in AllRows : z.ref = x.ref /\ z.place.kind = "shared_folder" /\ row.at = z.place
<1> DEFINE row == FullPayload(c)
           u == OfRef(side, c.type, c.ref)
<1>1. x.place # Keep /\ x.terms # Keep /\ x.ref \in RowRefs
  BY RowsAreTyped, SharingDiffAssumption DEF RowRefs
<1>2. row = [ref |-> c.ref,
             place |-> IF c.place = Keep THEN side[u].place ELSE c.place,
             terms |-> IF c.terms = Keep THEN side[u].terms ELSE c.terms,
             at |-> IF c.kind = "create" THEN c.place ELSE side[u].at]
  BY DEF FullPayload
<1>3. CASE c.kind = "create"
  BY <1>1, <1>2, <1>3 DEF ChangeOf
<1>4. CASE c.kind # "create"
  <2>1. u # NoUid /\ c.type = TypeOf(x.place.kind) /\ c.ref = x.ref
    BY <1>4 DEF Mergeable, ChangeOf, Type
  <2>2. u \in Own /\ SameRow(u, x.ref, x.place.kind)
    BY <1>1, <2>1, OwnOfRef
  <2> HIDE DEF u, row
  <2>3. About(x.ref, side[u].place, side[u].terms, side[u].at)
    BY <2>2 DEF Strong, Rooted, SameRow
  <2>4. row.ref = x.ref /\ row.place = x.place
    BY <1>2, <1>4, <2>1, <2>2 DEF ChangeOf
  <2>5. row.terms = IF c.terms = Keep THEN side[u].terms ELSE x.terms
    BY <1>2, <1>4 DEF ChangeOf
  <2>6. row.terms = x.terms \/ x.terms = Unset
    BY <1>4, <2>2, <2>5 DEF ChangeOf
  <2>7. \E y \in AllRows : y.ref = x.ref /\ y.terms = row.terms
    BY <2>3, <2>5 DEF About
  <2>8. x.place.kind = "shared_folder" => side[u].place.kind = "shared_folder"
    BY <2>2, <2>3, AboutKind DEF SameRow, TypeOf, Place, FolderKinds, ShareKinds
  <2>9. row.at = side[u].at
    BY <1>2, <1>4
  <2> QED BY <2>3, <2>4, <2>6, <2>7, <2>8, <2>9 DEF About, row
<1> QED BY <1>3, <1>4

\* A grant is made on the folder that the sidecar of its shared folder names
LEMMA SubjectIs ==
  ASSUME Inductive, Strong, NEW c, Possible(c), NEW rows \in Versions, NEW x \in rows, ChangeOf(c, x)
  PROVE  About(x.ref, x.place, FullPayload(c).terms, Subject(c, FullPayload(c)))
<1> DEFINE row == FullPayload(c)
           s == Resolved(x.place.in)
<1>1. x \in AllRows /\ x.place \in Place
  BY VersionRows, RowsAreTyped
<1>2. /\ row.place = x.place
      /\ \E y \in AllRows : y.ref = x.ref /\ y.terms = row.terms
      /\ x.place.kind = "shared_folder" =>
           \E z \in AllRows : z.ref = x.ref /\ z.place.kind = "shared_folder" /\ row.at = z.place
  BY <1>1, PayloadIs DEF Possible
<1>3. x.place.kind # "record" /\ (x.place.kind \in {"grantee", "default"} => s # NoUid)
  BY <1>2 DEF Possible
<1> HIDE DEF row, s
<1>4. CASE x.place.kind = "folder"
  BY <1>1, <1>2, <1>4 DEF Subject, About, row
<1>5. CASE x.place.kind = "shared_folder"
  BY <1>1, <1>2, <1>5 DEF Subject, About, row
<1>6. CASE x.place.kind = "record_share"
  BY <1>1, <1>2, <1>6 DEF Subject, About, row
<1>7. CASE x.place.kind \in {"grantee", "default"}
  <2>1. Type(x) = "share_folder"
    BY <1>7 DEF Type, TypeOf
  <2>2. x.place.in \in RowRefs
    BY <2>1, SharingApplyAssumption, VersionRows
  <2>3. s # NoUid /\ s = OfRef(side, TypeOf("shared_folder"), x.place.in)
    BY <1>3, <1>7 DEF s, Resolved, TypeOf
  <2>4. s \in Own /\ SameRow(s, x.place.in, "shared_folder")
    BY <2>2, <2>3, OwnOfRef
  <2>5. About(x.place.in, side[s].place, side[s].terms, side[s].at)
    BY <2>4 DEF Strong, Rooted, SameRow
  <2>6. side[s].place.kind = "shared_folder"
    BY <2>4, <2>5, AboutKind DEF SameRow, TypeOf, Place, FolderKinds, ShareKinds
  <2>7. side[s].at.to \in PathsOf(x.place.in)
    BY <2>5, <2>6 DEF About, PathsOf
  <2>8. Subject(c, row) = [kind |-> ObjectKind(x.place.kind, row.terms), in |-> side[s].at.to, to |-> x.place.to]
    BY <1>2, <1>7 DEF Subject, ObjectKind, s
  <2> QED BY <1>1, <1>2, <1>7, <2>7, <2>8 DEF About, row
<1> QED BY <1>1, <1>3, <1>4, <1>5, <1>6, <1>7 DEF Place, FolderKinds, ShareKinds

LEMMA EnforceSettles ==
  ASSUME Inductive, Strong, Enforce
  PROVE  Strong'
<1>1. PICK c \in todo :
        /\ Possible(c) /\ todo' = todo \ {c}
        /\ force' = Enforced(Subject(c, FullPayload(c)), FullPayload(c).terms)
        /\ cur' = [ref |-> FullPayload(c).ref, place |-> FullPayload(c).place,
                   terms |-> FullPayload(c).terms, at |-> Subject(c, FullPayload(c)), uid |-> NoUid]
  BY DEF Enforce
<1>2. pc = "apply" /\ pc' = "drop" /\ UNCHANGED <<side, doomed, want, held, lost, calm>>
  BY DEF Enforce
<1>3. PICK x \in want : ChangeOf(c, x)
  BY DEF Strong, TodoIsPlanned
<1> DEFINE row == FullPayload(c)
           o == Subject(c, row)
<1>4. want \in Versions /\ x \in AllRows
  BY <1>2, VersionRows DEF Strong, Progress
<1>5. row.ref = x.ref /\ row.place = x.place /\ (row.terms = x.terms \/ x.terms = Unset)
  BY <1>1, <1>3, <1>4, PayloadIs DEF Possible
<1>6. About(x.ref, x.place, row.terms, o)
  BY <1>1, <1>3, <1>4, SubjectIs
<1> HIDE DEF row, o
<1>7. /\ cur'.ref = x.ref /\ cur'.place = x.place /\ cur'.terms = row.terms /\ cur'.at = o
      /\ force' = Enforced(o, row.terms)
  BY <1>1, <1>5 DEF row, o
<1>8. /\ \A p \in DOMAIN force : p \in DOMAIN force' /\ (p # o => force'[p] = force[p])
      /\ \A p \in DOMAIN force' : p \in DOMAIN force \/ p = o
      /\ o \in DOMAIN force'
      /\ o.kind \notin FolderKinds => force'[o] = row.terms
  BY <1>7 DEF Enforced, Put
<1>9. x.place.kind \in ShareKinds => o.kind \notin FolderKinds
  BY <1>6, AboutKind DEF ObjectKind, FolderKinds, ShareKinds
<1>10. Rooted'
  BY <1>2, SideKept DEF Strong
<1>11. TodoIsPlanned'
  BY <1>1, <1>2, SideKept DEF Strong, TodoIsPlanned
<1>12. CurIsPlanned'
  <2>1. x.ref \notin held /\ \A d \in todo' : d.ref # x.ref
    BY <1>1, <1>3 DEF Strong, TodoIsPlanned, ChangeOf
  <2> QED BY <1>2, <1>5, <1>6, <1>7, <1>8, <1>9, <2>1 DEF CurIsPlanned
<1>13. DoomedAreUnwanted'
  BY <1>2 DEF Strong, DoomedAreUnwanted, Unwanted
<1>14. GrantsAreDoomedOrWanted'
  BY <1>2, SideKept DEF Strong, GrantsAreDoomedOrWanted
<1>15. \A p : Busy(p)' <=> p = o
  BY <1>2, <1>7 DEF Busy, UnderWay
<1>16. \A p : ~Busy(p)
  BY <1>2 DEF Busy, UnderWay
<1>17. Truth'
  <2> SUFFICES ASSUME NEW u \in Own, side[u].at # o, side[u].at \notin lost
               PROVE  /\ side[u].at \in DOMAIN force'
                      /\ side[u].place.kind \in ShareKinds => force'[side[u].at] = side[u].terms
    BY <1>2, <1>15, SideKept DEF Truth
  <2> QED BY <1>8, <1>16 DEF Strong, Truth
<1>18. Remembered'
  BY <1>2, <1>8, <1>15, <1>16, SideKept DEF Strong, Remembered
<1>19. Progress'
  <2>1. c.ref = x.ref
    BY <1>3 DEF ChangeOf
  <2>2. ~UnderWay /\ UnderWay'
    BY <1>2 DEF UnderWay
  <2> QED BY <1>1, <1>2, <1>7, <2>1, <2>2, SideKept DEF Strong, Progress
<1> QED BY <1>10, <1>11, <1>12, <1>13, <1>14, <1>17, <1>18, <1>19 DEF Strong

\* Removing the sidecar of a row takes one of ours, and what hides other rows stays
LEMMA Removed ==
  ASSUME Inductive, NEW d, d.ref \in RowRefs, side' = Drop(side, SidecarOf(d))
  PROVE  /\ \A u : u \in Own' <=> u \in Own /\ ~SameRow(u, d.ref, d.place.kind)
         /\ \A u \in Own' : side'[u] = side[u]
         /\ \A c, row : ChangeOf(c, row) => ChangeOf(c, row)'
         /\ \A w, row : HiddenBy(w, row) => w \in DOMAIN side' /\ HiddenBy(w, row)'
         /\ Rooted => Rooted'
         /\ \A row : Settled(row) =>
              Settled(row)' \/ (row.ref = d.ref /\ Type(row) = TypeOf(d.place.kind))
<1> DEFINE S == SidecarOf(d)
<1>1. \A u : u \in S <=> u \in Own /\ SameRow(u, d.ref, d.place.kind)
  BY SidecarsOfRow
<1> HIDE DEF S
<1>2. /\ \A u : u \in Own' <=> u \in Own \ S
      /\ \A u \in Own' : side'[u] = side[u]
  BY Dropped DEF S
<1>3. DOMAIN side' = DOMAIN side \ S /\ \A u \in DOMAIN side' : side'[u] = side[u]
  BY DEF Drop, S
<1>4. \A c, row : ChangeOf(c, row) => ChangeOf(c, row)'
  BY <1>2 DEF ChangeOf, SameRow
<1>5. \A type : Live(side, type)' = Live(side, type) \ S
  BY <1>3 DEF Live
<1>6. ASSUME NEW w, NEW row, HiddenBy(w, row)
      PROVE  w \in DOMAIN side' /\ HiddenBy(w, row)'
  <2>1. w \in Live(side, Type(row)) \ Own /\ w \in DOMAIN side
    BY <1>6 DEF HiddenBy, Live
  <2>2. w \notin S /\ w \in DOMAIN side' /\ w \in Live(side, Type(row))' \ Own'
    BY <1>1, <1>2, <1>3, <1>5, <2>1
  <2>3. \A v \in Live(side, Type(row))' : v \in Live(side, Type(row)) /\ side'[v] = side[v]
    BY <1>3, <1>5 DEF Live
  <2> QED BY <1>6, <2>2, <2>3 DEF HiddenBy
<1>7. Rooted => Rooted'
  BY <1>2 DEF Rooted
<1>8. ASSUME NEW row, Settled(row)
      PROVE  Settled(row)' \/ (row.ref = d.ref /\ Type(row) = TypeOf(d.place.kind))
  <2>1. PICK u \in Own : /\ side[u].marker.ref = row.ref /\ side[u].place = row.place
                         /\ side[u].terms = row.terms \/ row.terms = Unset
    BY <1>8 DEF Settled
  <2>2. CASE u \in S
    BY <1>1, <2>1, <2>2 DEF SameRow, Type
  <2>3. CASE u \notin S
    BY <1>2, <2>1, <2>3 DEF Settled
  <2> QED BY <2>2, <2>3
<1> QED BY <1>1, <1>2, <1>4, <1>6, <1>7, <1>8

LEMMA DropSettles ==
  ASSUME Inductive, Strong, DropSidecar
  PROVE  Strong'
<1>1. /\ side' = Drop(side, SidecarOf(cur)) /\ pc = "drop" /\ pc' = "add"
      /\ UNCHANGED <<force, todo, doomed, cur, want, held, lost, calm>>
  BY DEF DropSidecar
<1>2. cur.ref \in RowRefs /\ About(cur.ref, cur.place, cur.terms, cur.at)
  BY <1>1 DEF Inductive, Planned, Strong, CurIsPlanned, UnderWay
<1>3. /\ \A u : u \in Own' <=> u \in Own /\ ~SameRow(u, cur.ref, cur.place.kind)
      /\ \A u \in Own' : side'[u] = side[u]
      /\ \A c, row : ChangeOf(c, row) => ChangeOf(c, row)'
      /\ \A w, row : HiddenBy(w, row) => w \in DOMAIN side' /\ HiddenBy(w, row)'
      /\ Rooted => Rooted'
      /\ \A row : Settled(row) =>
           Settled(row)' \/ (row.ref = cur.ref /\ Type(row) = TypeOf(cur.place.kind))
  BY <1>1, <1>2, Removed
<1>4. Rooted'
  BY <1>3 DEF Strong
<1>5. TodoIsPlanned'
  BY <1>1, <1>3 DEF Strong, TodoIsPlanned
<1>6. CurIsPlanned' /\ DoomedAreUnwanted'
  BY <1>1 DEF Strong, CurIsPlanned, DoomedAreUnwanted, Unwanted, UnderWay
<1>7. GrantsAreDoomedOrWanted'
  BY <1>1, <1>3 DEF Strong, GrantsAreDoomedOrWanted, SameRow
<1>8. \A o : Busy(o)' <=> Busy(o)
  BY <1>1 DEF Busy, UnderWay
<1>9. Truth'
  BY <1>1, <1>3, <1>8 DEF Strong, Truth
<1>10. Remembered'
  <2> SUFFICES ASSUME NEW o \in DOMAIN force, NEW u \in Own, side[u].at = o, u \notin Own'
               PROVE  Busy(o) \/ Adrift(o) \/ o.kind = "default_record"
    BY <1>1, <1>3, <1>8 DEF Strong, Remembered
  <2>1. About(cur.ref, side[u].place, side[u].terms, o)
    BY <1>3 DEF Strong, Rooted, SameRow
  <2> QED BY <1>1, <1>2, <2>1, OneObject DEF Busy, UnderWay
<1>11. Progress'
  BY <1>1, <1>3 DEF Strong, Progress, UnderWay
<1> QED BY <1>4, <1>5, <1>6, <1>7, <1>9, <1>10, <1>11 DEF Strong

LEMMA ForgetSettles ==
  ASSUME PlacesKeepTheirRefs, Inductive, Strong, Forget
  PROVE  Strong'
<1>1. /\ side' = Drop(side, SidecarOf(cur)) /\ pc = "forget" /\ pc' = "apply"
      /\ lost' = lost \ {cur.at} /\ cur' = NoRow
      /\ UNCHANGED <<force, todo, doomed, want, held, calm>>
  BY DEF Forget
<1>2. Unwanted(cur.ref, cur.place, cur.at)
  BY <1>1 DEF Strong, DoomedAreUnwanted
<1>3. PICK pl \in Place, t \in Terms :
        TypeOf(pl.kind) = TypeOf(cur.place.kind) /\ About(cur.ref, pl, t, cur.at)
  BY <1>2 DEF Unwanted
<1>4. cur.ref \in RowRefs
  BY <1>3, AboutKind
<1>5. cur.at \notin DOMAIN force \/ cur.at.kind = "default_record"
  BY <1>1 DEF Strong, DoomedAreUnwanted
<1>6. /\ \A u : u \in Own' <=> u \in Own /\ ~SameRow(u, cur.ref, cur.place.kind)
      /\ \A u \in Own' : side'[u] = side[u]
      /\ \A w, row : HiddenBy(w, row) => w \in DOMAIN side' /\ HiddenBy(w, row)'
      /\ Rooted => Rooted'
      /\ \A row : Settled(row) =>
           Settled(row)' \/ (row.ref = cur.ref /\ Type(row) = TypeOf(cur.place.kind))
  BY <1>1, <1>4, Removed
<1>7. Rooted'
  BY <1>6 DEF Strong
<1>8. todo = {} /\ TodoIsPlanned' /\ CurIsPlanned'
  BY <1>1 DEF Strong, TodoIsPlanned, CurIsPlanned, UnderWay
<1>9. DoomedAreUnwanted'
  BY <1>1 DEF Strong, DoomedAreUnwanted, Unwanted
<1>10. GrantsAreDoomedOrWanted'
  BY <1>1, <1>6 DEF Strong, GrantsAreDoomedOrWanted, SameRow
<1>11. \A o : ~Busy(o)' /\ (Busy(o) <=> o = cur.at)
  BY <1>1 DEF Busy, UnderWay
<1>12. Truth'
  <2> SUFFICES ASSUME NEW u \in Own, ~SameRow(u, cur.ref, cur.place.kind)
               PROVE  side[u].at # cur.at
    BY <1>1, <1>6, <1>11 DEF Strong, Truth
  <2>1. About(side[u].marker.ref, side[u].place, side[u].terms, side[u].at)
    BY DEF Strong, Rooted
  <2>2. side[u].at = cur.at => side[u].marker.ref = cur.ref /\ side[u].place.kind = pl.kind
    BY <1>3, <2>1, OneRowEach
  <2> QED BY <1>3, <2>2 DEF SameRow
<1>13. Remembered'
  <2>1. \A o \in DOMAIN force : o = cur.at => o.kind = "default_record"
    BY <1>5
  <2> SUFFICES ASSUME NEW o \in DOMAIN force, NEW u \in Own, side[u].at = o, u \notin Own'
               PROVE  Adrift(o) \/ o.kind = "default_record"
    BY <1>1, <1>6, <1>11, <2>1 DEF Strong, Remembered
  <2>2. About(cur.ref, side[u].place, side[u].terms, o)
    BY <1>6 DEF Strong, Rooted, SameRow
  <2> QED BY <1>3, <2>1, <2>2, OneObject
<1>14. Progress'
  <2>1. \A row \in want : row.ref = cur.ref /\ Type(row) = TypeOf(cur.place.kind) => row.ref \in held \union Moved
    BY <1>2 DEF Unwanted
  <2>2. ~UnderWay
    BY <1>1 DEF UnderWay
  <2> QED BY <1>1, <1>6, <2>1, <2>2 DEF Strong, Progress
<1> QED BY <1>7, <1>8, <1>9, <1>10, <1>12, <1>13, <1>14 DEF Strong

LEMMA AddSettles ==
  ASSUME Inductive, Strong, AddSidecar
  PROVE  Strong'
<1> DEFINE u == First(UidsFor[cur.ref] \ DOMAIN side)
           r == [marker |-> Unmarked, place |-> cur.place, terms |-> cur.terms, at |-> cur.at]
<1>1. /\ side' = Put(side, u, r) /\ cur' = [cur EXCEPT !.uid = u]
      /\ pc = "add" /\ pc' = "mark" /\ UidsFor[cur.ref] \ DOMAIN side # {}
      /\ UNCHANGED <<force, todo, doomed, want, held, lost, calm>>
  BY DEF AddSidecar
<1>2. u \in Uid \ DOMAIN side
  <2>1. cur.ref \in Ref
    BY <1>1, RowsHaveRefs DEF Inductive, Planned
  <2>2. UidsFor[cur.ref] \subseteq Uid
    BY <2>1, SharingApplyAssumption
  <2> QED BY <1>1, <2>2, FirstIsIn
<1>3. r.marker.manager = "none"
  BY DEF Unmarked
<1> HIDE DEF u, r
<1>4. /\ DOMAIN side' = DOMAIN side \union {u} /\ side'[u] = r
      /\ \A v \in DOMAIN side : side'[v] = side[v]
      /\ Own' = Own
  BY <1>1, <1>2, <1>3, Added
<1>5. cur' = [ref |-> cur.ref, place |-> cur.place, terms |-> cur.terms, at |-> cur.at, uid |-> u]
  BY <1>1 DEF Inductive, Planned
<1>6. \A v \in Own : v \in DOMAIN side /\ side'[v] = side[v]
  BY <1>4 DEF Own
<1>7. \A type : Live(side, type)' = Live(side, type) /\ \A v \in Live(side, type) : side'[v] = side[v]
  BY <1>2, <1>3, <1>4 DEF Live
<1>8. /\ \A c, row : ChangeOf(c, row) => ChangeOf(c, row)'
      /\ \A row : Settled(row) => Settled(row)'
  BY <1>4, <1>6 DEF ChangeOf, Settled, SameRow
<1>9. \A w, row : HiddenBy(w, row) => HiddenBy(w, row)'
  BY <1>4, <1>7 DEF HiddenBy
<1>10. Rooted'
  BY <1>4, <1>6 DEF Strong, Rooted
<1>11. TodoIsPlanned'
  BY <1>1, <1>8 DEF Strong, TodoIsPlanned
<1>12. CurIsPlanned' /\ DoomedAreUnwanted'
  BY <1>1, <1>5 DEF Strong, CurIsPlanned, DoomedAreUnwanted, Unwanted, UnderWay
<1>13. GrantsAreDoomedOrWanted'
  BY <1>1, <1>4, <1>6 DEF Strong, GrantsAreDoomedOrWanted, SameRow
<1>14. \A o : Busy(o)' <=> Busy(o)
  BY <1>1, <1>5 DEF Busy, UnderWay
<1>15. Truth' /\ Remembered'
  BY <1>1, <1>4, <1>6, <1>14 DEF Strong, Truth, Remembered
<1>16. Progress'
  BY <1>1, <1>4, <1>5, <1>8, <1>9 DEF Strong, Progress, UnderWay
<1> QED BY <1>10, <1>11, <1>12, <1>13, <1>15, <1>16 DEF Strong

LEMMA MarkSettles ==
  ASSUME PlacesKeepTheirRefs, Inductive, Strong, MarkSidecar
  PROVE  Strong'
<1> DEFINE u == cur.uid
<1>1. /\ pc = "mark" /\ pc' = "apply" /\ u \in DOMAIN side
      /\ side' = [side EXCEPT ![u].marker = EncodeMarker(cur.ref)]
      /\ lost' = lost \ {cur.at} /\ cur' = NoRow
      /\ UNCHANGED <<force, todo, doomed, want, held, calm>>
  BY DEF MarkSidecar
<1>2. side[u] = [marker |-> Unmarked, place |-> cur.place, terms |-> cur.terms, at |-> cur.at]
  BY <1>1 DEF Inductive, NewIsThere
<1> HIDE DEF u
<1>3. /\ DOMAIN side' = DOMAIN side
      /\ side'[u] = [side[u] EXCEPT !.marker = EncodeMarker(cur.ref)]
      /\ \A v \in DOMAIN side \ {u} : side'[v] = side[v]
  BY <1>1 DEF Inductive, Folder
<1>4. /\ side'[u].marker = EncodeMarker(cur.ref) /\ side'[u].marker.ref = cur.ref
      /\ side'[u].place = cur.place /\ side'[u].terms = cur.terms /\ side'[u].at = cur.at
  BY <1>2, <1>3 DEF EncodeMarker
<1>5. Managed(side', u) /\ ~Managed(side, u) /\ side[u].marker.manager = "none"
  BY <1>2, <1>4 DEF Managed, EncodeMarker, Unmarked
<1>6. Own' = Own \union {u} /\ u \notin Own /\ \A v \in Own : side'[v] = side[v]
  BY <1>1, <1>3, <1>5 DEF Own, Managed
<1>7. /\ cur.ref \notin held /\ (\A c \in todo : c.ref # cur.ref)
      /\ About(cur.ref, cur.place, cur.terms, cur.at)
      /\ cur.at \in DOMAIN force /\ (cur.place.kind \in ShareKinds => force[cur.at] = cur.terms)
  BY <1>1 DEF Strong, CurIsPlanned, UnderWay
<1>8. PICK x \in want : x.ref = cur.ref /\ x.place = cur.place /\ (x.terms = cur.terms \/ x.terms = Unset)
  BY <1>1 DEF Strong, CurIsPlanned, UnderWay
<1>9. want \in Versions /\ \A row \in want : row.ref = cur.ref \/ SamePlace(x.place, row.place) => row = x
  BY <1>1, <1>8, SharingApplyAssumption DEF Strong, Progress
<1>10. \A v \in Own : side[v].at # cur.at
  <2> SUFFICES ASSUME NEW v \in Own, side[v].at = cur.at PROVE FALSE
    OBVIOUS
  <2>1. About(side[v].marker.ref, side[v].place, side[v].terms, cur.at)
    BY DEF Strong, Rooted
  <2>2. SameRow(v, cur.ref, cur.place.kind)
    BY <1>7, <2>1, OneRowEach DEF SameRow
  <2> QED BY <1>1, <2>2 DEF Inductive, NoneLeft
<1>11. Rooted'
  BY <1>4, <1>6, <1>7 DEF Strong, Rooted
<1>12. TodoIsPlanned'
  <2>1. ASSUME NEW c \in todo, NEW row, ChangeOf(c, row)
        PROVE  ChangeOf(c, row)'
    <3>1. c.ref = row.ref /\ row.ref # cur.ref
      BY <1>7, <2>1 DEF ChangeOf
    <3>2. \A v \in Own' : SameRow(v, row.ref, row.place.kind)' =>
            v \in Own /\ SameRow(v, row.ref, row.place.kind) /\ side'[v] = side[v]
      BY <1>4, <1>6, <3>1 DEF SameRow
    <3> QED BY <2>1, <3>2 DEF ChangeOf
  <2> QED BY <1>1, <2>1 DEF Strong, TodoIsPlanned
<1>13. CurIsPlanned' /\ DoomedAreUnwanted'
  BY <1>1 DEF Strong, CurIsPlanned, DoomedAreUnwanted, Unwanted, UnderWay
<1>14. GrantsAreDoomedOrWanted'
  <2>1. TypeOf(side'[u].place.kind) = "share_folder" => Type(x) = "share_folder" /\ x.place.in = side'[u].place.in
    BY <1>4, <1>8 DEF Type
  <2> SUFFICES ASSUME doomed # {}, NEW v \in Own', TypeOf(side'[v].place.kind) = "share_folder"
               PROVE  \/ \E d \in doomed : SameRow(v, d.ref, d.place.kind)'
                      \/ \E row \in want : Type(row) = "share_folder" /\ row.place.in = side'[v].place.in
    BY <1>1 DEF GrantsAreDoomedOrWanted
  <2>2. CASE v = u
    BY <1>8, <2>1, <2>2
  <2>3. CASE v # u
    <3>1. v \in Own /\ side'[v] = side[v]
      BY <1>6, <2>3
    <3> QED BY <1>1, <3>1 DEF Strong, GrantsAreDoomedOrWanted, SameRow
  <2> QED BY <2>2, <2>3
<1>15. \A o : ~Busy(o)' /\ (Busy(o) <=> o = cur.at)
  BY <1>1 DEF Busy, UnderWay
<1>16. Truth'
  <2>1. ASSUME NEW v \in Own
        PROVE  \/ side[v].at \in lost'
               \/ /\ side[v].at \in DOMAIN force
                  /\ side[v].place.kind \in ShareKinds => force[side[v].at] = side[v].terms
    BY <1>1, <1>10, <1>15 DEF Strong, Truth
  <2> QED BY <1>1, <1>4, <1>6, <1>7, <2>1 DEF Truth
<1>17. Remembered'
  <2> SUFFICES ASSUME NEW o \in DOMAIN force, o \notin lost', ~Adrift(o), o.kind # "default_record"
               PROVE  \E v \in Own' : side'[v].at = o
    BY <1>1 DEF Remembered
  <2>1. CASE o = cur.at
    BY <1>4, <1>6, <2>1
  <2>2. CASE o # cur.at
    <3>1. \E v \in Own : side[v].at = o
      BY <1>1, <1>15, <2>2 DEF Strong, Remembered
    <3> QED BY <1>6, <3>1
  <2> QED BY <2>1, <2>2
<1>18. Progress'
  <2>1. ASSUME NEW row \in want, row.ref = cur.ref
        PROVE  Settled(row)'
    <3>1. u \in Own' /\ row = x
      BY <1>6, <1>9, <2>1
    <3> QED BY <1>4, <1>8, <3>1 DEF Settled
  <2>2. \A row : Settled(row) => Settled(row)'
    BY <1>6 DEF Settled
  <2>3. ASSUME NEW row \in want, row.ref \in held, NEW w \in DOMAIN side, HiddenBy(w, row)
        PROVE  w \in DOMAIN side' /\ HiddenBy(w, row)'
    <3>1. row.ref # cur.ref /\ ~SamePlace(cur.place, row.place)
      BY <1>7, <1>8, <1>9, <2>3
    <3>2. w \in Live(side, Type(row)) \ Own /\ w # u
      BY <1>5, <2>3 DEF HiddenBy, Live
    <3>3. w \in Live(side, Type(row))' \ Own' /\ side'[w] = side[w]
      BY <1>3, <1>6, <3>2 DEF Live
    <3>4. \A v \in Live(side, Type(row))' : v # u => v \in Live(side, Type(row)) /\ side'[v] = side[v]
      BY <1>3 DEF Live
    <3>5. SamePlace(side'[w].place, row.place)
      BY <2>3, <3>3 DEF HiddenBy
    <3>6. \A v \in Live(side, Type(row))' : SamePlace(side'[v].place, row.place) => w <= v
      BY <1>4, <2>3, <3>1, <3>4 DEF HiddenBy
    <3>7. Type(row) \in FolderKinds => \A v \in Live(side, Type(row))' : side'[v].marker.ref # row.ref
      BY <1>4, <2>3, <3>1, <3>4 DEF HiddenBy
    <3> QED BY <1>3, <3>3, <3>5, <3>6, <3>7 DEF HiddenBy
  <2> QED BY <1>1, <2>1, <2>2, <2>3 DEF Strong, Progress
<1> QED BY <1>11, <1>12, <1>13, <1>14, <1>16, <1>17, <1>18 DEF Strong

\* What is revoked is about the row that is deleted
LEMMA RevokedIsOf ==
  ASSUME Inductive, Strong, NEW d \in doomed, NEW at,
         at = IF SidecarOf(d) = {} THEN d.at ELSE side[OfRef(side, TypeOf(d.place.kind), d.ref)].at
  PROVE  \E pl \in Place, t \in Terms : TypeOf(pl.kind) = TypeOf(d.place.kind) /\ About(d.ref, pl, t, at)
<1>1. PICK pl \in Place, t \in Terms : TypeOf(pl.kind) = TypeOf(d.place.kind) /\ About(d.ref, pl, t, d.at)
  BY DEF Strong, DoomedAreUnwanted, Unwanted
<1>2. CASE SidecarOf(d) = {}
  BY <1>1, <1>2
<1>3. CASE SidecarOf(d) # {}
  <2> DEFINE v == OfRef(side, TypeOf(d.place.kind), d.ref)
  <2>1. v \in Own /\ SameRow(v, d.ref, d.place.kind)
    BY <1>1, <1>3, AboutKind, OwnOfRef DEF SidecarOf
  <2>2. at = side[v].at
    BY <1>3
  <2> HIDE DEF v
  <2>3. About(d.ref, side[v].place, side[v].terms, at)
    BY <2>1, <2>2 DEF Strong, Rooted, SameRow
  <2>4. side[v].place \in Place /\ side[v].terms \in Terms
    BY <2>3, AboutKind
  <2> QED BY <2>1, <2>3, <2>4 DEF SameRow
<1> QED BY <1>2, <1>3

\* Of two default rows for the same folder, with either target
LEMMA OneDefault ==
  ASSUME PlacesKeepTheirRefs, NEW r, NEW q, NEW pl, NEW ql, NEW s, NEW t, NEW at, NEW bt,
         About(r, pl, s, at), About(q, ql, t, bt), pl.kind = "default", ql.kind = "default",
         at.in = bt.in, at.to = bt.to
  PROVE  r = q
<1>1. PICK x \in AllRows, y \in AllRows : x.ref = r /\ x.place = pl /\ y.ref = q /\ y.place = ql
  BY DEF About
<1>2. at.in \in PathsOf(pl.in) /\ at.to = pl.to
  BY DEF About
<1>3. bt.in \in PathsOf(ql.in) /\ bt.to = ql.to
  BY DEF About
<1>4. pl.in = ql.in
  BY <1>2, <1>3 DEF PathsOf, PlacesKeepTheirRefs, FolderKinds
<1> QED BY <1>1, <1>2, <1>3, <1>4 DEF PlacesKeepTheirRefs

\* What is in force for the sidecars that stay is left in force
LEMMA RevokedIsNotOf ==
  ASSUME PlacesKeepTheirRefs, Inductive, Strong, pc = "apply", NEW d \in doomed,
         \A e \in doomed : ~DeletedBefore(e, d), NEW at,
         at = IF SidecarOf(d) = {} THEN d.at ELSE side[OfRef(side, TypeOf(d.place.kind), d.ref)].at,
         NEW u \in Own, side[u].at # at
  PROVE  side[u].at \notin Revoked(at)
<1> DEFINE o == side[u].at
           pu == side[u].place
<1>1. PICK pl \in Place, t \in Terms : TypeOf(pl.kind) = TypeOf(d.place.kind) /\ About(d.ref, pl, t, at)
  BY RevokedIsOf
<1>2. About(side[u].marker.ref, pu, side[u].terms, o)
  BY DEF Strong, Rooted
<1>3. /\ at.kind = ObjectKind(pl.kind, t) /\ o.kind = ObjectKind(pu.kind, side[u].terms)
      /\ d.ref \in RowRefs /\ pu \in Place
  BY <1>1, <1>2, AboutKind
<1> HIDE DEF o, pu
<1>4. CASE at.kind = "shared_folder"
  <2> SUFFICES ASSUME o.kind \in GrantKinds, o.in = at.to PROVE FALSE
    BY <1>4 DEF Revoked, FolderKinds, o
  <2>1. pl.kind = "shared_folder" /\ TypeOf(d.place.kind) = "shared_folder"
    BY <1>1, <1>3, <1>4 DEF ObjectKind, TypeOf
  <2>2. pu.kind \in {"grantee", "default"} /\ TypeOf(pu.kind) = "share_folder"
    BY <1>3 DEF ObjectKind, GrantKinds, TypeOf, Place, FolderKinds, ShareKinds
  <2>3. at.to \in PathsOf(d.ref)
    BY <1>1, <2>1 DEF About, PathsOf
  <2>4. o.in \in PathsOf(pu.in)
    BY <1>2, <2>2 DEF About
  <2>5. pu.in = d.ref
    BY <2>3, <2>4 DEF PathsOf, PlacesKeepTheirRefs, FolderKinds
  <2>6. \A e \in doomed : ~SameRow(u, e.ref, e.place.kind)
    <3>1. DeleteRank["share_folder"] < DeleteRank["shared_folder"]
      BY DEF DeleteRank
    <3> QED BY <2>1, <2>2, <3>1 DEF SameRow, DeletedBefore, pu
  <2>7. PICK row \in want : Type(row) = "share_folder" /\ row.place.in = pu.in
    BY <2>2, <2>6 DEF Strong, GrantsAreDoomedOrWanted, pu
  <2>8. PICK y \in want : y.ref = d.ref /\ Type(y) = "shared_folder"
    BY <2>5, <2>7, SharingApplyAssumption DEF Strong, Progress
  <2> QED BY <2>1, <2>8 DEF Strong, DoomedAreUnwanted, Unwanted, FolderKinds
<1>5. CASE at.kind = "default_record"
  <2> SUFFICES ASSUME o = [at EXCEPT !.kind = "default"] PROVE FALSE
    BY <1>5 DEF Revoked, FolderKinds, o
  <2>1. pl.kind = "default"
    BY <1>1, <1>3, <1>5 DEF ObjectKind, Place, FolderKinds, ShareKinds
  <2>2. at = [kind |-> at.kind, in |-> at.in, to |-> at.to]
    BY <1>1, <2>1 DEF About
  <2>3. o.kind = "default" /\ o.in = at.in /\ o.to = at.to
    BY <2>2
  <2>4. pu.kind = "default"
    BY <1>3, <2>3 DEF ObjectKind, Place, FolderKinds, ShareKinds
  <2>5. side[u].marker.ref = d.ref
    BY <1>1, <1>2, <2>1, <2>3, <2>4, OneDefault
  <2>6. SameRow(u, d.ref, d.place.kind)
    BY <1>1, <2>1, <2>4, <2>5 DEF SameRow, pu
  <2>7. OfRef(side, TypeOf(d.place.kind), d.ref) = u /\ u \in SidecarOf(d)
    BY <1>3, <2>6, OwnOfRef, SidecarsOfRow
  <2> QED BY <2>7
<1>6. CASE at.kind \notin {"shared_folder", "default_record"}
  BY <1>6 DEF Revoked, FolderKinds
<1> QED BY <1>4, <1>5, <1>6

LEMMA RevokeSettles ==
  ASSUME PlacesKeepTheirRefs, Inductive, Strong, Revoke
  PROVE  Strong'
<1>1. PICK d \in doomed :
        /\ \A e \in doomed : ~DeletedBefore(e, d)
        /\ LET at == IF SidecarOf(d) = {} THEN d.at ELSE side[OfRef(side, TypeOf(d.place.kind), d.ref)].at
           IN  /\ force' = Drop(force, Revoked(at))
               /\ cur' = [NoRow EXCEPT !.ref = d.ref, !.place = d.place, !.at = at]
        /\ doomed' = doomed \ {d}
  BY DEF Revoke
<1> PICK at : at = IF SidecarOf(d) = {} THEN d.at ELSE side[OfRef(side, TypeOf(d.place.kind), d.ref)].at
  OBVIOUS
<1>2. /\ pc = "apply" /\ todo = {} /\ pc' = "forget"
      /\ UNCHANGED <<side, todo, want, held, lost, calm>>
  BY DEF Revoke
<1>3. PICK pl \in Place, t \in Terms : TypeOf(pl.kind) = TypeOf(d.place.kind) /\ About(d.ref, pl, t, at)
  BY RevokedIsOf
<1>4. \A u \in Own : side[u].at # at => side[u].at \notin Revoked(at)
  BY <1>1, <1>2, RevokedIsNotOf
<1>5. /\ cur'.ref = d.ref /\ cur'.place = d.place /\ cur'.at = at
      /\ force' = Drop(force, Revoked(at))
  BY <1>1 DEF NoRow
<1>6. DOMAIN force' = DOMAIN force \ Revoked(at) /\ \A o \in DOMAIN force' : force'[o] = force[o]
  BY <1>5 DEF Drop
<1>7. Rooted' /\ TodoIsPlanned' /\ CurIsPlanned'
  BY <1>2, SideKept DEF Strong, TodoIsPlanned, CurIsPlanned, UnderWay
<1>8. DoomedAreUnwanted'
  <2>1. at \notin DOMAIN force' \/ at.kind = "default_record"
    <3>1. at \in DOMAIN force /\ at.kind # "default_record" => at \in Revoked(at)
      BY DEF Revoked
    <3> QED BY <1>6, <3>1
  <2>2. Unwanted(d.ref, d.place, at)'
    <3>1. Unwanted(d.ref, d.place, d.at)
      BY DEF Strong, DoomedAreUnwanted
    <3> QED BY <1>2, <1>3, <3>1 DEF Unwanted
  <2>3. ASSUME NEW e \in doomed' PROVE Unwanted(e.ref, e.place, e.at)'
    <3>1. Unwanted(e.ref, e.place, e.at)
      BY <1>1 DEF Strong, DoomedAreUnwanted
    <3> QED BY <1>2, <3>1 DEF Unwanted
  <2> QED BY <1>2, <1>5, <1>6, <2>1, <2>2, <2>3 DEF DoomedAreUnwanted
<1>9. GrantsAreDoomedOrWanted'
  <2> SUFFICES ASSUME NEW v \in Own, TypeOf(side[v].place.kind) = "share_folder"
               PROVE  \/ \E e \in doomed' : SameRow(v, e.ref, e.place.kind)
                      \/ SameRow(v, d.ref, d.place.kind)
                      \/ \E row \in want : Type(row) = "share_folder" /\ row.place.in = side[v].place.in
    BY <1>2, <1>5, SideKept DEF GrantsAreDoomedOrWanted
  <2> QED BY <1>1, <1>2 DEF Strong, GrantsAreDoomedOrWanted
<1>10. \A o : ~Busy(o) /\ (Busy(o)' <=> o = at)
  BY <1>2, <1>5 DEF Busy, UnderWay
<1>11. Truth'
  <2> SUFFICES ASSUME NEW u \in Own, side[u].at # at, side[u].at \notin lost
               PROVE  /\ side[u].at \in DOMAIN force'
                      /\ side[u].place.kind \in ShareKinds => force'[side[u].at] = side[u].terms
    BY <1>2, <1>10, SideKept DEF Truth
  <2> QED BY <1>4, <1>6, <1>10 DEF Strong, Truth
<1>12. Remembered'
  BY <1>2, <1>6, <1>10, SideKept DEF Strong, Remembered
<1>13. Progress'
  <2>1. ~UnderWay
    BY <1>2 DEF UnderWay
  <2> QED BY <1>2, <2>1, SideKept DEF Strong, Progress
<1> QED BY <1>7, <1>8, <1>9, <1>11, <1>12, <1>13 DEF Strong
LEMMA ObjectIs ==
  ASSUME NEW r, NEW pl, NEW t, NEW at, About(r, pl, t, at)
  PROVE  at \in Object /\ at # Keep
<1> SUFFICES at \in Object
  BY SharingApplyAssumption
<1>1. pl \in Place /\ Place \subseteq Object
  BY AboutKind DEF Object
<1>2. CASE pl.kind = "folder"
  <2>1. at \in Place
    BY <1>1, <1>2 DEF About, Place
  <2> QED BY <1>1, <2>1
<1>3. CASE pl.kind = "shared_folder"
  <2>1. PICK z \in AllRows : at = z.place
    BY <1>3 DEF About
  <2> QED BY <1>1, <2>1, RowsAreTyped
<1>4. CASE pl.kind = "record_share"
  BY <1>1, <1>4 DEF About
<1>5. CASE pl.kind \in {"grantee", "default"}
  <2>1. PICK p \in PathsOf(pl.in) : at = [kind |-> ObjectKind(pl.kind, t), in |-> p, to |-> pl.to]
    BY <1>5 DEF About
  <2>2. p \in Name
    BY <2>1, RowsAreTyped DEF PathsOf, Place
  <2>3. ObjectKind(pl.kind, t) \in GrantKinds
    BY <1>5 DEF ObjectKind, GrantKinds
  <2>4. at \in [kind : GrantKinds, in : Name, to : Name]
    BY <1>1, <2>1, <2>2, <2>3 DEF Place
  <2> QED BY <2>4 DEF Object
<1> QED BY <1>1, <1>2, <1>3, <1>4, <1>5 DEF About, Place, FolderKinds, ShareKinds

LEMMA EndSettles ==
  ASSUME Strong, End, lost' = IF cur.at = Keep THEN lost ELSE lost \union {cur.at}
  PROVE  Strong'
<1>1. /\ pc' = "idle" /\ todo' = {} /\ doomed' = {} /\ cur' = NoRow /\ want' = {}
      /\ UNCHANGED <<side, force>>
  BY DEF End
<1>2. ASSUME NEW o, Busy(o) PROVE o \in lost'
  <2>1. cur.at # Keep /\ o = cur.at
    BY <1>2, ObjectIs DEF Busy, Strong, CurIsPlanned, DoomedAreUnwanted, Unwanted
  <2> QED BY <2>1
<1>3. \A o : ~Busy(o)' /\ (o \in lost => o \in lost')
  BY <1>1 DEF Busy, UnderWay
<1>4. Rooted' /\ TodoIsPlanned' /\ CurIsPlanned' /\ DoomedAreUnwanted' /\ GrantsAreDoomedOrWanted'
  BY <1>1, SideKept DEF Strong, TodoIsPlanned, CurIsPlanned, DoomedAreUnwanted,
                        GrantsAreDoomedOrWanted, UnderWay
<1>5. Truth' /\ Remembered'
  BY <1>1, <1>2, <1>3, SideKept DEF Strong, Truth, Remembered
<1>6. Progress'
  BY <1>1 DEF Progress
<1> QED BY <1>4, <1>5, <1>6 DEF Strong

\* Sidecars of other tools say nothing of our rows
LEMMA OutsideSettles ==
  ASSUME OutsidersStayApart, Inductive, Strong, OutsideSidecar
  PROVE  Strong'
<1>1. PICK row \in OutsideRows, k \in OutsideMarkers : \E u \in UidsFor[row.ref] \ DOMAIN side :
        side' = Put(side, u, [marker |-> [k EXCEPT !.ref = row.ref], place |-> row.place,
                              terms |-> row.terms, at |-> row.place])
  BY DEF OutsideSidecar
<1> DEFINE r == [marker |-> [k EXCEPT !.ref = row.ref], place |-> row.place,
                 terms |-> row.terms, at |-> row.place]
<1>2. PICK u \in UidsFor[row.ref] \ DOMAIN side : side' = Put(side, u, r)
  BY <1>1
<1>3. u \in Uid \ DOMAIN side
  BY <1>2, SharingApplyAssumption DEF Row
<1>4. /\ r.marker.manager = k.manager /\ r.marker.named = k.named /\ r.marker.ref = row.ref
      /\ k.manager # "sdk" \/ k.named = "other"
      /\ row.ref \notin RowRefs
  BY SharingApplyAssumption DEF OutsidersStayApart, Marker, RowRefs
<1>5. UNCHANGED <<force, pc, todo, doomed, cur, want, held, lost>> /\ calm' = FALSE
  BY DEF OutsideSidecar
<1> HIDE DEF r
<1>6. Own' = Own /\ \A v \in DOMAIN side : side'[v] = side[v]
  BY <1>2, <1>3, <1>4, Added
<1>7. \A v \in Own : side'[v] = side[v]
  BY <1>6 DEF Own
<1>8. /\ \A c, x : ChangeOf(c, x) => ChangeOf(c, x)'
      /\ \A x : Settled(x) => Settled(x)'
  BY <1>6, <1>7 DEF ChangeOf, Settled, SameRow
<1>9. Rooted'
  BY <1>6, <1>7 DEF Strong, Rooted
<1>10. TodoIsPlanned'
  BY <1>5, <1>8 DEF Strong, TodoIsPlanned
<1>11. CurIsPlanned' /\ DoomedAreUnwanted'
  BY <1>5 DEF Strong, CurIsPlanned, DoomedAreUnwanted, Unwanted, UnderWay
<1>12. GrantsAreDoomedOrWanted'
  BY <1>5, <1>6, <1>7 DEF Strong, GrantsAreDoomedOrWanted, SameRow
<1>13. \A o : Busy(o)' <=> Busy(o)
  BY <1>5 DEF Busy, UnderWay
<1>14. Truth' /\ Remembered'
  BY <1>5, <1>6, <1>7, <1>13 DEF Strong, Truth, Remembered
<1>15. Progress'
  BY <1>5, <1>8 DEF Strong, Progress, UnderWay
<1> QED BY <1>9, <1>10, <1>11, <1>12, <1>14, <1>15 DEF Strong

LEMMA InitiallySettled == Init => Strong
<1> SUFFICES ASSUME Init PROVE Strong
  OBVIOUS
<1>1. Own = {} /\ force = Nothing /\ DOMAIN force = {} /\ pc = "idle" /\ todo = {} /\ doomed = {}
      /\ cur = NoRow /\ want = {}
  BY DEF Init, Nothing, Own
<1> QED BY <1>1 DEF Strong, Rooted, TodoIsPlanned, CurIsPlanned, DoomedAreUnwanted,
                    GrantsAreDoomedOrWanted, Truth, Remembered, Progress, UnderWay

LEMMA NextSettles ==
  ASSUME PlacesKeepTheirRefs, OutsidersStayApart, Inductive, Strong, [Next]_vars
  PROVE  Strong'
<1>1. CASE Plan
  BY <1>1, PlanSettles
<1>2. CASE Enforce
  BY <1>2, EnforceSettles
<1>3. CASE DropSidecar
  BY <1>3, DropSettles
<1>4. CASE AddSidecar
  BY <1>4, AddSettles
<1>5. CASE MarkSidecar
  BY <1>5, MarkSettles
<1>6. CASE Revoke
  BY <1>6, RevokeSettles
<1>7. CASE Forget
  BY <1>7, ForgetSettles
<1>8. CASE Finish \/ Refuse
  <2>1. End /\ pc = "apply" /\ lost' = lost
    BY <1>8 DEF Finish, Refuse
  <2>2. cur.at = Keep
    BY <2>1 DEF Strong, DoomedAreUnwanted, NoRow
  <2> QED BY <2>1, <2>2, EndSettles
<1>9. CASE Fail
  BY <1>9, EndSettles DEF Fail
<1>10. CASE OutsideSidecar
  BY <1>10, OutsideSettles
<1>11. CASE UNCHANGED vars
  <2>1. UNCHANGED <<side, force, pc, todo, doomed, cur, want, held, lost, calm>>
    BY <1>11 DEF vars
  <2>2. (\A o : Busy(o)' <=> Busy(o)) /\ (\A r, pl, at : Unwanted(r, pl, at)' <=> Unwanted(r, pl, at))
    BY <2>1 DEF Busy, UnderWay, Unwanted
  <2>3. Rooted' /\ TodoIsPlanned' /\ CurIsPlanned' /\ DoomedAreUnwanted' /\ GrantsAreDoomedOrWanted'
    BY <2>1, <2>2, SideKept DEF Strong, TodoIsPlanned, CurIsPlanned, DoomedAreUnwanted,
                                GrantsAreDoomedOrWanted, UnderWay
  <2>4. Truth' /\ Remembered' /\ Progress'
    BY <2>1, <2>2, SideKept DEF Strong, Truth, Remembered, Progress, UnderWay
  <2> QED BY <2>3, <2>4 DEF Strong
<1> QED BY <1>1, <1>2, <1>3, <1>4, <1>5, <1>6, <1>7, <1>8, <1>9, <1>10, <1>11 DEF Next

------------------------------------------------------------------------------
(* What follows of the sidecars, at all times *)

LEMMA Invariance == ASSUME PlacesKeepTheirRefs, OutsidersStayApart PROVE Spec => [](Inductive /\ Strong)
<1>1. Init => Inductive /\ Strong
  BY Initially, InitiallySettled
<1>2. Inductive /\ Strong /\ [Next]_vars => (Inductive /\ Strong)'
  BY NextWorks, NextSettles
<1> QED BY <1>1, <1>2, PTL DEF Spec

\* A sidecar of ours says what is in force, whenever processes die and however
\* rows move between files, save for the rows a process was interrupted at.
THEOREM SidecarsAreTrue ==
  ASSUME PlacesKeepTheirRefs, OutsidersStayApart PROVE Spec => []SidecarsTellTheTruth
<1>1. Inductive /\ Strong => SidecarsTellTheTruth
  BY DEF Strong, Truth, Busy, SidecarsTellTheTruth, Interrupted
<1> QED BY <1>1, Invariance, PTL

\* A grant in force is one that a sidecar of ours names, so that a later run can
\* revoke it, save for the rows a process was interrupted at, rows that moved, and
\* default rows for records.
THEOREM GrantsAreRemembered ==
  ASSUME PlacesKeepTheirRefs, OutsidersStayApart PROVE Spec => []NothingForgotten
<1>1. Inductive /\ Strong => NothingForgotten
  BY DEF Strong, Remembered, Busy, NothingForgotten, Interrupted
<1> QED BY <1>1, Invariance, PTL

LEMMA RevokeSpares ==
  ASSUME PlacesKeepTheirRefs, Inductive, Strong, Revoke, NEW row \in want,
         row.ref \notin Moved \union held, NEW u \in SidecarOf(row), Managed(side, u),
         side[u].at \in DOMAIN force
  PROVE  side[u].at \in DOMAIN force'
<1>1. PICK d \in doomed :
        /\ \A e \in doomed : ~DeletedBefore(e, d)
        /\ LET at == IF SidecarOf(d) = {} THEN d.at ELSE side[OfRef(side, TypeOf(d.place.kind), d.ref)].at
           IN  force' = Drop(force, Revoked(at))
  BY DEF Revoke
<1> PICK at : at = IF SidecarOf(d) = {} THEN d.at ELSE side[OfRef(side, TypeOf(d.place.kind), d.ref)].at
  OBVIOUS
<1>2. PICK pl \in Place, t \in Terms : TypeOf(pl.kind) = TypeOf(d.place.kind) /\ About(d.ref, pl, t, at)
  BY RevokedIsOf
<1>3. pc = "apply" /\ want \in Versions
  BY DEF Revoke, Strong, Progress
<1>4. u \in Own /\ SameRow(u, row.ref, row.place.kind)
  BY <1>3, VersionRows, SidecarsOfRow
<1>5. side[u].at # at
  <2> SUFFICES ASSUME side[u].at = at PROVE FALSE
    OBVIOUS
  <2>1. About(row.ref, side[u].place, side[u].terms, at)
    BY <1>4 DEF Strong, Rooted, SameRow
  <2>2. row.ref = d.ref /\ side[u].place.kind = pl.kind
    BY <1>2, <2>1, OneRowEach
  <2>3. Type(row) = TypeOf(d.place.kind)
    BY <1>2, <1>4, <2>2 DEF SameRow, Type
  <2> QED BY <2>2, <2>3 DEF Strong, DoomedAreUnwanted, Unwanted
<1>6. side[u].at \notin Revoked(at)
  BY <1>1, <1>3, <1>4, <1>5, RevokedIsNotOf
<1>7. force' = Drop(force, Revoked(at))
  BY <1>1
<1> QED BY <1>6, <1>7 DEF Drop

\* A delete never takes away what a row of the file has in force, unless the row
\* moved or was passed over, whichever folders and grants it takes with it.
THEOREM WantedIsSpared ==
  ASSUME PlacesKeepTheirRefs, OutsidersStayApart PROVE Spec => RevokesOnlyUnwanted
<1>1. Inductive /\ Strong =>
        [Revoke =>
           \A row \in want : row.ref \notin Moved \union held =>
              \A u \in SidecarOf(row) : Managed(side, u) /\ side[u].at \in DOMAIN force =>
                 side[u].at \in DOMAIN force']_vars
  BY RevokeSpares
<1> QED BY <1>1, Invariance, PTL DEF RevokesOnlyUnwanted

------------------------------------------------------------------------------
(* The end of an apply *)

\* What a row that was passed over is matched with, if it is planned again
LEMMA HiddenIsMatch ==
  ASSUME Inductive, NEW row \in AllRows, NEW w \in DOMAIN side, HiddenBy(w, row)
  PROVE  Match(side, row) = w /\ w # NoUid /\ ~Managed(side, w)
<1> DEFINE S == {v \in Live(side, Type(row)) : SamePlace(side[v].place, row.place)}
           R == {v \in Live(side, Type(row)) : side[v].marker.ref = row.ref}
<1>1. S \subseteq Uid /\ w \in S /\ \A v \in S : w <= v
  BY LiveAreUids DEF Inductive, HiddenBy
<1>2. AtPlace(side, Type(row), row.place) = w
  BY <1>1, FirstIs DEF AtPlace
<1>3. Type(row) \in FolderKinds => OfRef(side, Type(row), row.ref) = NoUid
  <2> SUFFICES ASSUME R = {} PROVE OfRef(side, Type(row), row.ref) = NoUid
    BY DEF HiddenBy
  <2> QED BY DEF OfRef, First
<1>4. w # NoUid /\ ~Managed(side, w)
  BY NoUidIsNone DEF Inductive, HiddenBy, Own
<1>5. Match(side, row) = w
  BY <1>2, <1>3, Types DEF Match, FolderMatch, SharedFolderMatch, RecordShareMatch,
                           ShareFolderMatch, ByRefOrPlace, FolderKinds
<1> QED BY <1>4, <1>5

LEMMA SettledIsNotWritten ==
  ASSUME PlacesKeepTheirRefs, Inductive, Strong, NEW row \in AllRows, Settled(row)
  PROVE  row \notin ToAdd(side, {row}) \union ToUpdate(side, {row})
<1> DEFINE w == Match(side, row)
<1>1. PICK u \in Own : /\ side[u].marker.ref = row.ref /\ side[u].place = row.place
                       /\ side[u].terms = row.terms \/ row.terms = Unset
  BY DEF Settled
<1>2. u \in Live(side, Type(row)) /\ SamePlace(side[u].place, row.place) /\ u # NoUid
  BY <1>1, NoUidIsNone DEF Inductive, Own, Live, Managed, Type, SamePlace
<1>3. w # NoUid
  BY <1>2, MatchIs DEF Strong
<1>4. ASSUME Managed(side, w) PROVE ~Drift(side[w], row)
  <2>1. w \in Own /\ SameRow(w, row.ref, row.place.kind)
    BY <1>3, <1>4, MatchIs DEF Strong
  <2>2. w = u
    BY <1>1, <2>1 DEF Inductive, OneSidecarPerRow, SameRow
  <2> HIDE DEF w
  <2>3. row.terms = Unset => Type(row) = "shared_folder"
    BY SharingApplyAssumption DEF AllRows, Type, TypeOf
  <2> QED BY <1>1, <2>2, <2>3 DEF Drift, FolderDrift, SharedFolderDrift
<1> QED BY <1>3, <1>4 DEF ToAdd, ToUpdate

LEMMA FinishedIsSettled ==
  ASSUME Strong, Finish, NEW row \in want, row.ref \notin held \union Moved
  PROVE  Settled(row)
BY DEF Strong, Progress, Finish, UnderWay

LEMMA FinishedIsInForce ==
  ASSUME Inductive, Strong, Finish, NEW row \in want, row.ref \notin held \union Moved
  PROVE  InForce(row) \/ \E u \in SidecarOf(row) : side[u].at \in lost
<1>1. want \in Versions /\ \A o : ~Busy(o)
  BY DEF Finish, Strong, Progress, Busy, UnderWay
<1>2. row \in AllRows /\ row.ref \in RowRefs
  BY <1>1, VersionRows
<1>3. PICK u \in Own : /\ side[u].marker.ref = row.ref /\ side[u].place = row.place
                       /\ side[u].terms = row.terms \/ row.terms = Unset
  BY FinishedIsSettled DEF Settled
<1>4. u \in SidecarOf(row)
  BY <1>2, <1>3, SidecarsOfRow DEF SameRow
<1>5. side[u].terms \in Terms
  BY AboutKind DEF Strong, Rooted
<1>6. row.place.kind \in ShareKinds => side[u].terms = row.terms
  BY <1>2, <1>3, SharingApplyAssumption DEF AllRows, ShareKinds
<1>7. CASE side[u].at \notin lost
  <2>1. side[u].at \in DOMAIN force /\ (side[u].place.kind \in ShareKinds => force[side[u].at] = side[u].terms)
    BY <1>1, <1>7 DEF Strong, Truth
  <2> QED BY <1>3, <1>4, <1>5, <1>6, <2>1 DEF InForce
<1> QED BY <1>4, <1>7

LEMMA FinishedIsClean ==
  ASSUME PlacesKeepTheirRefs, Inductive, Strong, Finish, calm, NEW c \in Writes(side, want)
  PROVE  c.ref \in Moved
<1>1. want \in Versions
  BY DEF Finish, Strong, Progress
<1>2. PICK row \in want : row \in ToAdd(side, want) \union ToUpdate(side, want) /\ c.ref = row.ref
  BY DEF Writes, ToAdd, ToUpdate, CreateOf, UpdateOf
<1>3. row \in AllRows /\ row \in ToAdd(side, {row}) \union ToUpdate(side, {row})
  BY <1>1, <1>2, VersionRows DEF ToAdd, ToUpdate
<1> SUFFICES ASSUME row.ref \notin Moved PROVE FALSE
  BY <1>2
<1>4. CASE row.ref \in held
  <2>1. PICK w \in DOMAIN side : HiddenBy(w, row)
    BY <1>4 DEF Strong, Progress
  <2> QED BY <1>3, <2>1, HiddenIsMatch DEF ToAdd, ToUpdate
<1>5. CASE row.ref \notin held
  BY <1>3, <1>5, FinishedIsSettled, SettledIsNotWritten
<1> QED BY <1>4, <1>5

\* An apply that ends with 0 has brought every row of its file in force, and a
\* second plan has nothing to write, whatever the runs before it left behind,
\* save for the rows it passed over, those that moved, and those at which an
\* earlier process was interrupted.
THEOREM AppliedMeansInForce ==
  ASSUME PlacesKeepTheirRefs, OutsidersStayApart PROVE Spec => AppliedIsInForce
<1>1. Inductive /\ Strong =>
        [Finish /\ calm =>
           /\ \A row \in want :
                row.ref \notin held \union Moved =>
                  InForce(row) \/ \E u \in SidecarOf(row) : side[u].at \in lost
           /\ \A c \in Writes(side, want) : c.ref \in Moved]_vars
  BY FinishedIsInForce, FinishedIsClean
<1> QED BY <1>1, Invariance, PTL DEF AppliedIsInForce

------------------------------------------------------------------------------
(* Types, whatever the files and the other tools are like *)

Sidecar == [marker : Marker, place : Place, terms : Terms, at : Object]

UnderWayRow == [ref : Ref, place : Place, terms : Terms, at : Object, uid : Uid \union {NoUid}]

SideIsTyped ==
  /\ DOMAIN side \subseteq Uid
  /\ side \in [DOMAIN side -> Sidecar]
  /\ \A u \in DOMAIN side : side[u].marker.manager # "none" => side[u].marker.ref \in Ref

PlanIsTyped ==
  /\ \A c \in todo :
       /\ c.ref \in Ref
       /\ c.kind = "create" => c.place \in Place /\ c.terms \in Terms
       /\ c.place \in Place \union {Keep} /\ c.terms \in Terms \union {Keep}
  /\ \A d \in doomed : d.ref \in Ref
  /\ UnderWay => cur \in UnderWayRow

TypeInv == TypeOK /\ SideIsTyped /\ PlanIsTyped

LEMMA PlacesAreObjects == Place \subseteq Object
BY DEF Object

LEMMA KeepIsNone == Keep \notin Place /\ Keep \notin Terms /\ NoRef \notin Ref
BY SharingDiffAssumption

\* A sidecar that an index finds
LEMMA OfRefIsThere ==
  ASSUME SideIsTyped, NEW type, NEW r, OfRef(side, type, r) # NoUid
  PROVE  OfRef(side, type, r) \in DOMAIN side /\ side[OfRef(side, type, r)] \in Sidecar
<1> DEFINE S == {u \in Live(side, type) : side[u].marker.ref = r}
<1>1. S \subseteq DOMAIN side /\ S \subseteq Uid
  BY DEF Live, SideIsTyped
<1>2. S # {}
  BY DEF OfRef, First
<1>3. OfRef(side, type, r) \in S
  BY <1>1, <1>2, FirstIsIn DEF OfRef
<1> QED BY <1>1, <1>3 DEF SideIsTyped

LEMMA PlanTyped == ASSUME TypeInv, Plan PROVE TypeInv'
<1>1. PICK rows \in Versions, allow \in BOOLEAN :
        todo' = Writes(side, rows) /\ doomed' = Removals(side, rows, allow) /\ want' = rows
  BY DEF Plan
<1>2. pc = "idle" /\ pc' = "apply" /\ UNCHANGED <<side, force, cur, fails, outside>>
  BY DEF Plan
<1>3. \A row \in rows : row.ref \in Ref /\ row.place \in Place /\ row.terms \in Terms
  <2>1. \A row \in rows : row \in Row
    BY VersionRows, RowsAreTyped
  <2> QED BY <2>1 DEF Row
<1>4. \A d \in doomed' : d.ref \in Ref
  <2>1. \A u \in Orphans(side, rows) : u \in DOMAIN side /\ side[u].marker.manager # "none"
    BY DEF Orphans, Unmatched
  <2>2. \A u \in Orphans(side, rows) : RemovalOf(side, u).ref \in Ref
    BY <2>1 DEF TypeInv, SideIsTyped, RemovalOf
  <2> QED BY <1>1, <2>2 DEF Removals
<1>5. ASSUME NEW c \in todo'
      PROVE  /\ c.ref \in Ref
             /\ c.kind = "create" => c.place \in Place /\ c.terms \in Terms
             /\ c.place \in Place \union {Keep} /\ c.terms \in Terms \union {Keep}
  <2>1. CASE \E row \in rows : c = CreateOf(row)
    BY <1>3, <2>1 DEF CreateOf
  <2>2. CASE \E row \in rows : c = UpdateOf(side, row)
    BY <1>3, <2>2 DEF UpdateOf
  <2> QED BY <1>1, <2>1, <2>2 DEF Writes, ToAdd, ToUpdate
<1>6. SideIsTyped'
  BY <1>2 DEF TypeInv, SideIsTyped
<1>7. PlanIsTyped'
  BY <1>2, <1>4, <1>5 DEF PlanIsTyped, UnderWay
<1>8. TypeOK'
  BY <1>1, <1>2 DEF TypeInv, TypeOK
<1> QED BY <1>6, <1>7, <1>8 DEF TypeInv

LEMMA EnforceTyped == ASSUME TypeInv, Enforce PROVE TypeInv'
<1>1. PICK c \in todo :
        /\ Possible(c) /\ todo' = todo \ {c}
        /\ force' = Enforced(Subject(c, FullPayload(c)), FullPayload(c).terms)
        /\ cur' = [ref |-> FullPayload(c).ref, place |-> FullPayload(c).place,
                   terms |-> FullPayload(c).terms, at |-> Subject(c, FullPayload(c)), uid |-> NoUid]
  BY DEF Enforce
<1> DEFINE r == side[OfRef(side, c.type, c.ref)]
           row == FullPayload(c)
           pl == row.place
           o == Subject(c, row)
<1>2. pc = "apply" /\ pc' = "drop" /\ UNCHANGED <<side, doomed, want, outside, fails>>
  BY DEF Enforce
<1>3. c.kind # "create" => r \in Sidecar
  BY <1>1, OfRefIsThere DEF Possible, Mergeable, TypeInv
<1>4. row.ref = c.ref /\ c.ref \in Ref
  BY DEF FullPayload, TypeInv, PlanIsTyped
<1>5. pl \in Place /\ row.terms \in Terms
  BY <1>3, KeepIsNone DEF FullPayload, TypeInv, PlanIsTyped, Sidecar
<1>6. row.at \in Object
  BY <1>3, PlacesAreObjects DEF FullPayload, TypeInv, PlanIsTyped, Sidecar
<1>7. pl.kind # "record" /\ (pl.kind \in {"grantee", "default"} => Resolved(pl.in) # NoUid)
  BY <1>1 DEF Possible
<1> HIDE DEF r, row
<1>8. o \in Object
  <2>1. CASE pl.kind = "folder"
    <3>1. o \in Place
      BY <1>5, <2>1 DEF Subject, Place
    <3> QED BY <3>1, PlacesAreObjects
  <2>2. CASE pl.kind = "shared_folder"
    BY <1>6, <2>2 DEF Subject
  <2>3. CASE pl.kind = "record_share"
    BY <1>5, <2>3, PlacesAreObjects DEF Subject
  <2>4. CASE pl.kind \in {"grantee", "default"}
    <3>1. side[Resolved(pl.in)] \in Sidecar
      BY <1>7, <2>4, OfRefIsThere DEF Resolved, TypeInv
    <3>2. side[Resolved(pl.in)].at.to \in Name
      BY <3>1 DEF Sidecar, Object, Place
    <3>3. o \in [kind : GrantKinds, in : Name, to : Name]
      BY <1>5, <2>4, <3>2 DEF Subject, GrantKinds, Place
    <3> QED BY <3>3 DEF Object
  <2> QED BY <1>5, <1>7, <2>1, <2>2, <2>3, <2>4 DEF Place, FolderKinds, ShareKinds
<1>9. cur' = [ref |-> c.ref, place |-> pl, terms |-> row.terms, at |-> o, uid |-> NoUid]
      /\ force' = Enforced(o, row.terms)
  BY <1>1, <1>4 DEF row
<1> HIDE DEF pl, o
<1>10. cur' \in UnderWayRow /\ cur'.ref # NoRef
  BY <1>4, <1>5, <1>8, <1>9, KeepIsNone DEF UnderWayRow
<1>11. \A p \in DOMAIN force' : force'[p] \in Terms
  BY <1>5, <1>9 DEF Enforced, Put, TypeInv, TypeOK
<1>12. SideIsTyped' /\ PlanIsTyped'
  BY <1>1, <1>2, <1>10 DEF TypeInv, SideIsTyped, PlanIsTyped
<1>13. TypeOK'
  BY <1>2, <1>10, <1>11 DEF TypeInv, TypeOK
<1> QED BY <1>12, <1>13 DEF TypeInv

\* Sidecars that are removed, and one that is added
LEMMA DroppedTyped == ASSUME SideIsTyped, NEW S, side' = Drop(side, S) PROVE SideIsTyped'
<1>1. DOMAIN side' = DOMAIN side \ S /\ \A u \in DOMAIN side' : side'[u] = side[u]
  BY DEF Drop
<1>2. side' = [u \in DOMAIN side' |-> side'[u]]
  BY DEF Drop
<1> QED BY <1>1, <1>2 DEF SideIsTyped

LEMMA PutTyped ==
  ASSUME SideIsTyped, NEW u \in Uid, NEW r \in Sidecar, side' = Put(side, u, r),
         r.marker.manager # "none" => r.marker.ref \in Ref
  PROVE  SideIsTyped'
<1>1. /\ DOMAIN side' = DOMAIN side \union {u} /\ side'[u] = r
      /\ \A v \in DOMAIN side : v # u => side'[v] = side[v]
      /\ side' = [v \in DOMAIN side' |-> side'[v]]
  BY DEF Put
<1> QED BY <1>1 DEF SideIsTyped

LEMMA SideGivesTypeOK ==
  ASSUME TypeOK, SideIsTyped', UNCHANGED <<force, want, outside, fails>>, todo' = todo, doomed' = doomed,
         pc # "idle", pc' \in {"apply", "drop", "add", "mark", "forget"},
         cur'.ref # NoRef <=> pc' # "apply"
  PROVE  TypeOK'
<1>1. \A u \in DOMAIN side' : side'[u].marker \in Marker /\ side'[u].place \in Place
  BY DEF SideIsTyped, Sidecar
<1> QED BY <1>1 DEF TypeOK, SideIsTyped

LEMMA SidecarStepsTyped ==
  ASSUME TypeInv, DropSidecar \/ AddSidecar \/ MarkSidecar \/ Forget
  PROVE  TypeInv'
<1>1. CASE DropSidecar
  <2>1. /\ side' = Drop(side, SidecarOf(cur)) /\ pc = "drop" /\ pc' = "add"
        /\ UNCHANGED <<force, todo, doomed, cur, want, outside, fails>>
    BY <1>1 DEF DropSidecar
  <2>2. SideIsTyped'
    BY <2>1, DroppedTyped DEF TypeInv
  <2>3. PlanIsTyped' /\ cur'.ref # NoRef
    BY <2>1 DEF TypeInv, TypeOK, PlanIsTyped, UnderWay
  <2> QED BY <2>1, <2>2, <2>3, SideGivesTypeOK DEF TypeInv
<1>2. CASE AddSidecar
  <2> DEFINE u == First(UidsFor[cur.ref] \ DOMAIN side)
             r == [marker |-> Unmarked, place |-> cur.place, terms |-> cur.terms, at |-> cur.at]
  <2>1. /\ side' = Put(side, u, r) /\ cur' = [cur EXCEPT !.uid = u]
        /\ pc = "add" /\ pc' = "mark" /\ UidsFor[cur.ref] \ DOMAIN side # {}
        /\ UNCHANGED <<force, todo, doomed, want, outside, fails>>
    BY <1>2 DEF AddSidecar
  <2>2. cur \in UnderWayRow
    BY <2>1 DEF TypeInv, PlanIsTyped, UnderWay
  <2>3. u \in Uid
    <3>1. UidsFor[cur.ref] \subseteq Uid
      BY <2>2, SharingApplyAssumption DEF UnderWayRow
    <3> QED BY <2>1, <3>1, FirstIsIn
  <2>4. Unmarked \in Marker /\ Unmarked.manager = "none"
    BY DEF Unmarked, Marker
  <2>5. r \in Sidecar /\ r.marker = Unmarked
    BY <2>2, <2>4 DEF UnderWayRow, Sidecar
  <2> HIDE DEF u, r
  <2>6. SideIsTyped'
    BY <2>1, <2>3, <2>4, <2>5, PutTyped DEF TypeInv
  <2>7. cur' \in UnderWayRow /\ cur'.ref # NoRef
    BY <2>1, <2>2, <2>3, KeepIsNone DEF UnderWayRow
  <2>8. PlanIsTyped'
    BY <2>1, <2>7 DEF TypeInv, PlanIsTyped
  <2> QED BY <2>1, <2>6, <2>7, <2>8, SideGivesTypeOK DEF TypeInv
<1>3. CASE MarkSidecar
  <2> DEFINE u == cur.uid
  <2>1. /\ pc = "mark" /\ pc' = "apply" /\ u \in DOMAIN side
        /\ side' = [side EXCEPT ![u].marker = EncodeMarker(cur.ref)]
        /\ cur' = NoRow
        /\ UNCHANGED <<force, todo, doomed, want, outside, fails>>
    BY <1>3 DEF MarkSidecar
  <2>2. cur.ref \in Ref
    BY <2>1 DEF TypeInv, PlanIsTyped, UnderWay, UnderWayRow
  <2>3. EncodeMarker(cur.ref) \in Marker /\ EncodeMarker(cur.ref).ref = cur.ref
    BY <2>2 DEF EncodeMarker, Marker
  <2> HIDE DEF u
  <2>4. /\ side' \in [DOMAIN side -> Sidecar] /\ DOMAIN side' = DOMAIN side
        /\ \A v \in DOMAIN side \ {u} : side'[v] = side[v]
        /\ side'[u].marker = EncodeMarker(cur.ref)
    BY <2>1, <2>3 DEF TypeInv, SideIsTyped, Sidecar
  <2>5. SideIsTyped'
    BY <2>2, <2>3, <2>4 DEF TypeInv, SideIsTyped
  <2>6. PlanIsTyped' /\ cur'.ref = NoRef
    BY <2>1 DEF TypeInv, PlanIsTyped, UnderWay, NoRow
  <2> QED BY <2>1, <2>5, <2>6, SideGivesTypeOK DEF TypeInv
<1>4. CASE Forget
  <2>1. /\ side' = Drop(side, SidecarOf(cur)) /\ pc = "forget" /\ pc' = "apply" /\ cur' = NoRow
        /\ UNCHANGED <<force, todo, doomed, want, outside, fails>>
    BY <1>4 DEF Forget
  <2>2. SideIsTyped'
    BY <2>1, DroppedTyped DEF TypeInv
  <2>3. PlanIsTyped' /\ cur'.ref = NoRef
    BY <2>1 DEF TypeInv, PlanIsTyped, UnderWay, NoRow
  <2> QED BY <2>1, <2>2, <2>3, SideGivesTypeOK DEF TypeInv
<1> QED BY <1>1, <1>2, <1>3, <1>4

LEMMA RevokeTyped == ASSUME TypeInv, Revoke PROVE TypeInv'
<1>1. PICK d \in doomed : \E at :
        /\ force' = Drop(force, Revoked(at)) /\ doomed' = doomed \ {d}
        /\ cur' = [NoRow EXCEPT !.ref = d.ref, !.place = d.place, !.at = at]
  BY DEF Revoke
<1>2. pc = "apply" /\ pc' = "forget" /\ UNCHANGED <<side, todo, want, outside, fails>>
  BY DEF Revoke
<1>3. cur'.ref = d.ref /\ d.ref \in Ref /\ d.ref # NoRef
  BY <1>1, KeepIsNone DEF NoRow, TypeInv, PlanIsTyped
<1>4. \A o \in DOMAIN force' : force'[o] \in Terms
  BY <1>1 DEF Drop, TypeInv, TypeOK
<1>5. SideIsTyped' /\ PlanIsTyped'
  BY <1>1, <1>2 DEF TypeInv, SideIsTyped, PlanIsTyped, UnderWay
<1>6. TypeOK'
  BY <1>2, <1>3, <1>4 DEF TypeInv, TypeOK
<1> QED BY <1>5, <1>6 DEF TypeInv

LEMMA EndTyped == ASSUME TypeInv, Finish \/ Refuse \/ Fail PROVE TypeInv'
<1>1. /\ pc' = "idle" /\ todo' = {} /\ doomed' = {} /\ cur' = NoRow /\ want' = {}
      /\ UNCHANGED <<side, force, outside>>
  BY DEF Finish, Refuse, Fail, End
<1>2. fails' \in 0..MaxFails
  BY SharingApplyAssumption DEF Finish, Refuse, Fail, TypeInv, TypeOK
<1> QED BY <1>1, <1>2 DEF TypeInv, TypeOK, SideIsTyped, PlanIsTyped, UnderWay, NoRow

LEMMA OutsideTyped == ASSUME TypeInv, OutsideSidecar PROVE TypeInv'
<1>1. PICK row \in OutsideRows, k \in OutsideMarkers : \E u \in UidsFor[row.ref] \ DOMAIN side :
        side' = Put(side, u, [marker |-> [k EXCEPT !.ref = row.ref], place |-> row.place,
                              terms |-> row.terms, at |-> row.place])
  BY DEF OutsideSidecar
<1> DEFINE r == [marker |-> [k EXCEPT !.ref = row.ref], place |-> row.place,
                 terms |-> row.terms, at |-> row.place]
<1>2. PICK u \in UidsFor[row.ref] \ DOMAIN side : side' = Put(side, u, r)
  BY <1>1
<1>3. row \in Row /\ k \in Marker
  BY SharingApplyAssumption
<1>4. u \in Uid /\ row.ref \in Ref
  BY <1>2, <1>3, SharingApplyAssumption DEF Row
<1>5. r.marker \in Marker /\ r.marker.ref = row.ref
  BY <1>3 DEF Marker, Row
<1>6. r \in Sidecar
  BY <1>3, <1>5, PlacesAreObjects DEF Sidecar, Row
<1> HIDE DEF r
<1>7. SideIsTyped'
  BY <1>2, <1>4, <1>5, <1>6, PutTyped DEF TypeInv
<1>8. UNCHANGED <<force, pc, todo, doomed, cur, want, fails>>
  BY DEF OutsideSidecar
<1>9. outside' \in 0..MaxOutside
  BY SharingApplyAssumption DEF OutsideSidecar, TypeInv, TypeOK
<1>10. PlanIsTyped'
  BY <1>8 DEF TypeInv, PlanIsTyped, UnderWay
<1>11. \A v \in DOMAIN side' : side'[v].marker \in Marker /\ side'[v].place \in Place
  BY <1>7 DEF SideIsTyped, Sidecar
<1>12. TypeOK'
  BY <1>7, <1>8, <1>9, <1>11 DEF TypeInv, TypeOK, SideIsTyped
<1> QED BY <1>7, <1>10, <1>12 DEF TypeInv

\* Every variable keeps its type: only uid_refs of the model are deleted, written
\* and marked, and an idle process has no plan, whoever else writes sidecars.
THEOREM TypeCorrect == Spec => []TypeOK
<1>1. Init => TypeInv
  <2> SUFFICES ASSUME Init PROVE TypeInv
    OBVIOUS
  <2>1. DOMAIN side = {} /\ side \in [DOMAIN side -> Sidecar] /\ DOMAIN force = {}
    BY DEF Init, Nothing
  <2> QED BY <2>1, SharingApplyAssumption DEF Init, TypeInv, TypeOK, SideIsTyped, PlanIsTyped, UnderWay, NoRow
<1>2. TypeInv /\ [Next]_vars => TypeInv'
  <2> SUFFICES ASSUME TypeInv, [Next]_vars PROVE TypeInv'
    OBVIOUS
  <2>1. CASE UNCHANGED vars
    BY <2>1 DEF vars, TypeInv, TypeOK, SideIsTyped, PlanIsTyped, UnderWay
  <2> QED BY <2>1, PlanTyped, EnforceTyped, SidecarStepsTyped, RevokeTyped, EndTyped, OutsideTyped DEF Next
<1>3. TypeInv => TypeOK
  BY DEF TypeInv
<1> QED BY <1>1, <1>2, <1>3, PTL DEF Spec
==============================================================================
