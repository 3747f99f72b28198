------------------------------ MODULE MCSharing ------------------------------
(* A small instance of SharingApply for TLC. *)
EXTENDS SharingApply

At(kind, in, to) == [kind |-> kind, in |-> in, to |-> to]
R(ref, place, terms) == [ref |-> ref, place |-> place, terms |-> terms]

Team   == R("sf", At("shared_folder", NoRef, "/Team"), Unset)
Closed == R("sf", At("shared_folder", NoRef, "/Team"), "no_edit")

Ann      == R("ann", At("grantee", "sf", "ann@x"), "use")
Any      == R("any", At("default", "sf", "*"), "edit_records")
Bob(t)   == R("bob", At("record_share", "db", "bob@x"), t)
Ops      == R("ops", At("folder", NoRef, "/Ops"), "red")
Eve(who) == R("eve", At("grantee", "sf", who), "use")

Ghost    == R("ghost", At("record_share", "gone", "bob@x"), "use")

\* permissions change, a grant moves to somebody else, the shared folder goes,
\* and a share is of a record that cannot be found
MCVersions ==
  {{Team, Bob("use"), Eve("eve@x")},
   {Closed, Any},
   {Team, Ann, Eve("mal@x")},
   {Ops, Bob("manage"), Ghost}}

Order == [r \in Ref |-> CASE r = "sf" -> 1 [] r = "ann" -> 2 [] r = "any" -> 3 [] r = "bob" -> 4
                           [] r = "eve" -> 5 [] r = "ops" -> 6 [] r = "ghost" -> 7
                           [] r = "db" -> 8 [] r = "gone" -> 9 [] OTHER -> 10]

\* a sidecar of another tool is listed before ours; a row of ours has a second
\* uid for when a marker was never written to the first
MCUidsFor == [r \in Ref |-> IF r = "theirs" THEN {1} ELSE {2 * Order[r], 2 * Order[r] + 1}]

Foreign == {[manager |-> "foreign", supported |-> FALSE, ref |-> NoRef, named |-> "absent"]}
MCOutsideRows == {[Bob("use") EXCEPT !.ref = "theirs"]}

ASSUME PlacesKeepTheirRefs /\ OutsidersStayApart
=============================================================================
