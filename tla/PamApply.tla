------------------------------ MODULE PamApply ------------------------------
(***************************************************************************)
(* `dsk apply` and `dsk import` of a pam-environment.v1 manifest through   *)
(* Commander.  Unlike vault records, PAM records are not written one by    *)
(* one: a single `pam project import` or `extend` is given the whole       *)
(* manifest, and only then are the records it left found again by their    *)
(* titles, tuned, marked, given their rotation, and the orphans removed.   *)
(* One process at a time; it may die between any two calls.                *)
(***************************************************************************)
EXTENDS PamDiff, FiniteSets

CONSTANTS
  Ours,        \* name of the manifest
  Versions,    \* contents of its file: rows, and gateways to create
  Gateway,     \* names of gateways
  Strangers,   \* records that people and other tools add
  MaxTrouble   \* how often a call fails, a row does not appear, or others interfere

\* A record of the two folders, as discover returns it
IsRecord(x) ==
  /\ x = [title |-> x.title, body |-> x.body, rotation |-> x.rotation, scripts |-> x.scripts,
          settings |-> x.settings, marker |-> x.marker]
  /\ x.title \in Title /\ x.body \in Body /\ x.marker \in Markers

ASSUME PamApplyAssumption ==
  /\ Ours \in ManifestName
  /\ Uid \subseteq Nat /\ IsFiniteSet(Uid)
  /\ \A v \in Versions : v.gateways \subseteq Gateway
  /\ \A v \in Versions : Loads(v.rows) /\ IsFiniteSet(v.rows) /\ \A row \in v.rows : IsRow(row)
  /\ \A x \in Strangers : IsRecord(x)
  /\ MaxTrouble \in Nat

VARIABLES
  rec,      \* the project's two folders: uid -> record
  used,     \* uids that were given out
  gates,    \* gateways to create
  pc,       \* "idle", "gateway", "bulk", "look", "mark", "tuned", "rotate", "attach", "delete"
  want,     \* the version applied
  adopting, \* the process is `dsk import`
  extend,   \* the plan has an update, and the command is `pam project extend`
  todo,     \* rows whose step in pc's loop is to come
  doomed,   \* uids to delete
  known,    \* the uids in the plan: uid_ref -> uid
  seen,     \* what the second discover found: uid -> title and marker's ref
  cur,      \* the change being tuned and marked, and its record
  fresh,    \* records marked by this process
  cut,      \* records that a process marked without a rotation
  calm,     \* nobody else has touched the folders since the plan
  twice,    \* an import was repeated on the server
  fails, lapses, outside

plan == <<want, adopting, extend, doomed, known>>
bounds == <<twice, fails, lapses, outside>>
vars == <<rec, used, gates, pc, plan, todo, seen, cur, fresh, cut, calm, bounds>>

Empty == [u \in {} |-> u]
NoCur == [ref |-> NoRef, uid |-> NoUid]
NoVersion == [rows |-> {}, gateways |-> {}]
NotKnown == [r \in Ref |-> NoUid]

Init ==
  /\ rec = Empty /\ used = {} /\ gates = {} /\ pc = "idle"
  /\ want = NoVersion /\ adopting = FALSE /\ extend = FALSE /\ doomed = {} /\ known = NotKnown
  /\ todo = {} /\ seen = Empty /\ cur = NoCur /\ fresh = {} /\ cut = {} /\ calm = TRUE
  /\ twice = FALSE /\ fails = 0 /\ lapses = 0 /\ outside = 0

Wanted == want.rows
Trouble == fails + lapses + outside

RowOf(r) == CHOOSE row \in Wanted : row.ref = r

------------------------------------------------------------------------------
(* The plan, from a discover of both folders *)

\* The uids of the plan's changes, by uid_ref
KnownIn(rows, dead) ==
  [r \in Ref |->
     IF \E row \in rows : row.ref = r
     THEN Found(rec, CHOOSE row \in rows : row.ref = r)
     ELSE IF \E u \in dead : rec[u].marker.ref = r
     THEN CHOOSE u \in dead : rec[u].marker.ref = r ELSE NoUid]

Start(v, rows, gws, dead) ==
  /\ pc' = "gateway"
  /\ want' = v /\ todo' = rows /\ doomed' = dead /\ gates' = gws
  /\ known' = KnownIn(v.rows, dead)
  /\ calm' = TRUE
  /\ UNCHANGED <<rec, used, seen, cur, fresh, cut, bounds>>

\* apply: gateways are not among the discovered records, so those to create
\* make a change every time.  Capability gaps are conflicts, and with
\* --allow-delete they are refused by apply_plan.
PlanApply ==
  /\ pc = "idle"
  /\ \E v \in Versions, allow \in BOOLEAN :
       LET writes == Additions(rec, v.rows) \union Drifted(rec, v.rows) IN
       /\ ~Raises(rec, v.rows) /\ Gaps(v.rows) = {}
       /\ ~Clean(rec, v.rows, Ours, allow) \/ v.gateways # {}
       /\ Conflicts(rec, v.rows, Ours, allow) => allow
       /\ Start(v, writes, v.gateways, Removals(rec, v.rows, Ours, allow))
       /\ extend' = (Drifted(rec, v.rows) # {})
  /\ adopting' = FALSE

\* import: the adoptions alone, each of them an update
PlanImport ==
  /\ pc = "idle"
  /\ \E v \in Versions :
       /\ ~Raises(rec, v.rows) /\ Gaps(v.rows) = {}
       /\ Adoptions(rec, v.rows) # {}
       /\ Start(v, Adoptions(rec, v.rows), {}, {})
  /\ extend' = TRUE
  /\ adopting' = TRUE

------------------------------------------------------------------------------
(* apply_plan *)

\* _apply_gateway_lifecycle_changes, before anything else; it makes a gateway of
\* each name again, whether there is one or not
Gateways ==
  /\ pc = "gateway"
  /\ \/ /\ \E g \in gates : gates' = gates \ {g}
        /\ UNCHANGED pc
     \/ /\ gates = {}
        /\ pc' = IF todo = {} THEN "delete" ELSE "bulk"
        /\ UNCHANGED gates
  /\ UNCHANGED <<rec, used, plan, todo, seen, cur, fresh, cut, calm, bounds>>

\* What the server makes of a payload row: it sets the options that nobody
\* asked for, and leaves the settings that are tuned later
Imported(row) ==
  [title |-> row.title, body |-> row.body, rotation |-> Off, scripts |-> FALSE,
   settings |-> IF Kind[row.title] \in Resources THEN Unowned ELSE Empty, marker |-> Unmarked]

\* Records for the rows in S, with new uids
Added(S, uids) ==
  LET at == CHOOSE f \in [uids -> S] : \A row \in S : \E u \in uids : f[u] = row IN
  [u \in uids |-> Imported(at[u])]

FreshUids(n) == {u \in Uid \ used : Cardinality({v \in Uid \ used : v < u}) < n}

\* extend writes over a record that it finds by its title
Overwritten(x) ==
  IF extend /\ \E row \in Wanted : row.title = x.title
  THEN [x EXCEPT !.body = (CHOOSE row \in Wanted : row.title = x.title).body] ELSE x

\* The one call.  Rows are looked up by their titles; extend writes over what it
\* finds, import leaves it, or (Commander 17) adds every row again.  A row may
\* fail to appear, which Commander reports as success.
Bulk ==
  /\ pc = "bulk"
  /\ LET new == {row \in Wanted : Titled(rec, row.title) = {}} IN
     \E again \in BOOLEAN, gone \in SUBSET new :
       LET adds == IF again THEN Wanted ELSE new \ gone IN
       /\ again => ~extend /\ new # Wanted /\ gone = {} /\ ~twice
       /\ gone # {} => Trouble < MaxTrouble /\ Cardinality(gone) = 1
       /\ Cardinality(adds) <= Cardinality(Uid \ used)
       /\ rec' = [u \in DOMAIN rec \union FreshUids(Cardinality(adds)) |->
                    IF u \in DOMAIN rec THEN Overwritten(rec[u])
                    ELSE Added(adds, FreshUids(Cardinality(adds)))[u]]
       /\ used' = used \union FreshUids(Cardinality(adds))
       /\ twice' = (twice \/ again)
       /\ lapses' = lapses + Cardinality(gone)
  /\ pc' = "look"
  /\ UNCHANGED <<gates, plan, todo, seen, cur, fresh, cut, calm, fails, outside>>

\* The second discover
Look ==
  /\ pc = "look"
  /\ seen' = [u \in DOMAIN rec |-> [title |-> rec[u].title, ref |-> rec[u].marker.ref]]
  /\ pc' = "mark"
  /\ UNCHANGED <<rec, used, gates, plan, todo, cur, fresh, cut, calm, bounds>>

\* _has_post_import_tuning_fields: settings of resources; their references must
\* resolve to one record each
Tuned(row) == Kind[row.title] \in Resources /\ DOMAIN row.settings # {}

Tunable(row) ==
  Tuned(row) =>
    \A x \in {row} \union {y \in Wanted : y.ref \in row.refs} : Resolves(seen, known, x)

With(settings, wanted) ==
  [k \in DOMAIN settings \union DOMAIN wanted |->
     IF k \in DOMAIN wanted THEN wanted[k] ELSE settings[k]]

\* _resolve_post_import_tuning_argvs and its commands; a record that is gone
\* since makes them fail (see Fail)
Tune ==
  /\ pc = "mark"
  /\ \E row \in todo :
       /\ MayComeFirst(Wanted, todo, row)
       /\ Tunable(row)
       /\ \E u \in ByIdentity(seen, row.title) :
            /\ ByIdentity(seen, row.title) = {u}
            /\ cur' = [ref |-> row.ref, uid |-> u]
       /\ IF Tuned(row)
          THEN \E u \in Resolve(seen, known, row) \intersect DOMAIN rec :
                 rec' = [rec EXCEPT ![u].settings = With(@, row.settings)]
          ELSE UNCHANGED rec
  /\ pc' = "tuned"
  /\ UNCHANGED <<used, gates, plan, todo, seen, fresh, cut, calm, bounds>>

\* _write_marker
Mark ==
  /\ pc = "tuned" /\ cur.uid \in DOMAIN rec
  /\ rec' = [rec EXCEPT ![cur.uid].marker = EncodeMarker(cur.ref, Ours)]
  /\ todo' = {row \in todo : row.ref # cur.ref}
  /\ fresh' = fresh \union {cur.uid}
  /\ cur' = NoCur
  /\ pc' = "mark"
  /\ UNCHANGED <<used, gates, plan, seen, cut, calm, bounds>>

\* "record not found after apply": reported, and passed over
Skip ==
  /\ pc = "mark"
  /\ \E row \in todo :
       /\ MayComeFirst(Wanted, todo, row) /\ ByIdentity(seen, row.title) = {}
       /\ todo' = todo \ {row}
  /\ UNCHANGED <<rec, used, gates, pc, plan, seen, cur, fresh, cut, calm, bounds>>

RotatingMarked == {row \in Wanted : row.rotation # Off /\ ByMarker(seen, row.ref) # {}}

\* The rows that _apply_rotation_settings goes through: all of the manifest's,
\* whether the plan changes them or not
Rotating == {row \in Wanted : row.rotation # Off}

Scripted == {row \in Wanted : row.scripts /\ Kind[row.title] = "pamUser" /\ row.parent # NoRef}

Advance ==
  /\ todo = {}
  /\ \/ pc = "mark"   /\ pc' = "rotate" /\ todo' = Rotating
     \/ pc = "rotate" /\ pc' = "attach" /\ todo' = Scripted
     \/ pc = "attach" /\ pc' = "delete" /\ todo' = {}
  /\ UNCHANGED <<rec, used, gates, plan, seen, cur, fresh, cut, calm, bounds>>

\* The user, its resource, the resource's configuration and the admin user
RotationTargets(row) ==
  {y \in Wanted :
     \/ y.ref \in {row.ref, row.parent} \union row.refs
     \/ y.ref \in RowOf(row.parent).refs /\ Kind[y.title] = "pam_configuration"}

\* build_pam_rotation_edit_argvs wants their uids, of all rows, before the first call
Rotatable == \A row \in Rotating : \A x \in RotationTargets(row) : Resolves(seen, known, x)

Rotate ==
  /\ pc = "rotate" /\ Rotatable
  /\ \E row \in todo :
       /\ \E u \in Resolve(seen, known, row) \intersect DOMAIN rec :
            rec' = [rec EXCEPT ![u].rotation = row.rotation]
       /\ todo' = todo \ {row}
  /\ UNCHANGED <<used, gates, pc, plan, seen, cur, fresh, cut, calm, bounds>>

\* _apply_rotation_scripts looks for the marker in the listing that was made
\* before the markers were written; the fallback by the marker's title, which no
\* marker has, finds nothing
Attach ==
  /\ pc = "attach"
  /\ \E row \in todo :
       /\ \E u \in ByMarker(seen, row.ref) \intersect DOMAIN rec :
            rec' = [rec EXCEPT ![u].scripts = TRUE]
       /\ todo' = todo \ {row}
  /\ UNCHANGED <<used, gates, pc, plan, seen, cur, fresh, cut, calm, bounds>>

\* rm --force, in the order of the listing; a record that is gone is passed over
\* or reported, which is Fail
Delete ==
  /\ pc = "delete"
  /\ \E u \in doomed :
       /\ \A v \in doomed : u <= v
       /\ rec' = [v \in DOMAIN rec \ {u} |-> rec[v]]
       /\ doomed' = doomed \ {u}
  /\ UNCHANGED <<used, gates, pc, want, adopting, extend, known, todo, seen, cur, fresh, cut, calm, bounds>>

------------------------------------------------------------------------------
(* The end of the process *)

\* What this process marked without a rotation: it stops too early, or the row
\* asks for none
Pending ==
  {u \in fresh \intersect DOMAIN rec :
     pc \in {"mark", "tuned", "rotate"} \/ RowOf(rec[u].marker.ref).rotation = Off}

EndKeepingDeletes ==
  /\ pc' = "idle"
  /\ want' = NoVersion /\ adopting' = FALSE /\ extend' = FALSE /\ known' = NotKnown
  /\ todo' = {} /\ gates' = {} /\ seen' = Empty /\ cur' = NoCur /\ fresh' = {} /\ cut' = cut \union Pending
  /\ UNCHANGED <<rec, used, twice, lapses, outside, doomed>>

End ==
  /\ pc' = "idle"
  /\ want' = NoVersion /\ adopting' = FALSE /\ extend' = FALSE /\ doomed' = {} /\ known' = NotKnown
  /\ todo' = {} /\ gates' = {} /\ seen' = Empty /\ cur' = NoCur /\ fresh' = {} /\ cut' = cut \union Pending
  /\ UNCHANGED <<rec, used, twice, lapses, outside>>

Finish == pc = "delete" /\ doomed = {} /\ End /\ UNCHANGED <<calm, fails>>

\* CollisionError: two records to choose from.  CapabilityError: references that
\* do not resolve, a user whose marker the listing does not have.
Refuse ==
  /\ \/ pc = "mark" /\ \E row \in todo :
          /\ MayComeFirst(Wanted, todo, row)
          /\ \/ Cardinality(ByIdentity(seen, row.title)) > 1
             \/ ~Tunable(row) /\ ByIdentity(seen, row.title) # {}
     \/ pc = "rotate" /\ ~Rotatable
     \/ pc = "attach" /\ \E row \in todo : ByMarker(seen, row.ref) = {}
  /\ End /\ UNCHANGED <<calm, fails>>

\* A call raises, or the process is killed
Fail ==
  /\ pc # "idle" /\ Trouble < MaxTrouble
  /\ fails' = fails + 1
  /\ calm' = FALSE
  /\ End

------------------------------------------------------------------------------
(* People and other tools *)

OutsideStep ==
  /\ Trouble < MaxTrouble
  /\ outside' = outside + 1
  /\ calm' = FALSE
  /\ UNCHANGED <<gates, pc, plan, todo, seen, cur, fresh, cut, twice, fails, lapses>>

OutsideAdd ==
  /\ OutsideStep
  /\ \E x \in Strangers, u \in FreshUids(1) :
       /\ rec' = [v \in DOMAIN rec \union {u} |-> IF v = u THEN x ELSE rec[v]]
       /\ used' = used \union {u}

OutsideRemove ==
  /\ OutsideStep
  /\ \E u \in DOMAIN rec : rec' = [v \in DOMAIN rec \ {u} |-> rec[v]]
  /\ UNCHANGED used

Next ==
  \/ PlanApply \/ PlanImport \/ Gateways \/ Bulk \/ Look \/ Tune \/ Mark \/ Skip \/ Advance
  \/ Rotate \/ Attach \/ Delete \/ Finish \/ Refuse \/ Fail \/ OutsideAdd \/ OutsideRemove

Spec == Init /\ [][Next]_vars

------------------------------------------------------------------------------
(* What apply promises *)

\* Every variable keeps its type; an idle process has nothing under way, and no
\* record outside the uids that were given out exists.
TypeOK ==
  /\ DOMAIN rec \subseteq used /\ used \subseteq Uid
  /\ \A u \in DOMAIN rec : rec[u].title \in Title /\ rec[u].body \in Body /\ rec[u].marker \in Markers
  /\ gates \subseteq want.gateways
  /\ pc = "idle" => want = NoVersion /\ todo = {} /\ doomed = {} /\ seen = Empty
  /\ pc = "tuned" <=> cur # NoCur
  /\ todo \subseteq Wanted /\ doomed \subseteq used /\ DOMAIN seen \subseteq used
  /\ known \in [Ref -> Uid \union {NoUid}]
  /\ Trouble \in 0..MaxTrouble

AllRows == UNION {v.rows : v \in Versions}

\* Rows that change their title: the payload names no record, so the import makes
\* a new one and the old one keeps its marker.
Moved == {x.ref : x \in {y \in AllRows : \E z \in AllRows : z.ref = y.ref /\ z.title # y.title}}

\* What the files over time should keep to, so that a title is as good as a uid_ref:
\* it has one, and users whose rotation is managed are not renamed
TitlesKeepTheirRefs == \A x, y \in AllRows : x.title = y.title => x.ref = y.ref

RotatingRowsStay == \A row \in AllRows : row.rotation # Off => row.ref \notin Moved

\* No two records differ by their type alone, since one that is not found is taken
\* to be another of its name
NamesTellTypes == \A t, q \in Title : Name[t] = Name[q] => t = q

\* Settings are a resource's, for the tuning to write; a configuration's come with the
\* import
SettingsAreTuned == \A row \in AllRows : DOMAIN row.settings # {} => Kind[row.title] \in Resources

\* Other tools use uid_refs of their own, and markers that are not ours
StrangersStayApart ==
  \A x \in Strangers : x.marker.manager \in {"none", "foreign"} /\ x.marker.ref \notin RefsOf(AllRows)

Own(u) == rec[u].marker.manager = "sdk" /\ rec[u].marker.manifest = Ours

\* Marking by title never leaves two records that claim one row, whatever fails,
\* is imported twice or is added by others: the planner would stop for good.
\* Rows that change their title are excepted: there it does.
OneOwnerPerRef ==
  \A u, v \in DOMAIN rec :
     Own(u) /\ Own(v) /\ rec[u].marker.ref = rec[v].marker.ref /\ u # v
       => rec[u].marker.ref \in Moved

\* An interrupted apply leaves records without markers, which the next plan takes
\* for somebody else's.  It never leaves what `dsk import` followed by `dsk
\* apply` could not take up: no collision, and no claim by another row.
NeverStuck ==
  /\ pc = "idle" /\ outside = 0 /\ ~twice
  /\ \A r \in Moved : Cardinality(Claimants(rec, r)) <= 1
  => \A v \in Versions :
       /\ ~Raises(rec, v.rows)
       /\ Refused(rec, ByTitle(rec), v.rows, TRUE) = {}

\* The marker is looked at in the plan only, and written records are found by
\* title after the import: all the same it never replaces the marker of another
\* tool or another row, while nobody else interferes.
MarksOnlyItsOwn ==
  [][Mark /\ calm /\ cur.ref \notin Moved =>
       LET k == rec[cur.uid].marker IN
       k.manager \in {"none", "blank"} \/ (k.manager = "sdk" /\ k.ref = cur.ref)]_vars

\* Deletes run last, on uids from the plan: none of them is by then the record of
\* a row that the same process has marked or left alone.
DeletesOnlyUnwanted ==
  [][Delete /\ calm =>
       \A u \in DOMAIN rec \ DOMAIN rec' :
          /\ Own(u) \/ rec[u].marker.manifest = NoName
          /\ rec[u].marker.ref \notin RefsOf(Wanted) \ Moved]_vars

Done(row) ==
  \E u \in DOMAIN rec :
     /\ Own(u) /\ rec[u].marker.ref = row.ref
     /\ rec[u].title = row.title /\ rec[u].body = row.body
     /\ OverlayMatches(rec[u].settings, row.settings)
     /\ row.rotation # Off => rec[u].rotation = row.rotation

\* An undisturbed apply that ends with 0 has put every row in place, whichever
\* process began it: imported, tuned, marked and rotating.  Excepted are rows that
\* did not appear, were refused, or moved.
AppliedIsDone ==
  [][Finish /\ calm /\ ~adopting =>
       \A row \in Wanted :
          \/ row.ref \in Moved
          \/ lapses > 0 /\ Titled(rec, row.title) = {}
          \/ row \in Refused(rec, ByTitle(rec), Wanted, FALSE)
          \/ Done(row)
          \/ \E u \in cut \intersect DOMAIN rec : rec[u].marker.ref = row.ref]_vars

\* A clean plan means that nothing is left to do, also for rotation, for which
\* the planner trusts the marker.  Excepted are records that were marked when
\* their process had no rotation for them, or did not get to it.
CleanMeansDone ==
  pc = "idle" =>
    \A v \in Versions :
       ~Raises(rec, v.rows) /\ Clean(rec, v.rows, Ours, FALSE) =>
         \A row \in v.rows : Found(rec, row) \in cut \/ Done(row)
==============================================================================
