----------------------------- MODULE VaultApply -----------------------------
(***************************************************************************)
(* `dsk apply` of keeper-vault.v1 manifests through CommanderCliProvider:  *)
(* several processes, one shared folder, no lock and no transaction.  A    *)
(* process lists the folder, reads the records one by one, plans, and then *)
(* executes the plan by separate Commander calls; a record is created by   *)
(* one call and given its ownership marker by a later one.  Between any    *)
(* two calls other processes and people act on the folder, and the process *)
(* may die.                                                                *)
(*                                                                         *)
(* Data abstraction.  The body of a login is its content (fields and       *)
(* notes), which an update replaces, and its custom fields, a map from     *)
(* labels to settings, which an update overlays label by label.  The order *)
(* of custom fields and doubles of a label are left out.                   *)
(***************************************************************************)
EXTENDS LifecycleDiff, Naturals

CONSTANTS
  Content,        \* the fields and notes of a login
  Label,          \* what custom fields are called
  Keyed,          \* the Labels that stand for custom fields without a label: `key` rows
  Setting,        \* types and values of custom fields
  Run,            \* processes
  ManifestOf,     \* the manifest a process applies
  Versions,       \* ManifestOf[p] -> the row sets its file holds over time
  Rank,           \* position of a uid_ref in Plan.order
  OutsideTitle,   \* titles of the records that people and other tools add
  OutsideBody,    \* bodies that people and other tools give to records
  RenameTitle,    \* titles that people give to existing records
  OutsideMarkers, \* markers on the records that people and other tools add
  MaxOutside      \* bound on the steps of people and other tools

\* The custom fields that a record may have
Customs == UNION {[L -> Setting] : L \in SUBSET Label}

ASSUME BodyAssumption ==
  /\ Body = [content : Content, custom : Customs]
  /\ Keep \notin Content

ASSUME VaultAssumption ==
  /\ ManifestOf \in [Run -> ManifestName]
  /\ Versions \in [ManifestName -> SUBSET (SUBSET Rows)]
  /\ Rank \in [Ref -> Nat]
  /\ \A r, q \in Ref : Rank[r] = Rank[q] => r = q
  /\ OutsideTitle \subseteq Title
  /\ OutsideBody \subseteq Body
  /\ RenameTitle \subseteq Title
  /\ OutsideMarkers \subseteq Markers
  /\ MaxOutside \in Nat

VARIABLES
  rec,      \* the folder on the Keeper server: uid -> record
  used,     \* uids handed out so far; the server never reuses one
  pc,       \* where each process is: "idle", "discover", "apply", "retry" or "mark"
  ahead,    \* records it has listed and not read yet
  snap,     \* the records it has read, as they were then
  todo,     \* creates and updates it has still to run
  doomed,   \* records it has still to delete
  cur,      \* the record it has just written, and the uid_ref it is for
  want,     \* the rows it planned from
  calm,     \* processes that alone touched the folder since they listed it
  outside   \* steps taken by people and other tools

vars == <<rec, used, pc, ahead, snap, todo, doomed, cur, want, calm, outside>>

Found == <<ahead, snap>>

NoCur == [uid |-> NoUid, ref |-> NoRef]
Empty == [u \in {} |-> NoUid]

\* What a process has still to run.  Unlike Updates, an Edit names the drifted parts
\* of a body one by one: Keep and Empty are the parts it does not patch.
Edits ==
  [kind : {"update"}, ref : Ref, uid : Uid, title : Title \union {Keep},
   body : [content : Content \union {Keep}, custom : Customs]]

Calls == Creates \union Edits

\* Every variable keeps its type.  A process that has ended keeps nothing of its
\* plan, and it is between a write and its marker exactly when it has a cur.
TypeOK ==
  /\ used \subseteq Uid
  /\ DOMAIN rec \subseteq used
  /\ rec \in [DOMAIN rec -> Records]
  /\ pc \in [Run -> {"idle", "discover", "apply", "retry", "mark"}]
  /\ ahead \in [Run -> SUBSET used]
  /\ DOMAIN snap = Run
  /\ todo \in [Run -> SUBSET Calls]
  /\ doomed \in [Run -> SUBSET used]
  /\ cur \in [Run -> [uid : used \union {NoUid}, ref : Ref \union {NoRef}]]
  /\ want \in [Run -> SUBSET Rows]
  /\ calm \subseteq {p \in Run : pc[p] # "idle"}
  /\ outside \in 0..MaxOutside
  /\ \A p \in Run :
       /\ DOMAIN snap[p] \subseteq used
       /\ snap[p] \in [DOMAIN snap[p] -> Records]
       /\ pc[p] = "idle" => todo[p] = {} /\ doomed[p] = {} /\ want[p] = {}
       /\ pc[p] = "mark" <=> cur[p] # NoCur

Init ==
  /\ rec = Empty
  /\ used = {}
  /\ pc = [p \in Run |-> "idle"]
  /\ ahead = [p \in Run |-> {}]
  /\ snap = [p \in Run |-> Empty]
  /\ todo = [p \in Run |-> {}]
  /\ doomed = [p \in Run |-> {}]
  /\ cur = [p \in Run |-> NoCur]
  /\ want = [p \in Run |-> {}]
  /\ calm = {}
  /\ outside = 0

\* A folder with record u added or replaced, and the one there is without u
With(s, u, r) == [v \in DOMAIN s \union {u} |-> IF v = u THEN r ELSE s[v]]
Without(u)    == [v \in DOMAIN rec \ {u} |-> rec[v]]

\* A step of p changed the folder under everybody else
Disturb(p) == calm' = calm \intersect {p}

------------------------------------------------------------------------------
(* One process *)

\* discover: `ls` of the folder
List(p) ==
  /\ pc[p] = "idle"
  /\ pc' = [pc EXCEPT ![p] = "discover"]
  /\ ahead' = [ahead EXCEPT ![p] = Live(rec)]
  /\ calm' = calm \union {p}
  /\ UNCHANGED <<rec, used, snap, todo, doomed, cur, want, outside>>

\* discover: `get` of the next record.  One that is gone by now raises (see Fail).
Read(p) ==
  /\ pc[p] = "discover"
  /\ \E u \in ahead[p] \intersect Live(rec) :
       /\ ahead' = [ahead EXCEPT ![p] = @ \ {u}]
       /\ snap' = [snap EXCEPT ![p] = With(@, u, rec[u])]
  /\ UNCHANGED <<rec, used, pc, todo, doomed, cur, want, calm, outside>>

\* _field_diff_vault_login: the parts of a body that drifted, as the manifest has them
DriftOf(now, body) ==
  [content |-> IF now.content = body.content THEN Keep ELSE body.content,
   custom  |-> IF now.custom = body.custom THEN Empty ELSE body.custom]

EditOf(s, f, row) ==
  [UpdateOf(s, f, row) EXCEPT !.body = DriftOf(s[Match(s, f, row)].body, row.body)]

\* The creates and updates of the plan (apply does not adopt)
Planned(s, f, rows) ==
  {CreateOf(row) : row \in ToCreate(s, f, rows)} \union
  {EditOf(s, f, row) : row \in ToUpdate(s, f, rows)}

\* The diff, the plan, and the confirmation.  A plan that is clean, that has
\* conflicts and no --allow-delete, or that cannot be made (CollisionError,
\* ConflictError, OwnershipError) ends the process without a call: see Fail.
Plan(p) ==
  LET s == snap[p]
      m == ManifestOf[p] IN
  /\ pc[p] = "discover" /\ ahead[p] = {}
  /\ ~Collision(s)
  /\ \E rows \in Versions[m], allow \in BOOLEAN, f \in TitleIndexes(s) :
       /\ ~Unsupported(s, f, rows)
       /\ ~IsClean(s, f, rows, FALSE, m, allow)
       /\ HasConflict(s, f, rows, FALSE, m, allow) => allow
       /\ todo' = [todo EXCEPT ![p] = Planned(s, f, rows)]
       /\ doomed' = [doomed EXCEPT ![p] = Deletes(s, f, rows, FALSE, m, allow)]
       /\ want' = [want EXCEPT ![p] = rows]
  /\ pc' = [pc EXCEPT ![p] = "apply"]
  /\ snap' = [snap EXCEPT ![p] = Empty]
  /\ UNCHANGED <<rec, used, ahead, cur, calm, outside>>

\* Plan.ordered: c is the next create or update
Next1(p, c) ==
  /\ c \in todo[p]
  /\ \A d \in todo[p] : Rank[c.ref] <= Rank[d.ref]

NewRecord(c) == [title |-> c.title, body |-> c.body, marker |-> Unmarked]

\* _vault_add_login_record: RecordAddCommand returned the new record's uid
Create(p) ==
  /\ pc[p] \in {"apply", "retry"}
  /\ \E c \in todo[p], u \in Uid \ used :
       /\ Next1(p, c) /\ c.kind = "create"
       /\ rec' = With(rec, u, NewRecord(c))
       /\ used' = used \union {u}
       /\ todo' = [todo EXCEPT ![p] = @ \ {c}]
       /\ cur' = [cur EXCEPT ![p] = [uid |-> u, ref |-> c.ref]]
  /\ pc' = [pc EXCEPT ![p] = "mark"]
  /\ Disturb(p)
  /\ UNCHANGED <<Found, doomed, want, outside>>

\* The record was added but the call failed on an expired session:
\* _with_keeper_session_refresh logs in again and runs it once more.
CreateLost(p) ==
  /\ pc[p] = "apply"
  /\ \E c \in todo[p], u \in Uid \ used :
       /\ Next1(p, c) /\ c.kind = "create"
       /\ rec' = With(rec, u, NewRecord(c))
       /\ used' = used \union {u}
  /\ pc' = [pc EXCEPT ![p] = "retry"]
  /\ calm' = {}
  /\ UNCHANGED <<Found, todo, doomed, cur, want, outside>>

MergeKeepingValues(now, patch) ==
  [l \in DOMAIN now \union (DOMAIN patch \ Keyed) |-> IF l \in DOMAIN now THEN now[l] ELSE patch[l]]

\* _vault_merge_custom_for_update: an entry of the patch replaces the one with its
\* label or is appended, every other entry of the record stays, and entries of the
\* patch that have no label are dropped.
MergeCustom(now, patch) ==
  LET labelled == DOMAIN patch \ Keyed IN
  [l \in DOMAIN now \union labelled |-> IF l \in labelled THEN patch[l] ELSE now[l]]

\* _vault_patch_login_record_data
PatchBody(now, patch) ==
  [content |-> IF patch.content = Keep THEN now.content ELSE patch.content,
   custom  |-> MergeCustom(now.custom, patch.custom)]

Patch(r, c) ==
  [title  |-> IF c.title = Keep THEN r.title ELSE c.title,
   body   |-> PatchBody(r.body, c.body),
   marker |-> r.marker]

\* _vault_apply_login_body_update; a record that is gone raises (see Fail)
UpdateBody(p) ==
  /\ pc[p] = "apply"
  /\ \E c \in todo[p] :
       /\ Next1(p, c) /\ c.kind = "update"
       /\ c.uid \in Live(rec)
       /\ rec' = With(rec, c.uid, Patch(rec[c.uid], c))
       /\ todo' = [todo EXCEPT ![p] = @ \ {c}]
       /\ cur' = [cur EXCEPT ![p] = [uid |-> c.uid, ref |-> c.ref]]
  /\ pc' = [pc EXCEPT ![p] = "mark"]
  /\ Disturb(p)
  /\ UNCHANGED <<Found, used, doomed, want, outside>>

\* _write_marker, which overwrites whatever marker the record has by now
Mark(p) ==
  LET u == cur[p].uid IN
  /\ pc[p] = "mark"
  /\ u \in Live(rec)
  /\ rec' = With(rec, u, [rec[u] EXCEPT !.marker = EncodeMarker(cur[p].ref, ManifestOf[p])])
  /\ cur' = [cur EXCEPT ![p] = NoCur]
  /\ pc' = [pc EXCEPT ![p] = "apply"]
  /\ Disturb(p)
  /\ UNCHANGED <<Found, used, todo, doomed, want, outside>>

\* rm --force, after all creates and updates.  A record that is already gone
\* is either passed over here or reported, which is Fail.
Delete(p) ==
  /\ pc[p] = "apply" /\ todo[p] = {}
  /\ \E u \in doomed[p] :
       /\ rec' = Without(u)
       /\ doomed' = [doomed EXCEPT ![p] = @ \ {u}]
  /\ Disturb(p)
  /\ UNCHANGED <<Found, used, pc, todo, cur, want, outside>>

EndKeepingDeletes(p) ==
  /\ pc' = [pc EXCEPT ![p] = "idle"]
  /\ ahead' = [ahead EXCEPT ![p] = {}]
  /\ snap' = [snap EXCEPT ![p] = Empty]
  /\ todo' = [todo EXCEPT ![p] = {}]
  /\ cur' = [cur EXCEPT ![p] = NoCur]
  /\ want' = [want EXCEPT ![p] = {}]
  /\ calm' = calm \ {p}
  /\ UNCHANGED <<rec, used, doomed, outside>>

End(p) ==
  /\ pc' = [pc EXCEPT ![p] = "idle"]
  /\ ahead' = [ahead EXCEPT ![p] = {}]
  /\ snap' = [snap EXCEPT ![p] = Empty]
  /\ todo' = [todo EXCEPT ![p] = {}]
  /\ doomed' = [doomed EXCEPT ![p] = {}]
  /\ cur' = [cur EXCEPT ![p] = NoCur]
  /\ want' = [want EXCEPT ![p] = {}]
  /\ calm' = calm \ {p}
  /\ UNCHANGED <<rec, used, outside>>

\* The outcomes are rendered and the process exits with 0
Finish(p) == pc[p] = "apply" /\ todo[p] = {} /\ doomed[p] = {} /\ End(p)

\* Any call may raise CapabilityError, there may be nothing to do, and the
\* process may be killed between any two calls: nothing is rolled back and
\* nothing is remembered.
Fail(p) == pc[p] # "idle" /\ End(p)

RunStep(p) ==
  \/ List(p) \/ Read(p) \/ Plan(p) \/ Create(p) \/ CreateLost(p) \/ UpdateBody(p)
  \/ Mark(p) \/ Delete(p) \/ Finish(p) \/ Fail(p)

------------------------------------------------------------------------------
(* People and other tools *)

OutsideStep ==
  /\ outside < MaxOutside
  /\ outside' = outside + 1
  /\ calm' = {}
  /\ UNCHANGED <<Found, pc, todo, doomed, cur, want>>

OutsideCreate ==
  /\ OutsideStep
  /\ \E u \in Uid \ used, t \in OutsideTitle, b \in OutsideBody, k \in OutsideMarkers :
       /\ rec' = With(rec, u, [title |-> t, body |-> b, marker |-> k])
       /\ used' = used \union {u}

OutsideEdit ==
  /\ OutsideStep
  /\ \E u \in Live(rec), b \in OutsideBody : rec' = With(rec, u, [rec[u] EXCEPT !.body = b])
  /\ UNCHANGED used

OutsideRename ==
  /\ OutsideStep
  /\ \E u \in Live(rec), t \in RenameTitle : rec' = With(rec, u, [rec[u] EXCEPT !.title = t])
  /\ UNCHANGED used

OutsideDelete ==
  /\ OutsideStep
  /\ \E u \in Live(rec) : rec' = Without(u)
  /\ UNCHANGED used

Next ==
  \/ \E p \in Run : RunStep(p)
  \/ OutsideCreate \/ OutsideEdit \/ OutsideRename \/ OutsideDelete

Spec == Init /\ [][Next]_vars

------------------------------------------------------------------------------
(* Ownership: VaultApply implements Custody *)

RefsOf(m)   == {row.ref : row \in UNION Versions[m]}
TitlesOf(m) == {row.title : row \in UNION Versions[m]}

\* The discipline under which manifests share a folder safely: uid_refs and
\* titles are namespaced per manifest, nobody renames a record to a title of
\* a manifest, and outsiders' records carry no marker or a foreign one.
DisjointScopes ==
  /\ \A m, n \in ManifestName :
        m # n => /\ RefsOf(m) \intersect RefsOf(n) = {}
                 /\ TitlesOf(m) \intersect TitlesOf(n) = {}
  /\ \A m \in ManifestName : TitlesOf(m) \intersect RenameTitle = {}
  /\ \A k \in OutsideMarkers : k.manager \in {"none", "foreign"}

Own(u, m) == rec[u].marker.manager = "sdk" /\ rec[u].marker.manifest = m

\* A record under an SDK marker lies in the scope of the manifest it names.
InScope(r) ==
  /\ r.marker.manager # "blank"
  /\ r.marker.manager = "sdk" =>
       /\ r.marker.manifest \in ManifestName
       /\ r.marker.ref \in RefsOf(r.marker.manifest)
       /\ r.title \in TitlesOf(r.marker.manifest) \union RenameTitle

Scoped == \A u \in Live(rec) : InScope(rec[u])

\* A record that p has read under an SDK marker is gone or still its manifest's.
SnapIsOwn(p) ==
  \A u \in Live(snap[p]) :
     /\ InScope(snap[p][u])
     /\ snap[p][u].marker.manager = "sdk" /\ u \in Live(rec) =>
          Own(u, snap[p][u].marker.manifest)

\* What is left of p's plan concerns records that either are gone by now or
\* are still the manifest's own.
PlanIsOwn(p) ==
  /\ \A c \in todo[p] :
        /\ c.ref \in RefsOf(ManifestOf[p])
        /\ c.title \in TitlesOf(ManifestOf[p]) \union {Keep}
        /\ c.kind = "update" => /\ c.uid \in used
                                /\ c.uid \in Live(rec) => Own(c.uid, ManifestOf[p])
  /\ \A u \in doomed[p] : u \in Live(rec) => Own(u, ManifestOf[p])

\* The record p is about to mark is gone, the manifest's own, or one that p
\* created and that nobody has claimed since.
MarkIsOwn(p) ==
  LET u == cur[p].uid IN
  pc[p] = "mark" =>
    /\ cur[p].ref \in RefsOf(ManifestOf[p])
    /\ u \in Live(rec) =>
         \/ Own(u, ManifestOf[p])
         \/ /\ rec[u].marker = Unmarked
            /\ rec[u].title \in TitlesOf(ManifestOf[p]) \union RenameTitle
            /\ \A q \in Run : pc[q] = "mark" /\ cur[q].uid = u => q = p

\* Under DisjointScopes neither a discovery nor a plan ever goes stale in the one
\* way that would be fatal: the uids it was made for are never anybody else's
\* when the process gets to them.
StaleButOwn == Scoped /\ \A p \in Run : SnapIsOwn(p) /\ PlanIsOwn(p) /\ MarkIsOwn(p)

Writers(u) == {p \in Run : pc[p] = "mark" /\ cur[p].uid = u}

\* Whose record u is, and how far along
Holding(stage, m) == [stage |-> stage, by |-> m]

CustodyOf(u) ==
  IF u \notin used THEN Holding("unborn", NoName)
  ELSE IF u \notin Live(rec) THEN Holding("gone", NoName)
  ELSE IF rec[u].marker.manager = "sdk" THEN Holding("held", rec[u].marker.manifest)
  ELSE IF Writers(u) # {}
       THEN Holding("fresh", ManifestOf[CHOOSE p \in Writers(u) : TRUE])
       ELSE Holding("outside", NoName)

Abstract == INSTANCE Custody WITH
  Party <- ManifestName, NoParty <- NoName, custody <- [u \in Uid |-> CustodyOf(u)]

\* Under DisjointScopes, however runs, crashes and people interleave, custody
\* of a record only moves along the edges of Custody: an apply never takes
\* over a record of another manifest, of another tool or of a person.
CustodyRefined == Abstract!CustodySpec

Touched(u) ==
  \/ (u \in Live(rec)) # (u \in Live(rec'))
  \/ u \in Live(rec) /\ rec[u] # rec'[u]

Control(p) == <<pc[p], ahead[p], todo[p], doomed[p]>>

Acts(p) == Control(p)' # Control(p)

\* _apply_vault_plan works from a stale plan: even so, every call it makes
\* adds a record, or writes or removes one that its manifest created or holds
\* at the moment of the call.
OwnScopeOnly ==
  [][\A p \in Run : Acts(p) =>
       \A u \in Uid : Touched(u) =>
          CustodyOf(u) \in {Holding("unborn", NoName), Holding("fresh", ManifestOf[p]),
                            Holding("held", ManifestOf[p])}]_vars

------------------------------------------------------------------------------
(* Convergence of one process at a time *)

\* What convergence relies on: one process at a time works on a manifest, a file has
\* a uid_ref once (build_vault_graph raises RefError otherwise), and over time its
\* titles are not given from one row to another
OneRunPerManifest == \A p, q \in Run : ManifestOf[p] = ManifestOf[q] => p = q

RefsAreKeys ==
  \A m \in ManifestName : \A rows \in Versions[m] : \A x, y \in rows : x.ref = y.ref => x = y

TitlesKeepTheirRefs ==
  \A m \in ManifestName : \A x, y \in UNION Versions[m] : x.title = y.title => x.ref = y.ref

SdkRecords == {u \in Live(rec) : rec[u].marker.manager = "sdk"}

\* No two records are ever marked for the same uid_ref, the state in which
\* every later plan stops with CollisionError.
OneOwnerPerRef ==
  \A u, v \in SdkRecords : rec[u].marker.ref = rec[v].marker.ref => u = v

\* A record without our marker that bears the title of a row
Homonym(rows) ==
  \E u \in Live(rec) \ SdkRecords, row \in rows : rec[u].title = row.title

\* The body has all that an update can bring of another: what is left to differ is a
\* custom field that the other does not have, or one without a label.
Holds(now, body) ==
  /\ now.content = body.content
  /\ \A l \in DOMAIN body.custom \ Keyed :
        l \in DOMAIN now.custom /\ now.custom[l] = body.custom[l]

Carries(r, row) == r.title = row.title /\ Holds(r.body, row.body)

\* An apply that runs to its end with the folder to itself leaves nothing for a
\* second one to change: no collision and nothing to create or delete, and every
\* record in place carries its row, whichever order the listing has.  (The plan may
\* still say UPDATE, for ever: _field_diff_vault_login wants the custom fields of the
\* row and no others, and no update ever takes one away.  And an apply that retitles
\* a record to the title of somebody else's ends with 0 as well, and every later plan
\* with a ConflictError.)
IdempotentRerun ==
  [][\A p \in calm : Finish(p) /\ ~Homonym(want[p]) =>
       /\ ~Collision(rec)
       /\ \A f \in TitleIndexes(rec) :
            /\ ToCreate(rec, f, want[p]) = {}
            /\ Orphans(rec, f, want[p], FALSE, ManifestOf[p]) = {}
            /\ \A row \in want[p] \ Refused(rec, f, want[p], FALSE) :
                  Carries(rec[Match(rec, f, row)], row)]_vars

\* --allow-delete never removes a record whose uid_ref the manifest still has.
DeletesOnlyUnwanted ==
  [][\A p \in Run : Delete(p) =>
       \A u \in Live(rec) \ Live(rec') :
          \A row \in want[p] : row.ref # rec[u].marker.ref]_vars

\* docs/ARCHITECTURE_GAPS.md on partial failure: the resource that failed has
\* no marker, so a rerun of the same manifest plans a CREATE or UPDATE for it.
RerunResumes ==
  [][\A p \in Run : Fail(p) /\ cur[p] # NoCur /\ ~Collision(rec) =>
       \A row \in want[p] : row.ref = cur[p].ref =>
          \A f \in TitleIndexes(rec) : row \notin Refused(rec, f, want[p], FALSE)]_vars
==============================================================================
