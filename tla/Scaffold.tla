------------------------------ MODULE Scaffold ------------------------------
(***************************************************************************)
(* PAM manifests whose gateways are there already (mode:                   *)
(* reference_existing).  `dsk apply` resolves the gateway and the PAM      *)
(* configuration by name, makes the project's folders if they are missing, *)
(* shares them with the gateway's KSM application, and only then extends   *)
(* the configuration and marks the records.  Folders are found again by    *)
(* path in every discover, and a path that cannot be listed makes discover *)
(* fall back to --folder-uid.  Any number of runs share the tenant.        *)
(*                                                                         *)
(* Abstraction.  Fields of records are not compared and nothing is         *)
(* deleted: PamApply has both.  mkdir, which looks and creates in one      *)
(* session, is one step.                                                   *)
(***************************************************************************)
EXTENDS LifecycleDiff, Naturals, Sequences, FiniteSets

S == INSTANCE SequencesExt

CONSTANTS
  Run,          \* processes
  Manifest,     \* name of a manifest -> its rows
  GatewayOf,    \* name of a manifest -> the gateway it names
  ConfOf,       \* name of a manifest -> the title of its configuration
  Wirings,      \* gateways and configurations the tenant may have
  Strangers,    \* records that people and other tools add
  PathUids,     \* the uids that folders of a path may get
  TitleUids,    \* the uids that records of a title may get
  MaxStarts,    \* how many runs there are
  MaxMishaps    \* how often a call fails or others interfere

Place == {"Resources", "Users"}

Elsewhere == <<"elsewhere">>
Root == <<"PAM Environments">>
Home(p) == <<"PAM Environments", p>>
At(p, place) == <<"PAM Environments", p, place>>

Homes == {Home(p) : p \in ManifestName}
Projects == {At(p, place) : p \in ManifestName, place \in Place}
Paths == {Elsewhere, Root} \union Homes \union Projects

\* The constants fit together
Fits ==
  /\ DOMAIN Manifest = ManifestName
  /\ \A p \in ManifestName : \A row \in Manifest[p] :
       row.ref \in Ref /\ row.title \in Title /\ row.body \in Body /\ row.place \in Place
  /\ PathUids \in [Paths -> SUBSET Uid] /\ TitleUids \in [Title -> SUBSET Uid]
  /\ \A x, y \in Paths : x # y => PathUids[x] \intersect PathUids[y] = {}
  /\ \A x, y \in Title : x # y => TitleUids[x] \intersect TitleUids[y] = {}
  /\ \A x \in Paths, y \in Title : PathUids[x] \intersect TitleUids[y] = {}
  /\ Uid \subseteq Nat
  /\ Strangers \subseteq Records
  /\ MaxStarts \in Nat /\ MaxMishaps \in Nat

\* Other tools write no marker of ours for a manifest
StrangersHoldNothing ==
  \A x \in Strangers : x.marker.manager = "sdk" => x.marker.manifest \notin ManifestName

VARIABLES
  dirs,     \* folders: uid -> path, and the applications it is shared with
  recs,     \* records: uid -> record, with its folder
  wiring,   \* gateway -> its application; configuration -> its gateway
  runs,     \* the processes
  used,     \* uids of folders and records that were given out
  undone,   \* somebody has taken back a share, wired a gateway anew, or removed a
            \* folder under a run, which may find another one there by the time
  starts, mishaps

vars == <<dirs, recs, wiring, runs, used, undone, starts, mishaps>>

NoBind == [app |-> "none", conf |-> "none"]

Idle ==
  [pc |-> "idle", name |-> NoName, adopt |-> FALSE,
   folder |-> NoUid, users |-> NoUid,   \* _folder_uid and last_resolved_users_folder_uid
   found |-> FALSE,                     \* last_resolved_folder_uid is set
   writes |-> {}, bind |-> NoBind, level |-> 1, seen |-> [u \in {} |-> NoUid],
   alone |-> TRUE]                      \* nothing else has happened since the start

First(uids) == {u \in uids : \A v \in uids : u <= v}

Init ==
  /\ used = First(PathUids[Elsewhere])
  /\ dirs = [d \in used |-> [path |-> Elsewhere, apps |-> {}]]
  /\ recs = [u \in {} |-> NoUid]
  /\ wiring \in Wirings
  /\ runs = [r \in Run |-> Idle]
  /\ undone = FALSE /\ starts = 0 /\ mishaps = 0

------------------------------------------------------------------------------
(* The tenant *)

FolderAt(path) == {d \in DOMAIN dirs : dirs[d].path = path}
Exists(path) == FolderAt(path) # {}
UidAt(path) == IF Exists(path) THEN CHOOSE d \in FolderAt(path) : TRUE ELSE NoUid

Listing(ds) ==
  [u \in {v \in DOMAIN recs : recs[v].in \in ds} |-> recs[u]]

\* The next uid, if there is one
Fresh(uids) == First(uids \ used)

\* _resolve_reference_configuration: the title, or else the only configuration
\* of the gateway
ConfsOf(g) == {c \in DOMAIN wiring.confs : wiring.confs[c].gateway = g}

Resolved(p) ==
  IF ConfOf[p] \in DOMAIN wiring.confs THEN {ConfOf[p]}
  ELSE IF Cardinality(ConfsOf(GatewayOf[p])) = 1 THEN ConfsOf(GatewayOf[p]) ELSE {}

Resolvable(p) == GatewayOf[p] \in DOMAIN wiring.apps /\ Resolved(p) # {}

Binding(p) ==
  [app |-> wiring.apps[GatewayOf[p]], conf |-> CHOOSE c \in Resolved(p) : TRUE]

------------------------------------------------------------------------------
(* Steps of a run.  Each of them ends the solitude of all the others. *)

Become(r, job) ==
  runs' = [q \in Run |->
             IF q = r THEN job ELSE [runs[q] EXCEPT !.alone = @ /\ runs[q].pc = "idle"]]

Job(r) == runs[r]
Wanted(r) == Manifest[Job(r).name]

At1(r, place) == At(Job(r).name, place)

Busy == {r \in Run : Job(r).pc # "idle"}

\* Folders that hold records
Shareable == {d \in DOMAIN dirs : dirs[d].path \in Projects \union {Elsewhere}}

\* --folder-uid: another shared folder than the project's, its own, or none
Begin(r) ==
  /\ Job(r).pc = "idle" /\ starts < MaxStarts
  /\ \E p \in ManifestName, adopt \in BOOLEAN, given \in {NoUid} \union Shareable :
       Become(r, [Idle EXCEPT !.pc = "find", !.name = p, !.adopt = adopt, !.folder = given,
                              !.alone = (Busy = {})])
  /\ starts' = starts + 1
  /\ UNCHANGED <<dirs, recs, wiring, used, undone, mishaps>>

Same == UNCHANGED <<dirs, recs, wiring, used, undone, starts>>

\* _resolve_project_scaffold_folders
Located(job) ==
  IF Exists(At(job.name, "Resources"))
  THEN [job EXCEPT !.folder = UidAt(At(job.name, "Resources")), !.found = TRUE,
                   !.users = UidAt(At(job.name, "Users"))]
  ELSE job

\* _maybe_resolve_project_resources_folder: a call that fails is passed over, too
Lapse(lapse) ==
  /\ lapse => mishaps < MaxMishaps
  /\ mishaps' = IF lapse THEN mishaps + 1 ELSE mishaps

MaybeLocated(job, lapse) == IF lapse THEN [job EXCEPT !.alone = FALSE] ELSE Located(job)

Find(r) ==
  /\ Job(r).pc = "find"
  /\ \E lapse \in BOOLEAN :
       LET job == MaybeLocated(Job(r), lapse) IN
       /\ Lapse(lapse)
       /\ Become(r, IF job.folder = NoUid THEN Idle
                    ELSE [job EXCEPT !.pc = "plan"])
  /\ Same

\* What the plan writes
Planned(job, s, f) ==
  LET rows == Manifest[job.name] IN
  IF job.adopt THEN ToAdopt(s, f, rows, TRUE)
  ELSE ToCreate(s, f, rows) \union ToUpdate(s, f, rows)

Refuses(job, s, f) ==
  LET rows == Manifest[job.name] IN
  \/ Collision(s) \/ Unsupported(s, f, rows)
  \/ job.found /\ ~Resolvable(job.name)
  \/ ~job.adopt /\ HasConflict(s, f, rows, FALSE, job.name, FALSE)

\* _synthetic_reference_configuration_record looks for the folders once more; where
\* they are not found, the plan has the configuration to create and is not empty
Plan(r) ==
  /\ Job(r).pc = "plan"
  /\ {Job(r).folder, Job(r).users} \ {NoUid} \subseteq DOMAIN dirs
  /\ \E lapse \in BOOLEAN :
       LET s == Listing({Job(r).folder, Job(r).users})
           job == IF Job(r).found THEN Job(r) ELSE MaybeLocated(Job(r), lapse) IN
       \E f \in TitleIndexes(s) :
         LET writes == Planned(job, s, f) IN
         /\ Lapse(lapse) /\ (lapse => ~Job(r).found)
         /\ Become(r, IF Refuses(job, s, f) \/ (writes = {} /\ (job.found \/ job.adopt)) THEN Idle
                      ELSE [job EXCEPT !.pc = "refer", !.writes = writes])
  /\ Same

\* apply_plan resolves the gateway and the configuration again, by name and
\* without a look at whether they are paired
Refer(r) ==
  /\ Job(r).pc = "refer" /\ Resolvable(Job(r).name)
  /\ Become(r, [Job(r) EXCEPT !.pc = "probe", !.bind = Binding(Job(r).name)])
  /\ UNCHANGED mishaps /\ Same

\* _ensure_reference_project_scaffold: a folder's parents are ensured first
Ensured(p) == <<Root, Root, Home(p), At(p, "Resources"), At(p, "Users")>>

Path(r) == Ensured(Job(r).name)[Job(r).level]

NextLevel(job) ==
  IF job.level = 5 THEN [job EXCEPT !.pc = "entries", !.level = 1]
  ELSE [job EXCEPT !.pc = "probe", !.level = @ + 1]

\* A path that cannot be listed is made
Probe(r) ==
  /\ Job(r).pc = "probe"
  /\ \E lapse \in BOOLEAN :
       /\ Lapse(lapse) /\ (lapse => Exists(Path(r)))
       /\ Become(r, IF Exists(Path(r)) /\ ~lapse THEN NextLevel(Job(r))
                    ELSE [Job(r) EXCEPT !.pc = "make", !.alone = @ /\ ~lapse])
  /\ Same

\* mkdir, which needs the parent and refuses a path that exists
CanMake(path) ==
  /\ ~Exists(path)
  /\ Len(path) = 1 \/ Exists(S!Front(path))

Make(r) ==
  /\ Job(r).pc = "make" /\ CanMake(Path(r))
  /\ \E d \in Fresh(PathUids[Path(r)]) :
       /\ dirs' = [e \in DOMAIN dirs \union {d} |->
                     IF e = d THEN [path |-> Path(r), apps |-> {}] ELSE dirs[e]]
       /\ used' = used \union {d}
  /\ Become(r, NextLevel(Job(r)))
  /\ UNCHANGED <<recs, wiring, undone, starts, mishaps>>

HasEntries(r) == \A place \in Place : Exists(At1(r, place))

Entries(r) ==
  /\ Job(r).pc = "entries" /\ HasEntries(r)
  /\ Become(r, [Job(r) EXCEPT !.pc = "share", !.level = 1, !.found = TRUE,
                  !.folder = UidAt(At1(r, "Resources")), !.users = UidAt(At1(r, "Users"))])
  /\ UNCHANGED mishaps /\ Same

\* _share_folder_to_ksm_app: "already" shared is no failure
SharedResources(r) == Job(r).folder

Shared(r) == IF Job(r).level = 1 THEN Job(r).folder ELSE Job(r).users

CanShareOnce(r) ==
  Shared(r) \in DOMAIN dirs /\ Job(r).bind.app \notin dirs[Shared(r)].apps

CanShare(r) == Shared(r) \in DOMAIN dirs

Share(r) ==
  /\ Job(r).pc = "share" /\ CanShare(r)
  /\ dirs' = [dirs EXCEPT ![Shared(r)].apps = @ \union {Job(r).bind.app}]
  /\ Become(r, IF Job(r).level = 1 THEN [Job(r) EXCEPT !.level = 2]
               ELSE [Job(r) EXCEPT !.pc = "extend", !.level = 1])
  /\ UNCHANGED <<recs, wiring, used, undone, starts, mishaps>>

CanExtend(r) == HasEntries(r) /\ Job(r).bind.conf \in DOMAIN wiring.confs

\* pam project extend, with all rows of the manifest: those that have no record
\* of their title get one, in the folder that is named in the payload.  A row may
\* fail to appear, which Commander reports as success.
Missing(r) ==
  {row \in Wanted(r) :
     \A u \in DOMAIN recs : recs[u].title = row.title =>
        \A place \in Place : recs[u].in \notin FolderAt(At1(r, place))}

Extend(r) ==
  /\ Job(r).pc = "extend" /\ CanExtend(r)
  /\ \E gone \in SUBSET Missing(r) :
       LET new == Missing(r) \ gone
           uids == UNION {Fresh(TitleUids[row.title]) : row \in new}
           RowFor(u) == CHOOSE row \in new : u \in TitleUids[row.title] IN
       /\ Cardinality(uids) = Cardinality(new)
       /\ Cardinality(gone) <= 1 /\ Lapse(gone # {})
       /\ recs' = [u \in DOMAIN recs \union uids |->
                     IF u \notin uids THEN recs[u]
                     ELSE [title |-> RowFor(u).title, body |-> RowFor(u).body, marker |-> Unmarked,
                           in |-> UidAt(At1(r, RowFor(u).place))]]
       /\ used' = used \union uids
  /\ Become(r, [Job(r) EXCEPT !.pc = "look"])
  /\ UNCHANGED <<dirs, wiring, undone, starts>>

\* The second discover; what its own look for the folders finds takes precedence
CanLook(r, lapse) ==
  LET job == MaybeLocated(Job(r), lapse) IN
  /\ {job.folder, job.users} \ {NoUid} \subseteq DOMAIN dirs
  /\ Resolvable(job.name)

Look(r) ==
  /\ Job(r).pc = "look"
  /\ \E lapse \in BOOLEAN :
       LET job == MaybeLocated(Job(r), lapse) IN
       /\ Lapse(lapse) /\ CanLook(r, lapse)
       /\ Become(r, [job EXCEPT !.pc = "mark",
                       !.seen = [u \in DOMAIN Listing({job.folder, job.users}) |-> recs[u].title]])
  /\ Same

Titles(r, row) == {u \in DOMAIN Job(r).seen : Job(r).seen[u] = row.title}

\* _write_marker, on the record that has the title; no look at what is on it
Mark(r, row, u) ==
  /\ Job(r).pc = "mark" /\ row \in Job(r).writes
  /\ Titles(r, row) = {u} /\ u \in DOMAIN recs
  /\ recs' = [recs EXCEPT ![u].marker = EncodeMarker(row.ref, Job(r).name)]
  /\ Become(r, [Job(r) EXCEPT !.writes = @ \ {row}])
  /\ UNCHANGED <<dirs, wiring, used, undone, starts, mishaps>>

\* "record not found after apply"
Skip(r) ==
  /\ Job(r).pc = "mark"
  /\ \E row \in Job(r).writes :
       Titles(r, row) = {} /\ Become(r, [Job(r) EXCEPT !.writes = @ \ {row}])
  /\ UNCHANGED mishaps /\ Same

Finish(r) ==
  /\ Job(r).pc = "mark" /\ Job(r).writes = {}
  /\ Become(r, Idle)
  /\ UNCHANGED mishaps /\ Same

\* A call refuses: CapabilityError
Barred(r) ==
  CASE Job(r).pc = "plan"    -> ~({Job(r).folder, Job(r).users} \ {NoUid} \subseteq DOMAIN dirs)
    [] Job(r).pc = "refer"   -> ~Resolvable(Job(r).name)
    [] Job(r).pc = "make"    -> ~CanMake(Path(r))
    [] Job(r).pc = "entries" -> ~HasEntries(r)
    [] Job(r).pc = "share"   -> ~CanShare(r)
    [] Job(r).pc = "extend"  -> ~CanExtend(r)
    [] Job(r).pc = "look"    -> ~CanLook(r, FALSE)
    [] OTHER -> FALSE

GiveUp(r) == Barred(r) /\ Become(r, Idle) /\ UNCHANGED mishaps /\ Same

\* CollisionError, or the record is gone
MarkFails(r) ==
  /\ Job(r).pc = "mark"
  /\ \E row \in Job(r).writes :
       \/ Cardinality(Titles(r, row)) > 1
       \/ Titles(r, row) # {} /\ Titles(r, row) \intersect DOMAIN recs = {}
  /\ Become(r, Idle) /\ UNCHANGED mishaps /\ Same

\* A call raises, or the process is killed
Fail(r) ==
  /\ Job(r).pc # "idle" /\ mishaps < MaxMishaps /\ mishaps' = mishaps + 1
  /\ Become(r, Idle) /\ Same

------------------------------------------------------------------------------
(* People and other tools *)

Others ==
  /\ mishaps < MaxMishaps /\ mishaps' = mishaps + 1
  /\ runs' = [r \in Run |-> IF r \in Busy THEN [Job(r) EXCEPT !.alone = FALSE] ELSE Idle]
  /\ UNCHANGED starts

OthersAdd ==
  /\ Others
  /\ \E x \in Strangers, d \in Shareable : \E u \in Fresh(TitleUids[x.title]) :
       /\ recs' = [v \in DOMAIN recs \union {u} |->
                     IF v = u THEN [title |-> x.title, body |-> x.body, marker |-> x.marker, in |-> d]
                     ELSE recs[v]]
       /\ used' = used \union {u}
  /\ UNCHANGED <<dirs, wiring, undone>>

\* A folder goes with all that is in it
OthersRemove ==
  /\ Others
  /\ \E d \in DOMAIN dirs :
       LET path == dirs[d].path
           below == {e \in DOMAIN dirs : S!IsPrefix(path, dirs[e].path)} IN
       /\ path \notin {Root, Elsewhere}
       /\ dirs' = [e \in DOMAIN dirs \ below |-> dirs[e]]
       /\ recs' = [u \in {v \in DOMAIN recs : recs[v].in \notin below} |-> recs[u]]
  /\ undone' = (undone \/ Busy # {})
  /\ UNCHANGED <<wiring, used>>

OthersUnshare ==
  /\ Others /\ undone' = TRUE
  /\ \E d \in DOMAIN dirs : dirs[d].apps # {} /\ dirs' = [dirs EXCEPT ![d].apps = {}]
  /\ UNCHANGED <<recs, wiring, used>>

OthersRewire ==
  /\ Others /\ undone' = TRUE
  /\ wiring' \in Wirings \ {wiring}
  /\ UNCHANGED <<dirs, recs, used>>

Next ==
  \/ \E r \in Run :
       \/ Begin(r) \/ Find(r) \/ Plan(r) \/ Refer(r) \/ Probe(r) \/ Make(r) \/ Entries(r)
       \/ Share(r) \/ Extend(r) \/ Look(r) \/ Skip(r) \/ Finish(r)
       \/ \E row \in Job(r).writes, u \in DOMAIN recs : Mark(r, row, u)
       \/ GiveUp(r) \/ MarkFails(r) \/ Fail(r)
  \/ OthersAdd \/ OthersRemove \/ OthersUnshare \/ OthersRewire

Spec == Init /\ [][Next]_vars

------------------------------------------------------------------------------
(* What is promised *)

\* Every variable keeps its type, and no path is made twice.
TypeOK ==
  /\ \A d \in DOMAIN dirs : d \in used /\ d \in PathUids[dirs[d].path]
  /\ \A d, e \in DOMAIN dirs : dirs[d].path = dirs[e].path => d = e
  /\ DOMAIN recs \subseteq used /\ used \subseteq Uid
  /\ \A u \in DOMAIN recs : recs[u].title \in Title /\ recs[u].marker \in Markers
  /\ \A u \in DOMAIN recs : recs[u].in \in DOMAIN dirs
  /\ \A r \in Run : Job(r).pc # "idle" => Job(r).writes \subseteq Wanted(r)
  /\ mishaps \in 0..MaxMishaps /\ starts \in 0..MaxStarts

Own(u, p) == recs[u].marker.manager = "sdk" /\ recs[u].marker.manifest = p

\* The gateway's application can read the folder the record is in
Reachable(u, p) ==
  /\ GatewayOf[p] \in DOMAIN wiring.apps
  /\ wiring.apps[GatewayOf[p]] \in dirs[recs[u].in].apps

\* What is marked in a project's folders can be read by its gateway, whichever runs
\* made and shared the folders, wherever they stopped, and wherever --folder-uid
\* pointed: a plan that is clean leaves nothing to share.  What others take back is
\* not noticed, which is why undone is excepted.
MarkedIsReachable ==
  ~undone =>
    \A p \in ManifestName, u \in DOMAIN recs :
      Own(u, p) /\ dirs[recs[u].in].path \in {At(p, place) : place \in Place} => Reachable(u, p)

\* Whatever earlier runs left behind, half of the folders or half of the shares, a
\* run that nothing disturbs is refused by no call, once it has its gateway and its
\* configuration.
RerunsGetThrough ==
  [][\A r \in Run : GiveUp(r) /\ Job(r).alone => Job(r).pc = "refer"]_vars
==============================================================================
