--------------------------- MODULE ScaffoldProofs ---------------------------
(***************************************************************************)
(* Theorems about Scaffold for all manifests, gateways and tenants, any    *)
(* number of runs at a time and any number of mishaps.                     *)
(***************************************************************************)
EXTENDS Scaffold, SequenceTheorems, TLAPS

Fields == {"pc", "name", "adopt", "folder", "users", "found", "writes", "bind", "level", "seen", "alone"}

Steps ==
  {"idle", "find", "plan", "refer", "probe", "make", "entries", "share", "extend", "look", "mark"}

\* A run is a record of its fields, and works on rows of its manifest
JobOK(r) ==
  /\ DOMAIN Job(r) = Fields
  /\ Job(r).pc \in Steps /\ Job(r).level \in 1..5 /\ Job(r).alone \in BOOLEAN
  /\ Job(r).pc = "share" => Job(r).level \in 1..2
  /\ Job(r).pc \in {"find", "plan", "refer"} => Job(r).level = 1
  /\ Job(r).pc # "idle" => Job(r).name \in ManifestName /\ Job(r).writes \subseteq Wanted(r)

DirsOK ==
  /\ \A d \in DOMAIN dirs :
       /\ DOMAIN dirs[d] = {"path", "apps"} /\ dirs[d].path \in Paths
       /\ d \in used /\ d \in PathUids[dirs[d].path]
  /\ \A d, e \in DOMAIN dirs : dirs[d].path = dirs[e].path => d = e

RecsOK ==
  \A u \in DOMAIN recs :
    /\ DOMAIN recs[u] = {"title", "body", "marker", "in"} /\ u \in used
    /\ recs[u].title \in Title /\ recs[u].marker \in Markers /\ recs[u].in \in DOMAIN dirs

Counts == used \subseteq Uid /\ mishaps \in 0..MaxMishaps /\ starts \in 0..MaxStarts

Types == DirsOK /\ RecsOK /\ Counts /\ \A r \in Run : JobOK(r)

Bound == {"probe", "make", "entries", "share", "extend", "look", "mark"}

\* The gateway's application, by the wiring that run r goes by
Wired(r) ==
  Job(r).pc \in Bound =>
    /\ GatewayOf[Job(r).name] \in DOMAIN wiring.apps
    /\ Job(r).bind.app = wiring.apps[GatewayOf[Job(r).name]]

Stands(r, d, place) == d \in DOMAIN dirs /\ dirs[d].path = At1(r, place)

\* Folders that run r shares stay where they are, and shared
Granted(r) ==
  /\ Job(r).pc \in {"share", "extend", "look", "mark"} =>
       Stands(r, Job(r).folder, "Resources") /\ Stands(r, Job(r).users, "Users")
  /\ Job(r).pc = "share" /\ Job(r).level = 2 => Job(r).bind.app \in dirs[Job(r).folder].apps
  /\ Job(r).pc \in {"extend", "look", "mark"} =>
       \A d \in {Job(r).folder, Job(r).users} : Job(r).bind.app \in dirs[d].apps

\* What run r has listed is in them
SeenInside(r) ==
  Job(r).pc = "mark" =>
    \A u \in DOMAIN Job(r).seen : u \in DOMAIN recs /\ recs[u].in \in {Job(r).folder, Job(r).users}

Held(r) == Wired(r) /\ Granted(r) /\ SeenInside(r)

Sharing == ~undone => \A r \in Run : Held(r)

\* What a run that is alone has found or made is there
Course(r) ==
  /\ Job(r).pc \in {"find", "plan"} => {Job(r).folder, Job(r).users} \ {NoUid} \subseteq DOMAIN dirs
  /\ Job(r).pc \in Bound => Resolvable(Job(r).name) /\ Job(r).bind.conf \in DOMAIN wiring.confs
  /\ Job(r).pc \in {"probe", "make"} =>
       \A l \in 1..5 : l < Job(r).level => Exists(Ensured(Job(r).name)[l])
  /\ Job(r).pc = "make" => ~Exists(Path(r))
  /\ Job(r).pc \in {"entries", "share", "extend", "look"} => HasEntries(r)
  /\ Job(r).pc \in {"share", "extend", "look"} => {Job(r).folder, Job(r).users} \subseteq DOMAIN dirs

Alone == \A r \in Run : Job(r).alone => Course(r)

Inductive == Types /\ Sharing /\ Alone

------------------------------------------------------------------------------
(* Paths *)

LEMMA FrontOfTwo == ASSUME NEW a, NEW b PROVE S!Front(<<a, b>>) = <<a>>
<1> DEFINE s == <<a, b>>
           t == SubSeq(s, 1, 1)
<1>1. s \in Seq({a, b}) /\ Len(s) = 2 /\ s[1] = a
  OBVIOUS
<1>2. t \in Seq({a, b}) /\ Len(t) = 1 /\ t[1] = a
  BY <1>1, SubSeqProperties
<1> HIDE DEF t
<1>3. t = <<a>>
  <2>1. <<a>> \in Seq({a, b}) /\ Len(<<a>>) = 1 /\ <<a>>[1] = a
    OBVIOUS
  <2> QED BY <1>2, <2>1, SeqEqual
<1> QED BY <1>1, <1>3 DEF S!Front, t

LEMMA FrontOfThree == ASSUME NEW a, NEW b, NEW c PROVE S!Front(<<a, b, c>>) = <<a, b>>
<1> DEFINE s == <<a, b, c>>
           t == SubSeq(s, 1, 2)
<1>1. s \in Seq({a, b, c}) /\ Len(s) = 3 /\ s[1] = a /\ s[2] = b
  OBVIOUS
<1>2. t \in Seq({a, b, c}) /\ Len(t) = 2 /\ t[1] = a /\ t[2] = b
  BY <1>1, SubSeqProperties
<1> HIDE DEF t
<1>3. t = <<a, b>>
  <2>1. <<a, b>> \in Seq({a, b, c}) /\ Len(<<a, b>>) = 2 /\ <<a, b>>[1] = a /\ <<a, b>>[2] = b
    OBVIOUS
  <2> QED BY <1>2, <2>1, SeqEqual
<1> QED BY <1>1, <1>3 DEF S!Front, t

LEMMA PathsApart ==
  ASSUME NEW p, NEW q, NEW x, NEW y, At(p, x) = At(q, y)
  PROVE  p = q /\ x = y
BY DEF At
LEMMA EnsuredArePaths ==
  ASSUME NEW p \in ManifestName, NEW l \in 1..5
  PROVE  Ensured(p)[l] \in Paths
BY DEF Ensured, Paths, Homes, Projects, Place
LEMMA EnsuredAre ==
  ASSUME NEW p
  PROVE  /\ Ensured(p)[1] = Root /\ Ensured(p)[2] = Root /\ Ensured(p)[3] = Home(p)
         /\ Ensured(p)[4] = At(p, "Resources") /\ Ensured(p)[5] = At(p, "Users")
BY DEF Ensured

------------------------------------------------------------------------------
(* One run acts *)

\* All but the solitude of q stays
Keeps(q) ==
  /\ DOMAIN runs'[q] = DOMAIN runs[q]
  /\ runs'[q].pc = runs[q].pc /\ runs'[q].name = runs[q].name /\ runs'[q].folder = runs[q].folder
  /\ runs'[q].users = runs[q].users /\ runs'[q].writes = runs[q].writes /\ runs'[q].bind = runs[q].bind
  /\ runs'[q].level = runs[q].level /\ runs'[q].seen = runs[q].seen
  /\ runs'[q].alone \in BOOLEAN /\ (runs'[q].alone => runs[q].pc = "idle")

\* Nothing is taken away or moved
Grows ==
  /\ UNCHANGED <<undone, wiring>>
  /\ \A d \in DOMAIN dirs :
       d \in DOMAIN dirs' /\ dirs'[d].path = dirs[d].path /\ dirs[d].apps \subseteq dirs'[d].apps
  /\ \A u \in DOMAIN recs : u \in DOMAIN recs' /\ recs'[u].in = recs[u].in

LEMMA OthersKeep ==
  ASSUME Types, NEW r \in Run, NEW job, Become(r, job)
  PROVE  runs'[r] = job /\ \A q \in Run : q # r => Keeps(q)
<1>1. runs'[r] = job
  BY DEF Become
<1>2. ASSUME NEW q \in Run, q # r PROVE Keeps(q)
  <2>1. runs'[q] = [runs[q] EXCEPT !.alone = runs[q].alone /\ runs[q].pc = "idle"]
    BY <1>2 DEF Become
  <2>2. DOMAIN runs[q] = Fields
    BY DEF Types, JobOK, Job
  <2> QED BY <2>1, <2>2 DEF Keeps, Fields
<1> QED BY <1>1, <1>2

LEMMA KeptIsOK ==
  ASSUME NEW q \in Run, JobOK(q), Keeps(q)
  PROVE  JobOK(q)' /\ (Job(q).alone' => Course(q)')
BY DEF JobOK, Keeps, Job, Wanted, Course, Bound

LEMMA KeptIsHeld ==
  ASSUME NEW q \in Run, Held(q), Keeps(q), Grows
  PROVE  Held(q)'
<1>1. Wired(q)'
  BY DEF Held, Wired, Keeps, Grows, Job
<1>2. Granted(q)'
  BY DEF Held, Granted, Keeps, Grows, Job, Stands, At1
<1>3. SeenInside(q)'
  BY DEF Held, SeenInside, Keeps, Grows, Job
<1> QED BY <1>1, <1>2, <1>3 DEF Held

\* What is to be shown of a step of run r
LEMMA OneActs ==
  ASSUME Inductive, NEW r \in Run, NEW job, Become(r, job), Grows, (DirsOK /\ RecsOK /\ Counts)',
         JobOK(r)', ~undone => Held(r)', Job(r).alone' => Course(r)'
  PROVE  Inductive'
<1>1. \A q \in Run : q # r => Keeps(q)
  BY OthersKeep DEF Inductive
<1>2. \A q \in Run : JobOK(q)' /\ (Job(q).alone' => Course(q)')
  BY <1>1, KeptIsOK DEF Inductive, Types
<1>3. ~undone' => \A q \in Run : Held(q)'
  BY <1>1, KeptIsHeld DEF Inductive, Sharing, Grows
<1> QED BY <1>2, <1>3 DEF Inductive, Types, Sharing, Alone

------------------------------------------------------------------------------
(* Steps that leave the tenant alone *)

LEMMA SameStays ==
  ASSUME Types, Same, mishaps' \in 0..MaxMishaps
  PROVE  Grows /\ (DirsOK /\ RecsOK /\ Counts)'
BY DEF Types, Same, Grows, DirsOK, RecsOK, Counts

LEMMA LapseCounts ==
  ASSUME Fits, Counts, NEW b \in BOOLEAN, Lapse(b)
  PROVE  mishaps' \in 0..MaxMishaps
BY DEF Fits, Counts, Lapse

\* A folder that is found by its path is there
LEMMA UidAtIsThere ==
  ASSUME NEW path
  PROVE  IF Exists(path) THEN UidAt(path) \in DOMAIN dirs /\ dirs[UidAt(path)].path = path
                         ELSE UidAt(path) = NoUid
<1>1. CASE Exists(path)
  <2>1. PICK d : d \in FolderAt(path)
    BY <1>1 DEF Exists
  <2>2. UidAt(path) \in FolderAt(path)
    BY <1>1, <2>1 DEF UidAt
  <2> QED BY <1>1, <2>2 DEF FolderAt
<1> QED BY <1>1 DEF UidAt

\* What a look for the folders changes in a run
LEMMA LocatedGives ==
  ASSUME NEW job, DOMAIN job = Fields, job.alone \in BOOLEAN, NEW b \in BOOLEAN
  PROVE  LET new == MaybeLocated(job, b) IN
         /\ DOMAIN new = Fields
         /\ new.pc = job.pc /\ new.name = job.name /\ new.writes = job.writes
         /\ new.bind = job.bind /\ new.level = job.level /\ new.seen = job.seen /\ new.adopt = job.adopt
         /\ new.alone = (job.alone /\ ~b)
         /\ \/ new.folder = job.folder /\ new.users = job.users
            \/ /\ Exists(At(job.name, "Resources"))
               /\ new.folder = UidAt(At(job.name, "Resources"))
               /\ new.users = UidAt(At(job.name, "Users"))
BY DEF MaybeLocated, Located, Fields

LEMMA GoesIdle ==
  ASSUME Inductive, NEW r \in Run, Become(r, Idle), Same, mishaps' \in 0..MaxMishaps
  PROVE  Inductive'
<1>1. Grows /\ (DirsOK /\ RecsOK /\ Counts)'
  BY SameStays DEF Inductive
<1>2. Job(r)' = Idle
  BY OthersKeep DEF Inductive, Job
<1>3. JobOK(r)'
  BY <1>2 DEF JobOK, Idle, Fields, Steps
<1>4. Held(r)' /\ Course(r)'
  BY <1>2 DEF Held, Wired, Granted, SeenInside, Course, Bound, Idle
<1> QED BY <1>1, <1>3, <1>4, OneActs

LEMMA BeginWorks ==
  ASSUME Inductive, Fits, NEW r \in Run, Begin(r)
  PROVE  Inductive'
<1>1. PICK p \in ManifestName, adopt \in BOOLEAN, given \in {NoUid} \union Shareable :
        Become(r, [Idle EXCEPT !.pc = "find", !.name = p, !.adopt = adopt, !.folder = given,
                               !.alone = (Busy = {})])
  BY DEF Begin
<1> DEFINE job == [Idle EXCEPT !.pc = "find", !.name = p, !.adopt = adopt, !.folder = given,
                               !.alone = (Busy = {})]
<1>2. Grows /\ (DirsOK /\ RecsOK /\ Counts)'
  BY DEF Begin, Inductive, Types, Grows, DirsOK, RecsOK, Counts, Fits
<1>3. Job(r)' = job
  BY <1>1, OthersKeep DEF Inductive, Job
<1>4. JobOK(r)'
  BY <1>3 DEF JobOK, Idle, Fields, Steps, Wanted
<1>5. Held(r)'
  BY <1>3 DEF Held, Wired, Granted, SeenInside, Bound, Idle
<1>6. Course(r)'
  <2>1. {given} \ {NoUid} \subseteq DOMAIN dirs'
    BY DEF Shareable, Begin
  <2> QED BY <1>3, <2>1 DEF Course, Bound, Idle
<1> QED BY <1>1, <1>2, <1>4, <1>5, <1>6, OneActs

LEMMA FindWorks ==
  ASSUME Inductive, Fits, NEW r \in Run, Find(r)
  PROVE  Inductive'
<1>1. PICK lapse \in BOOLEAN :
        LET job == MaybeLocated(Job(r), lapse) IN
        /\ Lapse(lapse)
        /\ Become(r, IF job.folder = NoUid THEN Idle ELSE [job EXCEPT !.pc = "plan"])
  BY DEF Find
<1> DEFINE job == MaybeLocated(Job(r), lapse)
           new == [job EXCEPT !.pc = "plan"]
<1>2. Grows /\ (DirsOK /\ RecsOK /\ Counts)' /\ mishaps' \in 0..MaxMishaps
  BY <1>1, LapseCounts, SameStays DEF Find, Inductive, Types
<1>3. CASE job.folder = NoUid
  BY <1>1, <1>2, <1>3, GoesIdle DEF Find
<1>4. CASE job.folder # NoUid
  <2>1. JobOK(r) /\ Job(r).pc = "find" /\ (Job(r).alone => Course(r))
    BY DEF Find, Inductive, Types, Alone
  <2>2. /\ DOMAIN job = Fields /\ job.name = Job(r).name /\ job.writes = Job(r).writes
        /\ job.level = Job(r).level /\ job.alone = (Job(r).alone /\ ~lapse)
        /\ \/ job.folder = Job(r).folder /\ job.users = Job(r).users
           \/ /\ job.folder = UidAt(At(Job(r).name, "Resources"))
              /\ job.users = UidAt(At(Job(r).name, "Users"))
    BY <2>1, LocatedGives DEF JobOK
  <2> HIDE DEF job
  <2>3. Job(r)' = new /\ Become(r, new)
    BY <1>1, <1>4, OthersKeep DEF Inductive, Job, job
  <2>4. JobOK(r)'
    BY <2>1, <2>2, <2>3 DEF JobOK, Fields, Steps, Wanted
  <2>5. Held(r)'
    BY <2>2, <2>3 DEF Held, Wired, Granted, SeenInside, Bound, Fields
  <2>6. ASSUME Job(r).alone' PROVE Course(r)'
    <3>1. Job(r).alone /\ Course(r)
      BY <2>1, <2>2, <2>3, <2>6 DEF Fields
    <3>2. {job.folder, job.users} \ {NoUid} \subseteq DOMAIN dirs
      BY <2>1, <2>2, <3>1, UidAtIsThere DEF Course
    <3> QED BY <2>2, <2>3, <3>2 DEF Course, Bound, Fields, Find, Same
  <2> QED BY <1>2, <2>3, <2>4, <2>5, <2>6, OneActs
<1> QED BY <1>3, <1>4

LEMMA PlannedAreRows ==
  ASSUME NEW job, NEW s, NEW f
  PROVE  Planned(job, s, f) \subseteq Manifest[job.name]
BY DEF Planned, ToAdopt, ToCreate, ToUpdate, Matching

LEMMA PlanWorks ==
  ASSUME Inductive, Fits, NEW r \in Run, Plan(r)
  PROVE  Inductive'
<1> DEFINE s == Listing({Job(r).folder, Job(r).users})
           Found(lapse) == IF Job(r).found THEN Job(r) ELSE MaybeLocated(Job(r), lapse)
           New(lapse, f) == [Found(lapse) EXCEPT !.pc = "refer", !.writes = Planned(Found(lapse), s, f)]
<1>1. PICK lapse \in BOOLEAN, f \in TitleIndexes(s) :
        /\ Lapse(lapse)
        /\ Become(r, Idle) \/ Become(r, New(lapse, f))
  BY DEF Plan
<1>2. Grows /\ (DirsOK /\ RecsOK /\ Counts)' /\ mishaps' \in 0..MaxMishaps
  BY <1>1, LapseCounts, SameStays DEF Plan, Inductive, Types
<1>3. CASE Become(r, Idle)
  BY <1>2, <1>3, GoesIdle DEF Plan
<1>4. CASE Become(r, New(lapse, f))
  <2> DEFINE job == Found(lapse)
             new == New(lapse, f)
  <2>1. JobOK(r) /\ Job(r).pc = "plan"
    BY DEF Plan, Inductive, Types
  <2>2. DOMAIN job = Fields /\ job.name = Job(r).name /\ job.level = Job(r).level /\ job.alone \in BOOLEAN
    BY <2>1, LocatedGives DEF JobOK
  <2>3. Planned(job, s, f) \subseteq Manifest[job.name]
    BY PlannedAreRows
  <2> HIDE DEF Found
  <2>4. Job(r)' = new
    BY <1>4, OthersKeep DEF Inductive, Job
  <2>5. JobOK(r)'
    BY <2>1, <2>2, <2>3, <2>4 DEF JobOK, Fields, Steps, Wanted
  <2>6. Held(r)' /\ Course(r)'
    BY <2>2, <2>4 DEF Held, Wired, Granted, SeenInside, Course, Bound, Fields
  <2> QED BY <1>2, <1>4, <2>5, <2>6, OneActs
<1> QED BY <1>1, <1>3, <1>4

LEMMA ReferWorks ==
  ASSUME Inductive, Fits, NEW r \in Run, Refer(r)
  PROVE  Inductive'
<1> DEFINE new == [Job(r) EXCEPT !.pc = "probe", !.bind = Binding(Job(r).name)]
<1>1. JobOK(r) /\ Job(r).pc = "refer" /\ Job(r).level = 1 /\ Resolvable(Job(r).name)
  BY DEF Refer, Inductive, Types, JobOK
<1>2. Grows /\ (DirsOK /\ RecsOK /\ Counts)'
  BY SameStays DEF Refer, Inductive, Types, Counts
<1>3. Job(r)' = new /\ Become(r, new)
  BY OthersKeep DEF Refer, Inductive, Job
<1>4. JobOK(r)'
  BY <1>1, <1>3 DEF JobOK, Fields, Steps, Wanted
<1>5. /\ Binding(Job(r).name).app = wiring.apps[GatewayOf[Job(r).name]]
      /\ Binding(Job(r).name).conf \in DOMAIN wiring.confs
  <2>1. (CHOOSE c \in Resolved(Job(r).name) : TRUE) \in Resolved(Job(r).name)
    BY <1>1 DEF Resolvable
  <2>2. Resolved(Job(r).name) \subseteq DOMAIN wiring.confs
    BY DEF Resolved, ConfsOf
  <2> QED BY <2>1, <2>2 DEF Binding
<1>6. Held(r)'
  BY <1>1, <1>2, <1>3, <1>5 DEF JobOK, Held, Wired, Granted, SeenInside, Bound, Fields, Grows, Resolvable
<1>7. Course(r)'
  <2>1. ASSUME NEW l \in 1..5, l < 1 PROVE FALSE
    BY <2>1
  <2>2. Resolvable(Job(r).name)'
    BY <1>1, <1>2, <1>3 DEF Grows, JobOK, Fields, Resolvable, Resolved, ConfsOf
  <2>3. (Job(r).bind.conf \in DOMAIN wiring.confs)'
    BY <1>1, <1>2, <1>3, <1>5 DEF Grows, JobOK, Fields
  <2>4. Job(r).pc' = "probe" /\ Job(r).level' = 1
    BY <1>1, <1>3 DEF JobOK, Fields
  <2> QED BY <2>1, <2>2, <2>3, <2>4 DEF Course
<1> QED BY <1>2, <1>3, <1>4, <1>6, <1>7, OneActs

------------------------------------------------------------------------------
(* Making the folders *)

LEMMA ExistsGrows ==
  ASSUME Grows, NEW path, Exists(path)
  PROVE  Exists(path)'
BY DEF Grows, Exists, FolderAt

LEMMA NextLevelGives ==
  ASSUME NEW job, DOMAIN job = Fields, job.level \in 1..5
  PROVE  LET new == NextLevel(job) IN
         /\ DOMAIN new = Fields
         /\ new.name = job.name /\ new.writes = job.writes /\ new.bind = job.bind /\ new.alone = job.alone
         /\ \/ job.level = 5 /\ new.pc = "entries" /\ new.level = 1
            \/ job.level < 5 /\ new.pc = "probe" /\ new.level = job.level + 1
BY DEF NextLevel, Fields

\* A run keeps what it goes by, as long as nothing is taken away
LEMMA BindingGrows ==
  ASSUME NEW r \in Run, Grows, Job(r).pc \in Bound, Job(r)'.name = Job(r).name, Job(r)'.bind = Job(r).bind
  PROVE  /\ Wired(r) => Wired(r)'
         /\ Course(r) => Resolvable(Job(r).name)' /\ (Job(r).bind.conf \in DOMAIN wiring.confs)'
BY DEF Grows, Wired, Course, Resolvable, Resolved, ConfsOf

LEMMA LevelWorks ==
  ASSUME Inductive, NEW r \in Run, Job(r).pc \in {"probe", "make"}, Become(r, NextLevel(Job(r))), Grows,
         (DirsOK /\ RecsOK /\ Counts)', NEW path, path = Path(r), Exists(path)'
  PROVE  Inductive'
<1> DEFINE new == NextLevel(Job(r))
<1>1. JobOK(r) /\ (~undone => Held(r)) /\ (Job(r).alone => Course(r)) /\ Job(r).pc \in Bound
  BY DEF Inductive, Types, Sharing, Alone, Bound
<1>2. /\ DOMAIN new = Fields
      /\ new.name = Job(r).name /\ new.writes = Job(r).writes /\ new.bind = Job(r).bind
      /\ new.alone = Job(r).alone
      /\ \/ Job(r).level = 5 /\ new.pc = "entries" /\ new.level = 1
         \/ Job(r).level < 5 /\ new.pc = "probe" /\ new.level = Job(r).level + 1
  BY <1>1, NextLevelGives DEF JobOK
<1>3. Job(r)' = new
  BY OthersKeep DEF Inductive, Job
<1> HIDE DEF new
<1>4. JobOK(r)'
  BY <1>1, <1>2, <1>3 DEF JobOK, Steps, Wanted
<1>5. ~undone => Held(r)'
  BY <1>1, <1>2, <1>3, BindingGrows DEF Held, Granted, SeenInside
<1>6. ASSUME Job(r).alone' PROVE Course(r)'
  <2>1. Course(r)
    BY <1>1, <1>2, <1>3, <1>6
  <2> DEFINE p == Job(r).name
  <2>2. \A l \in 1..5 : l < Job(r).level => Exists(Ensured(p)[l])
    BY <1>1, <2>1 DEF Course
  <2>3. \A l \in 1..5 : l <= Job(r).level => \E x : x = Ensured(p)[l] /\ Exists(x)'
    <3> TAKE l \in 1..5
    <3> HAVE l <= Job(r).level
    <3> DEFINE x == Ensured(p)[l]
    <3>1. CASE l = Job(r).level
      BY <3>1 DEF Path
    <3>2. CASE l < Job(r).level
      <4>1. Exists(x)
        BY <2>2, <3>2
      <4> QED BY <4>1, ExistsGrows
    <3> QED BY <1>1, <3>1, <3>2 DEF JobOK
  <2>4. Job(r)'.name = p /\ Job(r)'.pc = new.pc /\ Job(r)'.level = new.level
    BY <1>2, <1>3
  <2>5. Resolvable(Job(r).name)' /\ (Job(r).bind.conf \in DOMAIN wiring.confs)'
    BY <1>1, <1>2, <1>3, <2>1, BindingGrows
  <2>6. CASE Job(r).level = 5
    <3>1. \E x : x = At(p, "Resources") /\ Exists(x)'
      BY <2>3, <2>6, EnsuredAre
    <3>2. \E x : x = At(p, "Users") /\ Exists(x)'
      BY <2>3, <2>6, EnsuredAre
    <3>3. HasEntries(r)'
      BY <2>4, <3>1, <3>2 DEF HasEntries, Place, At1
    <3> QED BY <1>2, <2>4, <2>5, <2>6, <3>3 DEF Course
  <2>7. CASE Job(r).level < 5
    <3>1. Job(r)'.pc = "probe" /\ Job(r)'.level = Job(r).level + 1
      BY <1>2, <2>4, <2>7
    <3>2. (\A l \in 1..5 : l < Job(r).level => Exists(Ensured(Job(r).name)[l]))'
      <4> SUFFICES ASSUME NEW l \in 1..5, l < Job(r).level + 1
                   PROVE  Exists(Ensured(Job(r).name)[l])'
        BY <3>1
      <4> QED BY <1>1, <2>3, <2>4 DEF JobOK
    <3> QED BY <2>5, <3>1, <3>2 DEF Course
  <2> QED BY <1>1, <2>6, <2>7 DEF JobOK
<1> QED BY <1>4, <1>5, <1>6, OneActs DEF new

LEMMA ProbeWorks ==
  ASSUME Inductive, Fits, NEW r \in Run, Probe(r)
  PROVE  Inductive'
<1>1. PICK lapse \in BOOLEAN :
        /\ Lapse(lapse)
        /\ Become(r, IF Exists(Path(r)) /\ ~lapse THEN NextLevel(Job(r))
                     ELSE [Job(r) EXCEPT !.pc = "make", !.alone = @ /\ ~lapse])
  BY DEF Probe
<1>2. Grows /\ (DirsOK /\ RecsOK /\ Counts)'
  BY <1>1, LapseCounts, SameStays DEF Probe, Inductive, Types
<1>3. CASE Exists(Path(r)) /\ ~lapse
  <2>1. \E path : path = Path(r) /\ Exists(path)'
    BY <1>2, <1>3, ExistsGrows
  <2> QED BY <1>1, <1>2, <1>3, <2>1, LevelWorks DEF Probe
<1>4. CASE ~(Exists(Path(r)) /\ ~lapse)
  <2> DEFINE new == [Job(r) EXCEPT !.pc = "make", !.alone = @ /\ ~lapse]
  <2>1. JobOK(r) /\ (~undone => Held(r)) /\ (Job(r).alone => Course(r)) /\ Job(r).pc = "probe"
    BY DEF Inductive, Types, Sharing, Alone, Probe
  <2>2. Job(r)' = new /\ Become(r, new)
    BY <1>1, <1>4, OthersKeep DEF Inductive, Job
  <2>3. JobOK(r)'
    BY <2>1, <2>2 DEF JobOK, Fields, Steps, Wanted
  <2>4. /\ Job(r)'.name = Job(r).name /\ Job(r)'.bind = Job(r).bind /\ Job(r)'.level = Job(r).level
        /\ Job(r)'.pc = "make" /\ Job(r)'.alone = (Job(r).alone /\ ~lapse)
    BY <2>1, <2>2 DEF JobOK, Fields
  <2>5. ~undone => Held(r)'
    BY <1>2, <2>1, <2>4, BindingGrows DEF Held, Granted, SeenInside, Bound
  <2>6. ASSUME Job(r).alone' PROVE Course(r)'
    <3>1. Course(r) /\ ~Exists(Path(r))
      BY <1>4, <2>1, <2>4, <2>6
    <3>2. Resolvable(Job(r).name)' /\ (Job(r).bind.conf \in DOMAIN wiring.confs)'
      BY <1>2, <2>1, <2>4, <3>1, BindingGrows DEF Bound
    <3>3. (\A l \in 1..5 : l < Job(r).level => Exists(Ensured(Job(r).name)[l]))' /\ ~Exists(Path(r))'
      BY <2>1, <2>4, <3>1 DEF Course, Probe, Same, Exists, FolderAt, Path
    <3> QED BY <2>4, <3>2, <3>3 DEF Course
  <2> QED BY <1>2, <2>2, <2>3, <2>5, <2>6, OneActs
<1> QED BY <1>3, <1>4

LEMMA FreshIsNew ==
  ASSUME NEW uids, NEW u \in Fresh(uids)
  PROVE  u \in uids /\ u \notin used
BY DEF Fresh, First

LEMMA PathIsPath ==
  ASSUME Types, NEW r \in Run, Job(r).pc # "idle"
  PROVE  Path(r) \in Paths
BY EnsuredArePaths DEF Types, JobOK, Path

LEMMA MakeWorks ==
  ASSUME Inductive, Fits, NEW r \in Run, Make(r)
  PROVE  Inductive' /\ Grows
<1>0. PICK path : path = Path(r)
  OBVIOUS
<1>1. PICK d \in Fresh(PathUids[path]) :
        /\ dirs' = [e \in DOMAIN dirs \union {d} |->
                      IF e = d THEN [path |-> path, apps |-> {}] ELSE dirs[e]]
        /\ used' = used \union {d}
  BY <1>0 DEF Make
<1>2. d \in PathUids[path] /\ d \notin used /\ d \notin DOMAIN dirs /\ path \in Paths /\ ~Exists(path)
  BY <1>0, <1>1, FreshIsNew, PathIsPath DEF Make, Inductive, Types, DirsOK, CanMake
<1>3. \A e \in DOMAIN dirs : dirs[e].path # path
  BY <1>2 DEF Exists, FolderAt
<1>4. Grows
  BY <1>1, <1>2 DEF Make, Grows
<1>5. DirsOK'
  BY <1>1, <1>2, <1>3 DEF Inductive, Types, DirsOK
<1>6. (RecsOK /\ Counts)'
  BY <1>1, <1>2 DEF Make, Inductive, Types, RecsOK, Counts, Fits
<1>7. Exists(path)'
  BY <1>1 DEF Exists, FolderAt
<1> QED BY <1>0, <1>4, <1>5, <1>6, <1>7, LevelWorks DEF Make

LEMMA EntriesWorks ==
  ASSUME Inductive, Fits, NEW r \in Run, Entries(r)
  PROVE  Inductive'
<1> DEFINE new == [Job(r) EXCEPT !.pc = "share", !.level = 1, !.found = TRUE,
                     !.folder = UidAt(At1(r, "Resources")), !.users = UidAt(At1(r, "Users"))]
<1>1. JobOK(r) /\ (~undone => Held(r)) /\ (Job(r).alone => Course(r)) /\ Job(r).pc = "entries"
  BY DEF Inductive, Types, Sharing, Alone, Entries
<1>2. Grows /\ (DirsOK /\ RecsOK /\ Counts)'
  BY SameStays DEF Entries, Inductive, Types, Counts
<1>3. Job(r)' = new /\ Become(r, new)
  BY OthersKeep DEF Entries, Inductive, Job
<1>4. JobOK(r)'
  BY <1>1, <1>3 DEF JobOK, Fields, Steps, Wanted
<1>5. /\ Job(r)'.name = Job(r).name /\ Job(r)'.bind = Job(r).bind /\ Job(r)'.alone = Job(r).alone
      /\ Job(r)'.pc = "share" /\ Job(r)'.level = 1
      /\ Job(r)'.folder = UidAt(At1(r, "Resources")) /\ Job(r)'.users = UidAt(At1(r, "Users"))
  BY <1>1, <1>3 DEF JobOK, Fields
<1>6. \A place \in Place :
        Exists(At1(r, place)) /\ UidAt(At1(r, place)) \in DOMAIN dirs
        /\ dirs[UidAt(At1(r, place))].path = At1(r, place)
  BY UidAtIsThere DEF Entries, HasEntries
<1>7. (Stands(r, Job(r).folder, "Resources") /\ Stands(r, Job(r).users, "Users"))'
  BY <1>5, <1>6 DEF Entries, Same, Stands, At1, Place
<1>8. ~undone => Held(r)'
  BY <1>1, <1>2, <1>5, <1>7, BindingGrows DEF Held, Granted, SeenInside, Bound
<1>9. ASSUME Job(r).alone' PROVE Course(r)'
  <2>1. Resolvable(Job(r).name)' /\ (Job(r).bind.conf \in DOMAIN wiring.confs)'
    BY <1>1, <1>2, <1>5, <1>9, BindingGrows DEF Bound
  <2>2. HasEntries(r)'
    BY <1>5 DEF Entries, Same, HasEntries, Exists, FolderAt, At1
  <2>3. ({Job(r).folder, Job(r).users} \subseteq DOMAIN dirs)'
    BY <1>7 DEF Stands
  <2> QED BY <1>5, <2>1, <2>2, <2>3 DEF Course
<1> QED BY <1>2, <1>3, <1>4, <1>8, <1>9, OneActs

------------------------------------------------------------------------------
(* Sharing them, and what comes after *)

LEMMA ShareWorks ==
  ASSUME Inductive, Fits, NEW r \in Run, Share(r)
  PROVE  Inductive' /\ Grows
<1> DEFINE new == IF Job(r).level = 1 THEN [Job(r) EXCEPT !.level = 2]
                  ELSE [Job(r) EXCEPT !.pc = "extend", !.level = 1]
<1>1. JobOK(r) /\ (~undone => Held(r)) /\ (Job(r).alone => Course(r)) /\ Job(r).pc = "share"
  BY DEF Inductive, Types, Sharing, Alone, Share
<1>2. PICK e, app : /\ e = Shared(r) /\ app = Job(r).bind.app /\ e \in DOMAIN dirs
                    /\ dirs' = [dirs EXCEPT ![e].apps = @ \union {app}]
  BY DEF Share, CanShare
<1>3. DirsOK /\ RecsOK /\ Counts
  BY DEF Inductive, Types
<1>4. /\ DOMAIN dirs' = DOMAIN dirs
      /\ \A d \in DOMAIN dirs : /\ DOMAIN dirs'[d] = {"path", "apps"} /\ dirs'[d].path = dirs[d].path
                                /\ dirs'[d].apps = dirs[d].apps \union (IF d = e THEN {app} ELSE {})
  BY <1>2, <1>3 DEF DirsOK
<1>5. Grows
  BY <1>4 DEF Share, Grows
<1>6. (DirsOK /\ RecsOK /\ Counts)'
  BY <1>3, <1>4 DEF Share, DirsOK, RecsOK, Counts
<1>7. Job(r)' = new /\ Become(r, new)
  BY OthersKeep DEF Share, Inductive, Job
<1>8. JobOK(r)'
  BY <1>1, <1>7 DEF JobOK, Fields, Steps, Wanted
<1>9. /\ Job(r)'.name = Job(r).name /\ Job(r)'.bind = Job(r).bind /\ Job(r)'.alone = Job(r).alone
      /\ Job(r)'.folder = Job(r).folder /\ Job(r)'.users = Job(r).users
      /\ \/ Job(r).level = 1 /\ Job(r)'.pc = "share" /\ Job(r)'.level = 2
         \/ Job(r).level = 2 /\ Job(r)'.pc = "extend" /\ Job(r)'.level = 1
  BY <1>1, <1>7 DEF JobOK, Fields
<1>10. ASSUME ~undone PROVE Held(r)'
  <2>1. Held(r) /\ Job(r).folder \in DOMAIN dirs /\ Job(r).users \in DOMAIN dirs
    BY <1>1, <1>10 DEF Held, Granted, Stands
  <2>2. (Stands(r, Job(r).folder, "Resources") /\ Stands(r, Job(r).users, "Users"))'
    BY <1>1, <1>4, <1>9, <2>1 DEF Held, Granted, Stands, At1
  <2>3. CASE Job(r).level = 1
    <3>1. app \in dirs'[Job(r).folder].apps
      BY <1>2, <1>4, <2>1, <2>3 DEF Shared
    <3> QED BY <1>1, <1>2, <1>5, <1>9, <2>1, <2>2, <2>3, <3>1, BindingGrows
            DEF Held, Granted, SeenInside, Bound
  <2>4. CASE Job(r).level = 2
    <3>1. app \in dirs'[Job(r).users].apps
      BY <1>2, <1>4, <2>1, <2>4 DEF Shared
    <3>2. app \in dirs'[Job(r).folder].apps
      BY <1>1, <1>2, <1>4, <2>1, <2>4 DEF Held, Granted
    <3> QED BY <1>1, <1>2, <1>5, <1>9, <2>1, <2>2, <2>4, <3>1, <3>2, BindingGrows
            DEF Held, Granted, SeenInside, Bound
  <2> QED BY <1>9, <2>3, <2>4
<1>11. ASSUME Job(r).alone' PROVE Course(r)'
  <2>1. Course(r)
    BY <1>1, <1>9, <1>11
  <2>2. Resolvable(Job(r).name)' /\ (Job(r).bind.conf \in DOMAIN wiring.confs)'
    BY <1>1, <1>5, <1>9, <2>1, BindingGrows DEF Bound
  <2>3. HasEntries(r)'
    <3>1. ASSUME NEW place \in Place PROVE \E x : x = At1(r, place) /\ x = At1(r, place)' /\ Exists(x)
      BY <1>1, <1>9, <2>1 DEF Course, HasEntries, At1
    <3> QED BY <1>5, <3>1, ExistsGrows DEF HasEntries
  <2> QED BY <1>1, <1>4, <1>9, <2>1, <2>2, <2>3 DEF Course
<1> QED BY <1>5, <1>6, <1>7, <1>8, <1>10, <1>11, OneActs

LEMMA ExtendWorks ==
  ASSUME Inductive, Fits, NEW r \in Run, Extend(r)
  PROVE  Inductive' /\ Grows
<1> DEFINE job == [Job(r) EXCEPT !.pc = "look"]
<1>1. /\ JobOK(r) /\ (~undone => Held(r)) /\ (Job(r).alone => Course(r)) /\ Job(r).pc = "extend"
      /\ DirsOK /\ RecsOK /\ Counts
  BY DEF Inductive, Types, Sharing, Alone, Extend
<1>2. PICK gone \in SUBSET Missing(r) :
        LET new == Missing(r) \ gone
            uids == UNION {Fresh(TitleUids[row.title]) : row \in new}
            RowFor(u) == CHOOSE row \in new : u \in TitleUids[row.title] IN
        /\ Lapse(gone # {})
        /\ recs' = [u \in DOMAIN recs \union uids |->
                     IF u \notin uids THEN recs[u]
                     ELSE [title |-> RowFor(u).title, body |-> RowFor(u).body, marker |-> Unmarked,
                           in |-> UidAt(At1(r, RowFor(u).place))]]
        /\ used' = used \union uids
  BY DEF Extend
<1> DEFINE rows == Missing(r) \ gone
           uids == UNION {Fresh(TitleUids[row.title]) : row \in rows}
           RowFor(u) == CHOOSE row \in rows : u \in TitleUids[row.title]
<1>3. ASSUME NEW row \in Missing(r)
      PROVE  row.title \in Title /\ row.place \in Place
  BY <1>1, <1>3 DEF Missing, Wanted, JobOK, Fits
<1>4. ASSUME NEW u \in uids
      PROVE  u \in Uid /\ u \notin used /\ RowFor(u) \in Missing(r)
  <2>1. PICK row \in rows : u \in Fresh(TitleUids[row.title])
    BY <1>2
  <2>2. u \in TitleUids[row.title] /\ u \notin used
    BY <2>1, FreshIsNew
  <2> QED BY <1>2, <1>3, <2>1, <2>2 DEF Fits
<1>5. Grows
  BY <1>1, <1>2, <1>4 DEF Extend, Grows, RecsOK
<1>6. (DirsOK /\ Counts)'
  <2>1. mishaps' \in 0..MaxMishaps
    BY <1>1, <1>2, LapseCounts
  <2> QED BY <1>1, <1>2, <1>4, <2>1 DEF Extend, DirsOK, Counts
<1>7. RecsOK'
  <2> SUFFICES ASSUME NEW u \in DOMAIN recs'
               PROVE  /\ DOMAIN recs'[u] = {"title", "body", "marker", "in"} /\ u \in used'
                      /\ recs'[u].title \in Title /\ recs'[u].marker \in Markers
                      /\ recs'[u].in \in DOMAIN dirs'
    BY DEF RecsOK
  <2>1. CASE u \notin uids
    BY <1>1, <1>2, <2>1 DEF RecsOK, Extend
  <2>2. CASE u \in uids
    <3>1. RowFor(u).title \in Title /\ RowFor(u).place \in Place
      BY <1>3, <1>4, <2>2
    <3>2. UidAt(At1(r, RowFor(u).place)) \in DOMAIN dirs
      BY <3>1, UidAtIsThere DEF Extend, CanExtend, HasEntries
    <3>3. Unmarked \in Markers
      BY DEF Unmarked, Markers, Managers
    <3> QED BY <1>2, <2>2, <3>1, <3>2, <3>3 DEF Extend
  <2> QED BY <2>1, <2>2
<1>8. Job(r)' = job /\ Become(r, job)
  BY OthersKeep DEF Extend, Inductive, Job
<1>9. JobOK(r)'
  BY <1>1, <1>8 DEF JobOK, Fields, Steps, Wanted
<1>10. /\ Job(r)'.name = Job(r).name /\ Job(r)'.bind = Job(r).bind /\ Job(r)'.alone = Job(r).alone
       /\ Job(r)'.folder = Job(r).folder /\ Job(r)'.users = Job(r).users /\ Job(r)'.pc = "look"
  BY <1>1, <1>8 DEF JobOK, Fields
<1>11. ~undone => Held(r)'
  BY <1>1, <1>5, <1>10, BindingGrows DEF Extend, Held, Granted, SeenInside, Bound, Stands, At1
<1>12. ASSUME Job(r).alone' PROVE Course(r)'
  <2>1. Course(r)
    BY <1>1, <1>10, <1>12
  <2>2. Resolvable(Job(r).name)' /\ (Job(r).bind.conf \in DOMAIN wiring.confs)'
    BY <1>1, <1>5, <1>10, <2>1, BindingGrows DEF Bound
  <2>3. HasEntries(r)'
    BY <1>1, <1>10, <2>1 DEF Extend, Course, HasEntries, Exists, FolderAt, At1
  <2> QED BY <1>1, <1>10, <2>1, <2>2, <2>3 DEF Course, Extend
<1> QED BY <1>5, <1>6, <1>7, <1>8, <1>9, <1>11, <1>12, OneActs

\* What a run lists is in its folders
LEMMA ListingInside ==
  ASSUME NEW ds, NEW u \in DOMAIN Listing(ds)
  PROVE  u \in DOMAIN recs /\ recs[u].in \in ds
BY DEF Listing

LEMMA LookWorks ==
  ASSUME Inductive, Fits, NEW r \in Run, Look(r)
  PROVE  Inductive'
<1>1. /\ JobOK(r) /\ (~undone => Held(r)) /\ (Job(r).alone => Course(r)) /\ Job(r).pc = "look"
      /\ DirsOK
  BY DEF Inductive, Types, Sharing, Alone, Look
<1>2. PICK lapse \in BOOLEAN :
        LET job == MaybeLocated(Job(r), lapse) IN
        /\ Lapse(lapse)
        /\ Become(r, [job EXCEPT !.pc = "mark",
                        !.seen = [u \in DOMAIN Listing({job.folder, job.users}) |-> recs[u].title]])
  BY DEF Look
<1> DEFINE job == MaybeLocated(Job(r), lapse)
           new == [job EXCEPT !.pc = "mark",
                     !.seen = [u \in DOMAIN Listing({job.folder, job.users}) |-> recs[u].title]]
<1>3. Grows /\ (DirsOK /\ RecsOK /\ Counts)'
  BY <1>2, LapseCounts, SameStays DEF Look, Inductive, Types
<1>4. /\ DOMAIN job = Fields /\ job.name = Job(r).name /\ job.writes = Job(r).writes
      /\ job.bind = Job(r).bind /\ job.level = Job(r).level /\ job.alone = (Job(r).alone /\ ~lapse)
      /\ \/ job.folder = Job(r).folder /\ job.users = Job(r).users
         \/ /\ Exists(At(Job(r).name, "Resources"))
            /\ job.folder = UidAt(At(Job(r).name, "Resources"))
            /\ job.users = UidAt(At(Job(r).name, "Users"))
  BY <1>1, LocatedGives DEF JobOK
<1> HIDE DEF job
<1>5. Job(r)' = new /\ Become(r, new)
  BY <1>2, OthersKeep DEF Inductive, Job, job
<1>6. JobOK(r)'
  BY <1>1, <1>4, <1>5 DEF JobOK, Fields, Steps, Wanted
<1>7. /\ Job(r)'.name = Job(r).name /\ Job(r)'.bind = Job(r).bind /\ Job(r)'.alone = (Job(r).alone /\ ~lapse)
      /\ Job(r)'.folder = job.folder /\ Job(r)'.users = job.users /\ Job(r)'.pc = "mark"
      /\ Job(r)'.seen = [u \in DOMAIN Listing({job.folder, job.users}) |-> recs[u].title]
  BY <1>4, <1>5 DEF Fields
<1>8. ASSUME ~undone PROVE Held(r)'
  <2>1. /\ Stands(r, Job(r).folder, "Resources") /\ Stands(r, Job(r).users, "Users")
        /\ \A d \in {Job(r).folder, Job(r).users} : Job(r).bind.app \in dirs[d].apps
    BY <1>1, <1>8 DEF Held, Granted
  <2>2. UidAt(At1(r, "Resources")) = Job(r).folder /\ UidAt(At1(r, "Users")) = Job(r).users
    <3>1. Exists(At1(r, "Resources")) /\ Exists(At1(r, "Users"))
      BY <2>1 DEF Stands, Exists, FolderAt
    <3> QED BY <1>1, <2>1, <3>1, UidAtIsThere DEF DirsOK, Stands
  <2>3. job.folder = Job(r).folder /\ job.users = Job(r).users
    BY <1>4, <2>2 DEF At1
  <2>4. Wired(r)'
    BY <1>1, <1>3, <1>7, <1>8, BindingGrows DEF Held, Bound
  <2>5. Granted(r)'
    BY <1>7, <2>1, <2>3 DEF Granted, Stands, At1, Look, Same
  <2>6. SeenInside(r)'
    BY <1>7, ListingInside DEF SeenInside, Look, Same
  <2> QED BY <2>4, <2>5, <2>6 DEF Held
<1>9. ASSUME Job(r).alone' PROVE Course(r)'
  <2>1. Course(r)
    BY <1>1, <1>7, <1>9
  <2>2. Resolvable(Job(r).name)' /\ (Job(r).bind.conf \in DOMAIN wiring.confs)'
    BY <1>1, <1>3, <1>7, <2>1, BindingGrows DEF Bound
  <2> QED BY <1>7, <2>2 DEF Course
<1> QED BY <1>3, <1>5, <1>6, <1>8, <1>9, OneActs

\* A row of the run has been written, or passed over
LEMMA RowWorks ==
  ASSUME Inductive, NEW r \in Run, NEW row, Job(r).pc = "mark",
         Become(r, [Job(r) EXCEPT !.writes = @ \ {row}]), Grows, (DirsOK /\ RecsOK /\ Counts)', UNCHANGED dirs
  PROVE  Inductive'
<1> DEFINE new == [Job(r) EXCEPT !.writes = @ \ {row}]
<1>1. JobOK(r) /\ (~undone => Held(r)) /\ (Job(r).alone => Course(r))
  BY DEF Inductive, Types, Sharing, Alone
<1>2. Job(r)' = new
  BY OthersKeep DEF Inductive, Job
<1>3. JobOK(r)'
  BY <1>1, <1>2 DEF JobOK, Fields, Steps, Wanted
<1>4. /\ Job(r)'.name = Job(r).name /\ Job(r)'.bind = Job(r).bind /\ Job(r)'.alone = Job(r).alone
      /\ Job(r)'.folder = Job(r).folder /\ Job(r)'.users = Job(r).users /\ Job(r)'.pc = "mark"
      /\ Job(r)'.seen = Job(r).seen
  BY <1>1, <1>2 DEF JobOK, Fields
<1>5. ASSUME ~undone PROVE Held(r)'
  <2>1. Wired(r)'
    BY <1>1, <1>4, <1>5, BindingGrows DEF Held, Bound
  <2>2. Granted(r)'
    BY <1>1, <1>4, <1>5 DEF Held, Granted, Stands, At1
  <2>3. SeenInside(r)'
    BY <1>1, <1>4, <1>5 DEF Held, SeenInside, Grows
  <2> QED BY <2>1, <2>2, <2>3 DEF Held
<1>6. ASSUME Job(r).alone' PROVE Course(r)'
  <2>1. Resolvable(Job(r).name)' /\ (Job(r).bind.conf \in DOMAIN wiring.confs)'
    BY <1>1, <1>4, <1>6, BindingGrows DEF Bound
  <2> QED BY <1>4, <2>1 DEF Course
<1> QED BY <1>3, <1>5, <1>6, OneActs

LEMMA MarkWorks ==
  ASSUME Inductive, Fits, NEW r \in Run, NEW row \in Job(r).writes, NEW u \in DOMAIN recs, Mark(r, row, u)
  PROVE  Inductive'
<1>1. JobOK(r) /\ DirsOK /\ RecsOK /\ Counts /\ Job(r).pc = "mark"
  BY DEF Inductive, Types, Mark
<1>2. EncodeMarker(row.ref, Job(r).name) \in Markers
  BY <1>1 DEF JobOK, Wanted, Fits, EncodeMarker, Markers, Managers
<1>3. PICK marker \in Markers : recs' = [recs EXCEPT ![u].marker = marker]
  BY <1>2 DEF Mark
<1>4. Grows
  BY <1>1, <1>3 DEF Mark, Grows, RecsOK
<1>5. (DirsOK /\ RecsOK /\ Counts)'
  BY <1>1, <1>3 DEF Mark, DirsOK, RecsOK, Counts
<1> QED BY <1>1, <1>4, <1>5, RowWorks DEF Mark

LEMMA SkipWorks ==
  ASSUME Inductive, Fits, NEW r \in Run, Skip(r)
  PROVE  Inductive'
<1>1. Grows /\ (DirsOK /\ RecsOK /\ Counts)'
  BY SameStays DEF Skip, Inductive, Types, Counts
<1>2. PICK row \in Job(r).writes : Become(r, [Job(r) EXCEPT !.writes = @ \ {row}])
  BY DEF Skip
<1> QED BY <1>1, <1>2, RowWorks DEF Skip, Same

\* A run ends, in whichever way
LEMMA EndWorks ==
  ASSUME Inductive, Fits, NEW r \in Run, Finish(r) \/ GiveUp(r) \/ MarkFails(r) \/ Fail(r)
  PROVE  Inductive'
<1>1. mishaps' \in 0..MaxMishaps
  BY DEF Finish, GiveUp, MarkFails, Fail, Inductive, Types, Counts, Fits
<1> QED BY <1>1, GoesIdle DEF Finish, GiveUp, MarkFails, Fail

------------------------------------------------------------------------------
(* People and other tools *)

LEMMA OthersAct ==
  ASSUME Inductive, Others, (DirsOK /\ RecsOK /\ Counts)', undone' \/ (~undone /\ (Grows \/ Busy = {}))
  PROVE  Inductive'
<1>1. ASSUME NEW q \in Run, q \in Busy
      PROVE  Keeps(q) /\ JobOK(q)' /\ ~Job(q).alone'
  <2>1. JobOK(q) /\ runs'[q] = [runs[q] EXCEPT !.alone = FALSE]
    BY <1>1 DEF Inductive, Types, Others, Job
  <2>2. Keeps(q) /\ ~Job(q).alone'
    BY <2>1 DEF JobOK, Keeps, Job, Fields
  <2> QED BY <2>1, <2>2, KeptIsOK
<1>2. ASSUME NEW q \in Run, q \notin Busy
      PROVE  JobOK(q)' /\ Held(q)' /\ Course(q)'
  <2>1. Job(q)' = Idle
    BY <1>2 DEF Others, Job
  <2> QED BY <2>1 DEF JobOK, Held, Wired, Granted, SeenInside, Course, Bound, Idle, Fields, Steps
<1>3. \A q \in Run : JobOK(q)' /\ (Job(q).alone' => Course(q)')
  BY <1>1, <1>2
<1>4. ASSUME ~undone' PROVE \A q \in Run : Held(q)'
  BY <1>1, <1>2, <1>4, KeptIsHeld DEF Inductive, Sharing
<1> QED BY <1>3, <1>4 DEF Inductive, Types, Sharing, Alone

LEMMA OthersCount ==
  ASSUME Inductive, Fits, Others
  PROVE  mishaps' \in 0..MaxMishaps /\ starts' \in 0..MaxStarts
BY DEF Inductive, Types, Counts, Fits, Others

LEMMA OthersAddWorks ==
  ASSUME Inductive, Fits, OthersAdd
  PROVE  Inductive'
<1>1. PICK x \in Strangers, d \in Shareable : \E u \in Fresh(TitleUids[x.title]) :
        /\ recs' = [v \in DOMAIN recs \union {u} |->
                      IF v = u THEN [title |-> x.title, body |-> x.body, marker |-> x.marker, in |-> d]
                      ELSE recs[v]]
        /\ used' = used \union {u}
  BY DEF OthersAdd
<1>2. PICK u \in Fresh(TitleUids[x.title]) :
        /\ recs' = [v \in DOMAIN recs \union {u} |->
                      IF v = u THEN [title |-> x.title, body |-> x.body, marker |-> x.marker, in |-> d]
                      ELSE recs[v]]
        /\ used' = used \union {u}
  BY <1>1
<1>3. x.title \in Title /\ x.marker \in Markers /\ u \in Uid /\ u \notin used /\ d \in DOMAIN dirs
  <2>1. x \in Records
    BY DEF Fits
  <2>2. x.title \in Title /\ x.marker \in Markers
    BY <2>1 DEF Records
  <2>3. u \in TitleUids[x.title] /\ u \notin used
    BY FreshIsNew
  <2> QED BY <2>2, <2>3 DEF Fits, Shareable
<1>4. DirsOK /\ RecsOK /\ Counts
  BY DEF Inductive, Types
<1>5. Grows \/ undone'
  BY <1>2, <1>3, <1>4 DEF OthersAdd, Grows, RecsOK
<1>6. RecsOK'
  BY <1>2, <1>3, <1>4 DEF OthersAdd, RecsOK
<1>7. (DirsOK /\ Counts)'
  BY <1>2, <1>3, <1>4, OthersCount DEF OthersAdd, DirsOK, Counts
<1> QED BY <1>5, <1>6, <1>7, OthersAct DEF OthersAdd

LEMMA OthersRemoveWorks ==
  ASSUME Inductive, Fits, OthersRemove
  PROVE  Inductive'
<1>1. PICK below \in SUBSET DOMAIN dirs :
        /\ dirs' = [e \in DOMAIN dirs \ below |-> dirs[e]]
        /\ recs' = [u \in {v \in DOMAIN recs : recs[v].in \notin below} |-> recs[u]]
  BY DEF OthersRemove
<1>2. DirsOK /\ RecsOK /\ Counts
  BY DEF Inductive, Types
<1>3. (DirsOK /\ RecsOK /\ Counts)'
  BY <1>1, <1>2, OthersCount DEF OthersRemove, DirsOK, RecsOK, Counts
<1> QED BY <1>3, OthersAct DEF OthersRemove

LEMMA OthersUnshareWorks ==
  ASSUME Inductive, Fits, OthersUnshare
  PROVE  Inductive'
<1>1. PICK d \in DOMAIN dirs : dirs' = [dirs EXCEPT ![d].apps = {}]
  BY DEF OthersUnshare
<1>2. DirsOK /\ RecsOK /\ Counts
  BY DEF Inductive, Types
<1>3. DOMAIN dirs' = DOMAIN dirs
      /\ \A e \in DOMAIN dirs : DOMAIN dirs'[e] = {"path", "apps"} /\ dirs'[e].path = dirs[e].path
  BY <1>1, <1>2 DEF DirsOK
<1>4. (DirsOK /\ RecsOK /\ Counts)'
  BY <1>2, <1>3, OthersCount DEF OthersUnshare, DirsOK, RecsOK, Counts
<1> QED BY <1>4, OthersAct DEF OthersUnshare

LEMMA OthersRewireWorks ==
  ASSUME Inductive, Fits, OthersRewire
  PROVE  Inductive'
<1>1. (DirsOK /\ RecsOK /\ Counts)'
  BY OthersCount DEF OthersRewire, Inductive, Types, DirsOK, RecsOK, Counts
<1> QED BY <1>1, OthersAct DEF OthersRewire

------------------------------------------------------------------------------
(* The invariant *)

LEMMA Initially == Fits /\ Init => Inductive
<1> SUFFICES ASSUME Fits, Init PROVE Inductive
  OBVIOUS
<1>1. Elsewhere \in Paths
  BY DEF Paths
<1>2. used \subseteq PathUids[Elsewhere] /\ used \subseteq Nat /\ used \subseteq Uid
  BY <1>1 DEF Init, First, Fits
<1>3. \A d, e \in used : d = e
  <2> SUFFICES ASSUME NEW d \in used, NEW e \in used PROVE d = e
    OBVIOUS
  <2>1. d <= e /\ e <= d /\ d \in Nat /\ e \in Nat
    BY <1>2 DEF Init, First
  <2> QED BY <2>1
<1>4. DirsOK /\ RecsOK /\ Counts
  BY <1>1, <1>2, <1>3 DEF Init, DirsOK, RecsOK, Counts, Fits
<1>5. \A r \in Run : Job(r) = Idle
  BY DEF Init, Job
<1>6. ASSUME NEW r \in Run PROVE JobOK(r) /\ Held(r) /\ Course(r)
  <2>1. JobOK(r)
    <3>1. Job(r) = Idle
      BY <1>5
    <3>2. /\ DOMAIN Idle = Fields /\ Idle.pc = "idle" /\ Idle.pc \in Steps /\ Idle.level = 1
          /\ Idle.alone \in BOOLEAN
      BY DEF Idle, Fields, Steps
    <3> QED BY <3>1, <3>2 DEF JobOK
  <2>2. Held(r) /\ Course(r)
    BY <1>5 DEF Held, Wired, Granted, SeenInside, Course, Bound, Idle
  <2> QED BY <2>1, <2>2
<1> QED BY <1>4, <1>6 DEF Inductive, Types, Sharing, Alone

LEMMA NextWorks ==
  ASSUME Fits, Inductive, [Next]_vars
  PROVE  Inductive'
<1>1. CASE UNCHANGED vars
  <2>1. Types' /\ Sharing'
    BY <1>1 DEF vars, Inductive, Types, DirsOK, RecsOK, Counts, JobOK, Sharing, Held, Wired, Granted,
                SeenInside, Job, Wanted, Stands, At1
  <2>2. Alone'
    BY <1>1 DEF vars, Inductive, Alone, Course, Job, Resolvable, Resolved, ConfsOf, Exists, FolderAt,
                Path, HasEntries, At1
  <2> QED BY <2>1, <2>2 DEF Inductive
<1>2. ASSUME NEW r \in Run,
             \/ Begin(r) \/ Find(r) \/ Plan(r) \/ Refer(r) \/ Probe(r) \/ Make(r) \/ Entries(r)
             \/ Share(r) \/ Extend(r) \/ Look(r) \/ Skip(r) \/ Finish(r)
             \/ \E row \in Job(r).writes, u \in DOMAIN recs : Mark(r, row, u)
             \/ GiveUp(r) \/ MarkFails(r) \/ Fail(r)
      PROVE  Inductive'
  BY <1>2, BeginWorks, FindWorks, PlanWorks, ReferWorks, ProbeWorks, MakeWorks, EntriesWorks, ShareWorks,
     ExtendWorks, LookWorks, SkipWorks, MarkWorks, EndWorks
<1> QED BY <1>1, <1>2, OthersAddWorks, OthersRemoveWorks, OthersUnshareWorks, OthersRewireWorks DEF Next

LEMMA InductiveHolds ==
  ASSUME Fits
  PROVE  Spec => []Inductive
<1>1. Init => Inductive
  BY Initially
<1>2. Inductive /\ [Next]_vars => Inductive'
  BY NextWorks
<1> QED BY <1>1, <1>2, PTL DEF Spec

\* Folders and records have uids of their own, no path is there twice, every record
\* is in a folder that is there, and a run writes rows of its manifest only.
THEOREM TypeCorrect ==
  ASSUME Fits
  PROVE  Spec => []TypeOK
<1>1. Inductive => TypeOK
  BY DEF Inductive, Types, DirsOK, RecsOK, Counts, JobOK, TypeOK
<1> QED BY <1>1, InductiveHolds, PTL

------------------------------------------------------------------------------
(* What is marked can be read *)

\* A record that stays what it is in a folder that stays
Rests(u) ==
  /\ u \in DOMAIN recs /\ recs'[u].marker = recs[u].marker /\ recs'[u].in = recs[u].in
  /\ recs[u].in \in DOMAIN dirs'
  /\ dirs'[recs[u].in].path = dirs[recs[u].in].path
  /\ dirs[recs[u].in].apps \subseteq dirs'[recs[u].in].apps

Nobodys(u) == recs'[u].marker.manager = "sdk" => recs'[u].marker.manifest \notin ManifestName

LEMMA RestingIsReachable ==
  ASSUME NEW u, Rests(u), UNCHANGED wiring, NEW p, Own(u, p)',
         Own(u, p) /\ dirs[recs[u].in].path \in {At(p, place) : place \in Place} => Reachable(u, p),
         (dirs[recs[u].in].path \in {At(p, place) : place \in Place})'
  PROVE  Reachable(u, p)'
BY DEF Rests, Own, Reachable

LEMMA ReachableStays ==
  ASSUME MarkedIsReachable, ~undone' => ~undone /\ UNCHANGED wiring,
         ~undone' => \A u \in DOMAIN recs' : Rests(u) \/ Nobodys(u)
  PROVE  MarkedIsReachable'
<1> SUFFICES ASSUME ~undone', NEW p \in ManifestName, NEW u \in DOMAIN recs', Own(u, p)',
                    (dirs[recs[u].in].path \in {At(p, place) : place \in Place})'
             PROVE  Reachable(u, p)'
  BY DEF MarkedIsReachable
<1>1. Rests(u)
  BY DEF Nobodys, Own
<1>2. u \in DOMAIN recs /\ ~undone
  BY <1>1 DEF Rests
<1> QED BY <1>1, <1>2, RestingIsReachable DEF MarkedIsReachable

LEMMA GrowthRests ==
  ASSUME Inductive, Grows, NEW u \in DOMAIN recs, recs'[u].marker = recs[u].marker
  PROVE  Rests(u)
BY DEF Inductive, Types, RecsOK, Grows, Rests

LEMMA ExtendMarksNothing ==
  ASSUME NEW r \in Run, Extend(r), NEW u \in DOMAIN recs'
  PROVE  (u \in DOMAIN recs /\ recs'[u].marker = recs[u].marker) \/ recs'[u].marker = Unmarked
<1>1. PICK gone \in SUBSET Missing(r) :
        LET new == Missing(r) \ gone
            uids == UNION {Fresh(TitleUids[row.title]) : row \in new}
            RowFor(v) == CHOOSE row \in new : v \in TitleUids[row.title] IN
        recs' = [v \in DOMAIN recs \union uids |->
                   IF v \notin uids THEN recs[v]
                   ELSE [title |-> RowFor(v).title, body |-> RowFor(v).body, marker |-> Unmarked,
                         in |-> UidAt(At1(r, RowFor(v).place))]]
  BY DEF Extend
<1> DEFINE uids == UNION {Fresh(TitleUids[row.title]) : row \in Missing(r) \ gone}
<1>2. CASE u \in uids
  BY <1>1, <1>2
<1>3. CASE u \notin uids
  BY <1>1, <1>3
<1> QED BY <1>2, <1>3

\* A marker is written on a record in one of the folders that the run has shared
LEMMA MarkReaches ==
  ASSUME Inductive, Fits, MarkedIsReachable,
         NEW r \in Run, NEW row \in Job(r).writes, NEW u \in DOMAIN recs, Mark(r, row, u)
  PROVE  MarkedIsReachable'
<1>1. /\ RecsOK /\ Job(r).pc = "mark" /\ u \in DOMAIN Job(r).seen
      /\ ~undone => Held(r)
  BY DEF Inductive, Types, Sharing, Mark, Titles
<1>2. /\ DOMAIN recs' = DOMAIN recs
      /\ \A v \in DOMAIN recs : recs'[v].in = recs[v].in /\ (v # u => recs'[v].marker = recs[v].marker)
      /\ recs'[u].marker = EncodeMarker(row.ref, Job(r).name)
  BY <1>1 DEF Mark, RecsOK
<1> SUFFICES ASSUME ~undone', NEW p \in ManifestName, NEW v \in DOMAIN recs', Own(v, p)',
                    (dirs[recs[v].in].path \in {At(p, place) : place \in Place})'
             PROVE  Reachable(v, p)'
  BY DEF MarkedIsReachable
<1>3. ~undone /\ UNCHANGED <<dirs, wiring>> /\ v \in DOMAIN recs
  BY <1>2 DEF Mark
<1>4. CASE v = u
  <2>1. p = Job(r).name
    BY <1>2, <1>4 DEF Own, EncodeMarker
  <2>2. recs[u].in \in {Job(r).folder, Job(r).users}
    BY <1>1, <1>3 DEF Held, SeenInside
  <2>3. Job(r).bind.app \in dirs[recs[u].in].apps
    BY <1>1, <1>3, <2>2 DEF Held, Granted
  <2>4. Reachable(u, p)
    BY <1>1, <1>3, <2>1, <2>3 DEF Held, Wired, Bound, Reachable
  <2> QED BY <1>2, <1>3, <1>4, <2>4 DEF Reachable
<1>5. CASE v # u
  <2>1. Own(v, p) /\ dirs[recs[v].in].path \in {At(p, place) : place \in Place}
    BY <1>2, <1>3, <1>5 DEF Own
  <2>2. Reachable(v, p)
    BY <1>3, <2>1 DEF MarkedIsReachable
  <2> QED BY <1>2, <1>3, <2>2 DEF Reachable
<1> QED BY <1>4, <1>5

LEMMA OthersReach ==
  ASSUME Inductive, Fits, StrangersHoldNothing, MarkedIsReachable,
         OthersAdd \/ OthersRemove \/ OthersUnshare \/ OthersRewire
  PROVE  MarkedIsReachable'
<1>1. CASE OthersAdd
  <2>1. PICK x \in Strangers, d \in Shareable : \E u \in Fresh(TitleUids[x.title]) :
          recs' = [v \in DOMAIN recs \union {u} |->
                     IF v = u THEN [title |-> x.title, body |-> x.body, marker |-> x.marker, in |-> d]
                     ELSE recs[v]]
    BY <1>1 DEF OthersAdd
  <2>2. \A v \in DOMAIN recs' :
          (v \in DOMAIN recs /\ recs'[v] = recs[v]) \/ recs'[v].marker = x.marker
    BY <2>1
  <2>3. \A v \in DOMAIN recs' : Rests(v) \/ Nobodys(v)
    BY <1>1, <2>2 DEF OthersAdd, Inductive, Types, RecsOK, Rests, Nobodys, StrangersHoldNothing
  <2> QED BY <1>1, <2>3, ReachableStays DEF OthersAdd
<1>2. CASE OthersRemove
  <2>1. PICK below :
          /\ dirs' = [e \in DOMAIN dirs \ below |-> dirs[e]]
          /\ recs' = [u \in {v \in DOMAIN recs : recs[v].in \notin below} |-> recs[u]]
    BY <1>2 DEF OthersRemove
  <2>2. \A v \in DOMAIN recs' : Rests(v)
    BY <2>1 DEF Inductive, Types, RecsOK, Rests
  <2> QED BY <1>2, <2>2, ReachableStays DEF OthersRemove
<1>3. CASE OthersUnshare \/ OthersRewire
  BY <1>3 DEF OthersUnshare, OthersRewire, MarkedIsReachable
<1> QED BY <1>1, <1>2, <1>3

LEMMA NextReaches ==
  ASSUME Fits, StrangersHoldNothing, Inductive, MarkedIsReachable, [Next]_vars
  PROVE  MarkedIsReachable'
<1>1. CASE UNCHANGED <<dirs, recs, wiring, undone>>
  BY <1>1 DEF MarkedIsReachable, Own, Reachable
<1>2. ASSUME NEW r \in Run,
             \/ Begin(r) \/ Find(r) \/ Plan(r) \/ Refer(r) \/ Probe(r) \/ Entries(r) \/ Look(r)
             \/ Skip(r) \/ Finish(r) \/ GiveUp(r) \/ MarkFails(r) \/ Fail(r)
      PROVE  UNCHANGED <<dirs, recs, wiring, undone>>
  BY <1>2 DEF Begin, Find, Plan, Refer, Probe, Entries, Look, Skip, Finish, GiveUp, MarkFails, Fail, Same
<1>3. ASSUME NEW r \in Run, Make(r) \/ Share(r) \/ Extend(r)
      PROVE  MarkedIsReachable'
  <2>1. Grows
    BY <1>3, MakeWorks, ShareWorks, ExtendWorks
  <2>2. ASSUME NEW u \in DOMAIN recs' PROVE Rests(u) \/ Nobodys(u)
    <3>1. (u \in DOMAIN recs /\ recs'[u].marker = recs[u].marker) \/ recs'[u].marker = Unmarked
      BY <1>3, ExtendMarksNothing DEF Make, Share
    <3> QED BY <2>1, <3>1, GrowthRests DEF Nobodys, Unmarked
  <2> QED BY <2>1, <2>2, ReachableStays DEF Grows
<1>4. CASE Next
  BY <1>1, <1>2, <1>3, <1>4, MarkReaches, OthersReach DEF Next
<1> QED BY <1>1, <1>4 DEF vars

\* Whichever runs made and shared the folders, and wherever they stopped: what is
\* marked in a project's folders can be read by its gateway, unless somebody has
\* taken a share back or removed a folder under a run.
THEOREM MarkedAreReachable ==
  ASSUME Fits, StrangersHoldNothing
  PROVE  Spec => []MarkedIsReachable
<1>1. Init => MarkedIsReachable
  BY DEF Init, MarkedIsReachable
<1>2. Inductive /\ MarkedIsReachable /\ [Next]_vars => MarkedIsReachable'
  BY NextReaches
<1> QED BY <1>1, <1>2, InductiveHolds, PTL DEF Spec

------------------------------------------------------------------------------
(* What a run that is alone gets through *)

\* Where it comes to make a folder, the one above is there and nothing is in its place
LEMMA AloneCanMake ==
  ASSUME Types, NEW r \in Run, Job(r).pc = "make", Course(r)
  PROVE  CanMake(Path(r))
<1> DEFINE p == Job(r).name
<1>1. Job(r).level \in 1..5 /\ ~Exists(Path(r)) /\ \A l \in 1..5 : l < Job(r).level => Exists(Ensured(p)[l])
  BY DEF Types, JobOK, Course
<1>2. CASE Job(r).level \in 1..2
  <2>1. Path(r) = Root
    BY <1>2, EnsuredAre DEF Path
  <2> QED BY <1>1, <2>1 DEF CanMake, Root
<1>3. CASE Job(r).level = 3
  <2>1. Path(r) = Home(p) /\ Exists(Root)
    BY <1>1, <1>3, EnsuredAre DEF Path
  <2>2. S!Front(Home(p)) = Root
    BY FrontOfTwo DEF Home, Root
  <2> QED BY <1>1, <2>1, <2>2 DEF CanMake
<1>4. CASE Job(r).level \in 4..5
  <2>1. Exists(Home(p))
    BY <1>1, <1>4, EnsuredAre
  <2>2. PICK place : Path(r) = At(p, place)
    BY <1>4, EnsuredAre DEF Path
  <2>3. S!Front(At(p, place)) = Home(p)
    BY FrontOfThree DEF At, Home
  <2> QED BY <1>1, <2>1, <2>2, <2>3 DEF CanMake
<1> QED BY <1>1, <1>2, <1>3, <1>4

LEMMA AloneCanLook ==
  ASSUME Types, NEW r \in Run, Job(r).pc = "look", Course(r)
  PROVE  CanLook(r, FALSE)
<1> DEFINE job == MaybeLocated(Job(r), FALSE)
<1>1. JobOK(r) /\ HasEntries(r) /\ {Job(r).folder, Job(r).users} \subseteq DOMAIN dirs /\ Resolvable(Job(r).name)
  BY DEF Types, Course, Bound
<1>2. /\ job.name = Job(r).name
      /\ \/ job.folder = Job(r).folder /\ job.users = Job(r).users
         \/ /\ job.folder = UidAt(At(Job(r).name, "Resources"))
            /\ job.users = UidAt(At(Job(r).name, "Users"))
  BY <1>1, LocatedGives DEF JobOK
<1>3. \A place \in Place : UidAt(At(Job(r).name, place)) \in DOMAIN dirs
  BY <1>1, UidAtIsThere DEF HasEntries, At1
<1>4. {job.folder, job.users} \subseteq DOMAIN dirs
  BY <1>1, <1>2, <1>3 DEF Place
<1> QED BY <1>1, <1>2, <1>4 DEF CanLook

LEMMA AloneIsNotBarred ==
  ASSUME Types, NEW r \in Run, Course(r), Job(r).pc # "refer"
  PROVE  ~Barred(r)
<1>1. Job(r).pc \in Steps
  BY DEF Types, JobOK
<1>2. CASE Job(r).pc = "make"
  BY <1>2, AloneCanMake DEF Barred
<1>3. CASE Job(r).pc = "look"
  BY <1>3, AloneCanLook DEF Barred
<1>4. CASE Job(r).pc \in {"plan", "entries", "share", "extend"}
  BY <1>4 DEF Barred, Course, Bound, CanShare, CanExtend, Shared
<1>5. CASE Job(r).pc \in {"idle", "find", "probe", "mark"}
  BY <1>5 DEF Barred
<1> QED BY <1>1, <1>2, <1>3, <1>4, <1>5 DEF Steps

\* Half of the folders or half of the shares are no obstacle: a run that nothing
\* disturbs is refused only where its gateway or its configuration is not there.
THEOREM RerunsSucceed ==
  ASSUME Fits
  PROVE  Spec => RerunsGetThrough
<1>1. ASSUME Inductive, NEW r \in Run, GiveUp(r), Job(r).alone
      PROVE  Job(r).pc = "refer"
  BY <1>1, AloneIsNotBarred DEF GiveUp, Inductive, Alone
<1>2. Inductive => [\A r \in Run : GiveUp(r) /\ Job(r).alone => Job(r).pc = "refer"]_vars
  BY <1>1
<1> QED BY <1>2, InductiveHolds, PTL DEF RerunsGetThrough
==============================================================================
