----------------------------- MODULE ServiceApply -----------------------------
(***************************************************************************)
(* `dsk --provider service apply` of a PAM manifest: every command is      *)
(* posted to the queue of Commander's service mode, polled until it is     *)
(* done or a deadline passes, and its result fetched.  The service works   *)
(* on its queue in order, at its own pace, and goes on with what a client  *)
(* no longer waits for.  This provider writes no markers.                  *)
(***************************************************************************)
EXTENDS Session, Sequences, SequencesExt

CONSTANTS
  SvcUid,      \* uids of records
  SvcRef, SvcTitle, SvcBody,
  Orders,      \* contents of the manifest: sets of rows
  Founding,    \* projects that there may be at first
  Project,     \* the manifest's name
  Keep, NoSvcRef, NoName,
  SvcPatience, \* polls until the deadline
  SvcQueue     \* a bound on abandoned requests

D == INSTANCE LifecycleDiff WITH Uid <- SvcUid, Ref <- SvcRef, Title <- SvcTitle,
       Body <- SvcBody, ManifestName <- {Project}, NoUid <- 0, NoRef <- NoSvcRef

ASSUME ServiceApplyAssumption ==
  /\ SvcUid \subseteq Nat \ {0} /\ SvcPatience \in Nat /\ SvcQueue \in Nat
  /\ NoSvcRef \notin SvcRef
  /\ \A v \in Orders : v \subseteq D!Rows /\ IsFiniteSet(v)
  /\ \A s \in Founding :
       /\ DOMAIN s \subseteq SvcUid /\ IsFiniteSet(DOMAIN s)
       /\ \A u \in DOMAIN s : s[u] \in D!Records

\* No ref ever changes its title, and a manifest has no two rows of one title: else
\* two rows may match one record, by its marker and by its title, and the plan edits
\* it twice.
Titling(s, t) == \A u \in DOMAIN s : s[u].marker.ref \in SvcRef => s[u].title = t[s[u].marker.ref]

TitlesFor(t) ==
  /\ \A v \in Orders : \A r, q \in v : r.title = t[r.ref] /\ (r.title = q.title => r = q)
  /\ \A s \in Founding : Titling(s, t)

SteadyTitles == \E t \in [SvcRef -> SvcTitle] : TitlesFor(t)

VARIABLES
  project,  \* the records
  born,     \* uids that were given out
  queue,    \* of the service
  mine,     \* the position of the request that the client waits for, or 0
  reply,    \* its status and what it found
  order,    \* the manifest applied
  prune,    \* --allow-delete
  asked,    \* the changes of the plan
  commands, \* still to post
  tries,    \* posts that were answered 429
  waits     \* polls

errand == <<order, prune, asked, commands, tries, waits, reply, mine>>
service == <<project, born, queue, errand>>

None == [status |-> "none", found |-> [u \in {} |-> u]]

SvcInit ==
  /\ project \in Founding /\ born = DOMAIN project /\ queue = <<>>
  /\ mine = 0 /\ reply = None /\ order = {} /\ prune = FALSE
  /\ asked = {} /\ commands = <<>> /\ tries = 0 /\ waits = 0

List == [kind |-> "list", uid |-> 0, body |-> Keep, rows |-> {}]

SvcStart ==
  /\ pc = "idle" /\ Room(SvcUid, born) /\ Len(queue) < SvcQueue
  /\ order' \in Orders /\ prune' \in BOOLEAN
  /\ commands' = <<List>>
  /\ pc' = "svc-post" /\ calm' = TRUE
  /\ UNCHANGED <<quiet, mishaps, project, born, queue, mine, reply, asked, tries, waits>>

SvcIdle ==
  /\ pc' = "idle"
  /\ mine' = 0 /\ reply' = None /\ order' = {} /\ prune' = FALSE
  /\ asked' = {} /\ commands' = <<>> /\ tries' = 0 /\ waits' = 0
  /\ UNCHANGED <<quiet, project, born>>

\* _post_async; 429 is tried again twice
SvcPost ==
  /\ pc = "svc-post"
  /\ queue' = Append(queue, Head(commands))
  /\ mine' = Len(queue) + 1
  /\ pc' = "svc-poll" /\ tries' = 0 /\ waits' = 0
  /\ UNCHANGED <<calm, quiet, mishaps, project, born, reply, order, prune, asked, commands>>

SvcThrottled ==
  /\ pc = "svc-post" /\ UNCHANGED <<calm, mishaps, queue>>
  /\ IF tries < 2
     THEN /\ tries' = tries + 1
          /\ UNCHANGED <<pc, quiet, project, born, mine, reply, order, prune, asked, commands, waits>>
     ELSE SvcIdle

SvcPoll ==
  /\ pc = "svc-poll" /\ reply = None /\ waits < SvcPatience
  /\ waits' = waits + 1
  /\ UNCHANGED <<process, project, born, queue, mine, reply, order, prune, asked, commands, tries>>

\* _FAILED_STATUSES, and the status that _poll_status makes up at its deadline
FailedAlone == {"failed"}
FailedStatuses == {"failed", "expired"}

Status == IF reply = None /\ waits = SvcPatience THEN "expired" ELSE reply.status

\* The plan: a listing, and what compute_diff makes of it.  A create sends the whole
\* manifest, whatever is there, and an edit all but the title.
Writes(s, f) == D!Writes(s, f, order, FALSE)
Command(c) ==
  IF c.kind = "create" THEN [List EXCEPT !.kind = "import", !.rows = order]
  ELSE [List EXCEPT !.kind = "edit", !.uid = c.uid, !.body = c.body]
Erased(s, f) ==
  {[kind |-> "delete", uid |-> u] : u \in D!Deletes(s, f, order, FALSE, Project, prune)}
Removal(c) == [List EXCEPT !.kind = "delete", !.uid = c.uid]

\* An order of the writes, and then the deletes
Listings(s, f) ==
  LET writes == Writes(s, f) removals == SetToSeq(Erased(s, f)) IN
  {[i \in DOMAIN w |-> Command(w[i])] \o [i \in DOMAIN removals |-> Removal(removals[i])] :
     w \in {x \in [1..Cardinality(writes) -> writes] : writes \subseteq Range(x)}}

Refuses(s, f) ==
  \/ D!Collision(s) \/ D!Unsupported(s, f, order)
  \/ D!IsClean(s, f, order, FALSE, Project, prune)
  \/ D!HasConflict(s, f, order, FALSE, Project, prune) /\ ~prune
  \/ Writes(s, f) = {} /\ Erased(s, f) = {}

SvcPlan ==
  /\ pc = "svc-poll" /\ asked = {} /\ Status \notin FailedStatuses \union {"none"}
  /\ \E f \in D!TitleIndexes(reply.found) :
       /\ ~Refuses(reply.found, f)
       /\ asked' = Writes(reply.found, f) \union Erased(reply.found, f)
       /\ commands' \in Listings(reply.found, f)
  /\ pc' = "svc-post" /\ reply' = None /\ mine' = 0 /\ waits' = 0
  /\ UNCHANGED <<calm, quiet, mishaps, project, born, queue, order, prune, tries>>

SvcNext ==
  /\ pc = "svc-poll" /\ asked # {} /\ Status \notin FailedStatuses \union {"none"}
  /\ Len(commands) > 1
  /\ commands' = Tail(commands)
  /\ pc' = "svc-post" /\ reply' = None /\ mine' = 0 /\ waits' = 0
  /\ UNCHANGED <<calm, quiet, mishaps, project, born, queue, order, prune, asked, tries>>

SvcFinish ==
  /\ pc = "svc-poll" /\ asked # {} /\ Status \notin FailedStatuses \union {"none"}
  /\ Len(commands) = 1
  /\ SvcIdle /\ UNCHANGED <<calm, mishaps, queue>>

\* CapabilityError; or the plan is clean, or refused
SvcGiveUp ==
  /\ pc = "svc-poll"
  /\ \/ Status \in FailedStatuses
     \/ /\ asked = {} /\ Status \notin FailedStatuses \union {"none"}
        /\ \E f \in D!TitleIndexes(reply.found) : Refuses(reply.found, f)
  /\ SvcIdle /\ UNCHANGED <<calm, mishaps, queue>>

SvcStop == pc \in {"svc-post", "svc-poll"} /\ SvcIdle

------------------------------------------------------------------------------
(* The service: the head of the queue, done or failed *)

\* pam project import: all rows, or those that are not there
Imported(rows, all) ==
  {r \in rows : all \/ \A u \in DOMAIN project : project[u].title # r.title}

Done(c) ==
  \/ /\ c.kind = "import"
     /\ \E all \in BOOLEAN :
          LET rows == SetToSeq(Imported(c.rows, all))
              new == FreshOf(SvcUid, born, Len(rows))
              nth(u) == Cardinality({w \in new : w <= u})
          IN /\ Cardinality(new) = Len(rows)
             /\ project' = [u \in DOMAIN project \union new |->
                              IF u \in new
                              THEN [title |-> rows[nth(u)].title, body |-> rows[nth(u)].body,
                                    marker |-> D!Unmarked]
                              ELSE project[u]]
             /\ born' = born \union new
  \/ /\ c.kind = "edit" /\ c.uid \in DOMAIN project
     /\ project' = [project EXCEPT ![c.uid].body = IF c.body = Keep THEN @ ELSE c.body]
     /\ UNCHANGED born
  \/ /\ c.kind = "delete" /\ c.uid \in DOMAIN project
     /\ project' = [u \in DOMAIN project \ {c.uid} |-> project[u]]
     /\ UNCHANGED born
  \/ c.kind = "list" /\ UNCHANGED <<project, born>>

Answer(status) ==
  reply' = IF mine = 1 THEN [status |-> status, found |-> IF Head(queue).kind = "list" THEN project ELSE None.found]
           ELSE reply

Serve ==
  /\ queue # <<>>
  /\ \/ Done(Head(queue)) /\ Answer("done") /\ UNCHANGED process
     \/ /\ Head(queue).kind \in {"edit", "delete"} /\ Head(queue).uid \notin DOMAIN project
        /\ Answer("failed") /\ UNCHANGED <<process, project, born>>
     \/ /\ Mishap /\ UNCHANGED <<pc, calm, quiet, project, born>>
        /\ Answer("failed")
  /\ queue' = Tail(queue)
  /\ mine' = IF mine > 0 THEN mine - 1 ELSE 0
  /\ UNCHANGED <<order, prune, asked, commands, tries, waits>>

\* Others edit and remove records, and import marks them with the other provider
SvcOthers ==
  /\ \/ \E u \in DOMAIN project, b \in SvcBody : project' = [project EXCEPT ![u].body = b]
     \/ \E u \in DOMAIN project : project' = [w \in DOMAIN project \ {u} |-> project[w]]
     \/ \E u \in DOMAIN project, v \in Orders : \E r \in v :
          /\ project[u].marker = D!Unmarked /\ r.title = project[u].title
          /\ project' = [project EXCEPT ![u].marker = D!EncodeMarker(r.ref, Project)]
  /\ UNCHANGED <<born, queue, errand>>

SvcTypeOK ==
  /\ DOMAIN project \subseteq born /\ born \subseteq SvcUid
  /\ \A u \in DOMAIN project : project[u] \in D!Records
  /\ mine \in 0..Len(queue) /\ waits \in 0..SvcPatience
  /\ pc = "svc-poll" => (mine = 0 <=> reply # None)
  /\ pc = "idle" => mine = 0 /\ commands = <<>>

\* How many steps it has still to make, once it has a plan: a command is posted, maybe
\* after two refusals, and polled until the deadline
SvcLeft ==
  Len(commands) * (SvcPatience + 4) +
  (IF pc = "svc-post" THEN SvcPatience + 3 - tries ELSE SvcPatience - waits)

\* What the plan asked for is in force: a record for every row to create, the
\* bodies of the updates, and nothing of the deletes
Served ==
  \A c \in asked :
    /\ c.kind = "create" =>
         \E u \in DOMAIN project : project[u].title = c.title /\ project[u].body = c.body
    /\ c.kind = "update" => c.uid \in DOMAIN project /\ c.body \in {project[c.uid].body, Keep}
    /\ c.kind = "delete" => c.uid \notin DOMAIN project
==============================================================================
