-------------------------------- MODULE Smoke --------------------------------
(***************************************************************************)
(* scripts/smoke/smoke.py: runs of the live smoke test, each a cycle of    *)
(* clean, apply, verify and destroy on the sandbox folder or the PAM       *)
(* project of its profile.  A run may fail at any call, with a cleanup or  *)
(* without, or be killed; what it leaves is for a later run to find.       *)
(***************************************************************************)
EXTENDS LockFiles

CONSTANTS
  Title,    \* what a scenario has a record for; none is without
  Scenarios, \* profiles with a family that they run
  Uid,
  Mishaps,  \* how often something fails
  Runs      \* how many runs there are

ASSUME SmokeAssumption ==
  /\ Title # {} /\ IsFiniteSet(Title)
  /\ Scenarios \subseteq Profile \X {"vault", "pam"}
  /\ Uid \subseteq Nat /\ Mishaps \in Nat /\ Runs \in Nat

Family == {"vault", "pam"}

VARIABLES
  family,    \* per process: the family of its scenario
  content,   \* profile and family -> uid -> record: the folder, and the project
  left,      \* per process: uids to look at, in a sweep
  todo,      \* titles to create
  untidy,    \* processes whose removal of the project tree failed
  mishaps,
  runs       \* that were started

cycle == <<family, left, todo, untidy>>
vars == <<pc, guard, locks, robbed, cycle, content, mishaps, runs>>

Place(p) == <<lane[p], family[p]>>
Sandbox(p) == <<lane[p], "vault">>
Empty == [u \in {} |-> u]

Init ==
  /\ LockInit
  /\ family = [p \in Pid |-> "vault"]
  /\ content = [l \in Profile \X Family |-> Empty]
  /\ left = [p \in Pid |-> {}] /\ todo = [p \in Pid |-> {}]
  /\ untidy = {} /\ mishaps = 0 /\ runs = 0

Mishap == mishaps < Mishaps /\ mishaps' = mishaps + 1

\* admin_login; then the guard
Start(p) ==
  /\ pc[p] = "off" /\ runs < Runs /\ runs' = runs + 1
  /\ \E s \in Scenarios :
       lane' = [lane EXCEPT ![p] = s[1]] /\ family' = [family EXCEPT ![p] = s[2]]
  /\ At(p, "preflight")
  /\ UNCHANGED <<paths, read, clash, locks, robbed, left, todo, untidy, content, mishaps>>

Guarding(p) ==
  /\ Glob(p) \/ ReadLock(p) \/ Weigh(p) \/ Preflight(p) \/ Acquire(p) \/ WriteLock(p) \/ Refuse(p)
  /\ UNCHANGED <<cycle, content, mishaps>>

------------------------------------------------------------------------------
(* Sweeps: teardown_records lists a folder, and then takes record by record *)

Listed(p, place, step) ==
  /\ left' = [left EXCEPT ![p] = DOMAIN content[place]]
  /\ At(p, step)

\* ensure_sandbox, and the listing of the folder that is to be cleaned
Provision(p) ==
  /\ pc[p] = "provision"
  /\ Listed(p, Sandbox(p), "preclean")
  /\ UNCHANGED <<guard, locks, robbed, family, todo, untidy, content, mishaps>>

\* the folder of a sweep: that of the records when it is known, or the sandbox
Swept(p) == IF pc[p] \in {"postclean", "cleanup"} THEN Place(p) ELSE Sandbox(p)

NotManaged(r) == FALSE
Managed(r) == r.managed

Sweep(p) ==
  /\ pc[p] \in {"preclean", "postclean", "cleanup", "cleanup-sandbox"}
  /\ \E u \in left[p] :
       LET here == content[Swept(p)] IN
       /\ content' = [content EXCEPT ![Swept(p)] =
                        [w \in {x \in DOMAIN here : x # u \/ ~Managed(here[x])} |-> here[w]]]
       /\ left' = [left EXCEPT ![p] = @ \ {u}]
  /\ UNCHANGED <<pc, guard, locks, robbed, family, todo, untidy, mishaps>>

\* _remove_project_tree removes whatever is there; a failure is a warning
RemoveTree(p, step) ==
  /\ \/ content' = [content EXCEPT ![<<lane[p], "pam">>] = Empty] /\ UNCHANGED <<untidy, mishaps>>
     \/ Mishap /\ untidy' = untidy \union {p} /\ UNCHANGED content
  /\ At(p, step)
  /\ UNCHANGED <<guard, locks, robbed, family, left, todo>>

Precleaned(p) ==
  /\ pc[p] = "preclean" /\ left[p] = {}
  /\ \/ family[p] = "pam" /\ RemoveTree(p, "plan")
     \/ /\ family[p] = "vault" /\ At(p, "plan")
        /\ UNCHANGED <<guard, locks, robbed, cycle, content, mishaps>>
     \/ /\ At(p, "release")    \* --teardown
        /\ UNCHANGED <<guard, locks, robbed, cycle, content, mishaps>>

------------------------------------------------------------------------------
(* The cycle: dsk as a process of its own, and what its exit codes must be  *)

Present(p) == {content[Place(p)][u].title : u \in DOMAIN content[Place(p)]}
Missing(p) == Title \ Present(p)
Strays(p) == {u \in DOMAIN content[Place(p)] : ~content[Place(p)][u].managed}
Ours(p) == DOMAIN content[Place(p)] \ Strays(p)

\* dsk plan exits with 2: changes, and no conflict with a record without marker
Changes(p) == Strays(p) = {} /\ Missing(p) # {}

Plan(p) ==
  /\ pc[p] = "plan" /\ Changes(p)
  /\ todo' = [todo EXCEPT ![p] = Missing(p)]
  /\ At(p, IF family[p] = "vault" THEN "apply" ELSE "import")
  /\ UNCHANGED <<guard, locks, robbed, family, left, untidy, content, mishaps>>

\* The uids, of which there are to be as many as it takes
Given == UNION {DOMAIN content[l] : l \in DOMAIN content}
Fresh(n) == {u \in Uid \ Given : Cardinality({w \in Uid \ Given : w < u}) < n}

Added(p, new, titles) ==
  content' = [content EXCEPT ![Place(p)] =
    [u \in DOMAIN @ \union new |->
       IF u \in new THEN [title |-> titles[u], managed |-> FALSE, maker |-> p] ELSE @[u]]]

\* a record, and its marker before the next one; or all of them first
Add(p) ==
  /\ pc[p] = "apply" /\ Strays(p) = {} /\ Fresh(1) # {}
  /\ \E t \in todo[p] :
       /\ Added(p, Fresh(1), [u \in Uid |-> t])
       /\ todo' = [todo EXCEPT ![p] = @ \ {t}]
  /\ UNCHANGED <<pc, guard, locks, robbed, family, left, untidy, mishaps>>

Import(p) ==
  /\ pc[p] = "import"
  /\ LET new == Fresh(Cardinality(todo[p])) IN
     \E titles \in [new -> todo[p]] :
       /\ Cardinality(new) = Cardinality(todo[p])
       /\ \A u, w \in new : u < w => titles[u] # titles[w]
       /\ Added(p, new, titles)
  /\ todo' = [todo EXCEPT ![p] = {}]
  /\ At(p, "apply")
  /\ UNCHANGED <<guard, locks, robbed, family, left, untidy, mishaps>>

Mark(p) ==
  /\ pc[p] = "apply"
  /\ \E u \in Strays(p) :
       /\ content[Place(p)][u].maker = p
       /\ content' = [content EXCEPT ![Place(p)][u].managed = TRUE]
  /\ UNCHANGED <<pc, guard, locks, robbed, cycle, mishaps>>

Applied(p) ==
  pc[p] = "apply" /\ todo[p] = {} /\ \A u \in Strays(p) : content[Place(p)][u].maker # p

\* the records that the scenario expects are there and managed, and a plan exits with 0
AsExpected(p) == Strays(p) = {} /\ Missing(p) = {}

Verify(p) ==
  /\ Applied(p) /\ AsExpected(p)
  /\ \/ At(p, "destroy")
     \/ At(p, "release")   \* --keep-records
  /\ UNCHANGED <<guard, locks, robbed, cycle, content, mishaps>>

\* dsk plan and dsk apply --allow-delete of a manifest without rows; then a sweep
Destroy(p) ==
  /\ pc[p] = "destroy" /\ Ours(p) # {}
  /\ \E u \in Ours(p) :
       content' = [content EXCEPT ![Place(p)] = [w \in DOMAIN @ \ {u} |-> @[w]]]
  /\ At(p, "destroying")
  /\ UNCHANGED <<guard, locks, robbed, cycle, mishaps>>

DestroyMore(p) ==
  /\ pc[p] = "destroying"
  /\ IF Ours(p) = {}
     THEN Listed(p, Place(p), "postclean") /\ UNCHANGED content
     ELSE /\ \E u \in Ours(p) :
               content' = [content EXCEPT ![Place(p)] = [w \in DOMAIN @ \ {u} |-> @[w]]]
          /\ UNCHANGED <<pc, left>>
  /\ UNCHANGED <<guard, locks, robbed, family, todo, untidy, mishaps>>

\* no managed record is found any more
Passed(p) ==
  /\ pc[p] = "postclean" /\ left[p] = {} /\ Ours(p) = {}
  /\ \/ family[p] = "pam" /\ RemoveTree(p, "release")
     \/ /\ family[p] = "vault" /\ At(p, "release")
        /\ UNCHANGED <<guard, locks, robbed, cycle, content, mishaps>>

------------------------------------------------------------------------------
(* Failures *)

\* the folder of the records was looked up
Known(p) == pc[p] \in {"destroy", "destroying", "postclean"} \/ Applied(p)

\* SmokeError, SdkCommandError: a check of the cycle fails, or a call in it
CleanUp(p) ==
  /\ Listed(p, IF Known(p) THEN Place(p) ELSE Sandbox(p),
            IF Known(p) THEN "cleanup" ELSE "cleanup-sandbox")
  /\ todo' = [todo EXCEPT ![p] = {}]
  /\ UNCHANGED <<guard, locks, robbed, family, untidy, content>>

Alarm(p) ==
  /\ \/ pc[p] = "plan" /\ ~Changes(p)
     \/ pc[p] = "apply" /\ todo[p] # {} /\ \E u \in Strays(p) : content[Place(p)][u].maker # p
     \/ Applied(p) /\ ~AsExpected(p)
     \/ pc[p] = "destroy" /\ Ours(p) = {}
     \/ pc[p] = "postclean" /\ left[p] = {} /\ Ours(p) # {}
  /\ CleanUp(p) /\ UNCHANGED mishaps

InCycle == {"plan", "apply", "import", "destroy", "destroying", "postclean"}

Fail(p) ==
  /\ pc[p] \in InCycle
  /\ Mishap /\ CleanUp(p)

CleanedUp(p) ==
  /\ pc[p] \in {"cleanup", "cleanup-sandbox"} /\ left[p] = {}
  /\ \/ family[p] = "pam" /\ RemoveTree(p, "release")
     \/ /\ family[p] = "vault" /\ At(p, "release")
        /\ UNCHANGED <<guard, locks, robbed, cycle, content, mishaps>>

\* PreflightError, or an exception of another kind: no cleanup
FailHard(p) ==
  /\ pc[p] \in InCycle \union {"provision", "preclean"}
  /\ Mishap /\ At(p, "release")
  /\ left' = [left EXCEPT ![p] = {}] /\ todo' = [todo EXCEPT ![p] = {}]
  /\ UNCHANGED <<guard, locks, robbed, family, untidy, content>>

\* the sweep of a cleanup breaks off
BreakOff(p) ==
  /\ pc[p] \in {"cleanup", "cleanup-sandbox"} /\ left[p] # {}
  /\ Mishap /\ left' = [left EXCEPT ![p] = {}]
  /\ UNCHANGED <<pc, guard, locks, robbed, family, todo, untidy, content>>

Gone(p) ==
  /\ content' = [l \in DOMAIN content |-> [u \in DOMAIN content[l] |->
       IF content[l][u].maker = p THEN [content[l][u] EXCEPT !.maker = NoPid] ELSE content[l][u]]]
  /\ family' = [family EXCEPT ![p] = "vault"]
  /\ left' = [left EXCEPT ![p] = {}] /\ todo' = [todo EXCEPT ![p] = {}]
  /\ untidy' = untidy \ {p}

End(p) ==
  /\ pc[p] = "release"
  /\ Release(p) /\ Gone(p)
  /\ UNCHANGED mishaps

\* The process is killed: its lock stays
Crash(p) ==
  /\ Alive(p) /\ Mishap
  /\ At(p, "off") /\ Forget(p) /\ Gone(p)
  /\ UNCHANGED <<locks, robbed>>

Others ==
  /\ Mishap /\ (Age \/ Tidy)
  /\ UNCHANGED <<cycle, content>>

Step(p) ==
  \/ Guarding(p) \/ Provision(p) \/ Sweep(p) \/ Precleaned(p) \/ Plan(p)
  \/ Add(p) \/ Import(p) \/ Mark(p) \/ Verify(p) \/ Destroy(p) \/ DestroyMore(p) \/ Passed(p)
  \/ Alarm(p) \/ Fail(p) \/ BreakOff(p) \/ CleanedUp(p) \/ FailHard(p) \/ End(p) \/ Crash(p)

Next ==
  \/ \E p \in Pid : Start(p) \/ (Step(p) /\ UNCHANGED runs)
  \/ Others /\ UNCHANGED runs

Spec == Init /\ [][Next]_vars

------------------------------------------------------------------------------
\* Every variable keeps its type, and what a process keeps it keeps for its step.
TypeOK ==
  /\ LockTypeOK
  /\ \A p \in Pid :
       /\ left[p] # {} => pc[p] \in {"preclean", "postclean", "cleanup", "cleanup-sandbox"}
       /\ todo[p] # {} => pc[p] \in {"apply", "import"}
  /\ \A l \in Profile \X Family : \A u \in DOMAIN content[l] :
       content[l][u].title \in Title /\ Alive(content[l][u].maker) = (content[l][u].maker # NoPid)
  /\ mishaps \in 0..Mishaps

Removing(p) ==
  Sweep(p) \/ Precleaned(p) \/ Destroy(p) \/ DestroyMore(p) \/ Passed(p) \/ CleanedUp(p)

\* No run removes the record of another that is still running, with its sweeps, its
\* destroy or its removal of the project tree, unless a lock was removed in place of
\* another: a lock that was read, and replaced before it was unlinked.
KeepsToItsOwn ==
  [][~robbed => \A p \in Pid : Removing(p) =>
        \A l \in DOMAIN content : \A u \in DOMAIN content[l] \ DOMAIN content'[l] :
          content[l][u].maker \in {p, NoPid}]_vars

\* A run whose calls all succeed passes, whatever earlier runs left behind when they
\* failed or were killed: unless that is a record of a vault scenario that did not
\* get its marker, which no sweep removes, or the project tree could not be removed.
NoFalseAlarm ==
  [][\A p \in Pid : Alarm(p) =>
       \/ robbed \/ p \in untidy
       \/ family[p] = "vault" /\ \E u \in Strays(p) : content[Place(p)][u].maker = NoPid]_vars
=============================================================================
