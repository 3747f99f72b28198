----------------------------- MODULE SmokeProofs -----------------------------
(***************************************************************************)
(* Theorems about Smoke for any number of runs, processes, profiles and    *)
(* mishaps: the lock files keep runs apart, except where a stale lock is   *)
(* removed by its path after another run has replaced it, and a run is     *)
(* surprised only by what no cleanup can take away.                        *)
(***************************************************************************)
EXTENDS Lab, FiniteSetTheorems, TLAPS

\* From the exclusive creation of its lock to the end, a run is in its sandbox
Outside == {"off", "preflight", "preflight-scan", "acquire", "acquire-scan"}
Inside(p) == pc[p] \notin Outside

Shape ==
  /\ pc = [p \in Pid |-> pc[p]] /\ lane = [p \in Pid |-> lane[p]]
  /\ \A f \in DOMAIN locks : "pid" \in DOMAIN locks[f]
  /\ \A l \in DOMAIN content : \A u \in DOMAIN content[l] : "maker" \in DOMAIN content[l][u]

\* Whoever is inside holds the lock of its profile
Locked ==
  ~robbed => \A p \in Pid : Inside(p) => lane[p] \in DOMAIN locks /\ locks[lane[p]].pid = p

\* Whoever has made a record is inside the profile that it belongs to
MadeInside ==
  \A l \in DOMAIN content : \A u \in DOMAIN content[l] :
     LET m == content[l][u].maker IN m # NoPid => m \in Pid /\ Inside(m) /\ l[1] = lane[m]

Inductive == Shape /\ Locked /\ MadeInside

------------------------------------------------------------------------------
LEMMA Moves ==
  ASSUME Inductive, NEW p \in Pid, NEW s, At(p, s)
  PROVE  pc' = [pc EXCEPT ![p] = pc'[p]] /\ pc'[p] = s
BY DEF Inductive, Shape, At

LEMMA StandsStill ==
  ASSUME Inductive, NEW p \in Pid, UNCHANGED pc
  PROVE  pc' = [pc EXCEPT ![p] = pc'[p]] /\ pc'[p] = pc[p]
BY DEF Inductive, Shape

LEMMA Initially == Init => Inductive
BY DEF Init, LockInit, Inductive, Shape, Locked, MadeInside, Inside, Outside, Empty

\* Steps of a run inside, which let the locks be: records stay as they are, or are
\* the run's own
LEMMA Stays ==
  ASSUME Inductive, NEW p \in Pid,
         pc' = [pc EXCEPT ![p] = pc'[p]], Inside(p), Inside(p)',
         UNCHANGED <<lane, locks, robbed>>, DOMAIN content' = DOMAIN content,
         \A l \in DOMAIN content : \A u \in DOMAIN content'[l] :
            \/ u \in DOMAIN content[l] /\ content'[l][u] = content[l][u]
            \/ /\ "maker" \in DOMAIN content'[l][u] /\ content'[l][u].maker = p
               /\ l[1] = lane[p]
  PROVE  Inductive'
<1>1. pc' = [q \in Pid |-> pc'[q]] /\ \A q \in Pid : Inside(q)' <=> Inside(q)
  BY DEF Inductive, Shape, Inside
<1>2. Locked'
  BY <1>1 DEF Inductive, Locked
<1>3. Shape'
  BY <1>1 DEF Inductive, Shape
<1>4. MadeInside'
  <2> SUFFICES ASSUME NEW l \in DOMAIN content, NEW u \in DOMAIN content'[l],
                      NEW m, m = content'[l][u].maker, m # NoPid
               PROVE  m \in Pid /\ pc'[m] \notin Outside /\ l[1] = lane[m]
    BY DEF MadeInside, Inside
  <2>1. CASE u \in DOMAIN content[l] /\ content'[l][u] = content[l][u]
    BY <1>1, <2>1 DEF Inductive, MadeInside, Inside
  <2>2. CASE m = p /\ l[1] = lane[p]
    BY <1>1, <2>2 DEF Inside
  <2>3. QED
    <3>1. CASE u \in DOMAIN content[l] /\ content'[l][u] = content[l][u]
      BY <3>1, <2>1
    <3>2. CASE content'[l][u].maker = p /\ l[1] = lane[p]
      BY <3>2, <2>2
    <3> QED BY <3>1, <3>2
<1> QED BY <1>2, <1>3, <1>4 DEF Inductive

\* Steps of a run that is not inside and that stays out
LEMMA StaysOut ==
  ASSUME Inductive, NEW p \in Pid, ~Inside(p),
         pc' = [pc EXCEPT ![p] = pc'[p]], ~Inside(p)',
         lane' = [lane EXCEPT ![p] = lane'[p]],
         Locked', UNCHANGED content,
         \A f \in DOMAIN locks' : f \in DOMAIN locks /\ locks'[f] = locks[f]
  PROVE  Inductive'
<1>1. /\ pc' = [q \in Pid |-> pc'[q]] /\ lane' = [q \in Pid |-> lane'[q]]
      /\ \A q \in Pid \ {p} : pc'[q] = pc[q] /\ lane'[q] = lane[q]
  BY DEF Inductive, Shape
<1>2. Shape'
  BY <1>1 DEF Inductive, Shape
<1>3. MadeInside'
  BY <1>1 DEF Inductive, MadeInside, Inside
<1> QED BY <1>2, <1>3 DEF Inductive

------------------------------------------------------------------------------
(* Steps before a run is inside *)

LEMMA StartWorks == ASSUME Inductive, NEW p \in Pid, Start(p) PROVE Inductive'
<1>1. pc[p] = "off" /\ At(p, "preflight") /\ UNCHANGED <<locks, robbed, content>>
  BY DEF Start
<1>2. lane' = [lane EXCEPT ![p] = lane'[p]]
  BY DEF Start, Inductive, Shape
<1>3. pc' = [pc EXCEPT ![p] = pc'[p]] /\ pc'[p] = "preflight"
  BY <1>1, Moves
<1>4. ~Inside(p) /\ ~Inside(p)'
  BY <1>1, <1>3 DEF Inside, Outside
<1>5. Locked'
  BY <1>1, <1>2, <1>3, <1>4 DEF Inductive, Shape, Locked, Inside
<1> QED BY <1>1, <1>2, <1>3, <1>4, <1>5, StaysOut

\* A lock that is taken away was that of a process that is gone, or robbed is set
LEMMA UnlinkDead ==
  ASSUME Inductive, NEW f, NEW q, q \notin Pid \/ pc[q] = "off", Unlink(f, q),
         UNCHANGED <<pc, lane>>
  PROVE  Locked'
<1> SUFFICES ASSUME ~robbed', NEW r \in Pid, Inside(r)
             PROVE  lane[r] \in DOMAIN locks' /\ locks'[lane[r]].pid = r
  BY DEF Locked, Inside
<1>1. lane[r] \in DOMAIN locks /\ locks[lane[r]].pid = r
  BY DEF Unlink, Inductive, Locked
<1>2. lane[r] # f
  BY <1>1 DEF Unlink, Inside, Outside
<1> QED BY <1>1, <1>2 DEF Unlink, Without

LEMMA GuardWorks ==
  ASSUME Inductive, NEW p \in Pid, UNCHANGED content,
         Glob(p) \/ ReadLock(p) \/ Weigh(p) \/ Preflight(p) \/ Refuse(p)
  PROVE  Inductive'
<1>1. ~Inside(p)
  BY DEF Glob, ReadLock, Weigh, Preflight, Refuse, Scanning, Inside, Outside
<1>2. pc' = [pc EXCEPT ![p] = pc'[p]] /\ ~Inside(p)'
  <2>1. CASE UNCHANGED pc
    BY <1>1, <2>1, StandsStill DEF Inside
  <2>2. CASE ~UNCHANGED pc
    <3>1. PICK s \in Outside : At(p, s)
      BY <2>2 DEF Glob, ReadLock, Weigh, Preflight, Refuse, Outside
    <3> QED BY <3>1, Moves DEF Inside
  <2> QED BY <2>1, <2>2
<1>3. lane' = [lane EXCEPT ![p] = lane'[p]]
  BY DEF Glob, ReadLock, Weigh, Preflight, Refuse, Forget, guard, Inductive, Shape
<1>4. CASE Weigh(p) /\ ~Alive(read[p].pid)
  <2>1. Unlink(read[p].at, read[p].pid) /\ UNCHANGED <<pc, lane>>
    BY <1>4 DEF Weigh
  <2>2. Locked'
    BY <1>4, <2>1, UnlinkDead DEF Alive
  <2>3. \A f \in DOMAIN locks' : f \in DOMAIN locks /\ locks'[f] = locks[f]
    BY <2>1 DEF Unlink, Without
  <2> QED BY <1>1, <1>2, <1>3, <2>2, <2>3, StaysOut
<1>5. CASE ~(Weigh(p) /\ ~Alive(read[p].pid))
  <2>1. UNCHANGED <<locks, robbed>>
    BY <1>5 DEF Glob, ReadLock, Weigh, Preflight, Refuse
  <2>2. Locked'
    BY <1>1, <1>2, <1>3, <2>1 DEF Inductive, Shape, Locked, Inside
  <2> QED BY <1>1, <1>2, <1>3, <2>1, <2>2, StaysOut
<1> QED BY <1>4, <1>5

------------------------------------------------------------------------------
(* The lock *)

LEMMA AcquireWorks ==
  ASSUME Inductive, NEW p \in Pid, UNCHANGED content, Acquire(p)
  PROVE  Inductive'
<1>1. /\ pc[p] = "acquire-scan" /\ lane[p] \notin DOMAIN locks /\ At(p, "write")
      /\ locks' = With(lane[p], [pid |-> p, whole |-> FALSE, old |-> FALSE])
      /\ UNCHANGED <<lane, robbed>>
  BY DEF Acquire, Vacant
<1>2. pc' = [pc EXCEPT ![p] = pc'[p]] /\ pc'[p] = "write"
  BY <1>1, Moves
<1>3. \A q \in Pid \ {p} : pc'[q] = pc[q]
  BY <1>2 DEF Inductive, Shape
<1>4. /\ DOMAIN locks' = DOMAIN locks \union {lane[p]}
      /\ locks'[lane[p]] = [pid |-> p, whole |-> FALSE, old |-> FALSE]
      /\ \A f \in DOMAIN locks : locks'[f] = locks[f]
  BY <1>1 DEF With
<1>5. Shape'
  <2>1. \A f \in DOMAIN locks' : "pid" \in DOMAIN locks'[f]
    BY <1>4 DEF Inductive, Shape
  <2> QED BY <1>1, <1>2, <2>1 DEF Inductive, Shape
<1>6. Locked'
  <2> SUFFICES ASSUME ~robbed, NEW q \in Pid, Inside(q)'
               PROVE  lane[q] \in DOMAIN locks' /\ locks'[lane[q]].pid = q
    BY <1>1 DEF Locked
  <2>1. CASE q = p
    BY <1>4, <2>1
  <2>2. CASE q # p
    BY <1>3, <1>4, <2>2 DEF Inductive, Locked, Inside
  <2> QED BY <2>1, <2>2
<1>7. MadeInside'
  BY <1>1, <1>2, <1>3 DEF Inductive, MadeInside, Inside, Outside
<1> QED BY <1>5, <1>6, <1>7 DEF Inductive

\* Whoever changes a lock without taking it away or giving it to another
LEMMA Rewritten ==
  ASSUME Inductive, Shape', UNCHANGED <<lane, robbed, content>>,
         \A q \in Pid : Inside(q)' <=> Inside(q),
         DOMAIN locks' = DOMAIN locks, \A f \in DOMAIN locks : locks'[f].pid = locks[f].pid
  PROVE  Inductive'
<1>1. Locked'
  BY DEF Inductive, Locked
<1>2. MadeInside'
  BY DEF Inductive, MadeInside
<1> QED BY <1>1, <1>2 DEF Inductive

LEMMA WriteLockWorks ==
  ASSUME Inductive, NEW p \in Pid, UNCHANGED content, WriteLock(p)
  PROVE  Inductive'
<1>1. /\ pc[p] = "write" /\ At(p, "provision") /\ UNCHANGED <<lane, robbed>>
      /\ locks' = locks \/ (lane[p] \in DOMAIN locks /\ locks' = [locks EXCEPT ![lane[p]].whole = TRUE])
  BY DEF WriteLock, guard
<1>2. pc' = [pc EXCEPT ![p] = pc'[p]] /\ pc'[p] = "provision"
  BY <1>1, Moves
<1>3. /\ DOMAIN locks' = DOMAIN locks
      /\ \A f \in DOMAIN locks : locks'[f].pid = locks[f].pid /\ "pid" \in DOMAIN locks'[f]
  <2>1. CASE locks' = locks
    BY <2>1 DEF Inductive, Shape
  <2>2. CASE lane[p] \in DOMAIN locks /\ locks' = [locks EXCEPT ![lane[p]].whole = TRUE]
    <3>1. locks'[lane[p]] = [locks[lane[p]] EXCEPT !.whole = TRUE]
      BY <2>2
    <3>2. \A f \in DOMAIN locks \ {lane[p]} : locks'[f] = locks[f]
      BY <2>2
    <3> QED BY <2>2, <3>1, <3>2 DEF Inductive, Shape
  <2> QED BY <1>1, <2>1, <2>2
<1>4. Shape'
  BY <1>1, <1>2, <1>3 DEF Inductive, Shape
<1>5. \A q \in Pid : Inside(q)' <=> Inside(q)
  BY <1>1, <1>2 DEF Inductive, Shape, Inside, Outside
<1> QED BY <1>1, <1>3, <1>4, <1>5, Rewritten

LEMMA OthersWork ==
  ASSUME Inductive, Others
  PROVE  Inductive'
<1>1. UNCHANGED <<pc, lane, robbed, content>>
  BY DEF Others, Age, Tidy, guard
<1>2. CASE Age
  <2>1. PICK f \in DOMAIN locks : locks' = [locks EXCEPT ![f].old = TRUE]
    BY <1>2 DEF Age
  <2>2. locks'[f] = [locks[f] EXCEPT !.old = TRUE] /\ \A g \in DOMAIN locks \ {f} : locks'[g] = locks[g]
    BY <2>1
  <2>3. DOMAIN locks' = DOMAIN locks /\ \A g \in DOMAIN locks : locks'[g].pid = locks[g].pid
    BY <2>1, <2>2 DEF Inductive, Shape
  <2>4. Shape'
    BY <1>1, <2>1, <2>2 DEF Inductive, Shape
  <2> QED BY <1>1, <2>3, <2>4, Rewritten DEF Inside
<1>3. CASE Tidy
  <2>1. PICK f \in DOMAIN locks : ~Alive(locks[f].pid) /\ locks' = Without(f)
    BY <1>3 DEF Tidy
  <2>2. DOMAIN locks' = DOMAIN locks \ {f} /\ \A g \in DOMAIN locks' : locks'[g] = locks[g]
    BY <2>1 DEF Without
  <2>3. Shape' /\ MadeInside'
    BY <1>1, <2>2 DEF Inductive, Shape, MadeInside, Inside
  <2>4. Locked'
    BY <1>1, <2>1, <2>2 DEF Inductive, Locked, Inside, Outside, Alive
  <2> QED BY <2>3, <2>4 DEF Inductive
<1> QED BY <1>2, <1>3 DEF Others

------------------------------------------------------------------------------
(* Steps inside *)

\* Records that others have made stay, or go; those that are new are the run's own
Own(p) ==
  /\ DOMAIN content' = DOMAIN content
  /\ \A l \in DOMAIN content : \A u \in DOMAIN content'[l] :
        \/ u \in DOMAIN content[l] /\ content'[l][u] = content[l][u]
        \/ /\ "maker" \in DOMAIN content'[l][u] /\ content'[l][u].maker = p
           /\ l[1] = lane[p]

Working(p) ==
  \/ Provision(p) \/ Sweep(p) \/ Precleaned(p) \/ Plan(p) \/ Add(p) \/ Import(p) \/ Mark(p)
  \/ Verify(p) \/ Destroy(p) \/ DestroyMore(p) \/ Passed(p) \/ Alarm(p) \/ Fail(p)
  \/ BreakOff(p) \/ CleanedUp(p) \/ FailHard(p)

LEMMA WorkIsInside ==
  ASSUME Inductive, NEW p \in Pid, Working(p)
  PROVE  /\ UNCHANGED <<lane, locks, robbed>> /\ Inside(p)
         /\ pc' = [pc EXCEPT ![p] = pc'[p]] /\ Inside(p)'
<1>1. UNCHANGED <<lane, locks, robbed>>
  BY DEF Working, Provision, Sweep, Precleaned, Plan, Add, Import, Mark, Verify, Destroy,
     DestroyMore, Passed, Alarm, Fail, BreakOff, CleanedUp, FailHard, RemoveTree, CleanUp, guard
<1>2. Inside(p)
  BY DEF Working, Provision, Sweep, Precleaned, Plan, Add, Import, Mark, Verify, Destroy,
     DestroyMore, Passed, Alarm, Fail, BreakOff, CleanedUp, FailHard, Applied, InCycle,
     Inside, Outside
<1>3. CASE UNCHANGED pc
  BY <1>1, <1>2, <1>3, StandsStill DEF Inside
<1>4. CASE ~UNCHANGED pc
  <2>1. PICK s : s \notin Outside /\ At(p, s)
    BY <1>4 DEF Working, Provision, Sweep, Precleaned, Plan, Add, Import, Mark, Verify, Destroy,
       DestroyMore, Passed, Alarm, Fail, BreakOff, CleanedUp, FailHard, RemoveTree, CleanUp, Listed,
       Outside
  <2> QED BY <1>1, <1>2, <2>1, Moves DEF Inside
<1> QED BY <1>3, <1>4

LEMMA Unchanged ==
  ASSUME NEW p, UNCHANGED content
  PROVE  Own(p)
BY DEF Own

LEMMA RemovingKeeps ==
  ASSUME NEW p, NEW l, NEW S,
         content' = [content EXCEPT ![l] = [u \in S |-> content[l][u]]],
         S \subseteq DOMAIN content[l]
  PROVE  Own(p)
BY DEF Own

LEMMA RemoveTreeKeeps ==
  ASSUME NEW p, NEW s, RemoveTree(p, s)
  PROVE  Own(p)
<1>1. CASE content' = [content EXCEPT ![<<lane[p], "pam">>] = Empty]
  <2>1. DOMAIN content' = DOMAIN content
    BY <1>1
  <2>2. \A l \in DOMAIN content : content'[l] = content[l] \/ content'[l] = Empty
    BY <1>1
  <2>3. DOMAIN Empty = {}
    BY DEF Empty
  <2> QED BY <2>1, <2>2, <2>3 DEF Own
<1>2. CASE UNCHANGED content
  BY <1>2, Unchanged
<1> QED BY <1>1, <1>2 DEF RemoveTree

LEMMA AddingKeeps ==
  ASSUME NEW p, NEW new, NEW titles, Added(p, new, titles)
  PROVE  Own(p)
<1> DEFINE here == [u \in DOMAIN content[Place(p)] \union new |->
                      IF u \in new THEN [title |-> titles[u], managed |-> FALSE, maker |-> p]
                                   ELSE content[Place(p)][u]]
<1>1. content' = [content EXCEPT ![Place(p)] = here]
  BY DEF Added
<1>2. \A u \in DOMAIN here :
        \/ u \in DOMAIN content[Place(p)] /\ here[u] = content[Place(p)][u]
        \/ "maker" \in DOMAIN here[u] /\ here[u].maker = p
  OBVIOUS
<1> HIDE DEF here
<1>3. DOMAIN content' = DOMAIN content
  BY <1>1
<1>4. \A l \in DOMAIN content : content'[l] = content[l] \/ (l = Place(p) /\ content'[l] = here)
  BY <1>1
<1>5. Place(p)[1] = lane[p]
  BY DEF Place
<1> QED BY <1>2, <1>3, <1>4, <1>5 DEF Own

LEMMA WorkKeeps ==
  ASSUME Inductive, NEW p \in Pid, Working(p)
  PROVE  Own(p)
<1>1. CASE Provision(p) \/ Plan(p) \/ Verify(p) \/ Alarm(p) \/ Fail(p) \/ BreakOff(p) \/ FailHard(p)
  BY <1>1, Unchanged DEF Provision, Plan, Verify, Alarm, Fail, BreakOff, FailHard, CleanUp
<1>2. CASE Precleaned(p) \/ Passed(p) \/ CleanedUp(p)
  BY <1>2, Unchanged, RemoveTreeKeeps DEF Precleaned, Passed, CleanedUp
<1>3. CASE Add(p) \/ Import(p)
  BY <1>3, AddingKeeps DEF Add, Import
<1>4. CASE Sweep(p)
  <2> DEFINE here == content[Swept(p)]
  <2>1. PICK u \in left[p] : content' = [content EXCEPT ![Swept(p)] =
                 [w \in {x \in DOMAIN here : x # u \/ ~Managed(here[x])} |-> here[w]]]
    BY <1>4 DEF Sweep
  <2> QED BY <2>1, RemovingKeeps
<1>5. CASE Mark(p)
  <2>1. PICK u \in Strays(p) :
          /\ content[Place(p)][u].maker = p
          /\ content' = [content EXCEPT ![Place(p)][u].managed = TRUE]
    BY <1>5 DEF Mark
  <2> DEFINE here == content[Place(p)]
             new  == [here EXCEPT ![u].managed = TRUE]
  <2>2. u \in DOMAIN here
    BY <2>1 DEF Strays
  <2>3. content' = [content EXCEPT ![Place(p)] = new]
    BY <2>1
  <2>4. DOMAIN new = DOMAIN here /\ new[u] = [here[u] EXCEPT !.managed = TRUE]
    BY <2>2
  <2>5. \A w \in DOMAIN here \ {u} : new[w] = here[w]
    OBVIOUS
  <2> HIDE DEF new
  <2>6. DOMAIN content' = DOMAIN content
    BY <2>3
  <2>7. \A l \in DOMAIN content : content'[l] = content[l] \/ (l = Place(p) /\ content'[l] = new)
    BY <2>3
  <2>8. Place(p) \in DOMAIN content => "maker" \in DOMAIN new[u] /\ new[u].maker = p
    BY <2>1, <2>2, <2>4 DEF Inductive, Shape
  <2>9. Place(p)[1] = lane[p]
    BY DEF Place
  <2> QED BY <2>4, <2>5, <2>6, <2>7, <2>8, <2>9 DEF Own
<1>6. CASE Destroy(p) \/ (DestroyMore(p) /\ Ours(p) # {})
  <2>1. PICK u \in Ours(p) : content' = [content EXCEPT ![Place(p)] = [w \in DOMAIN @ \ {u} |-> @[w]]]
    BY <1>6 DEF Destroy, DestroyMore
  <2>2. content' = [content EXCEPT ![Place(p)] =
                      [w \in DOMAIN content[Place(p)] \ {u} |-> content[Place(p)][w]]]
    BY <2>1
  <2> QED BY <2>2, RemovingKeeps
<1>7. CASE DestroyMore(p) /\ Ours(p) = {}
  BY <1>7, Unchanged DEF DestroyMore
<1> QED BY <1>1, <1>2, <1>3, <1>4, <1>5, <1>6, <1>7 DEF Working

LEMMA WorkWorks ==
  ASSUME Inductive, NEW p \in Pid, Working(p)
  PROVE  Inductive'
<1>1. /\ UNCHANGED <<lane, locks, robbed>> /\ Inside(p)
      /\ pc' = [pc EXCEPT ![p] = pc'[p]] /\ Inside(p)'
  BY WorkIsInside
<1>2. Own(p)
  BY WorkKeeps
<1> QED BY <1>1, <1>2, Stays DEF Own

------------------------------------------------------------------------------
(* The end of a run *)

\* Its records become nobody's; its lock goes, or stays until somebody meets it
LEMMA GoneWorks ==
  ASSUME Inductive, NEW p \in Pid, At(p, "off"), Forget(p), Gone(p),
         \/ UNCHANGED <<locks, robbed>>
         \/ Inside(p) /\ Unlink(lane[p], p)
  PROVE  Inductive'
<1>1. pc' = [pc EXCEPT ![p] = pc'[p]] /\ pc'[p] = "off"
  BY Moves
<1>2. pc' = [q \in Pid |-> pc'[q]] /\ ~Inside(p)' /\ \A q \in Pid \ {p} : pc'[q] = pc[q]
  BY <1>1 DEF Inductive, Shape, Inside, Outside
<1>3. lane' = [q \in Pid |-> lane'[q]] /\ \A q \in Pid \ {p} : lane'[q] = lane[q]
  BY DEF Inductive, Shape, Forget
<1>4. /\ DOMAIN content' = DOMAIN content
      /\ \A l \in DOMAIN content : DOMAIN content'[l] = DOMAIN content[l]
  BY DEF Gone
<1>5. \A l \in DOMAIN content : \A u \in DOMAIN content[l] :
        IF content[l][u].maker = p
        THEN content'[l][u] = [content[l][u] EXCEPT !.maker = NoPid]
        ELSE content'[l][u] = content[l][u]
  BY DEF Gone
<1>6. \A l \in DOMAIN content : \A u \in DOMAIN content[l] :
        /\ "maker" \in DOMAIN content'[l][u]
        /\ content'[l][u].maker = IF content[l][u].maker = p THEN NoPid ELSE content[l][u].maker
  <2> SUFFICES ASSUME NEW l \in DOMAIN content, NEW u \in DOMAIN content[l]
               PROVE  /\ "maker" \in DOMAIN content'[l][u]
                      /\ content'[l][u].maker =
                           IF content[l][u].maker = p THEN NoPid ELSE content[l][u].maker
    OBVIOUS
  <2>1. "maker" \in DOMAIN content[l][u]
    BY DEF Inductive, Shape
  <2>2. CASE content[l][u].maker = p
    BY <1>5, <2>1, <2>2
  <2>3. CASE content[l][u].maker # p
    BY <1>5, <2>1, <2>3
  <2> QED BY <2>2, <2>3
<1>7. \A f \in DOMAIN locks' : f \in DOMAIN locks /\ locks'[f] = locks[f]
  BY DEF Unlink, Without
<1>8. Shape'
  BY <1>2, <1>3, <1>4, <1>6, <1>7 DEF Inductive, Shape
<1>9. MadeInside'
  <2> SUFFICES ASSUME NEW l \in DOMAIN content, NEW u \in DOMAIN content[l],
                      NEW m, m = content'[l][u].maker, m # NoPid
               PROVE  m \in Pid /\ pc'[m] \notin Outside /\ l[1] = lane'[m]
    BY <1>4 DEF MadeInside, Inside
  <2>1. m = content[l][u].maker /\ m # p
    BY <1>6
  <2> QED BY <1>2, <1>3, <2>1 DEF Inductive, MadeInside, Inside
<1>10. Locked'
  <2> SUFFICES ASSUME ~robbed', NEW q \in Pid, Inside(q)'
               PROVE  lane'[q] \in DOMAIN locks' /\ locks'[lane'[q]].pid = q
    BY DEF Locked
  <2>1. q # p /\ lane'[q] = lane[q] /\ Inside(q)
    BY <1>2, <1>3 DEF Inside
  <2>2. lane[q] \in DOMAIN locks /\ locks[lane[q]].pid = q
    BY <2>1 DEF Unlink, Inductive, Locked
  <2>3. CASE UNCHANGED <<locks, robbed>>
    BY <2>1, <2>2, <2>3
  <2>4. CASE Inside(p) /\ Unlink(lane[p], p)
    <3>1. lane[p] \in DOMAIN locks /\ locks[lane[p]].pid = p
      BY <2>4 DEF Unlink, Inductive, Locked
    <3>2. lane[q] # lane[p]
      BY <2>1, <2>2, <3>1
    <3> QED BY <2>1, <2>2, <2>4, <3>2 DEF Unlink, Without
  <2> QED BY <2>3, <2>4
<1> QED BY <1>8, <1>9, <1>10 DEF Inductive

------------------------------------------------------------------------------
LEMMA StepWorks ==
  ASSUME Inductive, NEW p \in Pid, Step(p)
  PROVE  Inductive'
<1>1. CASE Guarding(p)
  <2>1. UNCHANGED content
    BY <1>1 DEF Guarding
  <2> QED BY <1>1, <2>1, GuardWorks, AcquireWorks, WriteLockWorks DEF Guarding
<1>2. CASE Working(p)
  BY <1>2, WorkWorks
<1>3. CASE End(p)
  BY <1>3, GoneWorks DEF End, Release, Inside, Outside
<1>4. CASE Crash(p)
  BY <1>4, GoneWorks DEF Crash
<1> QED BY <1>1, <1>2, <1>3, <1>4 DEF Step, Working

LEMMA NextWorks ==
  ASSUME Inductive, [Next]_vars
  PROVE  Inductive'
<1>1. CASE UNCHANGED vars
  BY <1>1 DEF vars, guard, Inductive, Shape, Locked, MadeInside, Inside
<1>2. CASE Next
  BY <1>2, StartWorks, StepWorks, OthersWork DEF Next
<1> QED BY <1>1, <1>2

\* A removal concerns the records of the profile that a run is in
LEMMA RemovedHere ==
  ASSUME NEW p \in Pid, Removing(p), NEW l \in DOMAIN content, content'[l] # content[l]
  PROVE  l[1] = lane[p]
<1>1. CASE Sweep(p)
  <2>1. l = Swept(p)
    BY <1>1 DEF Sweep
  <2> QED BY <2>1 DEF Swept, Place, Sandbox
<1>2. CASE Destroy(p) \/ DestroyMore(p)
  <2>1. l = Place(p)
    BY <1>2 DEF Destroy, DestroyMore
  <2> QED BY <2>1 DEF Place
<1>3. CASE Precleaned(p) \/ Passed(p) \/ CleanedUp(p)
  <2>1. l = <<lane[p], "pam">>
    BY <1>3 DEF Precleaned, Passed, CleanedUp, RemoveTree
  <2> QED BY <2>1
<1> QED BY <1>1, <1>2, <1>3 DEF Removing

\* With any number of runs of any profiles, killed and failed at any call, no run
\* removes a record of one that still runs, unless a lock was removed in place of
\* another: acquire() creates exclusively, release() and the removal of stale locks
\* take only locks whose writer has gone or is the run itself.
THEOREM RunsStayApart == Spec => KeepsToItsOwn
<1>1. Init => Inductive
  BY Initially
<1>2. Inductive /\ [Next]_vars => Inductive'
  BY NextWorks
<1>3. Inductive => (~robbed => \A p \in Pid : Removing(p) =>
        \A l \in DOMAIN content : \A u \in DOMAIN content[l] \ DOMAIN content'[l] :
          content[l][u].maker \in {p, NoPid})
  <2> SUFFICES ASSUME Inductive, ~robbed, NEW p \in Pid, Removing(p), NEW l \in DOMAIN content,
                      NEW u \in DOMAIN content[l] \ DOMAIN content'[l],
                      content[l][u].maker # NoPid
               PROVE  content[l][u].maker = p
    OBVIOUS
  <2> DEFINE m == content[l][u].maker
  <2>1. m \in Pid /\ Inside(m) /\ l[1] = lane[m]
    BY DEF Inductive, MadeInside
  <2>2. l[1] = lane[p]
    BY RemovedHere
  <2>3. Inside(p)
    <3>1. Working(p)
      BY DEF Removing, Working
    <3> QED BY <3>1, WorkIsInside
  <2>4. locks[lane[p]].pid = p /\ locks[lane[m]].pid = m
    BY <2>1, <2>3 DEF Inductive, Locked
  <2> QED BY <2>1, <2>2, <2>4
<1> QED BY <1>1, <1>2, <1>3, PTL DEF Spec, KeepsToItsOwn

------------------------------------------------------------------------------
(* Types.  Every step is one process's, or leaves the processes alone. *)

JobOK(p) ==
  /\ pc[p] = "off" <=> lane[p] = Nowhere
  /\ lane[p] \in Profile \union {Nowhere} /\ family[p] \in Family /\ todo[p] \subseteq Title
  /\ left[p] # {} => pc[p] \in {"preclean", "postclean", "cleanup", "cleanup-sandbox"}
  /\ todo[p] # {} => pc[p] \in {"apply", "import"}
  /\ read[p] # Unread \/ paths[p] # {} => Scanning(p)

RecordOK(r) ==
  DOMAIN r = {"title", "managed", "maker"} /\ r.title \in Title /\ r.managed \in BOOLEAN

ContentOK ==
  /\ DOMAIN content = Profile \X Family
  /\ \A l \in DOMAIN content : \A u \in DOMAIN content[l] : RecordOK(content[l][u])

LocksOK == DOMAIN locks \subseteq Profile /\ \A f \in DOMAIN locks : locks[f].pid \in Pid

Arrays ==
  /\ pc = [q \in Pid |-> pc[q]] /\ lane = [q \in Pid |-> lane[q]] /\ family = [q \in Pid |-> family[q]]
  /\ left = [q \in Pid |-> left[q]] /\ todo = [q \in Pid |-> todo[q]]
  /\ paths = [q \in Pid |-> paths[q]] /\ read = [q \in Pid |-> read[q]]

Kinds ==
  Arrays /\ LocksOK /\ ContentOK /\ mishaps \in 0..Mishaps /\ \A p \in Pid : JobOK(p)

\* Nothing happens to the other processes
Rests(q) ==
  /\ pc'[q] = pc[q] /\ lane'[q] = lane[q] /\ family'[q] = family[q] /\ left'[q] = left[q]
  /\ todo'[q] = todo[q] /\ paths'[q] = paths[q] /\ read'[q] = read[q] /\ (q \in untidy => q \in untidy')

Only(p) == Arrays' /\ \A q \in Pid \ {p} : Rests(q)

LEMMA GuardIsOne ==
  ASSUME Arrays, NEW p \in Pid, Guarding(p)
  PROVE  Only(p)
<1>1. UNCHANGED cycle
  BY DEF Guarding
<1> SUFFICES ASSUME Glob(p) \/ ReadLock(p) \/ Weigh(p) \/ Preflight(p) \/ Acquire(p) \/ WriteLock(p)
                      \/ Refuse(p)
             PROVE  Only(p)
  BY DEF Guarding
<1>2. CASE Glob(p)
  BY <1>1, <1>2 DEF Glob, At, Arrays, cycle, Only, Rests
<1>3. CASE ReadLock(p)
  BY <1>1, <1>3 DEF ReadLock, Arrays, cycle, Only, Rests
<1>4. CASE Weigh(p)
  BY <1>1, <1>4 DEF Weigh, Arrays, cycle, Only, Rests
<1>5. CASE Preflight(p) \/ WriteLock(p)
  BY <1>1, <1>5 DEF Preflight, WriteLock, At, guard, Arrays, cycle, Only, Rests
<1>6. CASE Acquire(p)
  BY <1>1, <1>6 DEF Acquire, At, Arrays, cycle, Only, Rests
<1>7. CASE Refuse(p)
  BY <1>1, <1>7 DEF Refuse, Forget, At, Arrays, cycle, Only, Rests
<1> QED BY <1>2, <1>3, <1>4, <1>5, <1>6, <1>7

LEMMA WorkIsOne ==
  ASSUME Arrays, NEW p \in Pid, Working(p)
  PROVE  Only(p)
<1>1. UNCHANGED guard
  BY DEF Working, Provision, Sweep, Precleaned, Plan, Add, Import, Mark, Verify, Destroy,
     DestroyMore, Passed, Alarm, Fail, BreakOff, CleanedUp, FailHard, RemoveTree, CleanUp
<1>2. CASE Provision(p) \/ Sweep(p) \/ BreakOff(p) \/ FailHard(p)
  BY <1>1, <1>2 DEF Provision, Sweep, BreakOff, FailHard, Listed, At, guard, Arrays, Only, Rests
<1>3. CASE Precleaned(p) \/ Passed(p) \/ CleanedUp(p)
  BY <1>1, <1>3 DEF Precleaned, Passed, CleanedUp, RemoveTree, At, guard, cycle, Arrays, Only, Rests
<1>4. CASE Plan(p) \/ Add(p) \/ Import(p)
  BY <1>1, <1>4 DEF Plan, Add, Import, At, guard, Arrays, Only, Rests
<1>5. CASE Mark(p) \/ Verify(p) \/ Destroy(p)
  BY <1>1, <1>5 DEF Mark, Verify, Destroy, At, guard, cycle, Arrays, Only, Rests
<1>6. CASE DestroyMore(p)
  BY <1>1, <1>6 DEF DestroyMore, Listed, At, guard, Arrays, Only, Rests
<1>7. CASE Alarm(p) \/ Fail(p)
  BY <1>1, <1>7 DEF Alarm, Fail, CleanUp, Listed, At, guard, Arrays, Only, Rests
<1> QED BY <1>2, <1>3, <1>4, <1>5, <1>6, <1>7 DEF Working

LEMMA EndIsOne ==
  ASSUME Arrays, NEW p \in Pid, Start(p) \/ End(p) \/ Crash(p)
  PROVE  Only(p)
<1>1. CASE Start(p)
  BY <1>1 DEF Start, At, Arrays, Only, Rests
<1>2. CASE End(p) \/ Crash(p)
  BY <1>2 DEF End, Crash, Release, Forget, Gone, At, Arrays, Only, Rests
<1> QED BY <1>1, <1>2

LEMMA RestingIsOK ==
  ASSUME NEW q \in Pid, JobOK(q), Rests(q)
  PROVE  JobOK(q)'
BY DEF JobOK, Rests, Scanning

LEMMA GuardKinds ==
  ASSUME Inductive, Kinds, NEW p \in Pid, Guarding(p)
  PROVE  JobOK(p)' /\ LocksOK'
<1>1. /\ Arrays /\ JobOK(p) /\ LocksOK /\ UNCHANGED cycle
  BY DEF Kinds, Guarding
<1> SUFFICES ASSUME Glob(p) \/ ReadLock(p) \/ Weigh(p) \/ Preflight(p) \/ Acquire(p) \/ WriteLock(p)
                      \/ Refuse(p)
             PROVE  JobOK(p)' /\ LocksOK'
  BY DEF Guarding
<1>2. CASE Glob(p)
  BY <1>1, <1>2 DEF Glob, At, Arrays, cycle, JobOK, Scanning, LocksOK
<1>3. CASE ReadLock(p)
  BY <1>1, <1>3 DEF ReadLock, Arrays, cycle, JobOK, Scanning, LocksOK
<1>4. CASE Weigh(p)
  BY <1>1, <1>4 DEF Weigh, Unlink, Without, Arrays, cycle, JobOK, Scanning, LocksOK
<1>5. CASE Preflight(p)
  BY <1>1, <1>5 DEF Preflight, Scanned, At, guard, Arrays, cycle, JobOK, Scanning, LocksOK
<1>6. CASE Acquire(p)
  <2>1. lane[p] \in Profile
    BY <1>1, <1>6 DEF Acquire, JobOK
  <2>2. LocksOK'
    BY <1>1, <1>6, <2>1 DEF Acquire, With, LocksOK
  <2> QED BY <1>1, <1>6, <2>2 DEF Acquire, Scanned, At, Arrays, cycle, JobOK, Scanning
<1>7. CASE WriteLock(p)
  <2>1. LocksOK'
    <3>1. CASE locks' = locks
      BY <1>1, <3>1 DEF LocksOK
    <3>2. CASE lane[p] \in DOMAIN locks /\ locks[lane[p]].pid = p /\ locks' = [locks EXCEPT ![lane[p]].whole = TRUE]
      <4>1. DOMAIN locks' = DOMAIN locks /\ locks'[lane[p]] = [locks[lane[p]] EXCEPT !.whole = TRUE]
        BY <3>2
      <4>2. locks'[lane[p]].pid = p
        BY <3>2, <4>1 DEF Inductive, Shape
      <4>3. \A f \in DOMAIN locks \ {lane[p]} : locks'[f] = locks[f]
        BY <3>2
      <4> QED BY <1>1, <4>1, <4>2, <4>3 DEF LocksOK
    <3> QED BY <1>7, <3>1, <3>2 DEF WriteLock
  <2> QED BY <1>1, <1>7, <2>1 DEF WriteLock, At, guard, Arrays, cycle, JobOK, Scanning
<1>8. CASE Refuse(p)
  BY <1>1, <1>8 DEF Refuse, Forget, At, Arrays, cycle, JobOK, Scanning, LocksOK
<1> QED BY <1>2, <1>3, <1>4, <1>5, <1>6, <1>7, <1>8

LEMMA PlaceIsThere ==
  ASSUME Kinds, NEW p \in Pid, pc[p] # "off"
  PROVE  /\ lane[p] \in Profile /\ Place(p) \in DOMAIN content /\ Sandbox(p) \in DOMAIN content
         /\ <<lane[p], "pam">> \in DOMAIN content /\ Swept(p) \in DOMAIN content
         /\ (family[p] = "vault" => Place(p) = Sandbox(p))
         /\ (family[p] # "vault" => Place(p) = <<lane[p], "pam">> /\ Place(p) # Sandbox(p))
BY DEF Kinds, JobOK, ContentOK, Place, Sandbox, Swept, Family

Sweeping == {"preclean", "postclean", "cleanup", "cleanup-sandbox"}

LEMMA MovedIsOK ==
  ASSUME NEW p \in Pid, JobOK(p), UNCHANGED <<guard, family>>, Inside(p), Inside(p)', todo'[p] \subseteq Title,
         left'[p] # {} => pc'[p] \in Sweeping, todo'[p] # {} => pc'[p] \in {"apply", "import"}
  PROVE  JobOK(p)'
BY DEF JobOK, guard, Inside, Outside, Scanning, Sweeping

LEMMA WorkKinds ==
  ASSUME Inductive, Kinds, NEW p \in Pid, Working(p)
  PROVE  JobOK(p)' /\ mishaps' \in 0..Mishaps
<1>1. UNCHANGED <<guard, family>>
  BY DEF Working, Provision, Sweep, Precleaned, Plan, Add, Import, Mark, Verify, Destroy,
     DestroyMore, Passed, Alarm, Fail, BreakOff, CleanedUp, FailHard, RemoveTree, CleanUp, cycle
<1>2. /\ Arrays /\ JobOK(p) /\ mishaps \in 0..Mishaps /\ todo[p] \subseteq Title
      /\ (left[p] # {} => pc[p] \in Sweeping) /\ (todo[p] # {} => pc[p] \in {"apply", "import"})
  BY DEF Kinds, JobOK, Sweeping
<1>3. mishaps' \in 0..Mishaps
  <2>1. UNCHANGED mishaps \/ Mishap
    BY DEF Working, Provision, Sweep, Precleaned, Plan, Add, Import, Mark, Verify, Destroy,
       DestroyMore, Passed, Alarm, Fail, BreakOff, CleanedUp, FailHard, RemoveTree
  <2> QED BY <1>2, <2>1, SmokeAssumption DEF Mishap
<1>4. Inside(p) /\ Inside(p)'
  BY WorkIsInside
<1> DEFINE Goal == todo'[p] \subseteq Title /\ (left'[p] # {} => pc'[p] \in Sweeping)
                   /\ (todo'[p] # {} => pc'[p] \in {"apply", "import"})
<1>5. CASE Provision(p)
  <2>1. pc'[p] = "preclean" /\ pc[p] = "provision" /\ todo' = todo
    BY <1>2, <1>5 DEF Provision, Listed, At, Arrays
  <2>2. Goal
    BY <1>2, <2>1 DEF Sweeping
  <2> QED BY <1>1, <1>2, <1>3, <1>4, <2>2, MovedIsOK
<1>6. CASE Sweep(p) \/ BreakOff(p)
  <2>1. pc' = pc /\ todo' = todo /\ pc[p] \in Sweeping
    BY <1>6 DEF Sweep, BreakOff, Sweeping
  <2>2. Goal
    BY <1>2, <2>1
  <2> QED BY <1>1, <1>2, <1>3, <1>4, <2>2, MovedIsOK
<1>7. CASE FailHard(p)
  <2>1. left'[p] = {} /\ todo'[p] = {}
    BY <1>2, <1>7 DEF FailHard, Arrays
  <2>2. Goal
    BY <2>1
  <2> QED BY <1>1, <1>2, <1>3, <1>4, <2>2, MovedIsOK
<1>8. CASE Precleaned(p) \/ Passed(p) \/ CleanedUp(p)
  <2>1. left' = left /\ todo' = todo /\ left[p] = {} /\ pc[p] \in Sweeping
    BY <1>8 DEF Precleaned, Passed, CleanedUp, RemoveTree, cycle, Sweeping
  <2>2. Goal
    BY <1>2, <2>1 DEF Sweeping
  <2> QED BY <1>1, <1>2, <1>3, <1>4, <2>2, MovedIsOK
<1>9. CASE Plan(p)
  <2>1. todo'[p] = Missing(p) /\ pc'[p] \in {"apply", "import"} /\ left' = left /\ pc[p] = "plan"
    BY <1>2, <1>9 DEF Plan, At, Arrays
  <2>2. Goal
    BY <1>2, <2>1 DEF Sweeping, Missing
  <2> QED BY <1>1, <1>2, <1>3, <1>4, <2>2, MovedIsOK
<1>10. CASE Add(p)
  <2>1. todo'[p] \subseteq todo[p] /\ pc' = pc /\ left' = left
    BY <1>2, <1>10 DEF Add, Arrays
  <2>2. Goal
    BY <1>2, <2>1
  <2> QED BY <1>1, <1>2, <1>3, <1>4, <2>2, MovedIsOK
<1>11. CASE Import(p)
  <2>1. todo'[p] = {} /\ pc[p] = "import" /\ left' = left
    BY <1>2, <1>11 DEF Import, Arrays
  <2>2. Goal
    BY <1>2, <2>1 DEF Sweeping
  <2> QED BY <1>1, <1>2, <1>3, <1>4, <2>2, MovedIsOK
<1>12. CASE Mark(p)
  <2>1. pc' = pc /\ left' = left /\ todo' = todo
    BY <1>12 DEF Mark, cycle
  <2>2. Goal
    BY <1>2, <2>1
  <2> QED BY <1>1, <1>2, <1>3, <1>4, <2>2, MovedIsOK
<1>13. CASE Verify(p) \/ Destroy(p)
  <2>1. left' = left /\ todo' = todo /\ todo[p] = {} /\ pc[p] \notin Sweeping
    BY <1>2, <1>13 DEF Verify, Applied, Destroy, cycle, Sweeping
  <2>2. Goal
    BY <1>2, <2>1
  <2> QED BY <1>1, <1>2, <1>3, <1>4, <2>2, MovedIsOK
<1>14. CASE DestroyMore(p)
  <2>1. todo' = todo /\ pc[p] = "destroying" /\ (left' = left \/ pc'[p] = "postclean")
    BY <1>2, <1>14 DEF DestroyMore, Listed, At, Arrays
  <2>2. Goal
    BY <1>2, <2>1 DEF Sweeping
  <2> QED BY <1>1, <1>2, <1>3, <1>4, <2>2, MovedIsOK
<1>15. CASE Alarm(p) \/ Fail(p)
  <2>1. todo'[p] = {} /\ pc'[p] \in {"cleanup", "cleanup-sandbox"}
    BY <1>2, <1>15 DEF Alarm, Fail, CleanUp, Listed, At, Arrays
  <2>2. Goal
    BY <2>1 DEF Sweeping
  <2> QED BY <1>1, <1>2, <1>3, <1>4, <2>2, MovedIsOK
<1> QED BY <1>5, <1>6, <1>7, <1>8, <1>9, <1>10, <1>11, <1>12, <1>13, <1>14, <1>15 DEF Working

LEMMA RemovingIsOK ==
  ASSUME ContentOK, NEW l, NEW S, S \subseteq DOMAIN content[l],
         content' = [content EXCEPT ![l] = [u \in S |-> content[l][u]]]
  PROVE  ContentOK'
BY DEF ContentOK

LEMMA TreeIsOK ==
  ASSUME ContentOK, NEW p, NEW s, RemoveTree(p, s)
  PROVE  ContentOK'
<1>1. CASE content' = [content EXCEPT ![<<lane[p], "pam">>] = Empty]
  <2>1. DOMAIN Empty = {}
    BY DEF Empty
  <2> QED BY <1>1, <2>1 DEF ContentOK
<1>2. CASE UNCHANGED content
  BY <1>2 DEF ContentOK
<1> QED BY <1>1, <1>2 DEF RemoveTree

LEMMA AddingIsOK ==
  ASSUME ContentOK, NEW p, NEW new, NEW titles, Added(p, new, titles), \A u \in new : titles[u] \in Title
  PROVE  ContentOK'
<1> DEFINE here == [u \in DOMAIN content[Place(p)] \union new |->
                      IF u \in new THEN [title |-> titles[u], managed |-> FALSE, maker |-> p]
                                   ELSE content[Place(p)][u]]
<1>1. content' = [content EXCEPT ![Place(p)] = here]
  BY DEF Added
<1>2. Place(p) \in DOMAIN content => \A u \in DOMAIN here : RecordOK(here[u])
  BY DEF ContentOK, RecordOK
<1> HIDE DEF here
<1> QED BY <1>1, <1>2 DEF ContentOK

LEMMA MarkGives ==
  ASSUME ContentOK, NEW p, Place(p) \in DOMAIN content, Mark(p)
  PROVE  \E u, new :
           /\ u \in Strays(p) /\ content[Place(p)][u].maker = p
           /\ content' = [content EXCEPT ![Place(p)] = new]
           /\ DOMAIN new = DOMAIN content[Place(p)]
           /\ \A w \in DOMAIN content[Place(p)] \ {u} : new[w] = content[Place(p)][w]
           /\ RecordOK(new[u]) /\ new[u].title = content[Place(p)][u].title
           /\ new[u].maker = p /\ new[u].managed
<1>1. PICK u \in Strays(p) :
        /\ content[Place(p)][u].maker = p
        /\ content' = [content EXCEPT ![Place(p)][u].managed = TRUE]
  BY DEF Mark
<1> DEFINE here == content[Place(p)]
           new  == [here EXCEPT ![u].managed = TRUE]
<1>2. u \in DOMAIN here /\ RecordOK(here[u])
  BY <1>1 DEF Strays, ContentOK
<1>3. content' = [content EXCEPT ![Place(p)] = new]
  BY <1>1
<1>4. DOMAIN new = DOMAIN here /\ new[u] = [here[u] EXCEPT !.managed = TRUE]
  BY <1>2
<1>5. \A w \in DOMAIN here \ {u} : new[w] = here[w]
  OBVIOUS
<1> HIDE DEF new
<1>6. RecordOK(new[u]) /\ new[u].title = here[u].title /\ new[u].maker = p /\ new[u].managed
  BY <1>1, <1>2, <1>4 DEF RecordOK
<1> QED BY <1>1, <1>3, <1>4, <1>5, <1>6

LEMMA ContentKinds ==
  ASSUME Inductive, Kinds, NEW p \in Pid, Working(p)
  PROVE  ContentOK'
<1>0. ContentOK /\ JobOK(p) /\ Place(p) \in DOMAIN content
  BY PlaceIsThere, WorkIsInside DEF Kinds, Inside, Outside
<1>1. CASE Provision(p) \/ Plan(p) \/ Verify(p) \/ Alarm(p) \/ Fail(p) \/ BreakOff(p) \/ FailHard(p)
  BY <1>0, <1>1 DEF Provision, Plan, Verify, Alarm, Fail, BreakOff, FailHard, CleanUp, ContentOK
<1>2. CASE Precleaned(p) \/ Passed(p) \/ CleanedUp(p)
  <2>1. UNCHANGED content \/ \E s : RemoveTree(p, s)
    BY <1>2 DEF Precleaned, Passed, CleanedUp
  <2> QED BY <1>0, <2>1, TreeIsOK DEF ContentOK
<1>3. CASE Add(p)
  <2>1. PICK t \in todo[p] : Added(p, Fresh(1), [u \in Uid |-> t])
    BY <1>3 DEF Add
  <2>2. \A u \in Fresh(1) : [v \in Uid |-> t][u] \in Title
    BY <1>0 DEF Fresh, JobOK
  <2> QED BY <1>0, <2>1, <2>2, AddingIsOK
<1>4. CASE Import(p)
  <2> DEFINE new == Fresh(Cardinality(todo[p]))
  <2>1. PICK titles \in [new -> todo[p]] : Added(p, new, titles)
    BY <1>4 DEF Import
  <2>2. \A u \in new : titles[u] \in Title
    BY <1>0, <2>1 DEF JobOK
  <2> QED BY <1>0, <2>1, <2>2, AddingIsOK
<1>5. CASE Sweep(p)
  <2> DEFINE here == content[Swept(p)]
  <2>1. PICK u \in left[p] : content' = [content EXCEPT ![Swept(p)] =
                 [w \in {x \in DOMAIN here : x # u \/ ~Managed(here[x])} |-> here[w]]]
    BY <1>5 DEF Sweep
  <2> QED BY <1>0, <2>1, RemovingIsOK
<1>6. CASE Mark(p)
  <2>1. PICK u, new :
           /\ u \in Strays(p)
           /\ content' = [content EXCEPT ![Place(p)] = new]
           /\ DOMAIN new = DOMAIN content[Place(p)]
           /\ \A w \in DOMAIN content[Place(p)] \ {u} : new[w] = content[Place(p)][w]
           /\ RecordOK(new[u])
    BY <1>0, <1>6, MarkGives
  <2>2. \A w \in DOMAIN new : RecordOK(new[w])
    BY <1>0, <2>1 DEF ContentOK
  <2> QED BY <1>0, <2>1, <2>2 DEF ContentOK
<1>7. CASE Destroy(p) \/ (DestroyMore(p) /\ Ours(p) # {})
  <2>1. PICK u \in Ours(p) : content' = [content EXCEPT ![Place(p)] = [w \in DOMAIN @ \ {u} |-> @[w]]]
    BY <1>7 DEF Destroy, DestroyMore
  <2>2. content' = [content EXCEPT ![Place(p)] =
                      [w \in DOMAIN content[Place(p)] \ {u} |-> content[Place(p)][w]]]
    BY <2>1
  <2> QED BY <1>0, <2>2, RemovingIsOK
<1>8. CASE DestroyMore(p) /\ Ours(p) = {}
  BY <1>0, <1>8 DEF DestroyMore, ContentOK
<1> QED BY <1>1, <1>2, <1>3, <1>4, <1>5, <1>6, <1>7, <1>8 DEF Working

LEMMA StartKinds ==
  ASSUME Kinds, NEW p \in Pid, Start(p)
  PROVE  JobOK(p)' /\ LocksOK' /\ ContentOK' /\ mishaps' \in 0..Mishaps
<1>1. /\ pc[p] = "off" /\ UNCHANGED <<locks, content, mishaps, paths, read, left, todo>>
      /\ JobOK(p) /\ Arrays
  BY DEF Start, Kinds
<1>2. PICK s \in Scenarios : lane' = [lane EXCEPT ![p] = s[1]] /\ family' = [family EXCEPT ![p] = s[2]]
  BY DEF Start
<1>3. s[1] \in Profile /\ s[1] # Nowhere /\ s[2] \in Family
  BY SmokeAssumption, LockFilesAssumption DEF Family
<1>4. pc'[p] = "preflight" /\ lane'[p] = s[1] /\ family'[p] = s[2]
  BY <1>1, <1>2 DEF Start, At, Arrays
<1>5. JobOK(p)'
  BY <1>1, <1>3, <1>4 DEF JobOK, Scanning
<1> QED BY <1>1, <1>5 DEF Kinds, LocksOK, ContentOK

LEMMA GoneKinds ==
  ASSUME Kinds, NEW p \in Pid, End(p) \/ Crash(p)
  PROVE  JobOK(p)' /\ LocksOK' /\ ContentOK' /\ mishaps' \in 0..Mishaps
<1>1. /\ At(p, "off") /\ Forget(p) /\ Gone(p) /\ Arrays /\ LocksOK /\ ContentOK
      /\ UNCHANGED mishaps \/ Mishap
      /\ UNCHANGED locks \/ Unlink(lane[p], p)
  BY DEF End, Crash, Release, Kinds
<1>2. JobOK(p)'
  BY <1>1 DEF At, Forget, Gone, Arrays, JobOK, Scanning, Family
<1>3. LocksOK'
  BY <1>1 DEF Unlink, Without, LocksOK
<1>4. mishaps' \in 0..Mishaps
  BY <1>1, SmokeAssumption DEF Kinds, Mishap
<1>5. /\ DOMAIN content' = DOMAIN content
      /\ \A l \in DOMAIN content : DOMAIN content'[l] = DOMAIN content[l]
      /\ \A l \in DOMAIN content : \A u \in DOMAIN content[l] :
           \/ content'[l][u] = content[l][u]
           \/ content'[l][u] = [content[l][u] EXCEPT !.maker = NoPid]
  BY <1>1 DEF Gone
<1>6. ContentOK'
  <2>1. \A l \in DOMAIN content : \A u \in DOMAIN content[l] : RecordOK(content[l][u])
    BY <1>1 DEF ContentOK
  <2>2. \A r : RecordOK(r) => RecordOK([r EXCEPT !.maker = NoPid])
    BY DEF RecordOK
  <2>3. ASSUME NEW l \in DOMAIN content, NEW u \in DOMAIN content[l]
        PROVE  RecordOK(content'[l][u])
    <3>1. RecordOK(content[l][u]) /\ RecordOK([content[l][u] EXCEPT !.maker = NoPid])
      BY <2>1, <2>2
    <3>2. CASE content'[l][u] = content[l][u]
      BY <3>1, <3>2
    <3>3. CASE content'[l][u] = [content[l][u] EXCEPT !.maker = NoPid]
      BY <3>1, <3>3
    <3> QED BY <1>5, <3>2, <3>3
  <2> QED BY <1>1, <1>5, <2>3 DEF ContentOK
<1> QED BY <1>2, <1>3, <1>4, <1>6

LEMMA OthersKinds ==
  ASSUME Inductive, Kinds, Others
  PROVE  Kinds'
<1>1. UNCHANGED <<pc, guard, cycle, content>> /\ Mishap /\ LocksOK
  BY DEF Others, Age, Tidy, Kinds
<1>2. LocksOK'
  <2>1. CASE Age
    <3>1. PICK f \in DOMAIN locks : locks' = [locks EXCEPT ![f].old = TRUE]
      BY <2>1 DEF Age
    <3>2. locks'[f] = [locks[f] EXCEPT !.old = TRUE] /\ \A g \in DOMAIN locks \ {f} : locks'[g] = locks[g]
      BY <3>1
    <3>3. DOMAIN locks' = DOMAIN locks /\ locks'[f].pid = locks[f].pid
      BY <3>1, <3>2 DEF Inductive, Shape
    <3> QED BY <1>1, <3>2, <3>3 DEF LocksOK
  <2>2. CASE Tidy
    BY <1>1, <2>2 DEF Tidy, Without, LocksOK
  <2> QED BY <2>1, <2>2 DEF Others
<1>3. mishaps' \in 0..Mishaps
  BY <1>1, SmokeAssumption DEF Kinds, Mishap
<1>4. Arrays' /\ ContentOK' /\ \A q \in Pid : JobOK(q)'
  BY <1>1 DEF Kinds, Arrays, ContentOK, JobOK, Scanning, guard, cycle
<1> QED BY <1>2, <1>3, <1>4 DEF Kinds

LEMMA OnesKinds ==
  ASSUME Kinds, NEW p \in Pid, Only(p), JobOK(p)', LocksOK', ContentOK', mishaps' \in 0..Mishaps
  PROVE  Kinds'
<1>1. \A q \in Pid \ {p} : JobOK(q)'
  BY RestingIsOK DEF Only, Kinds
<1> QED BY <1>1 DEF Only, Kinds

LEMMA GuardLeaves ==
  ASSUME NEW p \in Pid, Guarding(p)
  PROVE  UNCHANGED <<cycle, content, mishaps>>
BY DEF Guarding

LEMMA StepKinds ==
  ASSUME Inductive, Kinds, NEW p \in Pid, Step(p) \/ Start(p)
  PROVE  Kinds'
<1>0. Arrays
  BY DEF Kinds
<1>1. CASE Guarding(p)
  <2>1. ContentOK' /\ mishaps' \in 0..Mishaps
    BY <1>1, GuardLeaves DEF Kinds, ContentOK
  <2> QED BY <1>0, <1>1, <2>1, GuardIsOne, GuardKinds, OnesKinds
<1>2. CASE Working(p)
  <2>1. LocksOK'
    BY <1>2, WorkIsInside DEF Kinds, LocksOK
  <2> QED BY <1>0, <1>2, <2>1, WorkIsOne, WorkKinds, ContentKinds, OnesKinds
<1>3. CASE Start(p)
  BY <1>0, <1>3, EndIsOne, StartKinds, OnesKinds
<1>4. CASE End(p) \/ Crash(p)
  BY <1>0, <1>4, EndIsOne, GoneKinds, OnesKinds
<1> QED BY <1>1, <1>2, <1>3, <1>4 DEF Step, Working

LEMMA NextKinds ==
  ASSUME Inductive, Kinds, [Next]_vars
  PROVE  Kinds'
<1>1. CASE UNCHANGED vars
  BY <1>1 DEF vars, guard, cycle, Kinds, Arrays, LocksOK, ContentOK, JobOK, Scanning
<1>2. CASE Next
  BY <1>2, StepKinds, OthersKinds DEF Next
<1> QED BY <1>1, <1>2

LEMMA KindsInitially == Init => Kinds
<1> SUFFICES ASSUME Init PROVE Kinds
  OBVIOUS
<1>1. DOMAIN Empty = {}
  BY DEF Empty
<1>2. ContentOK
  BY <1>1 DEF Init, ContentOK
<1>3. LocksOK
  BY DEF Init, LockInit, LocksOK
<1>4. Arrays
  BY DEF Init, LockInit, Arrays
<1>5. \A p \in Pid : JobOK(p)
  BY DEF Init, LockInit, JobOK, Family
<1>6. mishaps \in 0..Mishaps
  BY SmokeAssumption DEF Init
<1> QED BY <1>2, <1>3, <1>4, <1>5, <1>6 DEF Kinds

\* With any number of runs, every variable keeps its type; a process has records to
\* look at or to create only in the steps that do so, and whoever is noted as the
\* maker of a record runs.
THEOREM TypeCorrect == Spec => []TypeOK
<1>1. Init => Inductive /\ Kinds
  BY Initially, KindsInitially
<1>2. (Inductive /\ Kinds) /\ [Next]_vars => (Inductive /\ Kinds)'
  BY NextWorks, NextKinds
<1>3. Inductive /\ Kinds => TypeOK
  <2> SUFFICES ASSUME Inductive, Kinds PROVE TypeOK
    OBVIOUS
  <2>1. LockTypeOK
    BY DEF Kinds, LocksOK, JobOK, LockTypeOK
  <2>2. \A l \in Profile \X Family : \A u \in DOMAIN content[l] :
          content[l][u].title \in Title /\ Alive(content[l][u].maker) = (content[l][u].maker # NoPid)
    <3> SUFFICES ASSUME NEW l \in Profile \X Family, NEW u \in DOMAIN content[l]
                 PROVE  content[l][u].title \in Title
                        /\ Alive(content[l][u].maker) = (content[l][u].maker # NoPid)
      OBVIOUS
    <3>1. l \in DOMAIN content /\ content[l][u].title \in Title
      BY DEF Kinds, ContentOK, RecordOK
    <3>2. content[l][u].maker # NoPid => Alive(content[l][u].maker)
      BY <3>1 DEF Inductive, MadeInside, Inside, Outside, Alive
    <3>3. ~Alive(NoPid)
      BY LockFilesAssumption DEF Alive
    <3>4. Alive(content[l][u].maker) \in BOOLEAN
      BY DEF Alive
    <3> QED BY <3>1, <3>2, <3>3, <3>4
  <2> QED BY <2>1, <2>2 DEF Kinds, JobOK, TypeOK
<1> QED BY <1>1, <1>2, <1>3, PTL DEF Spec

------------------------------------------------------------------------------
(* The course of a run: what a step has achieved, the next one relies on *)

\* Steps in which a run has not made a record yet
Early == {"write", "provision", "preclean", "plan", "import"}

Untouched(p) == \A u \in DOMAIN content[Place(p)] : content[Place(p)][u].maker # p
Prepared(p) == IF family[p] = "vault" THEN Ours(p) = {} ELSE p \in untidy \/ DOMAIN content[Place(p)] = {}
OwnStrays(p) == \A u \in Strays(p) : content[Place(p)][u].maker = p

Course(p) ==
  /\ pc[p] \in Early => Untouched(p)
  /\ pc[p] = "preclean" /\ family[p] = "vault" => Ours(p) \subseteq left[p]
  /\ pc[p] = "plan" => Prepared(p)
  /\ pc[p] \in {"import", "apply"} => OwnStrays(p) /\ Missing(p) \subseteq todo[p]
  /\ pc[p] = "destroy" => Ours(p) # {}
  /\ pc[p] = "postclean" => Ours(p) = {}

Courses == ~robbed => \A p \in Pid : Course(p)

\* The records of p are left alone
Same(p) ==
  /\ Place(p)' = Place(p) /\ DOMAIN content'[Place(p)] = DOMAIN content[Place(p)]
  /\ \A u \in DOMAIN content[Place(p)] : content'[Place(p)][u] = content[Place(p)][u]

LEMMA SameParts ==
  ASSUME NEW p, Same(p)
  PROVE  /\ UNCHANGED <<Strays(p), Present(p), Missing(p), Ours(p)>>
         /\ (Untouched(p) => Untouched(p)') /\ (OwnStrays(p) => OwnStrays(p)')
         /\ DOMAIN content'[Place(p)'] = DOMAIN content[Place(p)]
<1>1. Strays(p)' = Strays(p)
  BY DEF Same, Strays
<1>2. Present(p)' = Present(p)
  BY DEF Same, Present
<1>3. Untouched(p) => Untouched(p)'
  BY DEF Same, Untouched
<1>4. OwnStrays(p) => OwnStrays(p)'
  BY <1>1 DEF Same, Strays, OwnStrays
<1>5. DOMAIN content'[Place(p)'] = DOMAIN content[Place(p)]
  BY DEF Same
<1> QED BY <1>1, <1>2, <1>3, <1>4, <1>5 DEF Missing, Ours

\* What others do does not take a run off its course
LEMMA CourseRests ==
  ASSUME NEW q \in Pid, Course(q), Rests(q), Same(q)
  PROVE  Course(q)'
<1>1. UNCHANGED <<Strays(q), Missing(q), Ours(q)>>
  BY SameParts
<1>2. (Untouched(q) => Untouched(q)') /\ (OwnStrays(q) => OwnStrays(q)')
  BY SameParts
<1>3. DOMAIN content'[Place(q)'] = DOMAIN content[Place(q)]
  BY SameParts
<1>4. Prepared(q) => Prepared(q)'
  BY <1>1, <1>3 DEF Prepared, Rests
<1> QED BY <1>1, <1>2, <1>4 DEF Course, Rests

LEMMA OutsideIsFine ==
  ASSUME NEW q \in Pid, ~Inside(q)'
  PROVE  Course(q)'
BY DEF Course, Inside, Outside, Early

\* Runs that are inside are in different profiles
LEMMA LanesDiffer ==
  ASSUME Inductive, ~robbed, NEW p \in Pid, NEW q \in Pid, p # q, Inside(p), Inside(q)
  PROVE  lane[p] # lane[q]
BY DEF Inductive, Locked

LEMMA RestingPlace ==
  ASSUME NEW q, Rests(q)
  PROVE  Place(q)' = Place(q) /\ Place(q)[1] = lane[q]
BY DEF Rests, Place

\* Work takes place in the profile of the run
LEMMA WorkIsHere ==
  ASSUME NEW p \in Pid, Working(p), NEW l \in DOMAIN content, content'[l] # content[l]
  PROVE  l[1] = lane[p]
<1>1. CASE Removing(p)
  BY <1>1, RemovedHere
<1>2. CASE Add(p) \/ Import(p) \/ Mark(p)
  <2>1. l = Place(p)
    BY <1>2 DEF Add, Import, Added, Mark
  <2> QED BY <2>1 DEF Place
<1>3. CASE Provision(p) \/ Plan(p) \/ Verify(p) \/ Alarm(p) \/ Fail(p) \/ BreakOff(p) \/ FailHard(p)
  BY <1>3 DEF Provision, Plan, Verify, Alarm, Fail, BreakOff, FailHard, CleanUp
<1> QED BY <1>1, <1>2, <1>3 DEF Working, Removing

LEMMA WorkSpares ==
  ASSUME Inductive, Kinds, ~robbed, NEW p \in Pid, Working(p), NEW q \in Pid, q # p, Rests(q), Inside(q)
  PROVE  Same(q)
<1>1. Place(q) \in DOMAIN content
  BY PlaceIsThere DEF Inside, Outside
<1>2. Inside(p) /\ lane[q] # lane[p]
  BY WorkIsInside, LanesDiffer
<1>3. content'[Place(q)] = content[Place(q)]
  BY <1>1, <1>2, WorkIsHere, RestingPlace
<1> QED BY <1>3, RestingPlace DEF Same

LEMMA GoneSpares ==
  ASSUME Inductive, Kinds, ~robbed, NEW p \in Pid, Gone(p), NEW q \in Pid, q # p, Rests(q), Inside(q)
  PROVE  Same(q)
<1>1. Place(q) \in DOMAIN content
  BY PlaceIsThere DEF Inside, Outside
<1>2. \A u \in DOMAIN content[Place(q)] : content[Place(q)][u].maker # p
  <2> SUFFICES ASSUME NEW u \in DOMAIN content[Place(q)], content[Place(q)][u].maker = p
               PROVE  FALSE
    OBVIOUS
  <2>1. Inside(p) /\ Place(q)[1] = lane[p]
    BY <1>1, LockFilesAssumption DEF Inductive, MadeInside
  <2> QED BY <2>1, LanesDiffer, RestingPlace
<1>3. /\ DOMAIN content'[Place(q)] = DOMAIN content[Place(q)]
      /\ \A u \in DOMAIN content[Place(q)] : content'[Place(q)][u] = content[Place(q)][u]
  BY <1>1, <1>2 DEF Gone
<1> QED BY <1>3, RestingPlace DEF Same

\* At most removes records of p
Thins(p) ==
  /\ Place(p)' = Place(p) /\ DOMAIN content'[Place(p)] \subseteq DOMAIN content[Place(p)]
  /\ \A u \in DOMAIN content'[Place(p)] : content'[Place(p)][u] = content[Place(p)][u]

LEMMA ThinnedParts ==
  ASSUME NEW p, Thins(p)
  PROVE  /\ Ours(p)' \subseteq Ours(p) /\ Ours(p)' \subseteq DOMAIN content'[Place(p)]
         /\ (Untouched(p) => Untouched(p)')
<1>1. Ours(p)' \subseteq Ours(p) /\ Ours(p)' \subseteq DOMAIN content'[Place(p)]
  BY DEF Thins, Ours, Strays
<1>2. Untouched(p) => Untouched(p)'
  BY DEF Thins, Untouched
<1> QED BY <1>1, <1>2

LEMMA SameThins ==
  ASSUME NEW p, Place(p)' = Place(p), UNCHANGED content
  PROVE  Thins(p) /\ Same(p)
BY DEF Thins, Same

LEMMA WorkingPlace ==
  ASSUME Inductive, Kinds, NEW p \in Pid, Working(p)
  PROVE  /\ Place(p)' = Place(p) /\ Sandbox(p)' = Sandbox(p) /\ family'[p] = family[p]
         /\ Place(p) \in DOMAIN content /\ Swept(p) \in DOMAIN content /\ <<lane[p], "pam">> \in DOMAIN content
         /\ (family[p] = "vault" => Place(p) = Sandbox(p))
         /\ (family[p] # "vault" => Place(p) = <<lane[p], "pam">> /\ Place(p) # Sandbox(p))
<1>1. UNCHANGED <<lane, family>>
  BY DEF Working, Provision, Sweep, Precleaned, Plan, Add, Import, Mark, Verify, Destroy,
     DestroyMore, Passed, Alarm, Fail, BreakOff, CleanedUp, FailHard, RemoveTree, CleanUp, cycle, guard
<1>2. pc[p] # "off"
  BY WorkIsInside DEF Inside, Outside
<1> QED BY <1>1, <1>2, PlaceIsThere DEF Place, Sandbox

LEMMA GuardCourse ==
  ASSUME Inductive, Kinds, NEW p \in Pid, Course(p), Guarding(p)
  PROVE  Course(p)'
<1>1. Arrays /\ UNCHANGED <<cycle, content>>
  BY DEF Kinds, Guarding
<1>2. CASE Acquire(p)
  <2>1. pc[p] = "acquire-scan" /\ pc'[p] = "write" /\ UNCHANGED lane
    BY <1>1, <1>2 DEF Acquire, At, Arrays
  <2>2. Place(p) \in DOMAIN content /\ Place(p)' = Place(p)
    BY <1>1, <2>1, PlaceIsThere DEF Place, cycle
  <2>3. Untouched(p)
    BY <2>1, <2>2, LockFilesAssumption DEF Inductive, MadeInside, Inside, Outside, Untouched
  <2>4. Untouched(p)'
    BY <1>1, <2>2, <2>3, SameThins, SameParts
  <2> QED BY <2>1, <2>4 DEF Course, Early
<1>3. CASE WriteLock(p)
  <2>1. pc[p] = "write" /\ pc'[p] = "provision" /\ UNCHANGED lane
    BY <1>1, <1>3 DEF WriteLock, At, Arrays, guard
  <2>2. Place(p)' = Place(p) /\ Untouched(p)
    BY <1>1, <2>1 DEF Place, cycle, Course, Early
  <2>3. Untouched(p)'
    BY <1>1, <2>2, SameThins, SameParts
  <2> QED BY <2>1, <2>3 DEF Course, Early
<1>4. CASE Glob(p) \/ ReadLock(p) \/ Weigh(p) \/ Preflight(p) \/ Refuse(p)
  <2>1. pc[p] \in Outside
    BY <1>4 DEF Glob, ReadLock, Weigh, Preflight, Refuse, Scanning, Outside
  <2>2. UNCHANGED pc \/ pc'[p] \in Outside
    BY <1>1, <1>4 DEF Glob, ReadLock, Weigh, Preflight, Refuse, At, Arrays, Outside
  <2> QED BY <2>1, <2>2, OutsideIsFine DEF Inside
<1> QED BY <1>2, <1>3, <1>4 DEF Guarding

LEMMA ProvisionCourse ==
  ASSUME Inductive, Kinds, NEW p \in Pid, Course(p), Provision(p)
  PROVE  Course(p)'
<1>1. /\ Working(p) /\ pc[p] = "provision" /\ pc'[p] = "preclean" /\ UNCHANGED content
      /\ left'[p] = DOMAIN content[Sandbox(p)]
  BY DEF Working, Kinds, Arrays, Provision, Listed, At
<1>2. Place(p)' = Place(p) /\ (family[p] = "vault" => Place(p) = Sandbox(p)) /\ family'[p] = family[p]
  BY <1>1, WorkingPlace
<1>3. Untouched(p) /\ Untouched(p)'
  BY <1>1, <1>2, SameThins, SameParts DEF Course, Early
<1>4. Ours(p)' = Ours(p) /\ Ours(p) \subseteq DOMAIN content[Place(p)]
  BY <1>1, <1>2, SameThins, SameParts DEF Ours
<1> QED BY <1>1, <1>2, <1>3, <1>4 DEF Course, Early

LEMMA SweepCourse ==
  ASSUME Inductive, Kinds, NEW p \in Pid, Course(p), Sweep(p)
  PROVE  Course(p)'
<1>1. /\ Working(p) /\ pc'[p] = pc[p] /\ pc[p] \in Sweeping /\ Arrays
  BY DEF Working, Kinds, Sweep, Sweeping
<1>2. /\ Place(p)' = Place(p) /\ (family[p] = "vault" => Place(p) = Sandbox(p)) /\ family'[p] = family[p]
      /\ Swept(p) \in DOMAIN content /\ Place(p) \in DOMAIN content
  BY <1>1, WorkingPlace
<1> DEFINE here == content[Swept(p)]
<1>3. PICK u \in left[p] :
        /\ content' = [content EXCEPT ![Swept(p)] =
                         [w \in {x \in DOMAIN here : x # u \/ ~Managed(here[x])} |-> here[w]]]
        /\ left'[p] = left[p] \ {u}
  BY <1>1 DEF Sweep, Arrays
<1>4. content'[Swept(p)] = [w \in {x \in DOMAIN here : x # u \/ ~Managed(here[x])} |-> here[w]]
      /\ (Place(p) # Swept(p) => content'[Place(p)] = content[Place(p)])
  BY <1>2, <1>3
<1>5. Thins(p)
  BY <1>2, <1>4 DEF Thins
<1>6. (Untouched(p) => Untouched(p)') /\ Ours(p)' \subseteq Ours(p)
  BY <1>5, ThinnedParts
<1>7. pc[p] = "preclean" /\ family[p] = "vault" => u \notin Ours(p)'
  <2> SUFFICES ASSUME pc[p] = "preclean", Place(p) = Sandbox(p) PROVE u \notin Ours(p)'
    BY <1>2
  <2>1. Swept(p) = Place(p)
    BY DEF Swept
  <2>2. u \in DOMAIN content'[Place(p)] => ~content'[Place(p)][u].managed
    BY <1>4, <2>1 DEF Managed
  <2> QED BY <1>2, <2>2 DEF Ours, Strays
<1> QED BY <1>1, <1>2, <1>3, <1>6, <1>7 DEF Course, Early, Sweeping

LEMMA PlanCourse ==
  ASSUME Inductive, Kinds, NEW p \in Pid, Course(p), Plan(p)
  PROVE  Course(p)'
<1>1. /\ Working(p) /\ pc[p] = "plan" /\ pc'[p] \in {"apply", "import"} /\ UNCHANGED content
      /\ todo'[p] = Missing(p) /\ Strays(p) = {}
  BY DEF Working, Kinds, Arrays, Plan, Changes, At
<1>2. Place(p)' = Place(p)
  BY <1>1, WorkingPlace
<1>3. Untouched(p)' /\ Strays(p)' = {} /\ Missing(p)' = Missing(p)
  BY <1>1, <1>2, SameThins, SameParts DEF Course, Early
<1> QED BY <1>1, <1>3 DEF Course, Early, OwnStrays

LEMMA PrecleanedCourse ==
  ASSUME Inductive, Kinds, NEW p \in Pid, Course(p), Precleaned(p)
  PROVE  Course(p)'
<1>1. Working(p) /\ pc[p] = "preclean" /\ left[p] = {} /\ Arrays /\ Untouched(p)
  BY DEF Working, Kinds, Precleaned, Course, Early
<1>2. /\ Place(p)' = Place(p) /\ family'[p] = family[p] /\ Place(p) \in DOMAIN content
      /\ (family[p] # "vault" => Place(p) = <<lane[p], "pam">>)
  BY <1>1, WorkingPlace
<1>3. CASE family[p] = "pam" /\ RemoveTree(p, "plan")
  <2>1. pc'[p] = "plan"
    BY <1>1, <1>3 DEF RemoveTree, At, Arrays
  <2>2. \/ content' = [content EXCEPT ![Place(p)] = Empty]
        \/ UNCHANGED content /\ p \in untidy'
    BY <1>2, <1>3 DEF RemoveTree
  <2>3. CASE content' = [content EXCEPT ![Place(p)] = Empty]
    <3>1. DOMAIN content'[Place(p)] = {}
      BY <1>2, <2>3 DEF Empty
    <3> QED BY <1>2, <1>3, <2>1, <3>1 DEF Course, Early, Untouched, Prepared
  <2>4. CASE UNCHANGED content /\ p \in untidy'
    <3>1. Untouched(p)'
      BY <1>1, <1>2, <2>4, SameThins, SameParts
    <3> QED BY <1>2, <1>3, <2>1, <2>4, <3>1 DEF Course, Early, Prepared
  <2> QED BY <2>2, <2>3, <2>4
<1>4. CASE family[p] = "vault" /\ At(p, "plan") /\ UNCHANGED content
  <2>1. pc'[p] = "plan"
    BY <1>1, <1>4 DEF At, Arrays
  <2>2. Ours(p) = {}
    BY <1>1, <1>4 DEF Course
  <2>3. Untouched(p)' /\ Ours(p)' = {}
    BY <1>1, <1>2, <1>4, <2>2, SameThins, SameParts
  <2> QED BY <1>2, <1>4, <2>1, <2>3 DEF Course, Early, Prepared
<1>5. CASE At(p, "release")
  <2>1. pc'[p] = "release"
    BY <1>1, <1>5 DEF At, Arrays
  <2> QED BY <2>1 DEF Course, Early
<1> QED BY <1>3, <1>4, <1>5 DEF Precleaned

\* New records are the run's own, and have the titles that it gives them
LEMMA AddedParts ==
  ASSUME NEW p, NEW new, NEW titles, Added(p, new, titles), Place(p) \in DOMAIN content,
         Place(p)' = Place(p), new \intersect DOMAIN content[Place(p)] = {}
  PROVE  /\ (OwnStrays(p) => OwnStrays(p)')
         /\ Missing(p)' = Missing(p) \ {titles[u] : u \in new}
<1> DEFINE here == [u \in DOMAIN content[Place(p)] \union new |->
                      IF u \in new THEN [title |-> titles[u], managed |-> FALSE, maker |-> p]
                                   ELSE content[Place(p)][u]]
<1>1. content'[Place(p)'] = here
  BY DEF Added
<1>2. /\ DOMAIN here = DOMAIN content[Place(p)] \union new
      /\ \A u \in new : here[u].maker = p /\ here[u].title = titles[u]
      /\ \A u \in DOMAIN content[Place(p)] : here[u] = content[Place(p)][u]
  OBVIOUS
<1> HIDE DEF here
<1>3. OwnStrays(p) => OwnStrays(p)'
  BY <1>1, <1>2 DEF OwnStrays, Strays
<1>4. Present(p)' = Present(p) \union {titles[u] : u \in new}
  <2>1. Present(p)' = {here[u].title : u \in DOMAIN here}
    BY <1>1 DEF Present
  <2>2. {here[u].title : u \in DOMAIN here} = Present(p) \union {titles[u] : u \in new}
    BY <1>2 DEF Present
  <2> QED BY <2>1, <2>2
<1> QED BY <1>3, <1>4 DEF Missing

LEMMA FreshIsNew ==
  ASSUME NEW n, NEW l \in DOMAIN content
  PROVE  Fresh(n) \subseteq Uid /\ Fresh(n) \intersect DOMAIN content[l] = {}
BY DEF Fresh, Given

LEMMA AddCourse ==
  ASSUME Inductive, Kinds, NEW p \in Pid, Course(p), Add(p)
  PROVE  Course(p)'
<1>1. Working(p) /\ pc[p] = "apply" /\ pc'[p] = "apply" /\ Arrays /\ Fresh(1) # {}
      /\ OwnStrays(p) /\ Missing(p) \subseteq todo[p]
  BY DEF Working, Kinds, Add, Course
<1>2. Place(p)' = Place(p) /\ Place(p) \in DOMAIN content
  BY <1>1, WorkingPlace
<1>3. PICK t \in todo[p] : Added(p, Fresh(1), [u \in Uid |-> t]) /\ todo'[p] = todo[p] \ {t}
  BY <1>1 DEF Add, Arrays
<1>4. Fresh(1) \subseteq Uid /\ Fresh(1) \intersect DOMAIN content[Place(p)] = {}
  BY <1>2, FreshIsNew
<1>5. {[u \in Uid |-> t][v] : v \in Fresh(1)} = {t}
  BY <1>1, <1>4
<1>6. OwnStrays(p)' /\ Missing(p)' = Missing(p) \ {[u \in Uid |-> t][v] : v \in Fresh(1)}
  <2> DEFINE titles == [u \in Uid |-> t]
  <2>1. Added(p, Fresh(1), titles)
    BY <1>3
  <2> HIDE DEF titles
  <2>2. OwnStrays(p)' /\ Missing(p)' = Missing(p) \ {titles[v] : v \in Fresh(1)}
    BY <1>1, <1>2, <1>4, <2>1, AddedParts
  <2> QED BY <2>2 DEF titles
<1> QED BY <1>1, <1>3, <1>5, <1>6 DEF Course, Early

\* As many records as titles, and no two with the same one: every title has its record
LEMMA AllTitles ==
  ASSUME NEW S, IsFiniteSet(S), NEW new \in SUBSET Nat, Cardinality(new) = Cardinality(S),
         NEW titles \in [new -> S], \A u, w \in new : u < w => titles[u] # titles[w]
  PROVE  {titles[u] : u \in new} = S
<1>1. titles \in Injection(new, S)
  <2>1. \A u, w \in new : titles[u] = titles[w] => u = w
    OBVIOUS
  <2> QED BY <2>1 DEF Injection, IsInjective
<1>2. titles \in Surjection(new, S)
  BY <1>1, FS_Injection
<1> QED BY <1>2 DEF Surjection

LEMMA ImportCourse ==
  ASSUME Inductive, Kinds, NEW p \in Pid, Course(p), Import(p)
  PROVE  Course(p)'
<1>1. /\ Working(p) /\ pc'[p] = "apply" /\ todo'[p] = {} /\ JobOK(p)
      /\ OwnStrays(p) /\ Missing(p) \subseteq todo[p]
  BY DEF Working, Kinds, Arrays, Import, At, Course
<1>2. Place(p)' = Place(p) /\ Place(p) \in DOMAIN content
  BY <1>1, WorkingPlace
<1> DEFINE new == Fresh(Cardinality(todo[p]))
<1>3. PICK titles \in [new -> todo[p]] :
        /\ Cardinality(new) = Cardinality(todo[p])
        /\ \A u, w \in new : u < w => titles[u] # titles[w]
        /\ Added(p, new, titles)
  BY DEF Import
<1>4. new \subseteq Uid /\ new \intersect DOMAIN content[Place(p)] = {}
  BY <1>2, FreshIsNew
<1> HIDE DEF new
<1>5. IsFiniteSet(todo[p])
  BY <1>1, SmokeAssumption, FS_Subset DEF JobOK
<1>6. {titles[u] : u \in new} = todo[p]
  BY <1>3, <1>4, <1>5, SmokeAssumption, AllTitles
<1>7. OwnStrays(p)' /\ Missing(p)' = Missing(p) \ {titles[u] : u \in new}
  BY <1>1, <1>2, <1>3, <1>4, AddedParts
<1> QED BY <1>1, <1>6, <1>7 DEF Course, Early

LEMMA MarkCourse ==
  ASSUME Inductive, Kinds, NEW p \in Pid, Course(p), Mark(p)
  PROVE  Course(p)'
<1>1. /\ Working(p) /\ pc[p] = "apply" /\ pc'[p] = "apply" /\ UNCHANGED todo /\ ContentOK
      /\ OwnStrays(p) /\ Missing(p) \subseteq todo[p]
  BY DEF Working, Kinds, Mark, cycle, Course
<1>2. Place(p)' = Place(p) /\ Place(p) \in DOMAIN content
  BY <1>1, WorkingPlace
<1> DEFINE here == content[Place(p)]
<1>3. PICK u, new :
        /\ u \in Strays(p) /\ content' = [content EXCEPT ![Place(p)] = new]
        /\ DOMAIN new = DOMAIN here /\ \A w \in DOMAIN here \ {u} : new[w] = here[w]
        /\ new[u].title = here[u].title /\ new[u].maker = p
  BY <1>1, <1>2, MarkGives
<1>4. content'[Place(p)'] = new
  BY <1>2, <1>3
<1>5. OwnStrays(p)'
  BY <1>1, <1>3, <1>4 DEF OwnStrays, Strays
<1>6. Present(p)' = Present(p)
  <2>1. Present(p)' = {new[w].title : w \in DOMAIN new}
    BY <1>4 DEF Present
  <2>2. \A w \in DOMAIN here : new[w].title = here[w].title
    BY <1>3
  <2> QED BY <1>3, <2>1, <2>2 DEF Present
<1> QED BY <1>1, <1>5, <1>6 DEF Course, Early, Missing

LEMMA VerifyCourse ==
  ASSUME Inductive, Kinds, NEW p \in Pid, Course(p), Verify(p)
  PROVE  Course(p)'
<1>1. /\ Working(p) /\ pc'[p] \in {"destroy", "release"} /\ UNCHANGED content
      /\ Strays(p) = {} /\ Missing(p) = {}
  BY DEF Working, Kinds, Arrays, Verify, At, AsExpected
<1>2. Place(p)' = Place(p)
  BY <1>1, WorkingPlace
<1>3. Ours(p) # {}
  BY <1>1, SmokeAssumption DEF Missing, Present, Ours
<1>4. Ours(p)' # {}
  BY <1>1, <1>2, <1>3, SameThins, SameParts
<1> QED BY <1>1, <1>4 DEF Course, Early

\* Steps after which there is nothing to rely on
LEMMA FreeCourse ==
  ASSUME NEW p \in Pid, pc'[p] \in {"destroying", "cleanup", "cleanup-sandbox", "release"}
  PROVE  Course(p)'
BY DEF Course, Early

LEMMA DestroyCourse ==
  ASSUME Inductive, Kinds, NEW p \in Pid, Course(p), Destroy(p) \/ DestroyMore(p)
  PROVE  Course(p)'
<1>1. Working(p) /\ Arrays
  BY DEF Working, Kinds
<1>2. CASE Destroy(p) \/ (DestroyMore(p) /\ Ours(p) # {})
  <2>1. pc'[p] = "destroying"
    BY <1>1, <1>2 DEF Destroy, DestroyMore, At, Arrays
  <2> QED BY <2>1, FreeCourse
<1>3. CASE DestroyMore(p) /\ Ours(p) = {}
  <2>1. pc'[p] = "postclean" /\ UNCHANGED content
    BY <1>1, <1>3 DEF DestroyMore, Listed, At, Arrays
  <2>2. Ours(p)' = {}
    BY <1>1, <1>3, <2>1, WorkingPlace, SameThins, SameParts
  <2> QED BY <2>1, <2>2 DEF Course, Early
<1> QED BY <1>2, <1>3

LEMMA FreedCourse ==
  ASSUME Kinds, NEW p \in Pid,
         Passed(p) \/ Alarm(p) \/ Fail(p) \/ BreakOff(p) \/ CleanedUp(p) \/ FailHard(p)
  PROVE  Course(p)'
<1>1. pc'[p] \in {"cleanup", "cleanup-sandbox", "release"}
  BY DEF Kinds, Arrays, Passed, Alarm, Fail, BreakOff, CleanedUp, FailHard, CleanUp, Listed, RemoveTree, At
<1> QED BY <1>1, FreeCourse

LEMMA WorkCourse ==
  ASSUME Inductive, Kinds, NEW p \in Pid, Course(p), Working(p)
  PROVE  Course(p)'
BY ProvisionCourse, SweepCourse, PrecleanedCourse, PlanCourse, AddCourse, ImportCourse, MarkCourse,
   VerifyCourse, DestroyCourse, FreedCourse DEF Working

\* A lock that was removed in place of another is not forgotten
LEMMA RobbedStays ==
  ASSUME [Next]_vars, robbed
  PROVE  robbed'
<1>1. ASSUME NEW p \in Pid, Start(p) \/ Step(p) PROVE robbed'
  <2>1. UNCHANGED robbed \/ \E f, q : Unlink(f, q)
    BY <1>1 DEF Step, Start, Guarding, Glob, ReadLock, Weigh, Preflight, Acquire, WriteLock, Refuse,
       Provision, Sweep, Precleaned, Plan, Add, Import, Mark, Verify, Destroy, DestroyMore, Passed, Alarm,
       Fail, BreakOff, CleanedUp, FailHard, RemoveTree, CleanUp, End, Crash, Release
  <2> QED BY <2>1 DEF Unlink
<1>2. CASE Others
  BY <1>2 DEF Others, Age, Tidy
<1> QED BY <1>1, <1>2 DEF Next, vars

LEMMA StartCourse ==
  ASSUME Kinds, NEW p \in Pid, Start(p) \/ End(p) \/ Crash(p)
  PROVE  Course(p)' /\ (\A q \in Pid \ {p} : Rests(q)) /\ (UNCHANGED content \/ Gone(p))
<1>1. Arrays
  BY DEF Kinds
<1>2. pc'[p] \in {"off", "preflight"}
  BY <1>1 DEF Arrays, Start, End, Crash, Release, At
<1>3. Course(p)'
  BY <1>2, OutsideIsFine DEF Inside, Outside
<1>4. UNCHANGED content \/ Gone(p)
  BY DEF Start, End, Crash
<1> QED BY <1>1, <1>3, <1>4, EndIsOne DEF Only

LEMMA StepCourse ==
  ASSUME Inductive, Kinds, ~robbed, \A q \in Pid : Course(q), NEW p \in Pid, Step(p) \/ Start(p)
  PROVE  \A q \in Pid : Course(q)'
<1>0. Arrays
  BY DEF Kinds
<1>1. Course(p)' /\ \A q \in Pid \ {p} : Rests(q)
  <2>1. CASE Guarding(p)
    BY <1>0, <2>1, GuardCourse, GuardIsOne DEF Only
  <2>2. CASE Working(p)
    BY <1>0, <2>2, WorkCourse, WorkIsOne DEF Only
  <2>3. CASE Start(p) \/ End(p) \/ Crash(p)
    BY <2>3, StartCourse
  <2> QED BY <2>1, <2>2, <2>3 DEF Step, Working
<1>2. ASSUME NEW q \in Pid \ {p}, Inside(q) PROVE Course(q)'
  <2>1. CASE Working(p)
    BY <1>1, <1>2, <2>1, WorkSpares, CourseRests
  <2>2. CASE UNCHANGED content
    BY <1>1, <2>2, RestingPlace, SameThins, CourseRests
  <2>3. CASE Gone(p)
    BY <1>1, <1>2, <2>3, GoneSpares, CourseRests
  <2>4. Working(p) \/ UNCHANGED content \/ Gone(p)
    BY GuardLeaves, StartCourse DEF Step, Working
  <2> QED BY <2>1, <2>2, <2>3, <2>4
<1>3. ASSUME NEW q \in Pid \ {p}, ~Inside(q) PROVE Course(q)'
  BY <1>1, <1>3, OutsideIsFine DEF Rests, Inside
<1> QED BY <1>1, <1>2, <1>3

LEMMA NextCourses ==
  ASSUME Inductive, Kinds, Courses, [Next]_vars
  PROVE  Courses'
<1> SUFFICES ASSUME ~robbed' PROVE \A q \in Pid : Course(q)'
  BY DEF Courses
<1>1. ~robbed /\ \A q \in Pid : Course(q)
  BY RobbedStays DEF Courses
<1>2. ASSUME UNCHANGED <<pc, lane, cycle, content>> PROVE \A q \in Pid : Course(q)'
  <2> SUFFICES ASSUME NEW q \in Pid PROVE Course(q)'
    OBVIOUS
  <2>1. Place(q)' = Place(q)
    BY <1>2 DEF Place, cycle
  <2>2. Same(q)
    BY <1>2, <2>1, SameThins
  <2>3. UNCHANGED <<Strays(q), Missing(q), Ours(q)>> /\ (Untouched(q) => Untouched(q)')
        /\ (OwnStrays(q) => OwnStrays(q)') /\ DOMAIN content'[Place(q)'] = DOMAIN content[Place(q)]
    BY <2>2, SameParts
  <2> QED BY <1>1, <1>2, <2>3 DEF Course, Prepared, cycle
<1>3. CASE Next
  BY <1>1, <1>2, <1>3, StepCourse DEF Next, Others, Age, Tidy, guard
<1>4. CASE UNCHANGED vars
  BY <1>2, <1>4 DEF vars, guard
<1> QED BY <1>3, <1>4

LEMMA CoursesInitially == Init => Courses
BY DEF Init, LockInit, Courses, Course, Early

\* A run inside finds no records of another that runs
LEMMA OnlyOwn ==
  ASSUME Inductive, Kinds, ~robbed, NEW p \in Pid, Inside(p), NEW u \in DOMAIN content[Place(p)]
  PROVE  content[Place(p)][u].maker \in {p, NoPid}
<1> DEFINE m == content[Place(p)][u].maker
<1> SUFFICES ASSUME m # NoPid PROVE m = p
  OBVIOUS
<1>1. Place(p) \in DOMAIN content /\ Place(p)[1] = lane[p]
  BY PlaceIsThere DEF Inside, Outside, Place
<1>2. m \in Pid /\ Inside(m) /\ lane[p] = lane[m]
  BY <1>1 DEF Inductive, MadeInside
<1> QED BY <1>2, LanesDiffer

\* Whatever failed and killed runs have left, and whichever runs there are beside it,
\* a run whose calls succeed meets none of the smoke test's own checks: cleanup takes
\* what is managed, the project tree goes as a whole, and nobody else adds to either
\* in between.
THEOREM NoFalseAlarms == Spec => NoFalseAlarm
<1>1. Init => Inductive /\ Kinds /\ Courses
  BY Initially, KindsInitially, CoursesInitially
<1>2. (Inductive /\ Kinds /\ Courses) /\ [Next]_vars => (Inductive /\ Kinds /\ Courses)'
  BY NextWorks, NextKinds, NextCourses
<1>3. Inductive /\ Kinds /\ Courses =>
        \A p \in Pid : Alarm(p) =>
          \/ robbed \/ p \in untidy
          \/ family[p] = "vault" /\ \E u \in Strays(p) : content[Place(p)][u].maker = NoPid
  <2> SUFFICES ASSUME Inductive, Kinds, Courses, NEW p \in Pid, Alarm(p), ~robbed, p \notin untidy
               PROVE  family[p] = "vault" /\ \E u \in Strays(p) : content[Place(p)][u].maker = NoPid
    OBVIOUS
  <2>1. Course(p)
    BY DEF Courses
  <2>2. pc[p] = "plan" /\ ~Changes(p)
    BY <2>1 DEF Alarm, Applied, AsExpected, Course, OwnStrays
  <2>3. Untouched(p) /\ Prepared(p) /\ Inside(p)
    BY <2>1, <2>2 DEF Course, Early, Inside, Outside
  <2>4. DOMAIN content[Place(p)] # {}
    BY <2>2, SmokeAssumption DEF Changes, Strays, Missing, Present
  <2>5. family[p] = "vault" /\ Ours(p) = {}
    BY <2>3, <2>4 DEF Prepared
  <2>6. PICK u \in DOMAIN content[Place(p)] : u \in Strays(p)
    BY <2>4, <2>5 DEF Ours
  <2>7. content[Place(p)][u].maker = NoPid
    BY <2>3, <2>6, OnlyOwn DEF Untouched
  <2> QED BY <2>5, <2>6, <2>7
<1> QED BY <1>1, <1>2, <1>3, PTL DEF Spec, NoFalseAlarm

------------------------------------------------------------------------------
(* Lab: beside the applies, and for what it has the applies do *)

LEMMA LabTests == LabSpec => Spec
<1>1. LabInit => Init
  BY DEF LabInit
<1>2. [LabNext]_<<scope, vars, scaffold>> => [Next]_vars
  BY DEF LabNext
<1> QED BY <1>1, <1>2, PTL DEF LabSpec, Spec

LEMMA LabApplies == LabSpec => R!Spec
<1>1. LabInit => R!Init
  BY DEF LabInit
<1>2. [LabNext]_<<scope, vars, scaffold>> => [R!Next]_R!vars
  BY DEF LabNext, scaffold, R!vars
<1> QED BY <1>1, <1>2, PTL DEF LabSpec, R!Spec

\* The variables of the test and of the applies beside it keep their types.
THEOREM LabTypes ==
  ASSUME R!Fits
  PROVE  LabSpec => []TypesOK
<1>1. Spec => []TypeOK
  BY TypeCorrect
<1>2. R!Spec => []R!TypeOK
  BY R!TypeCorrect, LabAssumption
<1>3. TypeOK /\ R!TypeOK => TypesOK
  BY DEF TypesOK
<1> QED BY <1>1, <1>2, <1>3, LabTests, LabApplies, PTL

\* What the applies of the test's manifests mark is shared with the application of its
\* gateway, whichever of them made the folders and wherever they stopped.
THEOREM LabMarksReachable ==
  ASSUME R!Fits, R!StrangersHoldNothing
  PROVE  LabSpec => []MarkedIsReachable
<1>1. R!Spec => []R!MarkedIsReachable
  BY R!MarkedAreReachable, LabAssumption
<1>2. R!MarkedIsReachable => MarkedIsReachable
  BY DEF MarkedIsReachable
<1> QED BY <1>1, <1>2, LabApplies, PTL

\* An apply that nothing disturbs is refused by no call but the look for its gateway,
\* whatever the applies before it have left.
THEOREM LabRerunsSucceed ==
  ASSUME R!Fits
  PROVE  LabSpec => RerunsGetThrough
<1>1. R!Spec => R!RerunsGetThrough
  BY R!RerunsSucceed, LabAssumption
<1> QED BY <1>1, LabApplies DEF RerunsGetThrough

\* A run of the test removes nothing of another that is under way, and none is
\* surprised by what others left, in Lab as in Smoke.
THEOREM LabRunsStayApart == LabSpec => KeepsToItsOwn /\ NoFalseAlarm
BY LabTests, RunsStayApart, NoFalseAlarms
==============================================================================
