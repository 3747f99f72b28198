---------------------------- MODULE TenantProofs ----------------------------
(***************************************************************************)
(* Theorems about Tenant for all manifests and any number of mishaps: no   *)
(* command makes a second company or application of one name, and none     *)
(* takes over an application, as far as the listing it relies on is true;  *)
(* a bootstrap works, and the enrolment of a smoke run's test user         *)
(* recovers.  The end is about applies that are let alone: what they leave *)
(* is what the mock provider leaves.                                       *)
(***************************************************************************)
EXTENDS Tenant, FiniteSetTheorems, TLAPS

\* What is in the tenant was given a uid
AppsGiven ==
  /\ \A u \in DOMAIN apps : "name" \in DOMAIN apps[u]
  /\ DOMAIN apps \subseteq given /\ given \subseteq AppId
  /\ DOMAIN before \subseteq given /\ "uid" \in DOMAIN at

\* The listing of applications, until somebody else interferes: it is made again
\* after each change of names, and what it said still holds at the call made from it
ListingHolds ==
  quiet =>
    /\ pc = "ksm" => listed \in {Unlisted, NamesNow}
    /\ pc = "ksm-create" => Named(target.names[at.ref]) = {}
    /\ pc = "ksm-mark" => apps[at.uid].mark = NoMark /\ at.uid \notin DOMAIN before
    /\ pc = "boot-app-add" => Named(BootName) = {}

\* The same for companies, which are listed before each change
FirmsListed ==
  /\ DOMAIN mcs \subseteq spent /\ spent \subseteq McId
  /\ rows \in Portfolios \union {{}} /\ open \subseteq Keys(rows)
  /\ pc = "msp-call" /\ cur.kind = "create" =>
       cur.name \in Keys(rows) /\ (quiet => cur.name \notin Keys(Companies(mcs)))

Inductive == AppsGiven /\ ListingHolds /\ FirmsListed /\ mishaps \in Nat

AppSteps == {"ksm", "ksm-create", "ksm-mark", "boot-app-add"}

------------------------------------------------------------------------------
LEMMA NumbersApart == AppId \subseteq Nat /\ McId \subseteq Nat
BY KsmApplyAssumption, MspApplyAssumption

\* There is one first uid that was not given out
LEMMA OneFresh ==
  ASSUME NEW S, S \subseteq Nat, NEW G, NEW i \in FreshOf(S, G, 1), NEW j \in FreshOf(S, G, 1)
  PROVE  i = j
<1>1. \A k \in FreshOf(S, G, 1) : k \in Nat /\ k \in S \ G /\ \A m \in S \ G : ~(m < k)
  <2> SUFFICES ASSUME NEW k \in FreshOf(S, G, 1)
               PROVE  k \in Nat /\ k \in S \ G /\ \A m \in S \ G : ~(m < k)
    OBVIOUS
  <2> DEFINE below == {m \in S \ G : m < k}
  <2>1. k \in S \ G /\ k \in Nat /\ Cardinality(below) < 1
    BY DEF FreshOf
  <2>2. IsFiniteSet(below)
    <3>1. \A m \in below : m \in 0 .. k
      <4> TAKE m \in below
      <4>1. m \in Nat /\ m < k
        OBVIOUS
      <4> QED BY <2>1, <4>1
    <3>2. IsFiniteSet(0 .. k)
      BY <2>1, FS_Interval
    <3>3. below \in SUBSET (0 .. k)
      BY <3>1
    <3> HIDE DEF below
    <3> QED BY <3>2, <3>3, FS_Subset
  <2>3. below = {}
    <3>1. Cardinality(below) \in Nat
      BY <2>2, FS_CardinalityType
    <3>2. Cardinality(below) = 0
      BY <2>1, <3>1
    <3> QED BY <2>2, <3>2, FS_EmptySet
  <2> QED BY <2>1, <2>3
<1> QED BY <1>1 DEF FreshOf

LEMMA FreshIsNew ==
  ASSUME NEW S, NEW G, NEW n
  PROVE  FreshOf(S, G, n) \subseteq S \ G
BY DEF FreshOf

LEMMA Initially == Init => Inductive
BY DEF Init, SessionInit, MspInit, KsmInit, Inductive, AppsGiven, ListingHolds, FirmsListed, NoApps, NobodyYet,
   Nowhere, Keys, NoChange

------------------------------------------------------------------------------
(* What the other half of the tenant is not concerned with *)

LEMMA AppsAlone ==
  ASSUME Inductive, UNCHANGED application, UNCHANGED <<pc, quiet>> \/ pc' \notin AppSteps
  PROVE  AppsGiven' /\ ListingHolds'
<1>1. UNCHANGED <<apps, given, before, at, target, listed>>
  BY DEF application, apply
<1> QED BY <1>1 DEF Inductive, AppsGiven, ListingHolds, AppSteps, Named, NamesNow

LEMMA FirmsAlone ==
  ASSUME Inductive, UNCHANGED company, UNCHANGED <<pc, quiet>> \/ pc' # "msp-call"
  PROVE  FirmsListed'
<1>1. UNCHANGED <<mcs, spent, rows, open, cur>>
  BY DEF company
<1> QED BY <1>1 DEF Inductive, FirmsListed, Companies, Keys, Key

LEMMA Counted ==
  ASSUME Inductive, NEW again, UNCHANGED mishaps \/ Mishap \/ Twice(again)
  PROVE  mishaps' \in Nat
BY DEF Inductive, Mishap, Twice

------------------------------------------------------------------------------
(* Applications *)

\* Steps of applications leave the companies alone
LEMMA NotFirms ==
  ASSUME Inductive, UNCHANGED company, pc' # "msp-call", AppsGiven', ListingHolds', mishaps' \in Nat
  PROVE  Inductive'
BY FirmsAlone DEF Inductive

LEMMA PlanWorks == ASSUME Inductive, KsmPlan, UNCHANGED company PROVE Inductive'
<1>1. UNCHANGED <<apps, given, at, mishaps>> /\ before' = apps /\ listed' = NamesNow /\ pc' = "ksm"
  BY DEF KsmPlan
<1>2. AppsGiven' /\ ListingHolds'
  BY <1>1 DEF Inductive, AppsGiven, ListingHolds, NamesNow
<1> QED BY <1>1, <1>2, NotFirms DEF Inductive

LEMMA RenameWorks == ASSUME Inductive, KsmRename, UNCHANGED company PROVE Inductive'
<1>1. /\ pc = "ksm" /\ listed' = Unlisted /\ UNCHANGED <<pc, mishaps, given, before, at>>
      /\ \E u, n : u \in DOMAIN apps /\ apps' = [apps EXCEPT ![u].name = n]
  BY DEF KsmRename
<1>2. PICK u, n : u \in DOMAIN apps /\ apps' = [apps EXCEPT ![u].name = n]
  BY <1>1
<1>3. /\ DOMAIN apps' = DOMAIN apps
      /\ \A w \in DOMAIN apps : "name" \in DOMAIN apps'[w]
  <2>1. apps'[u] = [apps[u] EXCEPT !.name = n] /\ \A w \in DOMAIN apps \ {u} : apps'[w] = apps[w]
    BY <1>2
  <2>2. "name" \in DOMAIN apps[u]
    BY <1>2 DEF Inductive, AppsGiven
  <2>3. "name" \in DOMAIN apps'[u]
    BY <2>1, <2>2
  <2> QED BY <1>2, <2>1, <2>3 DEF Inductive, AppsGiven
<1>4. AppsGiven' /\ ListingHolds'
  BY <1>1, <1>3 DEF Inductive, AppsGiven, ListingHolds
<1> QED BY <1>1, <1>4, NotFirms DEF Inductive

LEMMA LookWorks == ASSUME Inductive, KsmLook, UNCHANGED company PROVE Inductive'
<1>1. PICK r : ~InListing(target.names[r]) /\ at' = [ref |-> r, uid |-> 0]
  BY DEF KsmLook
<1>2. /\ pc = "ksm" /\ pc' = "ksm-create" /\ quiet' = (quiet \/ listed = Unlisted)
      /\ UNCHANGED <<mishaps, apps, given, target, before>>
  BY DEF KsmLook
<1>3. AppsGiven'
  BY <1>1, <1>2 DEF Inductive, AppsGiven
<1>4. ASSUME quiet' PROVE Named(target.names[r]) = {}
  <2>1. Listing = NamesNow
    BY <1>2, <1>4 DEF Inductive, ListingHolds, Listing
  <2>2. target.names[r] \notin NamesNow
    BY <1>1, <2>1 DEF InListing
  <2> QED BY <2>2 DEF NamesNow, Named
<1>5. ListingHolds'
  BY <1>1, <1>2, <1>4 DEF ListingHolds, Named
<1> QED BY <1>2, <1>3, <1>5, NotFirms DEF Inductive

\* What was not there when it was looked for is new, and nobody's
LEMMA CreateIsNew ==
  ASSUME Inductive, KsmCreate
  PROVE  \E n, new, u :
           /\ new \subseteq AppId \ given /\ u \in DOMAIN apps \union new
           /\ n = target.names[at.ref]
           /\ apps' = [w \in DOMAIN apps \union new |-> IF w \in new THEN NewApp(n) ELSE apps[w]]
           /\ given' = given \union new
           /\ at' = [at EXCEPT !.uid = u]
           /\ Named(n) = {} => u \in new
<1> DEFINE n == target.names[at.ref]
<1>1. PICK again \in BOOLEAN, k \in 0..2 :
        LET new == FreshOf(AppId, given, k) IN
        /\ k = 0 => Named(n) # {}
        /\ apps' = [u \in DOMAIN apps \union new |-> IF u \in new THEN NewApp(n) ELSE apps[u]]
        /\ given' = given \union new
        /\ \E u \in (IF k = 0 THEN Named(n) ELSE new) : at' = [at EXCEPT !.uid = u]
  BY DEF KsmCreate
<1> DEFINE new == FreshOf(AppId, given, k)
<1>2. PICK u \in (IF k = 0 THEN Named(n) ELSE new) : at' = [at EXCEPT !.uid = u]
  BY <1>1
<1>3. new \in SUBSET (AppId \ given)
  BY FreshIsNew
<1>4. Named(n) \subseteq DOMAIN apps
  BY DEF Named
<1> QED BY <1>1, <1>2, <1>3, <1>4

LEMMA CreateWorks == ASSUME Inductive, KsmCreate, UNCHANGED company PROVE Inductive'
<1>1. PICK n, new, u :
        /\ new \subseteq AppId \ given /\ u \in DOMAIN apps \union new
        /\ n = target.names[at.ref]
        /\ apps' = [w \in DOMAIN apps \union new |-> IF w \in new THEN NewApp(n) ELSE apps[w]]
        /\ given' = given \union new
        /\ at' = [at EXCEPT !.uid = u]
        /\ Named(n) = {} => u \in new
  BY CreateIsNew
<1>2. pc = "ksm-create" /\ pc' = "ksm-mark" /\ UNCHANGED <<quiet, before>>
  BY DEF KsmCreate
<1>3. mishaps' \in Nat
  BY Counted DEF KsmCreate
<1>4. DOMAIN NewApp(n) = {"name", "mark", "shares"} /\ NewApp(n).mark = NoMark
  BY DEF NewApp
<1>5. at'.uid = u /\ "uid" \in DOMAIN at'
  BY <1>1 DEF Inductive, AppsGiven
<1>6. AppsGiven'
  <2>1. DOMAIN apps' = DOMAIN apps \union new
    BY <1>1
  <2>2. \A w \in DOMAIN apps' : "name" \in DOMAIN apps'[w]
    <3>1. \A w \in new : apps'[w] = NewApp(n)
      BY <1>1
    <3>2. \A w \in DOMAIN apps \ new : apps'[w] = apps[w]
      BY <1>1
    <3> QED BY <1>4, <2>1, <3>1, <3>2 DEF Inductive, AppsGiven
  <2> QED BY <1>1, <1>2, <1>5, <2>1, <2>2 DEF Inductive, AppsGiven
<1>7. ASSUME quiet PROVE apps'[u].mark = NoMark /\ u \notin DOMAIN before
  <2>1. u \in new
    BY <1>1, <1>2, <1>7 DEF Inductive, ListingHolds
  <2>2. apps'[u] = NewApp(n)
    BY <1>1, <2>1
  <2> QED BY <1>1, <1>4, <2>1, <2>2 DEF Inductive, AppsGiven
<1>8. ListingHolds'
  BY <1>2, <1>5, <1>7 DEF ListingHolds
<1> QED BY <1>2, <1>3, <1>6, <1>8, NotFirms

LEMMA MarkWorks == ASSUME Inductive, KsmMark, UNCHANGED company PROVE Inductive'
<1>1. /\ at.uid \in DOMAIN apps /\ apps' = [apps EXCEPT ![at.uid].mark = at.ref]
      /\ listed' = Unlisted /\ pc' = "ksm" /\ at' = Nowhere
      /\ UNCHANGED <<quiet, mishaps, given, before>>
  BY DEF KsmMark
<1>2. DOMAIN apps' = DOMAIN apps /\ \A w \in DOMAIN apps : "name" \in DOMAIN apps'[w]
  <2>1. /\ apps'[at.uid] = [apps[at.uid] EXCEPT !.mark = at.ref]
        /\ \A w \in DOMAIN apps \ {at.uid} : apps'[w] = apps[w]
    BY <1>1
  <2>2. "name" \in DOMAIN apps'[at.uid]
    BY <1>1, <2>1 DEF Inductive, AppsGiven
  <2> QED BY <1>1, <2>1, <2>2 DEF Inductive, AppsGiven
<1>3. AppsGiven' /\ ListingHolds'
  BY <1>1, <1>2 DEF Inductive, AppsGiven, ListingHolds, Nowhere
<1> QED BY <1>1, <1>3, NotFirms DEF Inductive

LEMMA ReshareWorks == ASSUME Inductive, KsmReshare, UNCHANGED company PROVE Inductive'
<1>1. /\ pc = "ksm" /\ todo = {} /\ UNCHANGED <<pc, quiet, mishaps, given, before, listed, at>>
      /\ \E u, v, e : u \in DOMAIN apps /\ apps' = [apps EXCEPT ![u].shares[v] = e]
  BY DEF KsmReshare
<1>2. PICK u, v, e : u \in DOMAIN apps /\ apps' = [apps EXCEPT ![u].shares[v] = e]
  BY <1>1
<1>3. /\ DOMAIN apps' = DOMAIN apps
      /\ \A w \in DOMAIN apps : "name" \in DOMAIN apps'[w] /\ apps'[w].name = apps[w].name
  <2> DEFINE s == [apps[u].shares EXCEPT ![v] = e]
  <2>1. apps'[u] = [apps[u] EXCEPT !.shares = s] /\ \A w \in DOMAIN apps \ {u} : apps'[w] = apps[w]
    BY <1>2
  <2> HIDE DEF s
  <2>2. "name" \in DOMAIN apps[u]
    BY <1>2 DEF Inductive, AppsGiven
  <2>3. "name" \in DOMAIN apps'[u] /\ apps'[u].name = apps[u].name
    BY <2>1, <2>2
  <2> QED BY <1>2, <2>1, <2>3 DEF Inductive, AppsGiven
<1>4. NamesNow' = NamesNow
  BY <1>3 DEF NamesNow
<1>5. AppsGiven' /\ ListingHolds'
  BY <1>1, <1>3, <1>4 DEF Inductive, AppsGiven, ListingHolds
<1> QED BY <1>1, <1>5, NotFirms DEF Inductive

LEMMA DeleteWorks == ASSUME Inductive, KsmDelete, UNCHANGED company PROVE Inductive'
<1>1. /\ pc = "ksm" /\ listed' = Unlisted /\ UNCHANGED <<pc, mishaps, given, before, at>>
      /\ \E u : apps' = [w \in DOMAIN apps \ {u} |-> apps[w]]
  BY DEF KsmDelete
<1>2. AppsGiven' /\ ListingHolds'
  BY <1>1 DEF Inductive, AppsGiven, ListingHolds
<1> QED BY <1>1, <1>2, NotFirms DEF Inductive

LEMMA KsmIdleWorks ==
  ASSUME Inductive, KsmIdle, UNCHANGED company, UNCHANGED mishaps \/ Mishap
  PROVE  Inductive'
<1>1. pc' = "idle" /\ at' = Nowhere /\ before' = NoApps /\ UNCHANGED <<apps, given>>
  BY DEF KsmIdle
<1>2. AppsGiven' /\ ListingHolds'
  BY <1>1 DEF Inductive, AppsGiven, ListingHolds, Nowhere, NoApps
<1> QED BY <1>1, <1>2, Counted, NotFirms

LEMMA OthersAppWorks == ASSUME Inductive, OthersApp PROVE Inductive'
<1>1. Mishap /\ ~quiet' /\ UNCHANGED <<pc, before, at, company>>
  BY DEF OthersApp, OnlyApps, apply
<1>2. AppsGiven'
  <2>1. CASE \E a \in StrangeApps, u \in FreshOf(AppId, given, 1) :
               /\ apps' = [w \in DOMAIN apps \union {u} |-> IF w = u THEN a ELSE apps[w]]
               /\ given' = given \union {u}
    <3>1. PICK a \in StrangeApps, u \in AppId \ given :
            /\ apps' = [w \in DOMAIN apps \union {u} |-> IF w = u THEN a ELSE apps[w]]
            /\ given' = given \union {u}
      BY <2>1, FreshIsNew
    <3>2. "name" \in DOMAIN a
      BY TenantAssumption DEF NewApp
    <3>3. DOMAIN apps' = DOMAIN apps \union {u} /\ \A w \in DOMAIN apps' : "name" \in DOMAIN apps'[w]
      BY <3>1, <3>2 DEF Inductive, AppsGiven
    <3> QED BY <1>1, <3>1, <3>3 DEF Inductive, AppsGiven
  <2>2. CASE \E u \in DOMAIN apps : apps' = [w \in DOMAIN apps \ {u} |-> apps[w]] /\ UNCHANGED given
    BY <1>1, <2>2 DEF Inductive, AppsGiven
  <2> QED BY <2>1, <2>2 DEF OthersApp
<1>3. ListingHolds'
  BY <1>1 DEF ListingHolds
<1>4. FirmsListed'
  <2>1. UNCHANGED <<mcs, spent, rows, open, cur>>
    BY <1>1 DEF company
  <2> QED BY <1>1, <2>1 DEF Inductive, FirmsListed
<1> QED BY <1>1, <1>2, <1>3, <1>4, Counted DEF Inductive

------------------------------------------------------------------------------
(* The bootstrap *)

LEMMA BootLookAppWorks == ASSUME Inductive, BootLookApp, UNCHANGED company PROVE Inductive'
<1>1. /\ pc' \in {"boot-share", "boot-app-add"} /\ UNCHANGED <<mishaps, apps, given, before, at>>
      /\ pc' = "boot-app-add" => Named(BootName) = {}
  BY DEF BootLookApp, application, apply
<1>2. AppsGiven' /\ ListingHolds'
  BY <1>1 DEF Inductive, AppsGiven, ListingHolds, Named
<1> QED BY <1>1, <1>2, NotFirms DEF Inductive

LEMMA BootAddAppWorks == ASSUME Inductive, BootAddApp, UNCHANGED company PROVE Inductive'
<1>1. /\ pc' = "boot-share" /\ UNCHANGED <<mishaps, before, at>>
      /\ \E u \in FreshOf(AppId, given, 1) :
           /\ apps' = [w \in DOMAIN apps \union {u} |-> IF w = u THEN NewApp(BootName) ELSE apps[w]]
           /\ given' = given \union {u}
  BY DEF BootAddApp, apply
<1>2. PICK u \in AppId \ given :
        /\ apps' = [w \in DOMAIN apps \union {u} |-> IF w = u THEN NewApp(BootName) ELSE apps[w]]
        /\ given' = given \union {u}
  BY <1>1, FreshIsNew
<1>3. "name" \in DOMAIN NewApp(BootName)
  BY DEF NewApp
<1>4. DOMAIN apps' = DOMAIN apps \union {u} /\ \A w \in DOMAIN apps' : "name" \in DOMAIN apps'[w]
  BY <1>2, <1>3 DEF Inductive, AppsGiven
<1>5. AppsGiven' /\ ListingHolds'
  BY <1>1, <1>2, <1>4 DEF Inductive, AppsGiven, ListingHolds
<1> QED BY <1>1, <1>5, NotFirms DEF Inductive

\* A share changes no name
LEMMA SharesKeepNames ==
  ASSUME Inductive, NEW u \in DOMAIN apps, NEW r, NEW e, Share(u, r, e)
  PROVE  /\ DOMAIN apps' = DOMAIN apps
         /\ \A w \in DOMAIN apps : "name" \in DOMAIN apps'[w] /\ apps'[w].name = apps[w].name
<1> DEFINE s == [v \in DOMAIN apps[u].shares \union {r} |-> IF v = r THEN e ELSE apps[u].shares[v]]
<1>1. apps' = [apps EXCEPT ![u].shares = s]
  BY DEF Share
<1> HIDE DEF s
<1>2. apps'[u] = [apps[u] EXCEPT !.shares = s] /\ \A w \in DOMAIN apps \ {u} : apps'[w] = apps[w]
  BY <1>1
<1>3. "name" \in DOMAIN apps[u]
  BY DEF Inductive, AppsGiven
<1>4. "name" \in DOMAIN apps'[u] /\ apps'[u].name = apps[u].name
  BY <1>2, <1>3
<1> QED BY <1>1, <1>2, <1>4 DEF Inductive, AppsGiven

LEMMA BootSharesWork ==
  ASSUME Inductive, BootShare \/ BootShareDir, UNCHANGED company
  PROVE  Inductive'
<1>1. /\ pc' \in {"boot-dir", "boot-token"} /\ UNCHANGED <<mishaps, given, before, at>>
      /\ app \in DOMAIN apps /\ \E r, e : Share(app, r, e)
  BY DEF BootShare, BootShareDir, apply
<1>2. DOMAIN apps' = DOMAIN apps /\ \A w \in DOMAIN apps : "name" \in DOMAIN apps'[w]
  BY <1>1, SharesKeepNames
<1>3. AppsGiven' /\ ListingHolds'
  BY <1>1, <1>2 DEF Inductive, AppsGiven, ListingHolds
<1> QED BY <1>1, <1>3, NotFirms DEF Inductive

\* All other steps of the bootstrap, and all of the service mode
LEMMA ElsewhereWorks ==
  ASSUME Inductive, UNCHANGED <<company, application>>, mishaps' \in Nat,
         UNCHANGED <<pc, quiet>> \/ pc' \notin AppSteps \union {"msp-call"}
  PROVE  Inductive'
<1>1. AppsGiven' /\ ListingHolds'
  BY AppsAlone
<1>2. FirmsListed'
  BY FirmsAlone
<1> QED BY <1>1, <1>2 DEF Inductive

LEMMA BootWorks ==
  ASSUME Inductive, Boot_Start \/ Boot_Steps \/ Learn
  PROVE  Inductive'
<1>1. UNCHANGED company
  BY DEF Boot_Start, Boot_Steps, Learn, OnlyBoot
<1>2. CASE BootLookApp \/ BootAddApp \/ BootShare \/ BootShareDir
  BY <1>1, <1>2, BootLookAppWorks, BootAddAppWorks, BootSharesWork
<1>3. CASE Boot_Start \/ BootLookDir \/ BootAddDir \/ BootToken \/ BootRedeem \/ BootFinish
           \/ BootGiveUp
  <2>1. /\ UNCHANGED <<application, mishaps>>
        /\ pc' \in {"boot-app", "boot-dir-share", "boot-dir-add", "boot-redeem", "boot-verify", "idle"}
    BY <1>3 DEF Boot_Start, BootStart, BootLookDir, BootAddDir, BootToken, BootRedeem, BootFinish,
       BootGiveUp, BootIdle
  <2> QED BY <1>1, <2>1, ElsewhereWorks DEF AppSteps, Inductive
<1>4. CASE BootPoll \/ Learn
  <2>1. UNCHANGED <<application, process>>
    BY <1>4 DEF BootPoll, Learn, Propagate
  <2> QED BY <1>1, <2>1, ElsewhereWorks DEF process, Inductive
<1> QED BY <1>2, <1>3, <1>4 DEF Boot_Steps

LEMMA ServiceWorks ==
  ASSUME Inductive, Service_Start \/ Service_Steps \/ Service_Works \/ OthersRecord
  PROVE  Inductive'
<1>1. UNCHANGED <<company, application>>
  BY DEF Service_Start, Service_Steps, Service_Works, OthersRecord, OnlyService
<1>2. CASE SvcStart \/ SvcPost \/ SvcPlan \/ SvcNext \/ SvcGiveUp \/ SvcFinish
  <2>1. UNCHANGED mishaps /\ pc' \in {"svc-post", "svc-poll", "idle"}
    BY <1>2 DEF SvcStart, SvcPost, SvcPlan, SvcNext, SvcGiveUp, SvcFinish, SvcIdle
  <2> QED BY <1>1, <2>1, ElsewhereWorks DEF AppSteps, Inductive
<1>3. CASE SvcThrottled
  <2>1. UNCHANGED mishaps /\ (UNCHANGED <<pc, quiet>> \/ pc' = "idle")
    BY <1>3 DEF SvcThrottled, SvcIdle
  <2> QED BY <1>1, <2>1, ElsewhereWorks DEF AppSteps, Inductive
<1>4. CASE SvcPoll \/ Serve \/ OthersRecord
  <2>1. UNCHANGED <<pc, quiet>> /\ (UNCHANGED mishaps \/ Mishap)
    BY <1>4 DEF SvcPoll, Serve, OthersRecord, process
  <2> QED BY <1>1, <2>1, Counted, ElsewhereWorks
<1> QED BY <1>2, <1>3, <1>4 DEF Service_Start, Service_Steps, Service_Works

\* The smoke runs' identities have nothing to do with either
LEMMA EnrolmentWorks ==
  ASSUME Inductive, Bench_Start \/ Bench_Steps \/ OthersAccount
  PROVE  Inductive'
<1>1. UNCHANGED <<company, application>>
  BY DEF Bench_Start, Bench_Steps, OthersAccount, OnlyBench
<1>2. CASE OthersAccount
  BY <1>1, <1>2, Counted, ElsewhereWorks DEF OthersAccount
<1>3. CASE Bench_Start
  <2>1. UNCHANGED mishaps /\ pc' \in {"bench-stored", "bench-clear"}
    BY <1>3 DEF Bench_Start, BenchStart
  <2> QED BY <1>1, <2>1, ElsewhereWorks DEF AppSteps, Inductive
<1>4. CASE BenchGiveUp \/ BenchFinish
  <2>1. UNCHANGED mishaps /\ pc' = "idle"
    BY <1>4 DEF BenchGiveUp, BenchFinish, BenchIdle
  <2> QED BY <1>1, <2>1, ElsewhereWorks DEF AppSteps, Inductive
<1>5. CASE BenchSteps /\ ~BenchGiveUp /\ ~BenchFinish
  <2>1. (UNCHANGED mishaps \/ Mishap) /\ pc' \in BenchPc
    BY <1>5 DEF BenchSteps, BenchStored, BenchClear, BenchBare, BenchList, BenchAdd, BenchValidate,
       BenchLook, BenchRm, BenchRecord, BenchVerify, BenchGateway, BenchFolder, BenchGrant, BenchApp, BenchPart,
       To, BenchPc
  <2> QED BY <1>1, <2>1, Counted, ElsewhereWorks DEF AppSteps, BenchPc
<1> QED BY <1>2, <1>3, <1>4, <1>5 DEF Bench_Steps

------------------------------------------------------------------------------
(* Companies *)

\* Steps of companies leave the applications alone
LEMMA NotApps ==
  ASSUME Inductive, UNCHANGED application, pc' \notin AppSteps, FirmsListed', mishaps' \in Nat
  PROVE  Inductive'
BY AppsAlone DEF Inductive

LEMMA MspPlanWorks == ASSUME Inductive, MspPlan, UNCHANGED application PROVE Inductive'
<1>1. PICK v \in Portfolios, allow \in BOOLEAN :
        rows' = v /\ open' = Keys(Founded(mcs, v) \union Changed(mcs, v))
  BY DEF MspPlan
<1>2. pc' = "msp" /\ UNCHANGED <<mcs, spent, mishaps>>
  BY DEF MspPlan
<1>3. open' \subseteq Keys(rows')
  BY <1>1 DEF Founded, Changed, Keys
<1>4. Keys(rows)' = Keys(rows')
  BY DEF Keys, Key
<1>5. FirmsListed'
  BY <1>1, <1>2, <1>3, <1>4 DEF Inductive, FirmsListed
<1> QED BY <1>2, <1>5, NotApps DEF Inductive, AppSteps

LEMMA MspLookWorks == ASSUME Inductive, MspLook, UNCHANGED application PROVE Inductive'
<1>1. cur' \in NextChange /\ ~Taken(cur') /\ pc' = "msp-call" /\ UNCHANGED <<mcs, spent, rows, open, mishaps>>
  BY DEF MspLook
<1>2. cur'.kind = "create" => cur'.name \in open
  BY <1>1 DEF NextChange
<1>3. cur'.kind = "create" => cur'.name \notin Keys(Companies(mcs))
  BY <1>1 DEF Taken
<1>4. FirmsListed'
  BY <1>1, <1>2, <1>3 DEF Inductive, FirmsListed, Keys, Key, Companies
<1> QED BY <1>1, <1>4, NotApps DEF Inductive, AppSteps

LEMMA MspAddWorks == ASSUME Inductive, MspAdd, UNCHANGED application PROVE Inductive'
<1>1. PICK twice \in BOOLEAN, new \in SUBSET (McId \ spent) :
        /\ mcs' = [i \in DOMAIN mcs \union new |-> IF i \in new THEN Incorporated(Row(cur.name)) ELSE mcs[i]]
        /\ spent' = spent \union new /\ Twice(twice)
  BY FreshIsNew DEF MspAdd
<1>2. pc' = "msp" /\ open' \subseteq open /\ UNCHANGED rows
  BY DEF MspAdd
<1>3. FirmsListed'
  BY <1>1, <1>2 DEF Inductive, FirmsListed, Keys, Key
<1> QED BY <1>1, <1>2, <1>3, Counted, NotApps DEF AppSteps

LEMMA MspChangesWork ==
  ASSUME Inductive, MspEdit \/ MspRemove, UNCHANGED application
  PROVE  Inductive'
<1>1. /\ pc' = "msp" /\ open' \subseteq open /\ UNCHANGED <<spent, rows, mishaps>>
      /\ DOMAIN mcs' \subseteq DOMAIN mcs
  BY DEF MspEdit, MspRemove
<1>2. FirmsListed'
  BY <1>1 DEF Inductive, FirmsListed, Keys, Key
<1> QED BY <1>1, <1>2, NotApps DEF Inductive, AppSteps

LEMMA MspIdleWorks ==
  ASSUME Inductive, MspIdle, UNCHANGED application, UNCHANGED mishaps \/ Mishap
  PROVE  Inductive'
<1>1. pc' = "idle" /\ rows' = {} /\ open' = {} /\ UNCHANGED <<mcs, spent>>
  BY DEF MspIdle
<1>2. FirmsListed'
  BY <1>1 DEF Inductive, FirmsListed
<1> QED BY <1>1, <1>2, Counted, NotApps DEF AppSteps

LEMMA OthersCompanyWorks == ASSUME Inductive, OthersCompany PROVE Inductive'
<1>1. /\ Mishap /\ ~quiet' /\ UNCHANGED <<pc, rows, open, cur, application>>
      /\ DOMAIN mcs' \subseteq spent' /\ spent' \subseteq McId
  <2>1. Mishap /\ ~quiet' /\ UNCHANGED <<pc, rows, open, cur, application>>
    BY DEF OthersCompany, MspOthers, OnlyCompanies
  <2>2. DOMAIN mcs' \subseteq spent' /\ spent' \subseteq McId
    <3>1. DOMAIN mcs \subseteq spent /\ spent \subseteq McId
      BY DEF Inductive, FirmsListed
    <3>2. FreshOf(McId, spent, 1) \subseteq McId \ spent
      BY FreshIsNew
    <3> QED BY <3>1, <3>2 DEF OthersCompany, MspOthers
  <2> QED BY <2>1, <2>2
<1>2. FirmsListed'
  BY <1>1 DEF Inductive, FirmsListed, Keys, Key
<1>3. AppsGiven' /\ ListingHolds'
  BY <1>1 DEF Inductive, AppsGiven, ListingHolds, application, apply
<1> QED BY <1>1, <1>2, <1>3, Counted DEF Inductive

------------------------------------------------------------------------------
LEMMA StopWorks == ASSUME Inductive, Stop PROVE Inductive'
<1>1. Mishap
  BY DEF Stop
<1>2. CASE MspStop /\ OnlyCompanies
  BY <1>1, <1>2, MspIdleWorks DEF MspStop, OnlyCompanies
<1>3. CASE KsmStop /\ OnlyApps
  BY <1>1, <1>3, KsmIdleWorks DEF KsmStop, OnlyApps
<1>4. CASE BootStop /\ OnlyBoot
  BY <1>1, <1>4, Counted, ElsewhereWorks DEF BootStop, BootIdle, OnlyBoot, AppSteps
<1>5. CASE SvcStop /\ OnlyService
  BY <1>1, <1>5, Counted, ElsewhereWorks DEF SvcStop, SvcIdle, OnlyService, AppSteps
<1>6. CASE BenchStop /\ OnlyBench
  BY <1>1, <1>6, Counted, ElsewhereWorks DEF BenchStop, BenchIdle, OnlyBench, AppSteps
<1> QED BY <1>2, <1>3, <1>4, <1>5, <1>6 DEF Stop

LEMMA NextWorks == ASSUME Inductive, [Next]_vars PROVE Inductive'
<1>1. CASE \/ Companies_Plan \/ Companies_Look \/ Companies_Add \/ Companies_Edit
           \/ Companies_Remove \/ Companies_Finish \/ Companies_Refuse
  <2>1. UNCHANGED application
    BY <1>1 DEF Companies_Plan, Companies_Look, Companies_Add, Companies_Edit, Companies_Remove,
       Companies_Finish, Companies_Refuse, OnlyCompanies
  <2> QED BY <1>1, <2>1, MspPlanWorks, MspLookWorks, MspAddWorks, MspChangesWork, MspIdleWorks
          DEF Companies_Plan, Companies_Look, Companies_Add, Companies_Edit, Companies_Remove,
              Companies_Finish, Companies_Refuse, MspFinish, MspRefuse
<1>2. CASE \/ Apps_Plan \/ Apps_Rename \/ Apps_Look \/ Apps_Create \/ Apps_Mark \/ Apps_Reshare
           \/ Apps_Delete \/ Apps_Finish \/ Apps_Refuse
  <2>1. UNCHANGED company
    BY <1>2 DEF Apps_Plan, Apps_Rename, Apps_Look, Apps_Create, Apps_Mark, Apps_Reshare,
       Apps_Delete, Apps_Finish, Apps_Refuse, OnlyApps
  <2> QED BY <1>2, <2>1, PlanWorks, RenameWorks, LookWorks, CreateWorks, MarkWorks, ReshareWorks,
             DeleteWorks, KsmIdleWorks
          DEF Apps_Plan, Apps_Rename, Apps_Look, Apps_Create, Apps_Mark, Apps_Reshare,
              Apps_Delete, Apps_Finish, Apps_Refuse, KsmFinish, KsmRefuse
<1>3. CASE Boot_Start \/ Boot_Steps \/ Learn
  BY <1>3, BootWorks
<1>4. CASE Service_Start \/ Service_Steps \/ Service_Works \/ OthersRecord
  BY <1>4, ServiceWorks
<1>5. CASE Stop \/ OthersCompany \/ OthersApp
  BY <1>5, StopWorks, OthersCompanyWorks, OthersAppWorks
<1>6. CASE Bench_Start \/ Bench_Steps \/ OthersAccount
  BY <1>6, EnrolmentWorks
<1>7. CASE UNCHANGED vars
  BY <1>7, ElsewhereWorks DEF vars, process, Inductive
<1> QED BY <1>1, <1>2, <1>3, <1>4, <1>5, <1>6, <1>7 DEF Next, Work

LEMMA InductiveHolds == Spec => []Inductive
<1>1. Init => Inductive
  BY Initially
<1>2. Inductive /\ [Next]_vars => Inductive'
  BY NextWorks
<1> QED BY <1>1, <1>2, PTL DEF Spec

\* Nobody else's application is taken over: what KsmMark marks, without a look, was
\* made by the same process, unless others interfere after the listing.
THEOREM MarksAreOwn == Spec => MarksOnlyNewApps
<1>1. Inductive => (Apps_Mark /\ quiet =>
         apps[at.uid].mark = NoMark /\ at.uid \notin DOMAIN before)
  BY DEF Inductive, ListingHolds, Apps_Mark, KsmMark
<1> QED BY <1>1, InductiveHolds, PTL DEF Spec, MarksOnlyNewApps

------------------------------------------------------------------------------
(* Twins *)

\* When all applications keep their names, but for one that has a new one which no
\* other has, there are no more twins than before
LEMMA NoAppTwin ==
  ASSUME Inductive, AppsGiven', NEW u, NEW n, Named(n) \subseteq {u},
         DOMAIN apps' \subseteq DOMAIN apps \union {u},
         \A w \in DOMAIN apps' : w # u => apps'[w].name = apps[w].name,
         u \in DOMAIN apps' => apps'[u].name = n
  PROVE  AppTwins(apps') \subseteq AppTwins(apps)
<1> SUFFICES ASSUME NEW p \in AppTwins(apps') PROVE p \in AppTwins(apps)
  OBVIOUS
<1> DEFINE v == p[1]
           w == p[2]
<1>1. p \in (DOMAIN apps') \X (DOMAIN apps') /\ v < w /\ apps'[v].name = apps'[w].name
  BY DEF AppTwins
<1>2. v # w
  <2>1. v \in Nat
    BY <1>1, NumbersApart DEF AppsGiven
  <2> QED BY <1>1, <2>1
<1>3. v # u /\ w # u
  <2>1. CASE v = u
    <3>1. w \in DOMAIN apps /\ apps[w].name = n
      BY <1>1, <1>2, <2>1
    <3> QED BY <1>2, <2>1, <3>1 DEF Named
  <2>2. CASE w = u
    <3>1. v \in DOMAIN apps /\ apps[v].name = n
      BY <1>1, <1>2, <2>2
    <3> QED BY <1>2, <2>2, <3>1 DEF Named
  <2> QED BY <2>1, <2>2
<1>4. p \in (DOMAIN apps) \X (DOMAIN apps) /\ apps[v].name = apps[w].name
  BY <1>1, <1>3
<1> QED BY <1>1, <1>4 DEF AppTwins

\* Not sent twice, a call makes at most one
LEMMA OneNew ==
  ASSUME NEW S, S \subseteq Nat, NEW G, NEW k \in 0..2, k # 2
  PROVE  \A i, j \in FreshOf(S, G, k) : i = j
<1>1. CASE k = 1
  BY <1>1, OneFresh
<1>2. CASE k = 0
  <2> SUFFICES ASSUME NEW i \in FreshOf(S, G, 0) PROVE FALSE
    BY <1>2
  <2> DEFINE below == {m \in S \ G : m < i}
  <2>1. i \in Nat /\ Cardinality(below) < 0
    BY DEF FreshOf
  <2>2. IsFiniteSet(below)
    <3>1. \A m \in below : m \in 0 .. i
      <4> TAKE m \in below
      <4>1. m \in Nat /\ m < i
        OBVIOUS
      <4> QED BY <2>1, <4>1
    <3>2. IsFiniteSet(0 .. i)
      BY <2>1, FS_Interval
    <3>3. below \in SUBSET (0 .. i)
      BY <3>1
    <3> HIDE DEF below
    <3> QED BY <3>2, <3>3, FS_Subset
  <2>3. Cardinality(below) \in Nat
    BY <2>2, FS_CardinalityType
  <2> QED BY <2>1, <2>3
<1> QED BY <1>1, <1>2

LEMMA CreateMakesNoTwin ==
  ASSUME Inductive, KsmCreate, AppsGiven', quiet, mishaps' = mishaps
  PROVE  AppTwins(apps') \subseteq AppTwins(apps)
<1> DEFINE n == target.names[at.ref]
<1>1. Named(n) = {}
  BY DEF KsmCreate, Inductive, ListingHolds
<1>2. PICK again \in BOOLEAN, k \in 0..2 :
        /\ k = 2 => again
        /\ Twice(again)
        /\ apps' = [u \in DOMAIN apps \union FreshOf(AppId, given, k) |->
                      IF u \in FreshOf(AppId, given, k) THEN NewApp(n) ELSE apps[u]]
        /\ k = 0 => Named(n) # {}
        /\ \E u \in (IF k = 0 THEN Named(n) ELSE FreshOf(AppId, given, k)) : at' = [at EXCEPT !.uid = u]
  BY DEF KsmCreate
<1>3. ~again
  BY <1>2 DEF Twice, Inductive
<1> DEFINE new == FreshOf(AppId, given, k)
<1>4. PICK u : u \in new
  BY <1>1, <1>2
<1>5. new = {u}
  <2>1. \A i, j \in new : i = j
    BY <1>2, <1>3, NumbersApart, OneNew
  <2> QED BY <1>4, <2>1
<1>6. NewApp(n).name = n
  BY DEF NewApp
<1> HIDE DEF n, new
<1>7. /\ DOMAIN apps' = DOMAIN apps \union {u} /\ apps'[u].name = n
      /\ \A w \in DOMAIN apps' : w # u => apps'[w].name = apps[w].name
  BY <1>2, <1>5, <1>6 DEF new
<1> QED BY <1>1, <1>7, NoAppTwin

LEMMA RenameMakesNoTwin ==
  ASSUME Inductive, KsmRename, AppsGiven'
  PROVE  AppTwins(apps') \subseteq AppTwins(apps)
<1>1. \E u, n : u \in DOMAIN apps /\ Named(n) \subseteq {u} /\ apps' = [apps EXCEPT ![u].name = n]
  BY DEF KsmRename
<1>2. PICK u, n : u \in DOMAIN apps /\ Named(n) \subseteq {u} /\ apps' = [apps EXCEPT ![u].name = n]
  BY <1>1
<1>3. apps'[u] = [apps[u] EXCEPT !.name = n] /\ \A w \in DOMAIN apps \ {u} : apps'[w] = apps[w]
  BY <1>2
<1>4. "name" \in DOMAIN apps[u]
  BY <1>2 DEF Inductive, AppsGiven
<1>5. apps'[u].name = n
  BY <1>3, <1>4
<1>6. DOMAIN apps' = DOMAIN apps
  BY <1>2
<1> QED BY <1>2, <1>3, <1>5, <1>6, NoAppTwin

LEMMA BootMakesNoTwin ==
  ASSUME Inductive, Boot_Steps, AppsGiven', quiet
  PROVE  AppTwins(apps') \subseteq AppTwins(apps)
<1>1. CASE BootAddApp
  <2>1. Named(BootName) = {}
    BY <1>1 DEF BootAddApp, Inductive, ListingHolds
  <2>2. PICK u \in FreshOf(AppId, given, 1) :
          apps' = [w \in DOMAIN apps \union {u} |-> IF w = u THEN NewApp(BootName) ELSE apps[w]]
    BY <1>1 DEF BootAddApp
  <2>3. NewApp(BootName).name = BootName
    BY DEF NewApp
  <2>4. /\ DOMAIN apps' = DOMAIN apps \union {u} /\ apps'[u].name = BootName
        /\ \A w \in DOMAIN apps' : w # u => apps'[w].name = apps[w].name
    BY <2>2, <2>3
  <2> QED BY <2>1, <2>4, NoAppTwin
<1>2. CASE BootShare \/ BootShareDir
  <2>1. app \in DOMAIN apps /\ \E r, e : Share(app, r, e)
    BY <1>2 DEF BootShare, BootShareDir
  <2>2. DOMAIN apps' = DOMAIN apps /\ \A w \in DOMAIN apps : apps'[w].name = apps[w].name
    BY <2>1, SharesKeepNames
  <2> QED BY <2>2 DEF AppTwins
<1>3. CASE UNCHANGED apps
  BY <1>3 DEF AppTwins
<1> QED
  BY <1>1, <1>2, <1>3 DEF Boot_Steps, BootLookApp, BootLookDir, BootAddDir, BootToken, BootRedeem,
     BootFinish, BootPoll, BootGiveUp, BootIdle, application

LEMMA AddMakesNoTwin ==
  ASSUME Inductive, MspAdd, FirmsListed', quiet, mishaps' = mishaps
  PROVE  CompanyTwins(mcs') = CompanyTwins(mcs)
<1> DEFINE r == Row(cur.name)
<1>1. cur.name \in Keys(rows) /\ cur.name \notin Keys(Companies(mcs))
  BY DEF MspAdd, Inductive, FirmsListed
<1>2. r \in rows /\ Key(r) = cur.name
  BY <1>1 DEF Row, Keys
<1>3. "name" \in DOMAIN r /\ DOMAIN r = {"name", "plan", "seats", "file", "addons"}
  BY <1>2, MspApplyAssumption DEF Inductive, FirmsListed, LoadsCompanies, CompanyFields
<1>4. Incorporated(r).name = r.name
  <2> DEFINE a == [b \in DOMAIN r.addons |-> Held(Ordered(r.addons[b]))]
             t == Held(Ordered(r.seats))
  <2>1. Incorporated(r) = [r EXCEPT !.seats = t, !.addons = a]
    BY DEF Incorporated
  <2> HIDE DEF r, a, t
  <2> QED BY <1>3, <2>1
<1> HIDE DEF r
<1>5. PICK twice \in BOOLEAN :
        LET new == FreshOf(McId, spent, IF twice THEN 2 ELSE 1) IN
        /\ Cardinality(new) = IF twice THEN 2 ELSE 1
        /\ Twice(twice)
        /\ mcs' = [i \in DOMAIN mcs \union new |-> IF i \in new THEN Incorporated(r) ELSE mcs[i]]
  BY DEF MspAdd, r
<1>6. ~twice
  BY <1>5 DEF Twice, Inductive
<1> DEFINE new == FreshOf(McId, spent, 1)
<1>7. /\ mcs' = [i \in DOMAIN mcs \union new |-> IF i \in new THEN Incorporated(r) ELSE mcs[i]]
      /\ new \subseteq McId \ spent /\ \A i, j \in new : i = j
  BY <1>5, <1>6, FreshIsNew, OneFresh, NumbersApart
<1> HIDE DEF new
<1>8. \A i \in new : Key(mcs'[i]) = cur.name /\ i \notin DOMAIN mcs /\ i \in Nat
  BY <1>2, <1>4, <1>7, NumbersApart DEF Key, Inductive, FirmsListed
<1>9. \A i \in DOMAIN mcs : mcs'[i] = mcs[i] /\ Key(mcs[i]) # cur.name
  <2>1. \A i \in DOMAIN mcs : Key(mcs[i]) # cur.name
    BY <1>1 DEF Keys, Companies
  <2> QED BY <1>7, <1>8, <2>1
<1>10. DOMAIN mcs' = DOMAIN mcs \union new
  BY <1>7
<1>11. ASSUME NEW i \in DOMAIN mcs', NEW j \in DOMAIN mcs', i < j, Key(mcs'[i]) = Key(mcs'[j])
       PROVE  i \in DOMAIN mcs /\ j \in DOMAIN mcs
  <2>1. i # j
    <3>1. i \in Nat
      BY NumbersApart DEF FirmsListed
    <3> QED BY <1>11, <3>1
  <2>2. CASE i \in new
    <3>1. j \in DOMAIN mcs
      BY <1>7, <1>10, <1>11, <2>1, <2>2
    <3>2. Key(mcs'[j]) # cur.name
      BY <1>9, <3>1
    <3>3. Key(mcs'[i]) = cur.name
      BY <1>8, <2>2
    <3> QED BY <1>11, <3>2, <3>3
  <2>3. CASE j \in new
    <3>1. i \in DOMAIN mcs
      BY <1>7, <1>10, <1>11, <2>1, <2>3
    <3>2. Key(mcs'[i]) # cur.name
      BY <1>9, <3>1
    <3>3. Key(mcs'[j]) = cur.name
      BY <1>8, <2>3
    <3> QED BY <1>11, <3>2, <3>3
  <2> QED BY <1>10, <2>2, <2>3
<1>12. CompanyTwins(mcs') \subseteq CompanyTwins(mcs)
  <2> SUFFICES ASSUME NEW p \in CompanyTwins(mcs') PROVE p \in CompanyTwins(mcs)
    OBVIOUS
  <2>1. p \in (DOMAIN mcs') \X (DOMAIN mcs') /\ p[1] < p[2] /\ Key(mcs'[p[1]]) = Key(mcs'[p[2]])
    BY DEF CompanyTwins, Key
  <2>2. p[1] \in DOMAIN mcs /\ p[2] \in DOMAIN mcs
    BY <1>11, <2>1
  <2>3. p \in (DOMAIN mcs) \X (DOMAIN mcs) /\ Key(mcs[p[1]]) = Key(mcs[p[2]])
    BY <1>9, <2>1, <2>2
  <2> QED BY <2>1, <2>3 DEF CompanyTwins
<1>13. CompanyTwins(mcs) \subseteq CompanyTwins(mcs')
  <2> SUFFICES ASSUME NEW p \in CompanyTwins(mcs) PROVE p \in CompanyTwins(mcs')
    OBVIOUS
  <2>1. p \in (DOMAIN mcs) \X (DOMAIN mcs) /\ p[1] < p[2] /\ Key(mcs[p[1]]) = Key(mcs[p[2]])
    BY DEF CompanyTwins
  <2>2. p \in (DOMAIN mcs') \X (DOMAIN mcs') /\ Key(mcs'[p[1]]) = Key(mcs'[p[2]])
    BY <1>9, <1>10, <2>1
  <2> QED BY <2>1, <2>2 DEF CompanyTwins, Key
<1> QED BY <1>12, <1>13

\* No command makes a second company or application of one name, though the listing
\* and the create made from it are two calls, and the listing may be an old one:
\* unless the create is sent twice, or somebody else comes in between.
THEOREM NoTwinIsMade == Spec => MakesNoTwin
<1>1. Inductive /\ [Next]_vars /\ Inductive' =>
        ((Companies_Add \/ Apps_Create \/ Apps_Rename \/ Boot_Steps) /\ quiet /\ mishaps' = mishaps =>
            CompanyTwins(mcs') = CompanyTwins(mcs) /\ AppTwins(apps') \subseteq AppTwins(apps))
  <2> SUFFICES ASSUME Inductive, Inductive', quiet, mishaps' = mishaps,
                      Companies_Add \/ Apps_Create \/ Apps_Rename \/ Boot_Steps
               PROVE  CompanyTwins(mcs') = CompanyTwins(mcs) /\ AppTwins(apps') \subseteq AppTwins(apps)
    OBVIOUS
  <2>1. CASE Companies_Add
    <3>1. UNCHANGED apps
      BY <2>1 DEF Companies_Add, OnlyCompanies, application
    <3> QED BY <2>1, <3>1, AddMakesNoTwin DEF Companies_Add, Inductive, AppTwins
  <2>2. CASE ~Companies_Add
    <3>1. UNCHANGED mcs
      BY <2>2 DEF Apps_Create, Apps_Rename, Boot_Steps, OnlyApps, OnlyBoot, company
    <3>2. CompanyTwins(mcs') = CompanyTwins(mcs)
      BY <3>1 DEF CompanyTwins, Key
    <3> QED BY <2>2, <3>2, CreateMakesNoTwin, RenameMakesNoTwin, BootMakesNoTwin
            DEF Apps_Create, Apps_Rename, Inductive
  <2> QED BY <2>1, <2>2
<1>2. Inductive /\ [Next]_vars => Inductive'
  BY NextWorks
<1> QED BY <1>1, <1>2, InductiveHolds, PTL DEF Spec, MakesNoTwin

------------------------------------------------------------------------------
(* The enrolment of a smoke run's test user, for any state of the tenant at      *)
(* first: a run that is let alone recovers from whatever the runs before it left,*)
(* and what it lets the tests have works.                                        *)

\* The factor that this run adds
Own(active) ==
  [place |-> creds.secret, ours |-> TRUE, secret |-> creds.secret, active |-> active]

\* The record the run goes by has the secret that it goes by
Recorded == creds.uid \in DOMAIN logins /\ logins[creds.uid] = creds.secret

\* Another login with the secret goes through
Welcome ==
  device # "new" /\ (device = "remembered" \/ Factors = {} \/ Fits(creds.secret))

Enrolled == creds.secret \in Token /\ device # "new"
Provisioning == {"bench-gateway", "bench-folder", "bench-grant", "bench-app", "bench-ready"}

\* How far a run is that has been let alone
Progress ==
  /\ pc = "bench-stored" => Recorded
  /\ pc = "bench-bare" => channels = {}
  /\ pc \in {"bench-list", "bench-add"} => channels = {} /\ device # "new"
  /\ pc = "bench-validate" => Enrolled /\ channels = {Own(FALSE)}
  /\ pc \in {"bench-look", "bench-rm", "bench-record"} => Enrolled /\ channels = {Own(TRUE)}
  /\ pc = "bench-verify" => Enrolled /\ channels = {Own(TRUE)} /\ used = 0 /\ Recorded
  /\ pc \in Provisioning => Recorded /\ Welcome
  /\ pc \in {"bench-grant", "bench-app", "bench-ready"} => "folder" \in parts
  /\ pc \in {"bench-app", "bench-ready"} => "grant" \in parts
  /\ pc = "bench-ready" => "app" \in parts

BenchInvariant ==
  /\ {"uid", "secret"} \subseteq DOMAIN creds
  /\ pc \in BenchPc => family = "smoke"
  /\ calm => Progress

------------------------------------------------------------------------------
LEMMA BenchInitially == Init => BenchInvariant
<1>1. Init => {"uid", "secret"} \subseteq DOMAIN creds
  BY DEF Init, BenchInit, NoCreds
<1> QED BY <1>1 DEF Init, SessionInit, BenchInvariant, Progress, BenchPc, Provisioning

------------------------------------------------------------------------------
(* The other commands of the tenant *)

\* A shell of another family never gets to a step of the enrolment
LEMMA Elsewhere ==
  ASSUME BenchInvariant, UNCHANGED <<lab, family>>, family # "smoke",
         UNCHANGED pc \/ pc' \notin BenchPc
  PROVE  BenchInvariant'
<1>1. UNCHANGED creds
  BY DEF lab
<1>2. pc' \notin BenchPc
  BY DEF BenchInvariant
<1> QED BY <1>1, <1>2 DEF BenchInvariant, Progress, BenchPc, Provisioning

LEMMA CompaniesWork ==
  ASSUME BenchInvariant,
         \/ Companies_Plan \/ Companies_Look \/ Companies_Add \/ Companies_Edit
         \/ Companies_Remove \/ Companies_Finish \/ Companies_Refuse \/ OthersCompany
  PROVE  BenchInvariant'
<1>1. UNCHANGED <<lab, family>> /\ family # "smoke"
  BY DEF Companies_Plan, Companies_Look, Companies_Add, Companies_Edit, Companies_Remove,
     Companies_Finish, Companies_Refuse, OthersCompany, OnlyCompanies
<1>2. UNCHANGED pc \/ pc' \in {"msp", "msp-call", "idle"}
  BY DEF Companies_Plan, Companies_Look, Companies_Add, Companies_Edit, Companies_Remove,
     Companies_Finish, Companies_Refuse, OthersCompany, MspPlan, MspLook, MspAdd, MspEdit,
     MspRemove, MspFinish, MspRefuse, MspIdle
<1> QED BY <1>1, <1>2, Elsewhere DEF BenchPc

LEMMA AppsWork ==
  ASSUME BenchInvariant,
         \/ Apps_Plan \/ Apps_Rename \/ Apps_Look \/ Apps_Create \/ Apps_Mark \/ Apps_Reshare
         \/ Apps_Delete \/ Apps_Finish \/ Apps_Refuse \/ OthersApp
  PROVE  BenchInvariant'
<1>1. UNCHANGED <<lab, family>> /\ family # "smoke"
  BY DEF Apps_Plan, Apps_Rename, Apps_Look, Apps_Create, Apps_Mark, Apps_Reshare, Apps_Delete,
     Apps_Finish, Apps_Refuse, OthersApp, OnlyApps
<1>2. UNCHANGED pc \/ pc' \in {"ksm", "ksm-create", "ksm-mark", "idle"}
  BY DEF Apps_Plan, Apps_Rename, Apps_Look, Apps_Create, Apps_Mark, Apps_Reshare, Apps_Delete,
     Apps_Finish, Apps_Refuse, OthersApp, KsmPlan, KsmRename, KsmLook, KsmCreate, KsmMark,
     KsmReshare, KsmDelete, KsmFinish, KsmRefuse, KsmIdle
<1> QED BY <1>1, <1>2, Elsewhere DEF BenchPc

LEMMA BootstrapSteps ==
  ASSUME BenchInvariant, Boot_Start \/ Boot_Steps \/ Learn
  PROVE  BenchInvariant'
<1>1. UNCHANGED <<lab, family>> /\ family # "smoke"
  BY DEF Boot_Start, Boot_Steps, Learn, OnlyBoot
<1>2. UNCHANGED pc \/ pc' \in BootSteps \union {"idle"}
  BY DEF Boot_Start, Boot_Steps, Learn, BootStart, BootLookApp, BootAddApp, BootShare, BootLookDir,
     BootAddDir, BootShareDir, BootToken, BootRedeem, BootFinish, BootPoll, BootGiveUp, BootIdle,
     Propagate, process, BootSteps
<1> QED BY <1>1, <1>2, Elsewhere DEF BenchPc, BootSteps

LEMMA ServiceSteps ==
  ASSUME BenchInvariant, Service_Start \/ Service_Steps \/ Service_Works \/ OthersRecord
  PROVE  BenchInvariant'
<1>1. UNCHANGED <<lab, family>> /\ family # "smoke"
  BY DEF Service_Start, Service_Steps, Service_Works, OthersRecord, OnlyService
<1>2. UNCHANGED pc \/ pc' \in {"svc-post", "svc-poll", "idle"}
  BY DEF Service_Start, Service_Steps, Service_Works, OthersRecord, SvcStart, SvcPost, SvcThrottled,
     SvcPoll, SvcPlan, SvcNext, SvcGiveUp, SvcFinish, SvcIdle, Serve, process
<1> QED BY <1>1, <1>2, Elsewhere DEF BenchPc

\* A process that stops, and others who act, end the calm
LEMMA BenchStopWorks == ASSUME BenchInvariant, Stop PROVE BenchInvariant'
<1>1. ~calm'
  BY DEF Stop
<1>2. pc' = "idle" /\ (UNCHANGED creds \/ creds' = NoCreds)
  BY DEF Stop, MspStop, KsmStop, BootStop, SvcStop, BenchStop, MspIdle, KsmIdle, BootIdle, SvcIdle,
     BenchIdle, OnlyCompanies, OnlyApps, OnlyBoot, OnlyService, lab
<1>3. {"uid", "secret"} \subseteq DOMAIN creds'
  BY <1>2 DEF BenchInvariant, NoCreds
<1> QED BY <1>1, <1>2, <1>3 DEF BenchInvariant, BenchPc

LEMMA OthersAccountWorks == ASSUME BenchInvariant, OthersAccount PROVE BenchInvariant'
<1>1. ~calm' /\ UNCHANGED <<pc, creds, family>>
  BY DEF OthersAccount, BenchOthers, OnlyBench
<1> QED BY <1>1 DEF BenchInvariant

------------------------------------------------------------------------------
(* The login *)

\* Who was let in is let in again
LEMMA InMeansWelcome ==
  ASSUME NEW r \in Logins(creds.secret), Usable(r), After(r), UNCHANGED creds
  PROVE  Welcome'
<1>1. PICK passed \in SUBSET {1, 2} : r \in Results(creds.secret, passed)
  BY DEF Logins
<1>2. UNCHANGED channels /\ device' = r.device /\ r.verdict = "in"
  BY DEF After, Usable
<1> DEFINE earlier == IF 1 \in passed THEN 0 ELSE used
           known == device # "new" \/ (Fits(creds.secret) /\ earlier # creds.secret)
           after == IF 2 \in passed THEN 0 ELSE IF device = "new" THEN creds.secret ELSE earlier
           prompted == Factors # {} /\ device # "remembered"
           taken == ~prompted \/ (Fits(creds.secret) /\ after # creds.secret)
<1>3. known /\ taken
  BY <1>1, <1>2 DEF Results
<1>4. r.device = IF ~known THEN "new" ELSE IF prompted /\ taken THEN "remembered"
                 ELSE IF device = "new" THEN "approved" ELSE device
  BY <1>1 DEF Results
<1>5. device' # "new" /\ (device' = "remembered" \/ Factors = {})
  BY <1>2, <1>3, <1>4
<1>6. UNCHANGED Factors
  BY <1>2 DEF Factors
<1> QED BY <1>5, <1>6 DEF Welcome

\* Who is welcome can log in
LEMMA WelcomeLogsIn ==
  ASSUME Welcome
  PROVE  LogsIn(creds.secret)
<1> DEFINE s == creds.secret
<1>1. Results(s, {1, 2}) \subseteq Logins(s)
  BY DEF Logins
<1>2. device # "new" /\ (Factors = {} \/ device = "remembered" \/ (Fits(s) /\ 0 # s))
  BY DEF Welcome, Fits
<1> DEFINE known == device # "new" \/ (Fits(s) /\ 0 # s)
           prompted == Factors # {} /\ device # "remembered"
           taken == ~prompted \/ (Fits(s) /\ 0 # s)
           d == IF ~known THEN "new" ELSE IF prompted /\ taken THEN "remembered"
                ELSE IF device = "new" THEN "approved" ELSE device
           u == IF ~known THEN 0 ELSE IF prompted /\ taken THEN s ELSE 0
<1>3. known /\ taken
  BY <1>2
<1>4. Results(s, {1, 2}) = [verdict : {"in"}, device : {d}, used : {u}]
  BY <1>3 DEF Results
<1>5. [verdict |-> "in", device |-> d, used |-> u] \in Results(s, {1, 2})
  BY <1>4
<1> QED BY <1>1, <1>5 DEF LogsIn

\* The one channel of the run's own lets it in, in a new window
LEMMA OwnLetsIn ==
  ASSUME Enrolled, channels = {Own(TRUE)}, used = 0,
         NEW r \in Logins(creds.secret)
  PROVE  Usable(r)
<1>1. PICK passed \in SUBSET {1, 2} : r \in Results(creds.secret, passed)
  BY DEF Logins
<1>2. creds.secret \in Nat /\ creds.secret # 0
  BY EnrolmentAssumption DEF Enrolled
<1>3. Factors = {Own(TRUE)}
  BY DEF Factors, Own
<1>4. Fits(creds.secret)
  BY <1>2, <1>3 DEF Fits, Own
<1>5. device # "new"
  BY DEF Enrolled
<1>6. r.verdict \in {"in"}
  BY <1>1, <1>2, <1>4, <1>5 DEF Results
<1> QED BY <1>6 DEF Usable

\* Nobody asks an approved device for a code when there is no factor
LEMMA BareLetsIn ==
  ASSUME channels = {}, device # "new", NEW r \in Logins(0)
  PROVE  Usable(r)
<1>1. PICK passed \in SUBSET {1, 2} : r \in Results(0, passed)
  BY DEF Logins
<1>2. Factors = {}
  BY DEF Factors
<1>3. r.verdict \in {"in"}
  BY <1>1, <1>2 DEF Results
<1> QED BY <1>3 DEF Usable

\* and a new one is refused
LEMMA BareNeedsDevice ==
  ASSUME NEW r \in Logins(0), Usable(r), After(r)
  PROVE  device' # "new" /\ UNCHANGED channels
<1>1. PICK passed \in SUBSET {1, 2} : r \in Results(0, passed)
  BY DEF Logins
<1>2. ~Fits(0)
  BY DEF Fits
<1>3. r.verdict = "in" /\ device' = r.device
  BY DEF Usable, After
<1>4. device # "new"
  BY <1>1, <1>2, <1>3 DEF Results
<1>5. r.device # "new"
  BY <1>1, <1>4 DEF Results
<1> QED BY <1>3, <1>5 DEF After
------------------------------------------------------------------------------
(* The enrolment, step by step *)

LEMMA StartWorks == ASSUME BenchInvariant, Bench_Start PROVE BenchInvariant'
<1>1. PICK u \in IF DOMAIN logins = {} THEN {0} ELSE DOMAIN logins, force \in BOOLEAN :
        LET secret == IF u = 0 THEN 0 ELSE logins[u] IN
        /\ creds' = [uid |-> u, secret |-> secret]
        /\ pc' = IF secret # 0 /\ ~force THEN "bench-stored" ELSE "bench-clear"
  BY DEF Bench_Start, BenchStart
<1>2. UNCHANGED logins /\ family' = "smoke"
  BY DEF Bench_Start, BenchStart, OnlyBench
<1>3. pc' = "bench-stored" => Recorded'
  <2> SUFFICES ASSUME pc' = "bench-stored" PROVE Recorded'
    OBVIOUS
  <2>1. u # 0 /\ creds' = [uid |-> u, secret |-> logins[u]]
    BY <1>1
  <2>2. u \in DOMAIN logins
    BY <2>1
  <2> QED BY <1>2, <2>1, <2>2 DEF Recorded
<1>4. pc' \in {"bench-stored", "bench-clear"} /\ {"uid", "secret"} \subseteq DOMAIN creds'
  BY <1>1
<1> QED BY <1>2, <1>3, <1>4 DEF BenchInvariant, Progress, Provisioning

LEMMA StoredWorks == ASSUME BenchInvariant, BenchStored, UNCHANGED family PROVE BenchInvariant'
<1>1. PICK r \in Logins(creds.secret) :
        /\ After(r)
        /\ \/ Usable(r) /\ To("bench-gateway")
           \/ To("bench-clear")
  BY DEF BenchStored
<1>2. UNCHANGED <<creds, logins, calm>> /\ pc = "bench-stored"
  BY <1>1 DEF BenchStored, To
<1>3. CASE Usable(r) /\ To("bench-gateway")
  <2>1. Welcome'
    BY <1>1, <1>2, <1>3, InMeansWelcome
  <2>2. calm => Recorded'
    BY <1>2 DEF BenchInvariant, Progress, Recorded
  <2>3. pc' = "bench-gateway"
    BY <1>3 DEF To
  <2> QED BY <1>2, <2>1, <2>2, <2>3 DEF BenchInvariant, Progress, Provisioning, BenchPc
<1>4. CASE To("bench-clear")
  <2>1. pc' = "bench-clear"
    BY <1>4 DEF To
  <2> QED BY <1>2, <2>1 DEF BenchInvariant, Progress, Provisioning, BenchPc
<1> QED BY <1>1, <1>3, <1>4

LEMMA ClearWorks == ASSUME BenchInvariant, BenchClear, UNCHANGED family PROVE BenchInvariant'
<1>1. /\ pc = "bench-clear" /\ pc' = "bench-bare" /\ channels' = {}
      /\ UNCHANGED <<creds, calm>>
  BY DEF BenchClear, Cleared, To
<1> QED BY <1>1 DEF BenchInvariant, Progress, Provisioning, BenchPc

LEMMA BareWorks == ASSUME BenchInvariant, BenchBare, UNCHANGED family PROVE BenchInvariant'
<1>1. PICK r \in Logins(0) : Usable(r) /\ After(r)
  BY DEF BenchBare
<1>2. device' # "new" /\ UNCHANGED channels
  BY <1>1, BareNeedsDevice
<1>3. pc = "bench-bare" /\ pc' = "bench-list" /\ UNCHANGED <<creds, calm>>
  BY DEF BenchBare, To
<1> QED BY <1>2, <1>3 DEF BenchInvariant, Progress, Provisioning, BenchPc

LEMMA ListWorks == ASSUME BenchInvariant, BenchList, UNCHANGED family PROVE BenchInvariant'
<1>1. /\ pc = "bench-list" /\ pc' = "bench-add" /\ UNCHANGED <<creds, device, calm>>
      /\ channels = {} => channels' = {}
  BY DEF BenchList, To
<1> QED BY <1>1 DEF BenchInvariant, Progress, Provisioning, BenchPc

LEMMA AddWorks == ASSUME BenchInvariant, BenchAdd, UNCHANGED family PROVE BenchInvariant'
<1>1. PICK s \in FreshOf(Token, issued, 1) :
        /\ channels' = channels \union
             {[place |-> s, ours |-> TRUE, secret |-> s, active |-> FALSE]}
        /\ creds' = [creds EXCEPT !.secret = s]
  BY DEF BenchAdd
<1>2. pc = "bench-add" /\ pc' = "bench-validate" /\ UNCHANGED <<device, calm>>
  BY DEF BenchAdd, To
<1>3. {"uid", "secret"} \subseteq DOMAIN creds' /\ creds'.secret = s
  BY <1>1 DEF BenchInvariant
<1>4. s \in Token
  BY DEF FreshOf
<1>5. calm => channels' = {[place |-> s, ours |-> TRUE, secret |-> s, active |-> FALSE]}
  BY <1>1, <1>2 DEF BenchInvariant, Progress
<1>6. calm => Enrolled' /\ channels' = {Own(FALSE)'}
  BY <1>2, <1>3, <1>4, <1>5 DEF BenchInvariant, Progress, Enrolled, Own
<1> QED BY <1>2, <1>3, <1>6 DEF BenchInvariant, Progress, Provisioning, BenchPc

LEMMA ValidateWorks == ASSUME BenchInvariant, BenchValidate, UNCHANGED family PROVE BenchInvariant'
<1>1. PICK c \in channels : channels' = (channels \ {c}) \union {InForce(c)}
  BY DEF BenchValidate
<1>2. pc = "bench-validate" /\ pc' = "bench-look" /\ UNCHANGED <<device, creds, calm>>
  BY DEF BenchValidate, To
<1>3. calm => Enrolled' /\ channels' = {Own(TRUE)'}
  <2> SUFFICES ASSUME calm PROVE Enrolled' /\ channels' = {Own(TRUE)'}
    OBVIOUS
  <2>1. Enrolled /\ channels = {Own(FALSE)}
    BY <1>2 DEF BenchInvariant, Progress
  <2>2. InForce(Own(FALSE)) = Own(TRUE)
    BY DEF Own, InForce
  <2>3. channels' = {Own(TRUE)}
    <3>1. c = Own(FALSE) /\ channels \ {c} = {}
      BY <2>1
    <3>2. channels' = {InForce(c)}
      BY <1>1, <3>1
    <3> QED BY <2>2, <3>1, <3>2
  <2> QED BY <1>2, <2>1, <2>3 DEF Enrolled, Own
<1> QED BY <1>2, <1>3 DEF BenchInvariant, Progress, Provisioning, BenchPc

LEMMA UpsertWorks ==
  ASSUME BenchInvariant, BenchLook \/ BenchRm \/ BenchRecord, UNCHANGED family
  PROVE  BenchInvariant'
<1>1. /\ pc \in {"bench-look", "bench-rm", "bench-record"} /\ UNCHANGED <<channels, device, calm>>
      /\ pc' \in {"bench-rm", "bench-record", "bench-verify"}
      /\ creds' = creds \/ \E u : creds' = [creds EXCEPT !.uid = u]
  BY DEF BenchLook, BenchRm, BenchRecord, To, account
<1>2. {"uid", "secret"} \subseteq DOMAIN creds' /\ creds'.secret = creds.secret
  BY <1>1 DEF BenchInvariant
<1>3. calm => Enrolled' /\ channels' = {Own(TRUE)'}
  BY <1>1, <1>2 DEF BenchInvariant, Progress, Enrolled, Own
<1>4. pc' = "bench-verify" => used' = 0 /\ Recorded'
  <2> SUFFICES ASSUME pc' = "bench-verify" PROVE used' = 0 /\ Recorded'
    OBVIOUS
  <2>1. BenchRecord
    BY DEF BenchLook, BenchRm, To
  <2>2. PICK u : /\ logins' = [w \in DOMAIN logins \union {u} |->
                                 IF w = u THEN creds.secret ELSE logins[w]]
                 /\ creds' = [creds EXCEPT !.uid = u]
    BY <2>1 DEF BenchRecord
  <2>3. creds'.uid = u
    BY <2>2 DEF BenchInvariant
  <2> QED BY <1>2, <2>1, <2>2, <2>3 DEF BenchRecord, Recorded
<1> QED BY <1>1, <1>2, <1>3, <1>4 DEF BenchInvariant, Progress, Provisioning, BenchPc

LEMMA VerifyWorks == ASSUME BenchInvariant, BenchVerify, UNCHANGED family PROVE BenchInvariant'
<1>1. PICK r \in Logins(creds.secret) :
        \/ Usable(r) /\ After(r) /\ To("bench-gateway")
        \/ Again(r) /\ To("bench-verify")
  BY DEF BenchVerify
<1>2. pc = "bench-verify" /\ UNCHANGED <<creds, logins, calm>>
  BY <1>1 DEF BenchVerify, To
<1>3. CASE Usable(r) /\ After(r) /\ To("bench-gateway")
  <2>1. Welcome'
    BY <1>2, <1>3, InMeansWelcome
  <2>2. calm => Recorded'
    BY <1>2 DEF BenchInvariant, Progress, Recorded
  <2>3. pc' = "bench-gateway"
    BY <1>3 DEF To
  <2> QED BY <1>2, <2>1, <2>2, <2>3 DEF BenchInvariant, Progress, Provisioning, BenchPc
<1>4. CASE Again(r) /\ To("bench-verify")
  <2>1. ~Usable(r)
    BY <1>4 DEF Again, Usable
  <2>2. ~calm
    BY <1>2, <2>1, OwnLetsIn DEF BenchInvariant, Progress
  <2>3. pc' = "bench-verify"
    BY <1>4 DEF To
  <2> QED BY <1>2, <2>2, <2>3 DEF BenchInvariant, BenchPc
<1> QED BY <1>1, <1>3, <1>4

LEMMA SandboxWorks ==
  ASSUME BenchInvariant, BenchGateway \/ BenchFolder \/ BenchGrant \/ BenchApp, UNCHANGED family
  PROVE  BenchInvariant'
<1>1. UNCHANGED <<creds, logins, channels, device, calm>> /\ pc \in Provisioning /\ pc' \in Provisioning
  BY DEF BenchGateway, BenchFolder, BenchGrant, BenchApp, BenchPart, To, lab, account, Provisioning
<1>2. Recorded /\ Welcome => Recorded' /\ Welcome'
  BY <1>1 DEF Recorded, Welcome, Factors, Fits
<1>3. calm =>
        /\ pc' \in {"bench-grant", "bench-app", "bench-ready"} => "folder" \in parts'
        /\ pc' \in {"bench-app", "bench-ready"} => "grant" \in parts'
        /\ pc' = "bench-ready" => "app" \in parts'
  BY DEF BenchInvariant, Progress, BenchGateway, BenchFolder, BenchGrant, BenchApp, BenchPart, To, lab
<1> QED BY <1>1, <1>2, <1>3 DEF BenchInvariant, Progress, Provisioning, BenchPc

LEMMA EndWorks ==
  ASSUME BenchInvariant, BenchFinish \/ BenchGiveUp, UNCHANGED family
  PROVE  BenchInvariant'
<1>1. pc' = "idle" /\ creds' = NoCreds
  BY DEF BenchFinish, BenchGiveUp, BenchIdle
<1> QED BY <1>1 DEF BenchInvariant, Progress, Provisioning, BenchPc, NoCreds

LEMMA BenchNextWorks == ASSUME BenchInvariant, [Next]_vars PROVE BenchInvariant'
<1>1. CASE Bench_Steps
  <2>1. UNCHANGED family
    BY <1>1 DEF Bench_Steps, OnlyBench
  <2> QED BY <1>1, <2>1, StoredWorks, ClearWorks, BareWorks, ListWorks, AddWorks, ValidateWorks, UpsertWorks,
             VerifyWorks, SandboxWorks, EndWorks DEF Bench_Steps, BenchSteps
<1>2. CASE UNCHANGED vars
  BY <1>2 DEF vars, process, lab, account, BenchInvariant, Progress, Recorded, Welcome, Enrolled, Own,
     Factors, Fits
<1> QED BY <1>1, <1>2, StartWorks, CompaniesWork, AppsWork, BootstrapSteps, ServiceSteps, BenchStopWorks,
           OthersAccountWorks DEF Next, Work

LEMMA BenchInvariantHolds == Spec => []BenchInvariant
<1>1. Init => BenchInvariant
  BY BenchInitially
<1>2. BenchInvariant /\ [Next]_vars => BenchInvariant'
  BY BenchNextWorks
<1> QED BY <1>1, <1>2, PTL DEF Spec

------------------------------------------------------------------------------
\* What an undisturbed run lets the tests have works, wherever the runs before it
\* stopped, and though removals and deletions that fail are passed over.
THEOREM TheBenchWorks == Spec => BenchWorks
<1>1. BenchInvariant /\ BenchFinish /\ calm =>
        /\ creds.uid \in DOMAIN logins /\ logins[creds.uid] = creds.secret
        /\ LogsIn(creds.secret)
        /\ {"folder", "grant", "app"} \subseteq parts
  BY WelcomeLogsIn DEF BenchInvariant, Progress, Provisioning, Recorded, BenchFinish
<1> QED BY <1>1, BenchInvariantHolds, PTL DEF Spec, BenchWorks

\* No interrupted run locks the next one out: one that is let alone gives up only for
\* want of a password, an approved device or a gateway.
THEOREM EveryRunRecovers == Spec => EnrolmentRecovers
<1>1. BenchInvariant /\ BenchGiveUp /\ calm => ~password \/ device = "new" \/ "gateway" \notin parts
  <2> SUFFICES ASSUME BenchInvariant, calm, BenchGiveUp, password, device # "new", "gateway" \in parts
               PROVE  FALSE
    OBVIOUS
  <2>1. CASE Unmet
    <3>1. pc = "bench-validate" => \E c \in channels : c.secret = creds.secret
      <4>1. Own(FALSE).secret = creds.secret
        BY DEF Own
      <4> QED BY <4>1 DEF BenchInvariant, Progress
    <3>2. pc = "bench-grant" => "folder" \in parts
      BY DEF BenchInvariant, Progress
    <3> QED BY <2>1, <3>1, <3>2 DEF Unmet
  <2>2. CASE pc = "bench-bare" /\ \E r \in Logins(0) : ~Usable(r)
    BY <2>2, BareLetsIn DEF BenchInvariant, Progress
  <2>3. CASE pc = "bench-verify" /\ \E r \in Logins(creds.secret) : ~Usable(r)
    BY <2>3, OwnLetsIn DEF BenchInvariant, Progress
  <2> QED BY <2>1, <2>2, <2>3 DEF BenchGiveUp
<1> QED BY <1>1, BenchInvariantHolds, PTL DEF Spec, EnrolmentRecovers

------------------------------------------------------------------------------
(* A shell works for one family, and its steps leave the others' part of the     *)
(* tenant alone.                                                                 *)

MspPc == {"msp", "msp-call"}
KsmPc == {"ksm", "ksm-create", "ksm-mark"}
SvcPc == {"svc-post", "svc-poll"}

Stationed ==
  /\ family \in {"msp", "ksm", "pam", "smoke"}
  /\ pc \in {"idle"} \union MspPc \union KsmPc \union BootSteps \union SvcPc \union BenchPc
  /\ pc \in MspPc => family = "msp"
  /\ pc \in KsmPc \union BootSteps => family = "ksm"
  /\ pc \in SvcPc => family = "pam"
  /\ pc \in BenchPc => family = "smoke"

CompaniesAct ==
  \/ Companies_Plan \/ Companies_Look \/ Companies_Add \/ Companies_Edit \/ Companies_Remove
  \/ Companies_Finish \/ Companies_Refuse \/ OthersCompany
  \/ Mishap /\ calm' = FALSE /\ MspStop /\ OnlyCompanies

AppsAct ==
  \/ Apps_Plan \/ Apps_Rename \/ Apps_Look \/ Apps_Create \/ Apps_Mark \/ Apps_Reshare
  \/ Apps_Delete \/ Apps_Finish \/ Apps_Refuse \/ OthersApp
  \/ Mishap /\ calm' = FALSE /\ KsmStop /\ OnlyApps

BootAct == Boot_Start \/ Boot_Steps \/ Learn \/ (Mishap /\ calm' = FALSE /\ BootStop /\ OnlyBoot)

ServiceAct ==
  \/ Service_Start \/ Service_Steps \/ Service_Works \/ OthersRecord
  \/ Mishap /\ calm' = FALSE /\ SvcStop /\ UNCHANGED queue /\ OnlyService

BenchAct ==
  \/ Bench_Start \/ Bench_Steps \/ OthersAccount
  \/ Mishap /\ calm' = FALSE /\ BenchStop /\ OnlyBench

LEMMA OneFamilyActs ==
  ASSUME Next
  PROVE  CompaniesAct \/ AppsAct \/ BootAct \/ ServiceAct \/ BenchAct
BY DEF Next, Work, Stop, CompaniesAct, AppsAct, BootAct, ServiceAct, BenchAct

LEMMA CompaniesStay ==
  ASSUME CompaniesAct
  PROVE  OnlyCompanies /\ (UNCHANGED pc \/ pc' \in MspPc \union {"idle"})
BY DEF CompaniesAct, Companies_Plan, Companies_Look, Companies_Add, Companies_Edit, Companies_Remove,
   Companies_Finish, Companies_Refuse, OthersCompany, MspPlan, MspLook, MspAdd, MspEdit,
   MspRemove, MspFinish, MspRefuse, MspIdle, MspStop, MspPc

LEMMA AppsStay ==
  ASSUME AppsAct
  PROVE  OnlyApps /\ (UNCHANGED pc \/ pc' \in KsmPc \union {"idle"})
BY DEF AppsAct, Apps_Plan, Apps_Rename, Apps_Look, Apps_Create, Apps_Mark, Apps_Reshare, Apps_Delete,
   Apps_Finish, Apps_Refuse, OthersApp, KsmPlan, KsmRename, KsmLook, KsmCreate, KsmMark,
   KsmReshare, KsmDelete, KsmFinish, KsmRefuse, KsmIdle, KsmStop, KsmPc

LEMMA BootStays ==
  ASSUME BootAct
  PROVE  OnlyBoot /\ (UNCHANGED pc \/ pc' \in BootSteps \union {"idle"})
BY DEF BootAct, Boot_Start, Boot_Steps, Learn, BootStart, BootLookApp, BootAddApp, BootShare, BootLookDir,
   BootAddDir, BootShareDir, BootToken, BootRedeem, BootFinish, BootPoll, BootGiveUp, BootIdle, BootStop,
   Propagate, process, BootSteps

LEMMA ServiceStays ==
  ASSUME ServiceAct
  PROVE  OnlyService /\ (UNCHANGED pc \/ pc' \in SvcPc \union {"idle"})
BY DEF ServiceAct, Service_Start, Service_Steps, Service_Works, OthersRecord, SvcStart, SvcPost, SvcThrottled,
   SvcPoll, SvcPlan, SvcNext, SvcGiveUp, SvcFinish, SvcIdle, SvcStop, Serve, process, SvcPc

LEMMA BenchStays ==
  ASSUME BenchAct
  PROVE  OnlyBench /\ (UNCHANGED pc \/ pc' \in BenchPc \union {"idle"})
<1>1. CASE \/ Bench_Start \/ OthersAccount
           \/ (BenchGiveUp \/ BenchFinish \/ BenchStop) /\ OnlyBench
  BY <1>1 DEF Bench_Start, Bench_Steps, OthersAccount, BenchStart, BenchGiveUp, BenchFinish, BenchStop, BenchIdle,
     BenchPc
<1>2. CASE Bench_Steps /\ ~BenchGiveUp /\ ~BenchFinish
  BY <1>2 DEF Bench_Steps, BenchSteps, BenchStored, BenchClear, BenchBare, BenchList, BenchAdd, BenchValidate,
     BenchLook, BenchRm, BenchRecord, BenchVerify, BenchGateway, BenchFolder, BenchGrant, BenchApp, BenchPart,
     To, BenchPc
<1> QED BY <1>1, <1>2 DEF BenchAct, Bench_Steps

LEMMA StationsHold ==
  ASSUME Stationed, [Next]_vars
  PROVE  Stationed' /\ UNCHANGED family
<1>1. CASE CompaniesAct
  BY <1>1, CompaniesStay DEF OnlyCompanies, Stationed, MspPc, KsmPc, BootSteps, SvcPc, BenchPc
<1>2. CASE AppsAct
  BY <1>2, AppsStay DEF OnlyApps, Stationed, MspPc, KsmPc, BootSteps, SvcPc, BenchPc
<1>3. CASE BootAct
  BY <1>3, BootStays DEF OnlyBoot, Stationed, MspPc, KsmPc, BootSteps, SvcPc, BenchPc
<1>4. CASE ServiceAct
  BY <1>4, ServiceStays DEF OnlyService, Stationed, MspPc, KsmPc, BootSteps, SvcPc, BenchPc
<1>5. CASE BenchAct
  BY <1>5, BenchStays DEF OnlyBench, Stationed, MspPc, KsmPc, BootSteps, SvcPc, BenchPc
<1>6. CASE UNCHANGED vars
  BY <1>6 DEF vars, process, Stationed
<1> QED BY <1>1, <1>2, <1>3, <1>4, <1>5, <1>6, OneFamilyActs

LEMMA StationsInitially == Init => Stationed
BY DEF Init, SessionInit, Stationed, MspPc, KsmPc, BootSteps, SvcPc, BenchPc

------------------------------------------------------------------------------
(* Types of applications and of the bootstrap *)

AppOK(a) ==
  /\ DOMAIN a = {"name", "mark", "shares"} /\ a.name \in AppName /\ a.mark \in Marks
  /\ DOMAIN a.shares \subseteq Vault

AppsOK == \A u \in DOMAIN apps : AppOK(apps[u])

AtOK == DOMAIN at = {"ref", "uid"} /\ (at # Nowhere => at.ref \in DOMAIN target.names)

TasksOK ==
  /\ target \in Rollouts \union {NoTarget}
  /\ todo \subseteq DOMAIN target.names /\ reshare \subseteq DOMAIN target.shares
  /\ retired \subseteq DOMAIN before

AppsKinds ==
  AppsOK /\ AtOK /\ TasksOK /\ (pc \in {"ksm-create", "ksm-mark"} <=> at # Nowhere)

BootKinds ==
  /\ titled \subseteq Directory /\ config \in AppId \union {0} /\ app \in AppId \union {0}
  /\ polls \in 0..Patience
  /\ pc = "boot-dir-share" => dir \in Directory
  /\ pc \notin BootSteps => app = 0 /\ dir = NoRecord

LEMMA TargetOK ==
  ASSUME TasksOK, NEW r \in DOMAIN target.names
  PROVE  r \in AppRef /\ r # NoMark /\ target.names[r] \in AppName
<1>1. target \in Rollouts
  BY DEF TasksOK, NoTarget
<1> QED BY <1>1, KsmApplyAssumption, KsmDiffAssumption DEF LoadsApps

LEMMA NewAppOK == ASSUME NEW n \in AppName PROVE AppOK(NewApp(n))
BY DEF NewApp, AppOK, Marks

LEMMA PlanKinds == ASSUME AppsKinds, KsmPlan PROVE AppsKinds'
<1>1. PICK v \in Rollouts, allow \in BOOLEAN :
        /\ target' = v /\ todo' = NewApps(apps, v) \union ChangedApps(apps, v)
        /\ reshare' = ChangedShares(apps, v) /\ retired' = GoneApps(apps, v, allow)
  BY DEF KsmPlan
<1>2. pc = "idle" /\ pc' = "ksm" /\ before' = apps /\ UNCHANGED <<apps, at>>
  BY DEF KsmPlan
<1>3. TasksOK'
  BY <1>1, <1>2 DEF TasksOK, NewApps, ChangedApps, ChangedShares, GoneApps, Owned
<1>4. at = Nowhere
  BY <1>2 DEF AppsKinds
<1> QED BY <1>2, <1>3, <1>4 DEF AppsKinds, AppsOK, AtOK

\* Steps of an apply that change one application
LEMMA OneAppOK ==
  ASSUME AppsOK, NEW u, NEW a, apps' = [apps EXCEPT ![u] = a], u \in DOMAIN apps => AppOK(a)
  PROVE  AppsOK'
BY DEF AppsOK

LEMMA RenameKinds == ASSUME AppsKinds, KsmRename PROVE AppsKinds'
<1>1. PICK r \in todo :
        /\ Planned(r) \in DOMAIN apps /\ apps' = [apps EXCEPT ![Planned(r)].name = target.names[r]]
        /\ todo' = todo \ {r}
  BY DEF KsmRename
<1>2. pc = "ksm" /\ UNCHANGED <<pc, target, before, reshare, retired, at>>
  BY DEF KsmRename
<1>3. AppOK([apps[Planned(r)] EXCEPT !.name = target.names[r]])
  <2>1. AppOK(apps[Planned(r)]) /\ target.names[r] \in AppName
    BY <1>1, TargetOK DEF AppsKinds, AppsOK, TasksOK
  <2> QED BY <2>1 DEF AppOK
<1>4. AppsOK'
  BY <1>1, <1>3, OneAppOK DEF AppsKinds
<1> QED BY <1>1, <1>2, <1>4 DEF AppsKinds, AtOK, TasksOK

LEMMA LookKinds == ASSUME AppsKinds, KsmLook PROVE AppsKinds'
<1>1. PICK r \in todo : at' = [ref |-> r, uid |-> 0]
  BY DEF KsmLook
<1>2. pc' = "ksm-create" /\ UNCHANGED <<apps, target, before, todo, reshare, retired>>
  BY DEF KsmLook
<1>3. r \in DOMAIN target.names /\ r # NoMark
  BY TargetOK DEF AppsKinds, TasksOK
<1>4. at' # Nowhere /\ DOMAIN at' = {"ref", "uid"} /\ at'.ref = r
  <2>1. at'.ref = r /\ Nowhere.ref = NoMark /\ DOMAIN at' = {"ref", "uid"}
    BY <1>1 DEF Nowhere
  <2> QED BY <1>3, <2>1
<1> QED BY <1>2, <1>3, <1>4 DEF AppsKinds, AppsOK, AtOK, TasksOK

LEMMA CreateKinds == ASSUME Inductive, AppsKinds, KsmCreate PROVE AppsKinds'
<1>1. PICK n, new, u :
        /\ new \subseteq AppId \ given /\ u \in DOMAIN apps \union new
        /\ n = target.names[at.ref]
        /\ apps' = [w \in DOMAIN apps \union new |-> IF w \in new THEN NewApp(n) ELSE apps[w]]
        /\ given' = given \union new
        /\ at' = [at EXCEPT !.uid = u]
        /\ Named(n) = {} => u \in new
  BY CreateIsNew
<1>2. pc = "ksm-create" /\ pc' = "ksm-mark" /\ UNCHANGED <<target, before, todo, reshare, retired>>
  BY DEF KsmCreate
<1>3. at # Nowhere /\ at.ref \in DOMAIN target.names /\ DOMAIN at = {"ref", "uid"}
  BY <1>2 DEF AppsKinds, AtOK
<1>4. AppOK(NewApp(n)) /\ at.ref # NoMark
  BY <1>1, <1>3, TargetOK, NewAppOK DEF AppsKinds
<1>5. AppsOK'
  BY <1>1, <1>4 DEF AppsKinds, AppsOK
<1>6. at'.ref = at.ref /\ DOMAIN at' = {"ref", "uid"}
  BY <1>1, <1>3
<1>7. at' # Nowhere
  BY <1>4, <1>6 DEF Nowhere
<1> QED BY <1>2, <1>3, <1>5, <1>6, <1>7 DEF AppsKinds, AtOK, TasksOK

LEMMA MarkKinds == ASSUME AppsKinds, KsmMark PROVE AppsKinds'
<1>1. /\ pc = "ksm-mark" /\ pc' = "ksm" /\ apps' = [apps EXCEPT ![at.uid].mark = at.ref]
      /\ todo' = todo \ {at.ref} /\ at' = Nowhere /\ at.uid \in DOMAIN apps
      /\ UNCHANGED <<target, before, reshare, retired>>
  BY DEF KsmMark
<1>2. at.ref \in AppRef /\ AppOK(apps[at.uid])
  BY <1>1, TargetOK DEF AppsKinds, AtOK, AppsOK
<1>3. AppOK([apps[at.uid] EXCEPT !.mark = at.ref])
  BY <1>2 DEF AppOK, Marks
<1>4. AppsOK'
  BY <1>1, <1>3, OneAppOK DEF AppsKinds
<1> QED BY <1>1, <1>4 DEF AppsKinds, AtOK, TasksOK, Nowhere

LEMMA ReshareKinds == ASSUME AppsKinds, KsmReshare PROVE AppsKinds'
<1>1. PICK p \in reshare, u \in DOMAIN apps :
        apps' = [apps EXCEPT ![u].shares[p[2]] = target.shares[p]] /\ reshare' = reshare \ {p}
  BY DEF KsmReshare
<1>2. pc = "ksm" /\ UNCHANGED <<pc, target, before, todo, retired, at>>
  BY DEF KsmReshare
<1> DEFINE s == [apps[u].shares EXCEPT ![p[2]] = target.shares[p]]
<1>3. apps' = [apps EXCEPT ![u] = [apps[u] EXCEPT !.shares = s]] /\ DOMAIN s = DOMAIN apps[u].shares
  BY <1>1
<1> HIDE DEF s
<1>4. AppOK([apps[u] EXCEPT !.shares = s])
  BY <1>3 DEF AppsKinds, AppsOK, AppOK
<1>5. AppsOK'
  BY <1>3, <1>4, OneAppOK DEF AppsKinds
<1> QED BY <1>1, <1>2, <1>5 DEF AppsKinds, AtOK, TasksOK

LEMMA DeleteKinds == ASSUME AppsKinds, KsmDelete PROVE AppsKinds'
<1>1. PICK u \in retired : apps' = [w \in DOMAIN apps \ {u} |-> apps[w]] /\ retired' = retired \ {u}
  BY DEF KsmDelete
<1>2. pc = "ksm" /\ UNCHANGED <<pc, target, before, todo, reshare, at>>
  BY DEF KsmDelete
<1> QED BY <1>1, <1>2 DEF AppsKinds, AppsOK, AtOK, TasksOK

LEMMA KsmIdleKinds == ASSUME AppsKinds, KsmIdle PROVE AppsKinds'
BY DEF KsmIdle, AppsKinds, AppsOK, AtOK, TasksOK, Nowhere, NoTarget

LEMMA OthersKinds == ASSUME AppsKinds, OthersApp PROVE AppsKinds'
<1>1. UNCHANGED <<pc, target, before, todo, reshare, retired, at>>
  BY DEF OthersApp, apply
<1>2. AppsOK'
  <2>1. CASE \E a \in StrangeApps, u \in FreshOf(AppId, given, 1) :
               apps' = [w \in DOMAIN apps \union {u} |-> IF w = u THEN a ELSE apps[w]]
    <3>1. PICK a \in StrangeApps, u \in AppId \ given :
            apps' = [w \in DOMAIN apps \union {u} |-> IF w = u THEN a ELSE apps[w]]
      BY <2>1, FreshIsNew
    <3>2. AppOK(a)
      BY TenantAssumption, NewAppOK
    <3> QED BY <3>1, <3>2 DEF AppsKinds, AppsOK
  <2>2. CASE \E u \in DOMAIN apps : apps' = [w \in DOMAIN apps \ {u} |-> apps[w]]
    BY <2>2 DEF AppsKinds, AppsOK
  <2> QED BY <2>1, <2>2 DEF OthersApp
<1> QED BY <1>1, <1>2 DEF AppsKinds, AtOK, TasksOK

LEMMA AppsActKinds == ASSUME Inductive, AppsKinds, AppsAct PROVE AppsKinds'
BY PlanKinds, RenameKinds, LookKinds, CreateKinds, MarkKinds, ReshareKinds, DeleteKinds, KsmIdleKinds,
   OthersKinds
DEF AppsAct, Apps_Plan, Apps_Rename, Apps_Look, Apps_Create, Apps_Mark, Apps_Reshare, Apps_Delete,
    Apps_Finish, Apps_Refuse, KsmFinish, KsmRefuse, KsmStop

LEMMA SharedApp ==
  ASSUME AppsOK, NEW u \in DOMAIN apps, NEW r, NEW e, Share(u, r, e)
  PROVE  /\ DOMAIN apps' = DOMAIN apps /\ \A w \in DOMAIN apps \ {u} : apps'[w] = apps[w]
         /\ DOMAIN apps'[u] = DOMAIN apps[u] /\ apps'[u].name = apps[u].name /\ apps'[u].mark = apps[u].mark
         /\ DOMAIN apps'[u].shares = DOMAIN apps[u].shares \union {r} /\ apps'[u].shares[r] = e
         /\ \A v \in DOMAIN apps[u].shares \ {r} : apps'[u].shares[v] = apps[u].shares[v]
<1> DEFINE s == [v \in DOMAIN apps[u].shares \union {r} |-> IF v = r THEN e ELSE apps[u].shares[v]]
<1>1. apps' = [apps EXCEPT ![u].shares = s]
  BY DEF Share
<1> HIDE DEF s
<1>2. apps'[u] = [apps[u] EXCEPT !.shares = s] /\ \A w \in DOMAIN apps \ {u} : apps'[w] = apps[w]
  BY <1>1
<1>3. DOMAIN apps[u] = {"name", "mark", "shares"}
  BY DEF AppsOK, AppOK
<1>4. apps'[u].name = apps[u].name /\ apps'[u].mark = apps[u].mark /\ apps'[u].shares = s
      /\ DOMAIN apps'[u] = DOMAIN apps[u]
  BY <1>2, <1>3
<1>5. DOMAIN apps' = DOMAIN apps
  BY <1>1
<1>6. /\ DOMAIN s = DOMAIN apps[u].shares \union {r} /\ s[r] = e
      /\ \A v \in DOMAIN apps[u].shares \ {r} : s[v] = apps[u].shares[v]
  BY DEF s
<1> QED BY <1>2, <1>4, <1>5, <1>6

LEMMA ShareIsOK ==
  ASSUME AppsOK, NEW u \in DOMAIN apps, NEW r \in Vault, NEW e, Share(u, r, e)
  PROVE  AppsOK'
<1>1. DOMAIN apps'[u].shares = DOMAIN apps[u].shares \union {r}
  BY SharedApp
<1>2. AppOK(apps'[u])
  BY <1>1, SharedApp DEF AppsOK, AppOK
<1> QED BY <1>2, SharedApp DEF AppsOK

\* What the bootstrap does to applications
LEMMA BootAppsKinds == ASSUME AppsKinds, BootKinds, Stationed, BootAct PROVE AppsKinds'
<1>1. UNCHANGED apply
  BY DEF BootAct, Boot_Start, Boot_Steps, Learn, BootStart, BootLookApp, BootAddApp, BootShare, BootLookDir,
     BootAddDir, BootShareDir, BootToken, BootRedeem, BootFinish, BootPoll, BootGiveUp, BootIdle, BootStop,
     Propagate, application
<1>2. AppsOK'
  <2>1. CASE UNCHANGED apps
    BY <2>1 DEF AppsKinds, AppsOK
  <2>2. CASE BootAddApp
    <3>1. PICK u \in FreshOf(AppId, given, 1) :
            apps' = [w \in DOMAIN apps \union {u} |-> IF w = u THEN NewApp(BootName) ELSE apps[w]]
      BY <2>2 DEF BootAddApp
    <3> QED BY <3>1, BootstrapAssumption, NewAppOK DEF AppsKinds, AppsOK
  <2>3. CASE BootShare
    <3>1. app \in DOMAIN apps /\ Share(app, Admin, FALSE) /\ Admin \in Vault
      BY <2>3, BootstrapAssumption DEF BootShare
    <3> QED BY <3>1, ShareIsOK DEF AppsKinds
  <2>4. CASE BootShareDir
    <3>1. app \in DOMAIN apps /\ Share(app, dir, TRUE) /\ dir \in Vault
      BY <2>4, BootstrapAssumption DEF BootShareDir, BootKinds
    <3> QED BY <3>1, ShareIsOK DEF AppsKinds
  <2> QED BY <2>1, <2>2, <2>3, <2>4
          DEF BootAct, Boot_Start, Boot_Steps, Learn, BootStart, BootLookApp, BootLookDir,
     BootAddDir, BootToken, BootRedeem, BootFinish, BootPoll, BootGiveUp, BootIdle, BootStop,
     Propagate, application
<1>3. UNCHANGED <<pc, at>> \/ (pc' \notin KsmPc /\ at' = at)
  BY <1>1, BootStays DEF apply, BootSteps, KsmPc
<1>4. at' # Nowhere => pc \in KsmPc
  BY <1>1 DEF apply, AppsKinds, KsmPc
<1>5. pc \in KsmPc => FALSE
  BY DEF BootAct, Boot_Start, Boot_Steps, Learn, BootStart, BootLookApp, BootAddApp, BootShare, BootLookDir,
     BootAddDir, BootShareDir, BootToken, BootRedeem, BootFinish, BootPoll, BootGiveUp, BootStop,
     Propagate, KsmPc, BootSteps
<1> QED BY <1>1, <1>2, <1>3, <1>4, <1>5 DEF apply, AppsKinds, AtOK, TasksOK, KsmPc

LEMMA BootActKinds == ASSUME Inductive, BootKinds, BootAct PROVE BootKinds'
<1>1. DOMAIN apps \subseteq AppId /\ Directory \subseteq Vault /\ Patience \in Nat
  BY BootstrapAssumption DEF Inductive, AppsGiven
<1>2. CASE BootStart
  BY <1>1, <1>2 DEF BootStart, BootKinds, records, BootSteps
<1>3. CASE BootLookApp
  <2>1. app' \in AppId \union {0}
    BY <1>1, <1>3 DEF BootLookApp, Named, BootKinds
  <2> QED BY <1>3, <2>1 DEF BootLookApp, BootKinds, records, BootSteps
<1>4. CASE BootAddApp
  <2>1. app' \in AppId
    BY <1>4, FreshIsNew DEF BootAddApp
  <2> QED BY <1>4, <2>1 DEF BootAddApp, BootKinds, records, BootSteps
<1>5. CASE BootShare \/ BootShareDir
  BY <1>5 DEF BootShare, BootShareDir, BootKinds, records, boot, BootSteps
<1>6. CASE BootLookDir \/ BootAddDir
  BY <1>6 DEF BootLookDir, BootAddDir, BootKinds, records, BootSteps
<1>7. CASE BootToken \/ BootRedeem
  BY <1>1, <1>7 DEF BootToken, BootRedeem, BootKinds, boot, BootSteps
<1>8. CASE BootIdle
  BY <1>1, <1>8 DEF BootIdle, BootKinds, records, BootSteps
<1>9. CASE BootPoll \/ Propagate
  BY <1>1, <1>9 DEF BootPoll, Propagate, BootKinds, records, process, Deadline
<1> QED BY <1>2, <1>3, <1>4, <1>5, <1>6, <1>7, <1>8, <1>9
        DEF BootAct, Boot_Start, Boot_Steps, Learn, BootFinish, BootGiveUp, BootStop

------------------------------------------------------------------------------
(* A bootstrap that is let alone *)

Linked == {"boot-dir", "boot-dir-add", "boot-dir-share", "boot-token", "boot-redeem", "boot-verify"}

BootProgress ==
  /\ pc \in Linked \union {"boot-share"} => app \in Named(BootName)
  /\ pc \in Linked => Admin \in DOMAIN apps[app].shares
  /\ pc \in {"boot-token", "boot-redeem", "boot-verify"} /\ bus =>
       dir \in DOMAIN apps[app].shares /\ apps[app].shares[dir]
  /\ pc = "boot-verify" => config = app

LEMMA BootMoves ==
  ASSUME Inductive, AppsKinds, BootKinds, calm => BootProgress, BootAct
  PROVE  (calm => BootProgress)'
<1> SUFFICES ASSUME calm' PROVE BootProgress'
  OBVIOUS
<1>1. CASE BootStart \/ BootIdle
  BY <1>1 DEF BootStart, BootIdle, BootProgress, Linked
<1>2. CASE BootLookApp
  BY <1>2 DEF BootLookApp, BootProgress, Linked, application, Named
<1>3. CASE BootAddApp
  <2>1. PICK u \in FreshOf(AppId, given, 1) :
          /\ apps' = [w \in DOMAIN apps \union {u} |-> IF w = u THEN NewApp(BootName) ELSE apps[w]]
          /\ app' = u
    BY <1>3 DEF BootAddApp
  <2>2. app' \in DOMAIN apps' /\ apps'[app'].name = BootName
    BY <2>1 DEF NewApp
  <2> QED BY <1>3, <2>2 DEF BootAddApp, BootProgress, Linked, Named
<1>4. CASE BootShare
  <2>1. /\ app \in DOMAIN apps /\ Share(app, Admin, FALSE) /\ UNCHANGED <<app, bus>> /\ calm
        /\ pc = "boot-share" /\ pc' = IF bus THEN "boot-dir" ELSE "boot-token"
    BY <1>4 DEF BootShare, boot
  <2>2. PICK e \in BOOLEAN : e = FALSE /\ Share(app, Admin, e)
    BY <2>1, Zenon
  <2>. AppsOK /\ app \in DOMAIN apps
    BY <2>1 DEF AppsKinds
  <2>3. /\ DOMAIN apps' = DOMAIN apps /\ apps'[app].name = apps[app].name
        /\ Admin \in DOMAIN apps'[app].shares
    BY <2>2, SharedApp
  <2> QED BY <2>1, <2>3 DEF BootProgress, Linked, Named
<1>5. CASE BootLookDir \/ BootAddDir
  BY <1>5 DEF BootLookDir, BootAddDir, BootProgress, Linked, application, Named
<1>6. CASE BootShareDir
  <2>1. /\ app \in DOMAIN apps /\ Share(app, dir, TRUE) /\ UNCHANGED <<app, bus, dir>> /\ calm
        /\ pc = "boot-dir-share" /\ pc' = "boot-token"
    BY <1>6 DEF BootShareDir, boot
  <2>2. PICK e \in BOOLEAN : e = TRUE /\ Share(app, dir, e)
    BY <2>1, Zenon
  <2>. AppsOK /\ app \in DOMAIN apps
    BY <2>1 DEF AppsKinds
  <2>3. /\ DOMAIN apps' = DOMAIN apps /\ apps'[app].name = apps[app].name
        /\ DOMAIN apps'[app].shares = DOMAIN apps[app].shares \union {dir}
        /\ apps'[app].shares[dir] = e
    BY <2>2, SharedApp
  <2>4. apps'[app].shares[dir]
    BY <2>2, <2>3, Zenon
  <2> QED BY <2>1, <2>3, <2>4 DEF BootProgress, Linked, Named
<1>7. CASE BootToken \/ BootRedeem
  <2>1. UNCHANGED <<apps, app, bus, dir>> /\ calm /\ pc \in Linked /\ pc \notin {"boot-dir", "boot-dir-add", "boot-dir-share"}
    BY <1>7 DEF BootToken, BootRedeem, boot, application, Linked
  <2>2. pc' \in {"boot-redeem", "boot-verify"} /\ (pc' = "boot-verify" => config' = app)
    BY <1>7 DEF BootToken, BootRedeem
  <2>3. pc \in {"boot-token", "boot-redeem"}
    BY <1>7 DEF BootToken, BootRedeem
  <2> QED BY <2>1, <2>2, <2>3 DEF BootProgress, Named
<1>8. CASE BootPoll \/ Propagate
  <2>1. UNCHANGED <<pc, calm, config, bus, app, dir, apps>>
    BY <1>8 DEF BootPoll, Propagate, records, process, application
  <2> QED BY <2>1 DEF BootProgress, Named
<1> QED BY <1>1, <1>2, <1>3, <1>4, <1>5, <1>6, <1>7, <1>8
        DEF BootAct, Boot_Start, Boot_Steps, Learn, BootFinish, BootGiveUp, BootStop

LEMMA AppsKeepBoot ==
  ASSUME Stationed, BootKinds, AppsAct
  PROVE  BootKinds' /\ (calm' => pc' \notin BootSteps)
<1>1. UNCHANGED bootstrap
  BY AppsStay DEF OnlyApps
<1>2. (OthersApp /\ UNCHANGED pc /\ calm' = FALSE) \/ (pc \in KsmPc \union {"idle"} /\ pc' \in KsmPc \union {"idle"})
  BY DEF AppsAct, Apps_Plan, Apps_Rename, Apps_Look, Apps_Create, Apps_Mark, Apps_Reshare, Apps_Delete,
   Apps_Finish, Apps_Refuse, OthersApp, KsmPlan, KsmRename, KsmLook, KsmCreate, KsmMark,
   KsmReshare, KsmDelete, KsmFinish, KsmRefuse, KsmIdle, KsmStop, KsmPc
<1>3. (KsmPc \union {"idle"}) \intersect BootSteps = {}
  BY DEF KsmPc, BootSteps
<1>4. BootKinds'
  BY <1>1, <1>2, <1>3 DEF bootstrap, records, boot, BootKinds, BootSteps
<1> QED BY <1>2, <1>3, <1>4

LEMMA LinkedSteps == Linked \union {"boot-share"} \subseteq BootSteps
BY DEF Linked, BootSteps

\* A step for another family leaves applications and the bootstrap alone
LEMMA OtherFamilies ==
  ASSUME Stationed, CompaniesAct \/ ServiceAct \/ BenchAct
  PROVE  UNCHANGED <<application, bootstrap>> /\ pc \notin KsmPc \union BootSteps /\ pc' \notin KsmPc \union BootSteps
<1>1. UNCHANGED <<application, bootstrap>> /\ family # "ksm"
  BY CompaniesStay, ServiceStays, BenchStays DEF OnlyCompanies, OnlyService, OnlyBench
<1>2. UNCHANGED pc \/ pc' \in MspPc \union SvcPc \union BenchPc \union {"idle"}
  BY CompaniesStay, ServiceStays, BenchStays
<1>3. (MspPc \union SvcPc \union BenchPc \union {"idle"}) \intersect (KsmPc \union BootSteps) = {}
  BY DEF MspPc, SvcPc, BenchPc, KsmPc, BootSteps
<1> QED BY <1>1, <1>2, <1>3 DEF Stationed

BootInvariant == Inductive /\ Stationed /\ AppsKinds /\ BootKinds /\ (calm => BootProgress)

LEMMA BootInvariantStep ==
  ASSUME BootInvariant, [Next]_vars, Inductive'
  PROVE  BootInvariant'
<1>1. Stationed'
  BY StationsHold DEF BootInvariant
<1>2. CASE AppsAct
  <2>1. AppsKinds'
    BY <1>2, AppsActKinds DEF BootInvariant
  <2>2. BootKinds' /\ (calm' => pc' \notin BootSteps)
    BY <1>2, AppsKeepBoot DEF BootInvariant
  <2> QED BY <1>1, <2>1, <2>2, LinkedSteps DEF BootInvariant, BootProgress, BootSteps
<1>3. CASE BootAct
  BY <1>1, <1>3, BootAppsKinds, BootActKinds, BootMoves DEF BootInvariant
<1>4. CASE CompaniesAct \/ ServiceAct \/ BenchAct
  <2>1. UNCHANGED <<application, bootstrap>> /\ pc \notin KsmPc \union BootSteps /\ pc' \notin KsmPc \union BootSteps
    BY <1>4, OtherFamilies DEF BootInvariant
  <2>2. AppsKinds'
    BY <2>1 DEF BootInvariant, application, apply, AppsKinds, AppsOK, AtOK, TasksOK, KsmPc
  <2>3. BootKinds'
    BY <2>1 DEF BootInvariant, bootstrap, records, boot, BootKinds, BootSteps
  <2>4. BootProgress'
    BY <2>1, LinkedSteps DEF BootProgress, BootSteps
  <2> QED BY <1>1, <2>2, <2>3, <2>4 DEF BootInvariant
<1>5. CASE UNCHANGED vars
  BY <1>1, <1>5 DEF BootInvariant, vars, process, application, apply, AppsKinds, AppsOK, AtOK, TasksOK,
     bootstrap, records, boot, BootKinds, BootProgress, Named
<1> QED BY <1>2, <1>3, <1>4, <1>5, OneFamilyActs

LEMMA BootInvariantInitially == ASSUME Init PROVE Stationed /\ AppsKinds /\ BootKinds /\ BootProgress
<1>1. Stationed
  BY StationsInitially
<1>2. AppsKinds
  BY DEF Init, SessionInit, KsmInit, AppsKinds, AppsOK, AtOK, TasksOK, NoApps, NoTarget, Nowhere
<1>3. BootKinds
  BY BootstrapAssumption DEF Init, SessionInit, BootInit, BootKinds, BootSteps
<1>4. BootProgress
  BY DEF Init, SessionInit, BootProgress, Linked
<1> QED BY <1>1, <1>2, <1>3, <1>4

LEMMA BootInvariantHolds == Spec => []BootInvariant
<1>1. Init /\ Inductive => BootInvariant
  BY BootInvariantInitially DEF BootInvariant
<1>2. BootInvariant /\ [Next]_vars /\ Inductive' => BootInvariant'
  BY BootInvariantStep
<1> QED BY <1>1, <1>2, InductiveHolds, PTL DEF Spec

\* An undisturbed bootstrap that ends with 0 leaves a client that can read the admin
\* record, through the application of the name that it was asked for, and a bus
\* directory that the client can write to.
THEOREM BootstrapAlwaysWorks == Spec => BootstrapWorks
<1>1. BootInvariant /\ BootFinish /\ calm =>
        /\ config \in Named(BootName) /\ visible
        /\ Admin \in DOMAIN apps[config].shares
        /\ bus => dir \in DOMAIN apps[config].shares /\ apps[config].shares[dir]
  BY DEF BootInvariant, BootProgress, Linked, BootFinish, Readable
<1> QED BY <1>1, BootInvariantHolds, PTL DEF Spec, BootstrapWorks

------------------------------------------------------------------------------
(* Types of companies *)

CompanyOK(c) == DOMAIN c = CompanyFields /\ c.name \in CompanyName /\ c.seats \in 0..Top

CompaniesKinds ==
  /\ \A i \in DOMAIN mcs : CompanyOK(mcs[i])
  /\ doomed \subseteq DOMAIN base
  /\ pc = "msp-call" <=> cur # NoChange
  /\ pc = "msp-call" /\ cur.kind = "update" => cur.name \in Keys(rows)
  /\ pc \notin MspPc => rows = {} /\ open = {} /\ doomed = {}

LEMMA RowOK ==
  ASSUME FirmsListed, NEW k \in Keys(rows)
  PROVE  DOMAIN Row(k) = CompanyFields /\ Row(k).name \in CompanyName /\ Row(k).seats \in Nat
<1>1. Row(k) \in rows
  BY DEF Row, Keys
<1>2. rows \in Portfolios
  BY <1>1 DEF FirmsListed
<1> QED BY <1>1, <1>2, MspApplyAssumption DEF LoadsCompanies

LEMMA SeatsHeld == ASSUME NEW s \in Nat PROVE Held(Ordered(s)) \in 0..Top
BY MspDiffAssumption DEF Held, Ordered

LEMMA IncorporatedOK ==
  ASSUME NEW r, DOMAIN r = CompanyFields, r.name \in CompanyName, r.seats \in Nat
  PROVE  CompanyOK(Incorporated(r))
<1> DEFINE addons == [a \in DOMAIN r.addons |-> Held(Ordered(r.addons[a]))]
<1>1. Incorporated(r) = [[r EXCEPT !.seats = Held(Ordered(r.seats))] EXCEPT !.addons = addons]
  BY DEF Incorporated
<1> HIDE DEF addons
<1>2. Incorporated(r).seats = Held(Ordered(r.seats)) /\ Incorporated(r).name = r.name
      /\ DOMAIN Incorporated(r) = CompanyFields
  BY <1>1 DEF CompanyFields
<1> QED BY <1>2, SeatsHeld DEF CompanyOK

LEMMA UpdatedOK ==
  ASSUME NEW now, NEW seen, NEW r, DOMAIN r = CompanyFields, r.name \in CompanyName, r.seats \in Nat
  PROVE  CompanyOK(Updated(now, seen, r))
<1>1. PICK file, addons :
        Updated(now, seen, r) = [[Incorporated(r) EXCEPT !.file = file] EXCEPT !.addons = addons]
  BY DEF Updated
<1>2. CompanyOK(Incorporated(r))
  BY IncorporatedOK
<1>3. /\ DOMAIN Updated(now, seen, r) = CompanyFields
      /\ Updated(now, seen, r).name = Incorporated(r).name
      /\ Updated(now, seen, r).seats = Incorporated(r).seats
  BY <1>1, <1>2 DEF CompanyOK, CompanyFields
<1> QED BY <1>2, <1>3 DEF CompanyOK

LEMMA MspPlanKinds == ASSUME Inductive, CompaniesKinds, MspPlan PROVE CompaniesKinds'
BY DEF MspPlan, CompaniesKinds, Dissolved, MspPc

LEMMA MspLookKinds == ASSUME Inductive, CompaniesKinds, MspLook PROVE CompaniesKinds'
<1>1. cur' \in NextChange /\ pc = "msp" /\ pc' = "msp-call" /\ UNCHANGED <<mcs, rows, base, open, doomed>>
  BY DEF MspLook
<1>2. cur'.kind \in {"create", "update", "delete"} /\ (cur'.kind = "update" => cur'.name \in open)
  BY <1>1 DEF NextChange
<1>3. cur' # NoChange
  BY <1>2 DEF NoChange
<1>4. open \subseteq Keys(rows)
  BY DEF Inductive, FirmsListed
<1> QED BY <1>1, <1>2, <1>3, <1>4 DEF CompaniesKinds, MspPc, Keys

LEMMA MspAddKinds == ASSUME Inductive, CompaniesKinds, MspAdd PROVE CompaniesKinds'
<1>1. PICK new : mcs' = [i \in DOMAIN mcs \union new |-> IF i \in new THEN Incorporated(Row(cur.name)) ELSE mcs[i]]
  BY DEF MspAdd
<1>2. cur.name \in Keys(rows)
  BY DEF MspAdd, Inductive, FirmsListed
<1>3. CompanyOK(Incorporated(Row(cur.name)))
  BY <1>2, RowOK, IncorporatedOK DEF Inductive
<1>4. pc = "msp-call" /\ pc' = "msp" /\ cur' = NoChange /\ UNCHANGED <<rows, base, doomed>>
  BY DEF MspAdd
<1> QED BY <1>1, <1>3, <1>4 DEF CompaniesKinds, MspPc

LEMMA MspEditKinds == ASSUME Inductive, CompaniesKinds, MspEdit PROVE CompaniesKinds'
<1>1. mcs' = [i \in DOMAIN mcs |->
                IF i = cur.id THEN Updated(mcs[i], Discovered(base[i]), Row(cur.name)) ELSE mcs[i]]
  BY DEF MspEdit
<1>2. cur.name \in Keys(rows)
  BY DEF MspEdit, CompaniesKinds
<1>3. \A i : CompanyOK(Updated(mcs[i], Discovered(base[i]), Row(cur.name)))
  BY <1>2, RowOK, UpdatedOK DEF Inductive
<1>4. pc = "msp-call" /\ pc' = "msp" /\ cur' = NoChange /\ UNCHANGED <<rows, base, doomed>>
  BY DEF MspEdit
<1> QED BY <1>1, <1>3, <1>4 DEF CompaniesKinds, MspPc

LEMMA MspRestKinds ==
  ASSUME CompaniesKinds, MspRemove \/ MspIdle
  PROVE  CompaniesKinds'
BY DEF MspRemove, MspIdle, CompaniesKinds, MspPc, NobodyYet

LEMMA MspOthersKinds == ASSUME CompaniesKinds, OthersCompany PROVE CompaniesKinds'
<1>1. UNCHANGED <<pc, rows, base, open, doomed, cur>>
  BY DEF OthersCompany, MspOthers
<1>2. \A i \in DOMAIN mcs' : CompanyOK(mcs'[i])
  <2>1. \A r \in Rivals : CompanyOK(r)
    BY MspApplyAssumption DEF CompanyOK
  <2>2. CASE \E r \in Rivals, i \in FreshOf(McId, spent, 1) :
               mcs' = [j \in DOMAIN mcs \union {i} |-> IF j = i THEN r ELSE mcs[j]]
    BY <2>1, <2>2 DEF CompaniesKinds
  <2>3. CASE \E r \in Rivals, i \in DOMAIN mcs : mcs' = [mcs EXCEPT ![i] = [r EXCEPT !.name = mcs[i].name]]
    <3>1. PICK r \in Rivals, i \in DOMAIN mcs : mcs' = [mcs EXCEPT ![i] = [r EXCEPT !.name = mcs[i].name]]
      BY <2>3
    <3>2. CompanyOK([r EXCEPT !.name = mcs[i].name])
      BY <2>1 DEF CompaniesKinds, CompanyOK, CompanyFields
    <3> QED BY <3>1, <3>2 DEF CompaniesKinds
  <2>4. CASE \E i \in DOMAIN mcs : mcs' = [j \in DOMAIN mcs \ {i} |-> mcs[j]]
    BY <2>4 DEF CompaniesKinds
  <2> QED BY <2>2, <2>3, <2>4 DEF OthersCompany, MspOthers
<1> QED BY <1>1, <1>2 DEF CompaniesKinds, Keys

LEMMA CompaniesActKinds == ASSUME Inductive, CompaniesKinds, CompaniesAct PROVE CompaniesKinds'
BY MspPlanKinds, MspLookKinds, MspAddKinds, MspEditKinds, MspRestKinds, MspOthersKinds
DEF CompaniesAct, Companies_Plan, Companies_Look, Companies_Add, Companies_Edit, Companies_Remove,
   Companies_Finish, Companies_Refuse, MspFinish, MspRefuse, MspStop

------------------------------------------------------------------------------
(* Types of the enrolment *)

Known == issued \union {0}
Holds(ls) == DOMAIN ls \subseteq issued /\ \A u \in DOMAIN ls : ls[u] \in Known

BenchKinds ==
  /\ issued \subseteq Token /\ Holds(logins)
  /\ \A c \in channels : c.secret \in issued
  /\ device \in {"new", "approved", "remembered"} /\ used \in Known
  /\ parts \subseteq {"gateway", "folder", "grant", "app"}
  /\ "grant" \in parts => "folder" \in parts
  /\ DOMAIN creds = {"uid", "secret"} /\ creds.secret \in Known
  /\ pc \notin BenchPc => creds = NoCreds /\ ~password /\ attempt = 0

\* A login remembers a code that somebody has a secret for
LEMMA LoginKinds ==
  ASSUME BenchKinds, NEW s \in Known, NEW r \in Logins(s)
  PROVE  /\ DOMAIN r = {"verdict", "device", "used"}
         /\ r.device \in {"new", "approved", "remembered"} /\ r.used \in Known
<1>1. PICK passed \in SUBSET {1, 2} : r \in Results(s, passed)
  BY DEF Logins
<1>2. used \in Known /\ 0 \in Known /\ device \in {"new", "approved", "remembered"}
  BY DEF BenchKinds, Known
<1> DEFINE earlier == IF 1 \in passed THEN 0 ELSE used
           known == device # "new" \/ (Fits(s) /\ earlier # s)
           after == IF 2 \in passed THEN 0 ELSE IF device = "new" THEN s ELSE earlier
           prompted == Factors # {} /\ device # "remembered"
           taken == ~prompted \/ (Fits(s) /\ after # s)
<1>3. earlier \in Known /\ after \in Known
  BY <1>2
<1>4. DOMAIN r = {"verdict", "device", "used"}
  BY <1>1 DEF Results
<1>5. r.device = IF ~known THEN "new" ELSE IF prompted /\ taken THEN "remembered"
                 ELSE IF device = "new" THEN "approved" ELSE device
  BY <1>1 DEF Results
<1>6. r.used = IF ~known THEN earlier ELSE IF prompted /\ taken THEN s ELSE after
  BY <1>1 DEF Results
<1> HIDE DEF earlier, known, after, prompted, taken
<1> QED BY <1>2, <1>3, <1>4, <1>5, <1>6

LEMMA AfterKinds ==
  ASSUME BenchKinds, NEW s \in Known, NEW r \in Logins(s), After(r) \/ After([r EXCEPT !.used = 0])
  PROVE  /\ device' \in {"new", "approved", "remembered"} /\ used' \in Known
         /\ UNCHANGED channels
<1>1. /\ DOMAIN r = {"verdict", "device", "used"}
      /\ r.device \in {"new", "approved", "remembered"} /\ r.used \in Known
  BY LoginKinds
<1>2. 0 \in Known
  BY DEF Known
<1> QED BY <1>1, <1>2 DEF After

LEMMA BenchStartKinds == ASSUME BenchKinds, BenchStart PROVE BenchKinds'
<1>1. PICK u \in (IF DOMAIN logins = {} THEN {0} ELSE DOMAIN logins) :
        creds' = [uid |-> u, secret |-> IF u = 0 THEN 0 ELSE logins[u]]
  BY DEF BenchStart
<1>2. creds'.secret \in Known /\ DOMAIN creds' = {"uid", "secret"}
  BY <1>1 DEF BenchKinds, Holds, Known
<1>3. pc' \in BenchPc /\ UNCHANGED <<account, logins, parts, issued>>
  BY DEF BenchStart, BenchPc
<1> QED BY <1>2, <1>3 DEF BenchKinds, Holds, Known, account

LEMMA BenchLoginKinds ==
  ASSUME BenchKinds, BenchStored \/ BenchBare \/ BenchVerify
  PROVE  BenchKinds'
<1>1. creds.secret \in Known /\ 0 \in Known
  BY DEF BenchKinds, Known
<1>2. /\ device' \in {"new", "approved", "remembered"} /\ used' \in Known
      /\ UNCHANGED channels
  BY <1>1, AfterKinds DEF BenchStored, BenchBare, BenchVerify
<1>3. UNCHANGED <<logins, parts, issued, creds, password>> /\ pc' \in BenchPc
  BY DEF BenchStored, BenchBare, BenchVerify, To, BenchPc
<1> QED BY <1>2, <1>3 DEF BenchKinds, Holds, Known

LEMMA BenchChannelKinds ==
  ASSUME BenchKinds, BenchClear \/ BenchList \/ BenchAdd \/ BenchValidate
  PROVE  BenchKinds'
<1>1. CASE BenchClear
  BY <1>1 DEF BenchClear, Cleared, To, BenchPc, BenchKinds, Holds, Known
<1>2. CASE BenchList
  <2>1. channels' \subseteq channels
    BY <1>2 DEF BenchList
  <2> QED BY <1>2, <2>1 DEF BenchList, To, BenchPc, BenchKinds, Holds, Known
<1>3. CASE BenchAdd
  <2>1. PICK s \in Token \ issued :
          /\ channels' = channels \union {[place |-> s, ours |-> TRUE, secret |-> s, active |-> FALSE]}
          /\ issued' = issued \union {s} /\ creds' = [creds EXCEPT !.secret = s]
    BY <1>3, FreshIsNew DEF BenchAdd
  <2>2. UNCHANGED <<device, used, logins, parts>> /\ pc' \in BenchPc
    BY <1>3 DEF BenchAdd, To, BenchPc
  <2>3. \A c \in channels' : c.secret \in issued'
    BY <2>1 DEF BenchKinds
  <2>4. DOMAIN creds' = {"uid", "secret"} /\ creds'.secret = s
    BY <2>1 DEF BenchKinds
  <2> QED BY <2>1, <2>2, <2>3, <2>4 DEF BenchKinds, Holds, Known
<1>4. CASE BenchValidate
  <2>1. PICK c \in channels : channels' = (channels \ {c}) \union {InForce(c)}
    BY <1>4 DEF BenchValidate
  <2>2. \A d \in channels' : d.secret \in issued
    BY <2>1 DEF BenchKinds, InForce
  <2> QED BY <1>4, <2>2 DEF BenchValidate, To, BenchPc, BenchKinds, Holds, Known
<1> QED BY <1>1, <1>2, <1>3, <1>4

LEMMA BenchRecordKinds ==
  ASSUME BenchKinds, BenchLook \/ BenchRm \/ BenchRecord
  PROVE  BenchKinds'
<1>1. CASE BenchLook
  <2>1. creds' = creds \/ \E u : creds' = [creds EXCEPT !.uid = u]
    BY <1>1 DEF BenchLook
  <2>2. DOMAIN creds' = {"uid", "secret"} /\ creds'.secret = creds.secret
    BY <2>1 DEF BenchKinds
  <2> QED BY <1>1, <2>2 DEF BenchLook, To, BenchPc, BenchKinds, Holds, Known, account
<1>2. CASE BenchRm
  BY <1>2 DEF BenchRm, To, BenchPc, BenchKinds, Holds, Known, account
<1>3. CASE BenchRecord
  <2>1. PICK u \in Token \ issued :
          /\ logins' = [w \in DOMAIN logins \union {u} |-> IF w = u THEN creds.secret ELSE logins[w]]
          /\ issued' = issued \union {u} /\ creds' = [creds EXCEPT !.uid = u]
    BY <1>3, FreshIsNew DEF BenchRecord
  <2>2. UNCHANGED <<device, channels, parts>> /\ used' = 0 /\ pc' \in BenchPc
    BY <1>3 DEF BenchRecord, To, BenchPc
  <2>3. DOMAIN creds' = {"uid", "secret"} /\ creds'.secret = creds.secret
    BY <2>1 DEF BenchKinds
  <2>4. Holds(logins)'
    BY <2>1 DEF BenchKinds, Holds, Known
  <2> QED BY <2>1, <2>2, <2>3, <2>4 DEF BenchKinds, Known
<1> QED BY <1>1, <1>2, <1>3

LEMMA BenchPartKinds ==
  ASSUME BenchKinds, BenchGateway \/ BenchFolder \/ BenchGrant \/ BenchApp
  PROVE  BenchKinds'
<1>1. UNCHANGED <<channels, device, used, logins, issued, creds>> /\ pc' \in BenchPc
  BY DEF BenchGateway, BenchFolder, BenchGrant, BenchApp, BenchPart, To, BenchPc, lab, account
<1>2. parts' \subseteq {"gateway", "folder", "grant", "app"} /\ ("grant" \in parts' => "folder" \in parts')
  BY DEF BenchGateway, BenchFolder, BenchGrant, BenchApp, BenchPart, lab, account, BenchKinds
<1> QED BY <1>1, <1>2 DEF BenchKinds, Holds, Known

LEMMA BenchEndKinds ==
  ASSUME BenchKinds, BenchFinish \/ BenchGiveUp \/ BenchStop
  PROVE  BenchKinds'
<1>1. /\ UNCHANGED <<channels, logins, parts, issued>> /\ creds' = NoCreds /\ ~password' /\ attempt' = 0
  BY DEF BenchFinish, BenchGiveUp, BenchStop, BenchIdle
<1>2. device' \in {"new", "approved", "remembered"} /\ used' \in Known
  <2>1. creds.secret \in Known /\ 0 \in Known
    BY DEF BenchKinds, Known
  <2>2. CASE UNCHANGED <<device, used>>
    BY <2>2 DEF BenchKinds
  <2>3. CASE \E r \in Logins(0) \union Logins(creds.secret) : After(r)
    BY <2>1, <2>3, AfterKinds
  <2> QED BY <2>2, <2>3 DEF BenchFinish, BenchGiveUp, BenchStop
<1>3. DOMAIN creds' = {"uid", "secret"} /\ creds'.secret = 0
  BY <1>1 DEF NoCreds
<1> QED BY <1>1, <1>2, <1>3 DEF BenchKinds, Holds, Known

LEMMA BenchOthersKinds == ASSUME BenchKinds, OthersAccount PROVE BenchKinds'
<1>1. UNCHANGED <<pc, creds, password, attempt>>
  BY DEF OthersAccount, BenchOthers
<1>2. CASE \E s \in FreshOf(Token, issued, 1), o \in BOOLEAN :
             /\ channels' = channels \union {[place |-> -s, ours |-> o, secret |-> s, active |-> TRUE]}
             /\ issued' = issued \union {s}
             /\ UNCHANGED <<device, used, logins, parts>>
  <2>1. PICK s \in Token \ issued, o \in BOOLEAN :
             /\ channels' = channels \union {[place |-> -s, ours |-> o, secret |-> s, active |-> TRUE]}
             /\ issued' = issued \union {s}
             /\ UNCHANGED <<device, used, logins, parts>>
    BY <1>2, FreshIsNew
  <2>2. \A c \in channels' : c.secret \in issued'
    BY <2>1 DEF BenchKinds
  <2> QED BY <1>1, <2>1, <2>2 DEF BenchKinds, Holds, Known
<1>3. CASE \E u \in DOMAIN logins :
             logins' = [w \in DOMAIN logins \ {u} |-> logins[w]] /\ UNCHANGED <<device, used, channels, parts, issued>>
  BY <1>1, <1>3 DEF BenchKinds, Holds, Known
<1>4. CASE \E lost \in {{"folder", "grant"}, {"gateway"}} : parts' = parts \ lost /\ UNCHANGED <<account, logins, issued>>
  BY <1>1, <1>4 DEF BenchKinds, Holds, Known, account
<1>5. CASE device' = "new" /\ UNCHANGED <<channels, used, logins, parts, issued>>
  BY <1>1, <1>5 DEF BenchKinds, Holds, Known
<1>6. CASE \E c \in channels : channels' = channels \ {c} /\ UNCHANGED <<device, used, logins, parts, issued>>
  BY <1>1, <1>6 DEF BenchKinds, Holds, Known
<1> QED BY <1>2, <1>3, <1>4, <1>5, <1>6 DEF OthersAccount, BenchOthers

LEMMA BenchActKinds == ASSUME BenchKinds, BenchAct PROVE BenchKinds'
BY BenchStartKinds, BenchLoginKinds, BenchChannelKinds, BenchRecordKinds, BenchPartKinds, BenchEndKinds,
   BenchOthersKinds
DEF BenchAct, Bench_Start, Bench_Steps, BenchSteps

------------------------------------------------------------------------------
(* The first uids that were not given out, and sets in an order *)

LEMMA FiniteImage ==
  ASSUME NEW S, IsFiniteSet(S), NEW f, DOMAIN f = S
  PROVE  IsFiniteSet({f[x] : x \in S})
<1> DEFINE T == {f[x] : x \in S}
           g == [x \in S |-> f[x]]
<1>1. g \in Surjection(S, T)
  BY DEF Surjection
<1> QED BY <1>1, FS_Surjection

LEMMA FewFresh ==
  ASSUME NEW S, S \subseteq Nat, NEW G, NEW n \in Nat
  PROVE  IsFiniteSet(FreshOf(S, G, n))
<1> DEFINE below(i) == {j \in S \ G : j < i}
           F == FreshOf(S, G, n)
           g == [i \in F |-> Cardinality(below(i))]
<1>1. \A i \in F : i \in Nat /\ i \in S \ G /\ Cardinality(below(i)) < n
  BY DEF FreshOf
<1>2. \A i \in F : IsFiniteSet(below(i))
  <2> TAKE i \in F
  <2>1. below(i) \in SUBSET (0 .. i)
    <3> SUFFICES ASSUME NEW j \in below(i) PROVE j \in 0 .. i
      OBVIOUS
    <3>1. j \in Nat /\ j < i /\ i \in Nat
      BY <1>1
    <3> QED BY <3>1
  <2>2. i \in Int
    <3> HIDE DEF F, below
    <3> QED BY <1>1
  <2>3. IsFiniteSet(0 .. i)
    BY <2>2, FS_Interval
  <2> HIDE DEF below
  <2> QED BY <2>1, <2>3, FS_Subset
<1>3. \A i \in F : Cardinality(below(i)) \in 0 .. (n - 1)
  <2> TAKE i \in F
  <2>1. Cardinality(below(i)) \in Nat
    BY <1>2, FS_CardinalityType
  <2> HIDE DEF below
  <2> QED BY <1>1, <2>1
<1>4. ASSUME NEW i \in F, NEW k \in F, i < k
      PROVE  Cardinality(below(i)) # Cardinality(below(k))
  <2>1. i \in Nat /\ k \in Nat /\ i \in S \ G
    BY <1>1
  <2>2. i \in below(k) /\ i \notin below(i)
    <3> HIDE DEF F
    <3> QED BY <1>4, <2>1
  <2>3. below(i) \subseteq below(k)
    <3> SUFFICES ASSUME NEW j \in below(i) PROVE j \in below(k)
      OBVIOUS
    <3>1. j \in Nat /\ j < i
      OBVIOUS
    <3> QED BY <1>4, <2>1, <3>1
  <2>4. IsFiniteSet(below(k)) /\ below(i) \in SUBSET below(k) /\ below(i) # below(k)
    BY <1>2, <2>2, <2>3
  <2> HIDE DEF below
  <2> QED BY <2>4, FS_Subset
<1>5. g \in Injection(F, 0 .. (n - 1))
  <2>1. g \in [F -> 0 .. (n - 1)]
    BY <1>3
  <2>2. ASSUME NEW i \in F, NEW k \in F, g[i] = g[k] PROVE i = k
    <3>1. i \in Nat /\ k \in Nat
      BY <1>1
    <3>2. ~(i < k) /\ ~(k < i)
      <4> HIDE DEF below
      <4> QED BY <1>4, <2>2
    <3> QED BY <3>1, <3>2
  <2> HIDE DEF g
  <2> QED BY <2>1, <2>2 DEF Injection, IsInjective
<1>6. IsFiniteSet(0 .. (n - 1))
  BY FS_Interval
<1> HIDE DEF g
<1> QED BY <1>5, <1>6, FS_Injection

LEMMA Ordering ==
  ASSUME NEW S, IsFiniteSet(S)
  PROVE  /\ SetToSeq(S) \in Seq(S) /\ Len(SetToSeq(S)) = Cardinality(S) /\ Cardinality(S) \in Nat
         /\ DOMAIN SetToSeq(S) = 1 .. Cardinality(S)
<1>1. Cardinality(S) \in Nat /\ ExistsBijection(1 .. Cardinality(S), S)
  BY FS_CardinalityType
<1>2. \E f \in [1 .. Cardinality(S) -> S] : IsInjective(f)
  BY <1>1 DEF ExistsBijection, Bijection, Injection
<1>3. SetToSeq(S) \in [1 .. Cardinality(S) -> S]
  BY <1>2 DEF SetToSeq
<1>4. SetToSeq(S) \in Seq(S)
  BY <1>1, <1>3
<1> QED BY <1>1, <1>3, <1>4

------------------------------------------------------------------------------
(* Types of the service's requests and records *)

Manifests == Orders \union {{}}

Requests ==
  [kind : {"list", "import", "edit", "delete"}, uid : SvcUid \union {0}, body : SvcBody \union {Keep},
   rows : Manifests]

RecordsOK(s) == \A u \in DOMAIN s : s[u] \in D!Records

SvcKinds ==
  /\ DOMAIN project \subseteq born /\ born \subseteq SvcUid /\ IsFiniteSet(DOMAIN project)
  /\ RecordsOK(project)
  /\ queue \in Seq(Requests) /\ commands \in Seq(Requests) /\ order \in Manifests
  /\ DOMAIN reply = {"status", "found"}
  /\ DOMAIN reply.found \subseteq SvcUid /\ IsFiniteSet(DOMAIN reply.found)
  /\ mine \in 0 .. Len(queue) /\ waits \in 0 .. SvcPatience
  /\ pc = "svc-poll" => (mine = 0 <=> reply # None)
  /\ pc # "svc-poll" => mine = 0 /\ reply = None
  /\ pc \in SvcPc <=> commands # <<>>

LEMMA ManifestOK ==
  ASSUME NEW v \in Manifests
  PROVE  v \subseteq D!Rows /\ IsFiniteSet(v)
BY ServiceApplyAssumption, FS_EmptySet DEF Manifests

LEMMA ListOK == List \in Requests
BY DEF List, Requests, Manifests

LEMMA NothingFound == DOMAIN None = {"status", "found"} /\ None.found = [u \in {} |-> u] /\ None.status = "none"
BY DEF None

LEMMA MatchOK ==
  ASSUME NEW s, DOMAIN s \subseteq SvcUid, NEW f \in D!TitleIndexes(s), NEW row \in D!Rows
  PROVE  D!Match(s, f, row) \in SvcUid \union {0}
<1>1. f \in [SvcTitle -> SvcUid \union {0}] /\ row.title \in SvcTitle
  BY DEF D!TitleIndexes, D!Rows
<1>2. D!Claimants(s, row.ref) \subseteq SvcUid
  BY DEF D!Claimants, D!Live
<1> QED BY <1>1, <1>2 DEF D!Match

LEMMA FiniteWrites ==
  ASSUME order \in Manifests, NEW s, NEW f
  PROVE  IsFiniteSet(Writes(s, f))
<1> DEFINE C == {D!CreateOf(row) : row \in D!ToCreate(s, f, order)}
           U == {D!UpdateOf(s, f, row) : row \in D!ToUpdate(s, f, order)}
<1>1. Writes(s, f) = C \union U
  BY DEF Writes, D!Writes, D!ToAdopt
<1>2. IsFiniteSet(D!ToCreate(s, f, order)) /\ IsFiniteSet(D!ToUpdate(s, f, order))
  <2>1. D!ToCreate(s, f, order) \in SUBSET order /\ D!ToUpdate(s, f, order) \in SUBSET order
    BY DEF D!ToCreate, D!ToUpdate, D!Matching
  <2> QED BY <2>1, ManifestOK, FS_Subset
<1>3. IsFiniteSet(C)
  <2> DEFINE S == D!ToCreate(s, f, order)
             g == [row \in S |-> D!CreateOf(row)]
  <2>1. IsFiniteSet({g[x] : x \in S})
    <3> HIDE DEF S
    <3>1. DOMAIN g = S /\ IsFiniteSet(S)
      BY <1>2 DEF S
    <3> HIDE DEF g
    <3> QED BY <3>1, FiniteImage
  <2>2. {g[x] : x \in S} = C
    OBVIOUS
  <2> QED BY <2>1, <2>2
<1>4. IsFiniteSet(U)
  <2> DEFINE S == D!ToUpdate(s, f, order)
             g == [row \in S |-> D!UpdateOf(s, f, row)]
  <2>1. IsFiniteSet({g[x] : x \in S})
    <3> HIDE DEF S
    <3>1. DOMAIN g = S /\ IsFiniteSet(S)
      BY <1>2 DEF S
    <3> HIDE DEF g
    <3> QED BY <3>1, FiniteImage
  <2>2. {g[x] : x \in S} = U
    OBVIOUS
  <2> QED BY <2>1, <2>2
<1> HIDE DEF C, U
<1> QED BY <1>1, <1>3, <1>4, FS_Union

LEMMA CommandOK ==
  ASSUME order \in Manifests, NEW s, DOMAIN s \subseteq SvcUid, NEW f \in D!TitleIndexes(s),
         NEW c \in Writes(s, f)
  PROVE  Command(c) \in Requests
<1>1. CASE c.kind = "create"
  BY <1>1 DEF Command, List, Requests
<1>2. CASE c.kind # "create"
  <2>1. PICK row \in D!ToUpdate(s, f, order) : c = D!UpdateOf(s, f, row)
    BY <1>2 DEF Writes, D!Writes, D!ToAdopt, D!CreateOf
  <2>2. row \in D!Rows
    BY <2>1, ManifestOK DEF D!ToUpdate, D!Matching
  <2>3. c.uid \in SvcUid \union {0} /\ c.body \in SvcBody \union {Keep}
    BY <2>1, <2>2, MatchOK DEF D!UpdateOf, D!Rows
  <2>4. Command(c) = [[[List EXCEPT !.kind = "edit"] EXCEPT !.uid = c.uid] EXCEPT !.body = c.body]
    BY <1>2 DEF Command
  <2> QED BY <2>3, <2>4 DEF List, Requests, Manifests
<1> QED BY <1>1, <1>2

LEMMA ErasedOK ==
  ASSUME NEW s, DOMAIN s \subseteq SvcUid, IsFiniteSet(DOMAIN s), NEW f
  PROVE  /\ IsFiniteSet(Erased(s, f))
         /\ \A c \in Erased(s, f) : Removal(c) \in Requests
<1> DEFINE S == D!Deletes(s, f, order, FALSE, Project, prune)
           g == [u \in S |-> [kind |-> "delete", uid |-> u]]
<1>1. S \in SUBSET DOMAIN s
  BY DEF D!Deletes, D!Orphans, D!Live
<1>2. IsFiniteSet(S)
  <2> HIDE DEF S
  <2> QED BY <1>1, FS_Subset
<1>3. {g[u] : u \in S} = Erased(s, f)
  BY DEF Erased
<1>4. IsFiniteSet(Erased(s, f))
  <2> HIDE DEF S
  <2>1. DOMAIN g = S
    OBVIOUS
  <2> HIDE DEF g
  <2> QED BY <1>2, <1>3, <2>1, FiniteImage
<1>5. ASSUME NEW c \in Erased(s, f) PROVE Removal(c) \in Requests
  <2>1. c.uid \in SvcUid
    <3>1. PICK u \in S : c = [kind |-> "delete", uid |-> u]
      BY <1>5 DEF Erased
    <3>2. u \in SvcUid
      <4> HIDE DEF S
      <4> QED BY <1>1
    <3> QED BY <3>1, <3>2
  <2>2. Removal(c) = [[List EXCEPT !.kind = "delete"] EXCEPT !.uid = c.uid]
    BY DEF Removal
  <2> QED BY <2>1, <2>2 DEF List, Requests, Manifests
<1> QED BY <1>4, <1>5

LEMMA LengthOf ==
  ASSUME NEW S, NEW q \in Seq(S), NEW n \in Nat, DOMAIN q = 1 .. n
  PROVE  Len(q) = n
<1>1. Len(q) \in Nat /\ DOMAIN q = 1 .. Len(q)
  OBVIOUS
<1>2. Len(q) \in 1 .. n \/ Len(q) = 0
  BY <1>1
<1>3. n \in 1 .. Len(q) \/ n = 0
  BY <1>1
<1> QED BY <1>1, <1>2, <1>3

LEMMA Joined ==
  ASSUME NEW S, NEW p \in Seq(S), NEW q \in Seq(S)
  PROVE  p \o q \in Seq(S) /\ Len(p \o q) = Len(p) + Len(q)
OBVIOUS

LEMMA ListingsOK ==
  ASSUME order \in Manifests, NEW s, DOMAIN s \subseteq SvcUid, IsFiniteSet(DOMAIN s),
         NEW f \in D!TitleIndexes(s), ~Refuses(s, f), NEW cs \in Listings(s, f)
  PROVE  cs \in Seq(Requests) /\ cs # <<>>
<1> DEFINE writes == Writes(s, f)
           n == Cardinality(writes)
           removals == SetToSeq(Erased(s, f))
           m == Cardinality(Erased(s, f))
<1>1. PICK w \in [1 .. n -> writes] :
        cs = [i \in DOMAIN w |-> Command(w[i])] \o [i \in DOMAIN removals |-> Removal(removals[i])]
  BY DEF Listings
<1> DEFINE a == [i \in DOMAIN w |-> Command(w[i])]
           b == [i \in DOMAIN removals |-> Removal(removals[i])]
<1>2. IsFiniteSet(writes) /\ n \in Nat
  BY FiniteWrites, FS_CardinalityType
<1>3. IsFiniteSet(Erased(s, f)) /\ m \in Nat /\ removals \in Seq(Erased(s, f)) /\ DOMAIN removals = 1 .. m
  BY ErasedOK, Ordering
<1>4. a \in [1 .. n -> Requests]
  BY CommandOK
<1>5. b \in [1 .. m -> Requests]
  <2>1. \A i \in 1 .. m : removals[i] \in Erased(s, f)
    <3> HIDE DEF removals, m
    <3> QED BY <1>3
  <2> HIDE DEF removals, m
  <2> QED BY <1>3, <2>1, ErasedOK
<1>6. n > 0 \/ m > 0
  <2>1. writes # {} \/ Erased(s, f) # {}
    BY DEF Refuses
  <2> QED BY <1>2, <1>3, <2>1, FS_EmptySet
<1> HIDE DEF a, b, n, m
<1>7. a \in Seq(Requests) /\ Len(a) = n /\ b \in Seq(Requests) /\ Len(b) = m
  <2>1. a \in Seq(Requests) /\ DOMAIN a = 1 .. n
    BY <1>2, <1>4
  <2>2. b \in Seq(Requests) /\ DOMAIN b = 1 .. m
    BY <1>3, <1>5
  <2>3. n \in Nat /\ m \in Nat
    BY <1>2, <1>3
  <2> QED BY <2>1, <2>2, <2>3, LengthOf
<1>8. cs = a \o b
  BY <1>1 DEF a, b
<1>9. cs \in Seq(Requests) /\ Len(cs) = n + m
  BY <1>7, <1>8, Joined
<1> QED BY <1>2, <1>3, <1>6, <1>9

LEMMA SvcStartKinds == ASSUME SvcKinds, SvcStart PROVE SvcKinds'
<1>1. /\ pc = "idle" /\ pc' = "svc-post" /\ commands' = <<List>> /\ order' \in Orders
      /\ UNCHANGED <<project, born, queue, mine, reply, waits>>
  BY DEF SvcStart
<1>2. <<List>> \in Seq(Requests) /\ <<List>> # <<>>
  BY ListOK
<1> QED BY <1>1, <1>2 DEF SvcKinds, RecordsOK, Manifests, SvcPc

LEMMA SvcIdleKinds ==
  ASSUME SvcKinds, SvcIdle, queue' \in Seq(Requests)
  PROVE  SvcKinds'
<1>1. /\ pc' = "idle" /\ mine' = 0 /\ reply' = None /\ order' = {} /\ commands' = <<>> /\ waits' = 0
      /\ UNCHANGED <<project, born>>
  BY DEF SvcIdle
<1>2. <<>> \in Seq(Requests) /\ IsFiniteSet(DOMAIN None.found) /\ DOMAIN None.found \subseteq SvcUid
  BY FS_EmptySet, NothingFound
<1>3. Len(queue') \in Nat /\ SvcPatience \in Nat
  BY ServiceApplyAssumption
<1> QED BY <1>1, <1>2, <1>3, NothingFound DEF SvcKinds, RecordsOK, Manifests, SvcPc

LEMMA SvcPostKinds == ASSUME SvcKinds, SvcPost PROVE SvcKinds'
<1>1. /\ pc = "svc-post" /\ pc' = "svc-poll" /\ queue' = Append(queue, Head(commands))
      /\ mine' = Len(queue) + 1 /\ waits' = 0
      /\ UNCHANGED <<project, born, reply, order, commands>>
  BY DEF SvcPost
<1>2. Head(commands) \in Requests /\ queue \in Seq(Requests)
  BY <1>1 DEF SvcKinds, SvcPc
<1>3. queue' \in Seq(Requests) /\ Len(queue') = Len(queue) + 1 /\ Len(queue) \in Nat
  BY <1>1, <1>2
<1>4. reply = None /\ 0 \in 0 .. SvcPatience
  BY <1>1, ServiceApplyAssumption DEF SvcKinds
<1> QED BY <1>1, <1>3, <1>4 DEF SvcKinds, RecordsOK, SvcPc

LEMMA SvcPollKinds == ASSUME SvcKinds, SvcPoll PROVE SvcKinds'
<1>1. UNCHANGED <<pc, project, born, queue, mine, reply, order, commands>> /\ waits' \in 0 .. SvcPatience
  BY ServiceApplyAssumption DEF SvcPoll, process, SvcKinds
<1> QED BY <1>1 DEF SvcKinds, RecordsOK

LEMMA SvcThrottledKinds == ASSUME SvcKinds, SvcThrottled PROVE SvcKinds'
<1>1. CASE UNCHANGED <<pc, queue, project, born, mine, reply, order, commands, waits>>
  BY <1>1 DEF SvcKinds, RecordsOK
<1>2. CASE SvcIdle /\ UNCHANGED queue
  BY <1>2, SvcIdleKinds DEF SvcKinds
<1> QED BY <1>1, <1>2 DEF SvcThrottled

LEMMA SvcEndKinds ==
  ASSUME SvcKinds, SvcFinish \/ SvcGiveUp \/ (SvcStop /\ UNCHANGED queue)
  PROVE  SvcKinds'
BY SvcIdleKinds DEF SvcFinish, SvcGiveUp, SvcStop, SvcKinds

\* Back to the posting of a command
LEMMA PostAgain ==
  ASSUME SvcKinds, pc' = "svc-post", reply' = None, mine' = 0, waits' = 0,
         commands' \in Seq(Requests), commands' # <<>>, UNCHANGED <<project, born, queue, order>>
  PROVE  SvcKinds'
<1>1. IsFiniteSet(DOMAIN None.found) /\ DOMAIN None.found \subseteq SvcUid
  BY FS_EmptySet, NothingFound
<1>2. Len(queue) \in Nat /\ 0 \in 0 .. SvcPatience
  BY ServiceApplyAssumption DEF SvcKinds
<1> QED BY <1>1, <1>2, NothingFound DEF SvcKinds, RecordsOK, SvcPc

LEMMA SvcPlanKinds == ASSUME SvcKinds, SvcPlan PROVE SvcKinds'
<1>1. PICK f \in D!TitleIndexes(reply.found) :
        ~Refuses(reply.found, f) /\ commands' \in Listings(reply.found, f)
  BY DEF SvcPlan
<1>2. commands' \in Seq(Requests) /\ commands' # <<>>
  BY <1>1, ListingsOK DEF SvcKinds
<1> QED BY <1>2, PostAgain DEF SvcPlan

LEMMA SvcNextKinds == ASSUME SvcKinds, SvcNext PROVE SvcKinds'
<1>1. commands' = Tail(commands) /\ Len(commands) > 1 /\ commands \in Seq(Requests)
  BY DEF SvcNext, SvcKinds
<1>2. commands' \in Seq(Requests) /\ Len(commands') = Len(commands) - 1 /\ Len(commands) \in Nat
  BY <1>1
<1>3. commands' # <<>>
  BY <1>1, <1>2
<1> QED BY <1>2, <1>3, PostAgain DEF SvcNext

------------------------------------------------------------------------------
(* The service and other people *)

StoreOK ==
  /\ DOMAIN project \subseteq born /\ born \subseteq SvcUid /\ IsFiniteSet(DOMAIN project)
  /\ RecordsOK(project)

\* The n-th of the new uids, for the n-th of the rows
LEMMA Numbered ==
  ASSUME NEW S, S \subseteq Nat, IsFiniteSet(S), NEW u \in S
  PROVE  Cardinality({w \in S : w <= u}) \in 1 .. Cardinality(S)
<1> DEFINE low == {w \in S : w <= u}
<1>1. low \in SUBSET S /\ u \in low
  <2>1. u \in Nat
    OBVIOUS
  <2> QED BY <2>1
<1> HIDE DEF low
<1>2. IsFiniteSet(low) /\ Cardinality(low) <= Cardinality(S)
  BY <1>1, FS_Subset
<1>3. Cardinality(low) \in Nat /\ Cardinality(S) \in Nat
  BY <1>2, FS_CardinalityType
<1>4. Cardinality(low) # 0
  BY <1>1, <1>2, FS_EmptySet
<1>5. Cardinality(low) \in 1 .. Cardinality(S)
  BY <1>2, <1>3, <1>4
<1> QED BY <1>5 DEF low

LEMMA AllInOrder ==
  ASSUME NEW S, IsFiniteSet(S), NEW x \in S
  PROVE  \E i \in DOMAIN SetToSeq(S) : SetToSeq(S)[i] = x
<1>1. Cardinality(S) \in Nat /\ ExistsBijection(1 .. Cardinality(S), S)
  BY FS_CardinalityType
<1>2. \E f \in [1 .. Cardinality(S) -> S] : IsInjective(f)
  BY <1>1 DEF ExistsBijection, Bijection, Injection
<1>3. SetToSeq(S) \in [1 .. Cardinality(S) -> S] /\ IsInjective(SetToSeq(S))
  BY <1>2 DEF SetToSeq
<1> DEFINE f == SetToSeq(S)
           N == 1 .. Cardinality(S)
<1>4. f \in Injection(N, S)
  BY <1>3 DEF Injection
<1>5. IsFiniteSet(N) /\ Cardinality(N) = Cardinality(S)
  BY <1>1, FS_Interval
<1> HIDE DEF f
<1>6. f \in Surjection(N, S)
  <2> HIDE DEF N
  <2> QED BY <1>4, <1>5, FS_Injection
<1> QED BY <1>6 DEF Surjection, f

LEMMA AllNumbered ==
  ASSUME NEW S, S \subseteq Nat, IsFiniteSet(S), NEW i \in 1 .. Cardinality(S)
  PROVE  \E u \in S : Cardinality({w \in S : w <= u}) = i
<1> DEFINE low(u) == {w \in S : w <= u}
           nth == [u \in S |-> Cardinality(low(u))]
           N == 1 .. Cardinality(S)
<1>1. nth \in [S -> N]
  BY Numbered
<1>2. ASSUME NEW u \in S, NEW w \in S, u < w PROVE Cardinality(low(u)) # Cardinality(low(w))
  <2>1. u \in Nat /\ w \in Nat
    OBVIOUS
  <2>2. low(u) \in SUBSET low(w)
    <3> SUFFICES ASSUME NEW x \in low(u) PROVE x \in low(w)
      OBVIOUS
    <3>1. x \in Nat /\ x \in S /\ x <= u
      OBVIOUS
    <3> QED BY <1>2, <2>1, <3>1
  <2>3. w \in low(w) /\ w \notin low(u)
    BY <1>2, <2>1
  <2>4. IsFiniteSet(low(w))
    <3>1. low(w) \in SUBSET S
      OBVIOUS
    <3> HIDE DEF low
    <3> QED BY <3>1, FS_Subset
  <2> HIDE DEF low
  <2> QED BY <2>2, <2>3, <2>4, FS_Subset
<1>3. \A u, w \in S : nth[u] = nth[w] => u = w
  <2> SUFFICES ASSUME NEW u \in S, NEW w \in S, nth[u] = nth[w] PROVE u = w
    OBVIOUS
  <2>1. u \in Nat /\ w \in Nat
    OBVIOUS
  <2>2. Cardinality(low(u)) = Cardinality(low(w))
    OBVIOUS
  <2> HIDE DEF low, nth
  <2>3. ~(u < w) /\ ~(w < u)
    BY <1>2, <2>2
  <2> QED BY <2>1, <2>3
<1>4. \A u \in S : nth[u] = Cardinality({w \in S : w <= u})
  OBVIOUS
<1> HIDE DEF nth
<1>5. nth \in Injection(S, N)
  BY <1>1, <1>3 DEF Injection, IsInjective
<1>6. IsFiniteSet(N) /\ Cardinality(N) = Cardinality(S)
  <2>1. Cardinality(S) \in Nat
    BY FS_CardinalityType
  <2> QED BY <2>1, FS_Interval
<1>7. nth \in Surjection(S, N)
  <2> HIDE DEF N
  <2> QED BY <1>5, <1>6, FS_Injection
<1>8. \E u \in S : nth[u] = i
  BY <1>7 DEF Surjection
<1> QED BY <1>4, <1>8

\* An import adds records of its rows, and one for each row whose title is nowhere
LEMMA ImportMakes ==
  ASSUME StoreOK, NEW c \in Requests, c.kind = "import", Done(c)
  PROVE  \E made :
           /\ DOMAIN made \subseteq SvcUid \ born /\ IsFiniteSet(DOMAIN made)
           /\ \A u \in DOMAIN made : \E r \in c.rows :
                made[u] = [title |-> r.title, body |-> r.body, marker |-> D!Unmarked]
           /\ \A r \in c.rows : D!Titled(project, r.title) = {} =>
                \E u \in DOMAIN made : made[u].title = r.title /\ made[u].body = r.body
           /\ born' = born \union DOMAIN made
           /\ DOMAIN project' = DOMAIN project \union DOMAIN made
           /\ \A u \in DOMAIN project' : project'[u] = IF u \in DOMAIN made THEN made[u] ELSE project[u]
<1>1. PICK all \in BOOLEAN :
        LET rs == SetToSeq(Imported(c.rows, all))
            new == FreshOf(SvcUid, born, Len(rs))
            nth(u) == Cardinality({w \in new : w <= u})
        IN /\ Cardinality(new) = Len(rs)
           /\ project' = [u \in DOMAIN project \union new |->
                            IF u \in new
                            THEN [title |-> rs[nth(u)].title, body |-> rs[nth(u)].body,
                                  marker |-> D!Unmarked]
                            ELSE project[u]]
           /\ born' = born \union new
  BY Zenon DEF Done
<1> DEFINE I == Imported(c.rows, all)
           rs == SetToSeq(I)
           new == FreshOf(SvcUid, born, Len(rs))
           nth(u) == Cardinality({w \in new : w <= u})
           record(u) == [title |-> rs[nth(u)].title, body |-> rs[nth(u)].body, marker |-> D!Unmarked]
           made == [u \in new |-> record(u)]
<1>2. /\ Cardinality(new) = Len(rs)
      /\ project' = [u \in DOMAIN project \union new |-> IF u \in new THEN record(u) ELSE project[u]]
      /\ born' = born \union new
  BY <1>1, Zenon
<1>3. IsFiniteSet(c.rows)
  <2>1. c.rows \in Manifests
    BY DEF Requests
  <2> QED BY <2>1, ManifestOK
<1>4. I \in SUBSET c.rows
  BY DEF Imported
<1>5. \A r \in c.rows : D!Titled(project, r.title) = {} => r \in I
  BY DEF Imported, D!Titled, D!Live
<1>6. IsFiniteSet(I)
  <2> HIDE DEF I
  <2> QED BY <1>3, <1>4, FS_Subset
<1> HIDE DEF I
<1>7. /\ rs \in Seq(I) /\ Len(rs) = Cardinality(I) /\ Cardinality(I) \in Nat
      /\ DOMAIN rs = 1 .. Len(rs)
  BY <1>6, Ordering
<1>8. \A r \in I : \E i \in DOMAIN rs : rs[i] = r
  BY <1>6, AllInOrder
<1> HIDE DEF rs
<1>9. IsFiniteSet(new) /\ new \subseteq SvcUid \ born /\ new \subseteq Nat
  <2>1. SvcUid \subseteq Nat /\ Len(rs) \in Nat
    BY <1>7, ServiceApplyAssumption
  <2>2. new \subseteq SvcUid \ born
    BY FreshIsNew
  <2>3. IsFiniteSet(new)
    BY <2>1, FewFresh
  <2> QED BY <2>1, <2>2, <2>3
<1> HIDE DEF new
<1>10. \A u \in new : nth(u) \in 1 .. Len(rs)
  BY <1>2, <1>9, Numbered
<1>11. \A i \in 1 .. Len(rs) : \E u \in new : nth(u) = i
  BY <1>2, <1>9, AllNumbered
<1> HIDE DEF nth
<1>12. \A u \in new : rs[nth(u)] \in c.rows
  BY <1>4, <1>7, <1>10
<1>13. \A r \in I : \E u \in new : rs[nth(u)] = r
  BY <1>7, <1>8, <1>11
<1>14. DOMAIN made = new /\ \A u \in new : made[u] = record(u)
  OBVIOUS
<1>15. \A u \in DOMAIN made : \E r \in c.rows :
         made[u] = [title |-> r.title, body |-> r.body, marker |-> D!Unmarked]
  BY <1>12, <1>14
<1>16. \A r \in c.rows : D!Titled(project, r.title) = {} =>
         \E u \in DOMAIN made : made[u].title = r.title /\ made[u].body = r.body
  <2> SUFFICES ASSUME NEW r \in c.rows, D!Titled(project, r.title) = {}
               PROVE  \E u \in new : made[u].title = r.title /\ made[u].body = r.body
    BY <1>14
  <2>1. PICK u \in new : rs[nth(u)] = r
    BY <1>5, <1>13
  <2>2. record(u).title = r.title /\ record(u).body = r.body
    BY <2>1
  <2> QED BY <1>14, <2>2
<1>17. /\ DOMAIN project' = DOMAIN project \union new
       /\ \A u \in DOMAIN project' : project'[u] = IF u \in new THEN record(u) ELSE project[u]
  BY <1>2
<1> HIDE DEF record
<1>18. \A u \in DOMAIN project' : project'[u] = IF u \in new THEN made[u] ELSE project[u]
  BY <1>14, <1>17
<1> HIDE DEF made
<1> QED BY <1>2, <1>9, <1>14, <1>15, <1>16, <1>17, <1>18

LEMMA ImportStores ==
  ASSUME StoreOK, NEW c \in Requests, c.kind = "import", Done(c)
  PROVE  StoreOK'
<1>1. PICK made :
        /\ DOMAIN made \subseteq SvcUid \ born /\ IsFiniteSet(DOMAIN made)
        /\ \A u \in DOMAIN made : \E r \in c.rows :
             made[u] = [title |-> r.title, body |-> r.body, marker |-> D!Unmarked]
        /\ \A r \in c.rows : D!Titled(project, r.title) = {} =>
             \E u \in DOMAIN made : made[u].title = r.title /\ made[u].body = r.body
        /\ born' = born \union DOMAIN made
        /\ DOMAIN project' = DOMAIN project \union DOMAIN made
        /\ \A u \in DOMAIN project' : project'[u] = IF u \in DOMAIN made THEN made[u] ELSE project[u]
  BY ImportMakes
<1>2. c.rows \subseteq D!Rows
  <2>1. c.rows \in Manifests
    BY DEF Requests
  <2> QED BY <2>1, ManifestOK
<1>3. D!Unmarked \in D!Markers
  BY DEF D!Unmarked, D!Markers, D!Managers
<1>4. \A u \in DOMAIN made : made[u] \in D!Records
  BY <1>1, <1>2, <1>3 DEF D!Rows, D!Records
<1>5. IsFiniteSet(DOMAIN project')
  <2>1. IsFiniteSet(DOMAIN project) /\ IsFiniteSet(DOMAIN made)
    BY <1>1 DEF StoreOK
  <2>2. IsFiniteSet(DOMAIN project \union DOMAIN made)
    BY <2>1, FS_Union
  <2> QED BY <1>1, <2>2
<1>6. \A u \in DOMAIN project' : project'[u] \in D!Records
  BY <1>1, <1>4 DEF StoreOK, RecordsOK
<1> QED BY <1>1, <1>5, <1>6 DEF StoreOK, RecordsOK

LEMMA Rewritten ==
  ASSUME NEW r \in D!Records, NEW b \in SvcBody
  PROVE  [r EXCEPT !.body = b] \in D!Records
BY DEF D!Records

LEMMA FewerStored ==
  ASSUME StoreOK, NEW u, project' = [w \in DOMAIN project \ {u} |-> project[w]], UNCHANGED born
  PROVE  StoreOK'
<1>1. IsFiniteSet(DOMAIN project \ {u}) /\ DOMAIN project' = DOMAIN project \ {u}
  BY FS_RemoveElement DEF StoreOK
<1> QED BY <1>1 DEF StoreOK, RecordsOK

LEMMA ChangedStored ==
  ASSUME StoreOK, NEW u \in DOMAIN project, NEW r \in D!Records, project' = [project EXCEPT ![u] = r],
         UNCHANGED born
  PROVE  StoreOK'
<1>1. DOMAIN project' = DOMAIN project
  OBVIOUS
<1> QED BY <1>1 DEF StoreOK, RecordsOK

LEMMA DoneStores == ASSUME StoreOK, NEW c \in Requests, Done(c) PROVE StoreOK'
<1>1. CASE c.kind = "import"
  BY <1>1, ImportStores
<1>2. CASE c.kind = "edit"
  <2>1. c.uid \in DOMAIN project /\ UNCHANGED born
        /\ project' = [project EXCEPT ![c.uid].body = IF c.body = Keep THEN @ ELSE c.body]
    BY <1>2 DEF Done
  <2>2. project[c.uid] \in D!Records
    BY <2>1 DEF StoreOK, RecordsOK
  <2>3. PICK b \in SvcBody : project' = [project EXCEPT ![c.uid] = [project[c.uid] EXCEPT !.body = b]]
    <3>1. (IF c.body = Keep THEN project[c.uid].body ELSE c.body) \in SvcBody
      BY <2>2 DEF Requests, D!Records
    <3> QED BY <2>1, <3>1
  <2> QED BY <2>1, <2>2, <2>3, Rewritten, ChangedStored
<1>3. CASE c.kind = "delete"
  BY <1>3, FewerStored DEF Done
<1>4. CASE c.kind = "list"
  BY <1>4 DEF Done, StoreOK, RecordsOK
<1> QED BY <1>1, <1>2, <1>3, <1>4 DEF Requests

LEMMA ServeKinds == ASSUME SvcKinds, Serve PROVE SvcKinds'
<1>1. queue \in Seq(Requests) /\ queue # <<>> /\ queue' = Tail(queue)
  BY DEF Serve, SvcKinds
<1>2. /\ Head(queue) \in Requests /\ queue' \in Seq(Requests) /\ Len(queue') = Len(queue) - 1
      /\ Len(queue) \in Nat
  BY <1>1
<1>3. StoreOK'
  <2>1. StoreOK
    BY DEF SvcKinds, StoreOK
  <2>2. CASE Done(Head(queue))
    BY <1>2, <2>1, <2>2, DoneStores
  <2>3. CASE UNCHANGED <<project, born>>
    BY <2>1, <2>3 DEF StoreOK, RecordsOK
  <2> QED BY <2>2, <2>3 DEF Serve
<1>4. UNCHANGED <<pc, commands, order, waits>> /\ mine' = IF mine > 0 THEN mine - 1 ELSE 0
  BY DEF Serve, process
<1>5. PICK status \in {"done", "failed"} : Answer(status)
  BY DEF Serve
<1> DEFINE found == IF Head(queue).kind = "list" THEN project ELSE None.found
<1>6. IF mine = 1 THEN reply' = [status |-> status, found |-> found] ELSE reply' = reply
  BY <1>5 DEF Answer
<1>7. DOMAIN found \subseteq SvcUid /\ IsFiniteSet(DOMAIN found)
  BY FS_EmptySet, NothingFound DEF SvcKinds
<1> HIDE DEF found
<1>8. /\ DOMAIN reply' = {"status", "found"}
      /\ DOMAIN reply'.found \subseteq SvcUid /\ IsFiniteSet(DOMAIN reply'.found)
  BY <1>6, <1>7 DEF SvcKinds
<1>9. mine' \in 0 .. Len(queue')
  BY <1>2, <1>4 DEF SvcKinds
<1>10. pc = "svc-poll" => (mine' = 0 <=> reply' # None)
  <2> SUFFICES ASSUME pc = "svc-poll" PROVE mine' = 0 <=> reply' # None
    OBVIOUS
  <2>1. mine \in Nat /\ (mine = 0 <=> reply # None)
    BY DEF SvcKinds
  <2>2. CASE mine = 1
    <3>1. reply'.status = status
      BY <1>6, <2>2
    <3>2. reply' # None
      BY <3>1, NothingFound
    <3> QED BY <1>4, <2>2, <3>2
  <2>3. CASE mine # 1
    BY <1>4, <1>6, <2>1, <2>3
  <2> QED BY <2>2, <2>3
<1>11. pc # "svc-poll" => mine' = 0 /\ reply' = None
  BY <1>4, <1>6 DEF SvcKinds
<1> QED BY <1>2, <1>3, <1>4, <1>8, <1>9, <1>10, <1>11 DEF SvcKinds, StoreOK

LEMMA SvcOthersKinds == ASSUME SvcKinds, SvcOthers, UNCHANGED pc PROVE SvcKinds'
<1>1. UNCHANGED <<born, queue, commands, order, reply, mine, waits>>
  BY DEF SvcOthers, errand
<1>2. StoreOK
  BY DEF SvcKinds, StoreOK
<1>3. CASE \E u \in DOMAIN project, b \in SvcBody : project' = [project EXCEPT ![u].body = b]
  <2>1. PICK u \in DOMAIN project, b \in SvcBody : project' = [project EXCEPT ![u] = [project[u] EXCEPT !.body = b]]
    BY <1>3
  <2>2. [project[u] EXCEPT !.body = b] \in D!Records
    BY <1>2, Rewritten DEF StoreOK, RecordsOK
  <2>3. StoreOK'
    BY <1>1, <1>2, <2>1, <2>2, ChangedStored
  <2> QED BY <1>1, <2>3 DEF SvcKinds, StoreOK
<1>4. CASE \E u \in DOMAIN project : project' = [w \in DOMAIN project \ {u} |-> project[w]]
  <2>1. StoreOK'
    BY <1>1, <1>2, <1>4, FewerStored
  <2> QED BY <1>1, <2>1 DEF SvcKinds, StoreOK
<1>5. CASE \E u \in DOMAIN project, v \in Orders : \E r \in v :
             project' = [project EXCEPT ![u].marker = D!EncodeMarker(r.ref, Project)]
  <2>1. PICK u \in DOMAIN project, v \in Orders : \E r \in v :
          project' = [project EXCEPT ![u].marker = D!EncodeMarker(r.ref, Project)]
    BY <1>5
  <2>2. PICK r \in v : project' = [project EXCEPT ![u] = [project[u] EXCEPT !.marker = D!EncodeMarker(r.ref, Project)]]
    BY <2>1
  <2>3. r \in D!Rows
    BY <2>2, ServiceApplyAssumption
  <2>4. D!EncodeMarker(r.ref, Project) \in D!Markers
    BY <2>3 DEF D!EncodeMarker, D!Markers, D!Managers, D!Rows
  <2>5. [project[u] EXCEPT !.marker = D!EncodeMarker(r.ref, Project)] \in D!Records
    BY <1>2, <2>4 DEF StoreOK, RecordsOK, D!Records
  <2>6. StoreOK'
    BY <1>1, <1>2, <2>2, <2>5, ChangedStored
  <2> QED BY <1>1, <2>6 DEF SvcKinds, StoreOK
<1> QED BY <1>3, <1>4, <1>5 DEF SvcOthers

LEMMA ServiceActKinds == ASSUME SvcKinds, ServiceAct PROVE SvcKinds'
BY SvcStartKinds, SvcPostKinds, SvcThrottledKinds, SvcPollKinds, SvcPlanKinds, SvcNextKinds, SvcEndKinds,
   ServeKinds, SvcOthersKinds
DEF ServiceAct, Service_Start, Service_Steps, Service_Works, OthersRecord

------------------------------------------------------------------------------
(* All types together *)

LEMMA CompaniesCount ==
  ASSUME CompaniesAct
  PROVE  UNCHANGED mishaps \/ Mishap \/ \E again \in BOOLEAN : Twice(again)
BY DEF CompaniesAct, Companies_Plan, Companies_Look, Companies_Add, Companies_Edit, Companies_Remove,
   Companies_Finish, Companies_Refuse, OthersCompany, MspPlan, MspLook, MspAdd, MspEdit, MspRemove,
   MspFinish, MspRefuse

LEMMA AppsCount ==
  ASSUME AppsAct
  PROVE  UNCHANGED mishaps \/ Mishap \/ \E again \in BOOLEAN : Twice(again)
BY DEF AppsAct, Apps_Plan, Apps_Rename, Apps_Look, Apps_Create, Apps_Mark, Apps_Reshare, Apps_Delete,
   Apps_Finish, Apps_Refuse, OthersApp, KsmPlan, KsmRename, KsmLook, KsmCreate, KsmMark, KsmReshare,
   KsmDelete, KsmFinish, KsmRefuse

LEMMA BootCounts ==
  ASSUME BootAct
  PROVE  UNCHANGED mishaps \/ Mishap
BY DEF BootAct, Boot_Start, Boot_Steps, Learn, BootStart, BootLookApp, BootAddApp, BootShare, BootLookDir,
   BootAddDir, BootShareDir, BootToken, BootRedeem, BootFinish, BootPoll, BootGiveUp, Propagate, process

LEMMA ServiceCounts ==
  ASSUME ServiceAct
  PROVE  UNCHANGED mishaps \/ Mishap
BY DEF ServiceAct, Service_Start, Service_Steps, Service_Works, OthersRecord, SvcStart, SvcPost, SvcThrottled,
   SvcPoll, SvcPlan, SvcNext, SvcGiveUp, SvcFinish, Serve, process

LEMMA BenchCounts ==
  ASSUME BenchAct
  PROVE  UNCHANGED mishaps \/ Mishap
BY DEF BenchAct, Bench_Start, Bench_Steps, OthersAccount, BenchSteps, BenchStart, BenchStored, BenchClear,
   BenchBare, BenchList, BenchAdd, BenchValidate, BenchLook, BenchRm, BenchRecord, BenchVerify,
   BenchGateway, BenchFolder, BenchGrant, BenchApp, BenchPart, BenchFinish, BenchGiveUp

LEMMA MishapsBounded ==
  ASSUME mishaps \in 0 .. Mishaps, [Next]_vars
  PROVE  mishaps' \in 0 .. Mishaps
<1>1. UNCHANGED mishaps \/ Mishap \/ \E again \in BOOLEAN : Twice(again)
  BY OneFamilyActs, CompaniesCount, AppsCount, BootCounts, ServiceCounts, BenchCounts DEF vars, process
<1>2. ASSUME NEW again \in BOOLEAN, Twice(again) PROVE mishaps' \in 0 .. Mishaps
  BY <1>2, SessionAssumption DEF Twice
<1> QED BY <1>1, <1>2, SessionAssumption DEF Mishap

LEMMA StepsApart ==
  /\ MspPc \intersect (KsmPc \union BootSteps \union SvcPc \union BenchPc \union {"idle"}) = {}
  /\ SvcPc \intersect (MspPc \union KsmPc \union BootSteps \union BenchPc \union {"idle"}) = {}
  /\ BenchPc \intersect (MspPc \union KsmPc \union BootSteps \union SvcPc \union {"idle"}) = {}
BY DEF MspPc, KsmPc, BootSteps, SvcPc, BenchPc

LEMMA NotCompanies ==
  ASSUME Stationed, AppsAct \/ BootAct \/ ServiceAct \/ BenchAct
  PROVE  UNCHANGED company /\ pc \notin MspPc /\ pc' \notin MspPc
BY AppsStay, BootStays, ServiceStays, BenchStays, StepsApart
DEF OnlyApps, OnlyBoot, OnlyService, OnlyBench, Stationed

LEMMA NotService ==
  ASSUME Stationed, CompaniesAct \/ AppsAct \/ BootAct \/ BenchAct
  PROVE  UNCHANGED service /\ pc \notin SvcPc /\ pc' \notin SvcPc
BY CompaniesStay, AppsStay, BootStays, BenchStays, StepsApart
DEF OnlyCompanies, OnlyApps, OnlyBoot, OnlyBench, Stationed

LEMMA NotBench ==
  ASSUME Stationed, CompaniesAct \/ AppsAct \/ BootAct \/ ServiceAct
  PROVE  UNCHANGED lab /\ pc \notin BenchPc /\ pc' \notin BenchPc
BY CompaniesStay, AppsStay, BootStays, ServiceStays, StepsApart
DEF OnlyCompanies, OnlyApps, OnlyBoot, OnlyService, Stationed

TypeInvariant == BootInvariant /\ CompaniesKinds /\ SvcKinds /\ BenchKinds /\ mishaps \in 0 .. Mishaps

LEMMA CompaniesKeep ==
  ASSUME CompaniesKinds, UNCHANGED company, UNCHANGED pc \/ (pc \notin MspPc /\ pc' \notin MspPc)
  PROVE  CompaniesKinds'
BY DEF company, CompaniesKinds, MspPc, Keys

LEMMA ServiceKeeps ==
  ASSUME SvcKinds, UNCHANGED service, UNCHANGED pc \/ (pc \notin SvcPc /\ pc' \notin SvcPc)
  PROVE  SvcKinds'
BY DEF service, errand, SvcKinds, SvcPc, RecordsOK

LEMMA BenchKeeps ==
  ASSUME BenchKinds, UNCHANGED lab, UNCHANGED pc \/ (pc \notin BenchPc /\ pc' \notin BenchPc)
  PROVE  BenchKinds'
BY DEF lab, account, BenchKinds, Holds, Known

LEMMA TypeInvariantStep ==
  ASSUME TypeInvariant, [Next]_vars, BootInvariant'
  PROVE  TypeInvariant'
<1>1. mishaps' \in 0 .. Mishaps
  BY MishapsBounded DEF TypeInvariant
<1>2. Stationed /\ Inductive
  BY DEF TypeInvariant, BootInvariant
<1>3. CASE UNCHANGED vars
  <2>1. UNCHANGED <<pc, company, service, lab>>
    BY <1>3 DEF vars, process
  <2> QED BY <1>1, <2>1, CompaniesKeep, ServiceKeeps, BenchKeeps DEF TypeInvariant
<1>4. CompaniesKinds'
  BY <1>2, <1>3, OneFamilyActs, NotCompanies, CompaniesKeep, CompaniesActKinds DEF TypeInvariant
<1>5. SvcKinds'
  BY <1>2, <1>3, OneFamilyActs, NotService, ServiceKeeps, ServiceActKinds DEF TypeInvariant
<1>6. BenchKinds'
  BY <1>2, <1>3, OneFamilyActs, NotBench, BenchKeeps, BenchActKinds DEF TypeInvariant
<1> QED BY <1>1, <1>4, <1>5, <1>6 DEF TypeInvariant

LEMMA TypeInitially ==
  ASSUME Init
  PROVE  CompaniesKinds /\ SvcKinds /\ BenchKinds /\ mishaps \in 0 .. Mishaps
<1>1. CompaniesKinds
  BY DEF Init, SessionInit, MspInit, CompaniesKinds, NobodyYet, MspPc
<1>2. SvcKinds
  <2>1. /\ DOMAIN project \subseteq SvcUid /\ IsFiniteSet(DOMAIN project) /\ RecordsOK(project)
    BY ServiceApplyAssumption DEF Init, SvcInit, RecordsOK
  <2>2. IsFiniteSet(DOMAIN None.found) /\ DOMAIN None.found \subseteq SvcUid
    BY FS_EmptySet, NothingFound
  <2>3. <<>> \in Seq(Requests) /\ Len(<<>>) = 0 /\ 0 \in 0 .. SvcPatience
    BY ServiceApplyAssumption
  <2>4. /\ pc = "idle" /\ born = DOMAIN project /\ queue = <<>> /\ mine = 0 /\ reply = None
        /\ order = {} /\ commands = <<>> /\ waits = 0
    BY DEF Init, SessionInit, SvcInit
  <2> QED BY <2>1, <2>2, <2>3, <2>4, NothingFound DEF SvcKinds, Manifests, SvcPc
<1>3. BenchKinds
  BY EnrolmentAssumption DEF Init, SessionInit, BenchInit, BenchKinds, Holds, Known, NoCreds, BenchPc
<1>4. mishaps \in 0 .. Mishaps
  BY SessionAssumption DEF Init, SessionInit
<1> QED BY <1>1, <1>2, <1>3, <1>4

LEMMA TypeInvariantHolds == Spec => []TypeInvariant
<1>1. Init /\ BootInvariant => TypeInvariant
  BY TypeInitially DEF TypeInvariant
<1>2. TypeInvariant /\ [Next]_vars /\ BootInvariant' => TypeInvariant'
  BY TypeInvariantStep
<1> QED BY <1>1, <1>2, BootInvariantHolds, PTL DEF Spec

\* Every variable keeps its type, for all manifests and tenants: a company's seats
\* stay within what the server holds, a poll's reply belongs to the request in the
\* queue, and an idle shell has nothing under way.
THEOREM TypeCorrect == Spec => []TypeOK
<1>1. TypeInvariant => TypeOK
  <2> SUFFICES ASSUME TypeInvariant PROVE TypeOK
    OBVIOUS
  <2>1. Inductive /\ Stationed /\ AppsKinds /\ BootKinds /\ CompaniesKinds /\ SvcKinds /\ BenchKinds
    BY DEF TypeInvariant, BootInvariant
  <2>2. "idle" \notin MspPc \union SvcPc \union BenchPc \union BootSteps
    BY DEF MspPc, SvcPc, BenchPc, BootSteps
  <2>3. CompanyTypeOK
    BY <2>1, <2>2 DEF Inductive, FirmsListed, CompaniesKinds, CompanyTypeOK, Companies, CompanyOK
  <2>4. AppsTypeOK
    BY <2>1 DEF Inductive, AppsGiven, AppsKinds, AppsOK, AppOK, TasksOK, AppsTypeOK
  <2>5. BootTypeOK
    BY <2>1, <2>2 DEF BootKinds, BootTypeOK
  <2>6. SvcTypeOK
    BY <2>1, <2>2 DEF SvcKinds, SvcTypeOK, RecordsOK
  <2>7. BenchTypeOK
    BY <2>1, <2>2 DEF BenchKinds, BenchTypeOK, Holds, Known
  <2> QED BY <2>3, <2>4, <2>5, <2>6, <2>7 DEF TypeOK, TypeInvariant
<1> QED BY <1>1, TypeInvariantHolds, PTL

------------------------------------------------------------------------------
(* Companies on their way from a manifest to the server and back *)

\* A company with other numbers of seats
With(c, seats, addons) ==
  [x \in CompanyFields |-> IF x = "seats" THEN seats ELSE IF x = "addons" THEN addons ELSE c[x]]

AddonsOK(c) == \A a \in DOMAIN c.addons : c.addons[a] \in 0 .. Top

LEMMA NormalIs ==
  ASSUME NEW c, DOMAIN c = CompanyFields
  PROVE  Normal(c) = With(c, Canonical(c.seats), [a \in DOMAIN c.addons |-> Canonical(c.addons[a])])
BY DEF Normal, With, CompanyFields

LEMMA DiscoveredIs ==
  ASSUME NEW c, DOMAIN c = CompanyFields
  PROVE  Discovered(c) = With(c, Canonical(Reported(c.seats)),
                              [a \in DOMAIN c.addons |-> Canonical(Reported(c.addons[a]))])
<1> DEFINE reported == [a \in DOMAIN c.addons |-> Reported(c.addons[a])]
           d == [c EXCEPT !.seats = Reported(@), !.addons = [a \in DOMAIN @ |-> Reported(@[a])]]
<1>1. d = With(c, Reported(c.seats), reported)
  BY DEF With, CompanyFields
<1>2. DOMAIN d = CompanyFields /\ d.seats = Reported(c.seats) /\ d.addons = reported
  BY <1>1 DEF With, CompanyFields
<1>3. \A x \in CompanyFields : x # "seats" /\ x # "addons" => d[x] = c[x]
  BY <1>1 DEF With
<1>4. Discovered(c) = Normal(d)
  BY DEF Discovered
<1> HIDE DEF d
<1>5. Discovered(c) = With(d, Canonical(Reported(c.seats)), [a \in DOMAIN reported |-> Canonical(reported[a])])
  BY <1>2, <1>4, NormalIs
<1>6. [a \in DOMAIN reported |-> Canonical(reported[a])] =
        [a \in DOMAIN c.addons |-> Canonical(Reported(c.addons[a]))]
  OBVIOUS
<1> HIDE DEF reported
<1> QED BY <1>3, <1>5, <1>6 DEF With

LEMMA IncorporatedIs ==
  ASSUME NEW r, DOMAIN r = CompanyFields
  PROVE  Incorporated(r) = With(r, Held(Ordered(r.seats)),
                                [a \in DOMAIN r.addons |-> Held(Ordered(r.addons[a]))])
BY DEF Incorporated, With, CompanyFields

LEMMA WithFields ==
  ASSUME NEW c, NEW s, NEW a
  PROVE  /\ DOMAIN With(c, s, a) = CompanyFields /\ With(c, s, a).seats = s /\ With(c, s, a).addons = a
         /\ \A x \in {"name", "plan", "file"} : With(c, s, a)[x] = c[x]
         /\ With(c, s, a).name = c.name /\ With(c, s, a).plan = c.plan /\ With(c, s, a).file = c.file
BY DEF With, CompanyFields

LEMMA DiscoveredFields ==
  ASSUME NEW c, DOMAIN c = CompanyFields
  PROVE  /\ DOMAIN Discovered(c).addons = DOMAIN c.addons
         /\ \A a \in DOMAIN c.addons : Discovered(c).addons[a] = Canonical(Reported(c.addons[a]))
         /\ Discovered(c).name = c.name /\ DOMAIN Discovered(c) = CompanyFields
<1> DEFINE addons == [a \in DOMAIN c.addons |-> Canonical(Reported(c.addons[a]))]
<1>1. Discovered(c) = With(c, Canonical(Reported(c.seats)), addons)
  BY DiscoveredIs
<1>2. DOMAIN addons = DOMAIN c.addons /\ \A a \in DOMAIN c.addons : addons[a] = Canonical(Reported(c.addons[a]))
  OBVIOUS
<1> HIDE DEF addons
<1> QED BY <1>1, <1>2, WithFields

LEMMA IncorporatedFields ==
  ASSUME NEW r, DOMAIN r = CompanyFields
  PROVE  /\ Incorporated(r) = With(r, Held(Ordered(r.seats)), Incorporated(r).addons)
         /\ Incorporated(r).file = r.file /\ Incorporated(r).name = r.name
<1> DEFINE addons == [a \in DOMAIN r.addons |-> Held(Ordered(r.addons[a]))]
<1>1. Incorporated(r) = With(r, Held(Ordered(r.seats)), addons)
  BY IncorporatedIs
<1> HIDE DEF addons
<1> QED BY <1>1, WithFields

LEMMA WithTwice ==
  ASSUME NEW c, NEW s, NEW a, NEW t, NEW b
  PROVE  With(With(c, s, a), t, b) = With(c, t, b)
BY DEF With

\* A number of seats comes back as the comparison has it
LEMMA RoundTrip ==
  ASSUME NEW s \in Nat
  PROVE  Canonical(Reported(Held(Ordered(s)))) = Canonical(s)
BY MspDiffAssumption DEF Canonical, Reported, Held, Ordered

\* and one that needs no command is as it should be
LEMMA SameOrder ==
  ASSUME NEW x \in 0 .. Top, NEW s \in Nat, Ordered(Canonical(Reported(x))) = Ordered(s)
  PROVE  Canonical(Reported(x)) = Canonical(s)
BY MspDiffAssumption DEF Canonical, Reported, Ordered

LEMMA FoundedAsRow ==
  ASSUME NEW r, DOMAIN r = CompanyFields, r.seats \in Nat, \A a \in DOMAIN r.addons : r.addons[a] \in Nat
  PROVE  Discovered(Incorporated(r)) = Normal(r)
<1> DEFINE held == [a \in DOMAIN r.addons |-> Held(Ordered(r.addons[a]))]
           i == Incorporated(r)
<1>1. i = With(r, Held(Ordered(r.seats)), held)
  BY IncorporatedIs
<1>2. DOMAIN i = CompanyFields /\ i.seats = Held(Ordered(r.seats)) /\ i.addons = held
  BY <1>1, WithFields
<1> HIDE DEF i
<1>3. Discovered(i) = With(i, Canonical(Reported(Held(Ordered(r.seats)))),
                           [a \in DOMAIN held |-> Canonical(Reported(held[a]))])
  BY <1>2, DiscoveredIs
<1>4. [a \in DOMAIN held |-> Canonical(Reported(held[a]))] = [a \in DOMAIN r.addons |-> Canonical(r.addons[a])]
  BY RoundTrip
<1>5. Discovered(i) = With(i, Canonical(r.seats), [a \in DOMAIN r.addons |-> Canonical(r.addons[a])])
  BY <1>3, <1>4, RoundTrip
<1>6. Discovered(i) = With(r, Canonical(r.seats), [a \in DOMAIN r.addons |-> Canonical(r.addons[a])])
  BY <1>1, <1>5, WithTwice
<1> QED BY <1>6, NormalIs DEF i

\* Names and fields that an update writes
LEMMA UpdatedAsRow ==
  ASSUME NEW r, DOMAIN r = CompanyFields, r.seats \in Nat, \A a \in DOMAIN r.addons : r.addons[a] \in Nat,
         NEW now, DOMAIN now = CompanyFields, AddonsOK(now)
  PROVE  LET u == Updated(now, Discovered(now), r)
             file == IF r.file = NoFile THEN now.file ELSE r.file
         IN Discovered(u) = [Normal(r) EXCEPT !.file = file]
<1> DEFINE seen == Discovered(now)
           file == IF r.file = NoFile THEN now.file ELSE r.file
           dropped == DOMAIN seen.addons \ DOMAIN r.addons
           added == {a \in DOMAIN r.addons :
                       a \notin DOMAIN seen.addons \/ Ordered(seen.addons[a]) # Ordered(r.addons[a])}
           addons == [a \in (DOMAIN now.addons \union added) \ dropped |->
                        IF a \in added THEN Held(Ordered(r.addons[a])) ELSE now.addons[a]]
           u == Updated(now, seen, r)
<1>1. DOMAIN seen.addons = DOMAIN now.addons
      /\ \A a \in DOMAIN now.addons : seen.addons[a] = Canonical(Reported(now.addons[a]))
  BY DiscoveredFields
<1>2. DOMAIN addons = DOMAIN r.addons
  BY <1>1
<1>3. \A a \in DOMAIN r.addons : Canonical(Reported(addons[a])) = Canonical(r.addons[a])
  <2> TAKE a \in DOMAIN r.addons
  <2>1. CASE a \in added
    <3>1. addons[a] = Held(Ordered(r.addons[a]))
      BY <1>2, <2>1
    <3> QED BY <3>1, RoundTrip
  <2>2. CASE a \notin added
    <3>1. a \in DOMAIN now.addons /\ Ordered(seen.addons[a]) = Ordered(r.addons[a])
      BY <1>1, <2>2
    <3>2. addons[a] = now.addons[a] /\ now.addons[a] \in 0 .. Top
      BY <1>2, <2>2, <3>1 DEF AddonsOK
    <3>3. Ordered(Canonical(Reported(now.addons[a]))) = Ordered(r.addons[a])
      BY <1>1, <3>1
    <3> QED BY <3>2, <3>3, SameOrder
  <2> QED BY <2>1, <2>2
<1>4. u = [[Incorporated(r) EXCEPT !.file = file] EXCEPT !.addons = addons]
  <2>1. Incorporated(r).file = r.file
    BY IncorporatedFields
  <2> QED BY <2>1 DEF Updated
<1> HIDE DEF addons, file
<1> DEFINE normal == [a \in DOMAIN r.addons |-> Canonical(r.addons[a])]
<1>5. /\ DOMAIN u = CompanyFields /\ u.addons = addons /\ u.file = file /\ u.name = r.name /\ u.plan = r.plan
      /\ u.seats = Held(Ordered(r.seats))
  <2>1. Incorporated(r) = With(r, Held(Ordered(r.seats)), Incorporated(r).addons)
    BY IncorporatedFields
  <2> HIDE DEF u
  <2> QED BY <1>4, <2>1, WithFields DEF CompanyFields
<1> HIDE DEF u
<1>6. Discovered(u) = With(u, Canonical(Reported(u.seats)), [a \in DOMAIN addons |-> Canonical(Reported(addons[a]))])
  BY <1>5, DiscoveredIs
<1>7. [a \in DOMAIN addons |-> Canonical(Reported(addons[a]))] = normal
  BY <1>2, <1>3
<1>8. Discovered(u) = With(u, Canonical(r.seats), normal)
  BY <1>5, <1>6, <1>7, RoundTrip
<1>9. Normal(r) = With(r, Canonical(r.seats), normal)
  BY NormalIs
<1> HIDE DEF normal
<1>10. With(u, Canonical(r.seats), normal) = [With(r, Canonical(r.seats), normal) EXCEPT !.file = file]
  BY <1>5 DEF With, CompanyFields
<1> QED BY <1>8, <1>9, <1>10 DEF u, file

------------------------------------------------------------------------------
(* What the tenant's companies are while an apply that is let alone goes on *)

Written == Founded(base, rows) \union Changed(base, rows)
Gone == Dissolved(base, rows, allowed) \ doomed

\* What a company of the plan has become by now
Due(i) ==
  IF Key(base[i]) \in Keys(Changed(base, rows)) \ open
  THEN Updated(base[i], Discovered(base[i]), Row(Key(base[i]))) ELSE base[i]

\* Ids are few, and numbers are those of a server
Firm ==
  /\ IsFiniteSet(DOMAIN mcs) /\ \A i \in DOMAIN mcs : AddonsOK(mcs[i])
  /\ IsFiniteSet(DOMAIN base) /\ DOMAIN base \subseteq spent
  /\ \A i \in DOMAIN base : DOMAIN base[i] = CompanyFields /\ AddonsOK(base[i])

MspCourse ==
  /\ doomed \subseteq Dissolved(base, rows, allowed) /\ open \subseteq Keys(Written)
  /\ \A i \in DOMAIN base : IF i \in Gone THEN i \notin DOMAIN mcs ELSE i \in DOMAIN mcs /\ mcs[i] = Due(i)
  /\ \A i \in DOMAIN mcs \ DOMAIN base : \E r \in Founded(base, rows) : mcs[i] = Incorporated(r)
  /\ \A r \in Founded(base, rows) :
       Key(r) \in open \/ \E i \in DOMAIN mcs \ DOMAIN base : mcs[i] = Incorporated(r)
  /\ pc = "msp-call" =>
       \/ cur.kind = "create" /\ cur.name \in open \ Keys(Companies(base))
       \/ /\ cur.kind = "update" /\ cur.name \in open \intersect Keys(Companies(base))
          /\ cur.id = Company(base, cur.name)
       \/ cur.kind = "delete" /\ cur.id \in doomed

MspInvariant == Inductive /\ CompaniesKinds /\ Firm /\ (calm /\ pc \in MspPc => MspCourse)

LEMMA RowsLoaded ==
  ASSUME Inductive, NEW r \in rows
  PROVE  /\ DOMAIN r = CompanyFields /\ r.name \in CompanyName /\ r.seats \in Nat
         /\ \A a \in DOMAIN r.addons : r.addons[a] \in Nat
         /\ Row(Key(r)) = r
<1>1. rows \in Portfolios
  BY DEF Inductive, FirmsListed
<1>2. LoadsCompanies(rows)
  BY <1>1, MspApplyAssumption
<1>3. Row(Key(r)) \in rows /\ Key(Row(Key(r))) = Key(r)
  BY DEF Row
<1> QED BY <1>2, <1>3 DEF LoadsCompanies

\* The rows of a plan
LEMMA RowsOfPlan ==
  /\ Founded(base, rows) \subseteq rows /\ Changed(base, rows) \subseteq rows
  /\ \A r \in Founded(base, rows) : Key(r) \notin Keys(Companies(base))
  /\ \A r \in Changed(base, rows) :
       Key(r) \in Keys(Companies(base)) /\ Key(r) \notin Duplicated(base) /\ Key(r) \in Keys(rows)
BY DEF Founded, Changed, Keys

\* One company of a name that is there once
LEMMA OneOfName ==
  ASSUME IsFiniteSet(DOMAIN base), NEW k \in Keys(Companies(base)), k \notin Duplicated(base),
         NEW i \in DOMAIN base, Key(base[i]) = k
  PROVE  i = Company(base, k)
<1> DEFINE S == {j \in DOMAIN base : Key(base[j]) = k}
<1>1. i \in S /\ Company(base, k) \in S
  BY DEF Company
<1>2. ~(Cardinality(S) > 1)
  BY DEF Duplicated
<1>3. S \in SUBSET DOMAIN base
  OBVIOUS
<1> HIDE DEF S
<1>4. IsFiniteSet(S)
  BY <1>3, FS_Subset
<1>5. Cardinality(S) \in Nat /\ Cardinality(S) # 0
  BY <1>1, <1>4, FS_CardinalityType, FS_EmptySet
<1>6. Cardinality(S) = 1
  BY <1>2, <1>5
<1>7. \E x : S = {x}
  BY <1>4, <1>6, FS_Singleton
<1> QED BY <1>1, <1>7

LEMMA CompanyOfName ==
  ASSUME NEW k \in Keys(Companies(base))
  PROVE  Company(base, k) \in DOMAIN base /\ Key(base[Company(base, k)]) = k
<1>1. \E i \in DOMAIN base : Key(base[i]) = k
  BY DEF Keys, Companies
<1> QED BY <1>1 DEF Company

LEMMA PlanCourse == ASSUME MspInvariant, MspPlan PROVE Firm' /\ MspCourse'
<1>1. PICK v \in Portfolios, allow \in BOOLEAN :
        /\ rows' = v /\ allowed' = allow /\ base' = mcs
        /\ doomed' = Dissolved(mcs, v, allow)
        /\ open' = Keys(Founded(mcs, v) \union Changed(mcs, v))
  BY DEF MspPlan
<1>2. pc' = "msp" /\ UNCHANGED <<mcs, spent>>
  BY DEF MspPlan
<1>3. Firm'
  BY <1>1, <1>2 DEF MspInvariant, Firm, Inductive, FirmsListed, CompaniesKinds, CompanyOK
<1>4. open' = Keys(Written)' /\ doomed' = Dissolved(base, rows, allowed)' /\ Gone' = {}
  BY <1>1 DEF Written, Gone
<1>5. Keys(Changed(base, rows))' \subseteq open'
  BY <1>4 DEF Written, Keys
<1>6. \A i \in DOMAIN base' : Due(i)' = base'[i]
  BY <1>5 DEF Due
<1>7. \A r \in Founded(base, rows)' : Key(r) \in open'
  BY <1>4 DEF Written, Keys
<1> QED BY <1>1, <1>2, <1>3, <1>4, <1>6, <1>7 DEF MspCourse

LEMMA LookCourse ==
  ASSUME MspInvariant, calm, MspLook
  PROVE  Firm' /\ MspCourse'
<1>1. cur' \in NextChange /\ pc = "msp" /\ UNCHANGED <<mcs, spent, rows, allowed, base, open, doomed, calm>>
  BY DEF MspLook
<1>2. MspCourse
  BY <1>1 DEF MspInvariant, MspPc
<1>3. \/ cur'.kind = "create" /\ cur'.name \in open \ Keys(Companies(base))
      \/ /\ cur'.kind = "update" /\ cur'.name \in open \intersect Keys(Companies(base))
         /\ cur'.id = Company(base, cur'.name)
      \/ cur'.kind = "delete" /\ cur'.id \in doomed
  BY <1>1 DEF NextChange
<1>4. UNCHANGED <<Written, Gone>> /\ \A i : Due(i)' = Due(i)
  BY <1>1 DEF Written, Gone, Due, Row
<1>5. UNCHANGED <<Dissolved(base, rows, allowed), Keys(Written), Founded(base, rows), Keys(Companies(base))>>
  BY <1>1, <1>4
<1> QED BY <1>1, <1>2, <1>3, <1>4, <1>5 DEF MspInvariant, Firm, MspCourse

LEMMA FewerAddons ==
  ASSUME NEW r, DOMAIN r = CompanyFields, \A a \in DOMAIN r.addons : r.addons[a] \in Nat
  PROVE  AddonsOK(Incorporated(r))
<1> DEFINE addons == [a \in DOMAIN r.addons |-> Held(Ordered(r.addons[a]))]
<1>1. \A a \in DOMAIN r.addons : addons[a] \in 0 .. Top
  BY SeatsHeld
<1>2. Incorporated(r) = With(r, Held(Ordered(r.seats)), addons) /\ DOMAIN addons = DOMAIN r.addons
  BY IncorporatedIs
<1> HIDE DEF addons
<1> QED BY <1>1, <1>2, WithFields DEF AddonsOK

LEMMA AddCourse ==
  ASSUME MspInvariant, MspAdd
  PROVE  Firm' /\ (calm => MspCourse')
<1>1. PICK twice \in BOOLEAN :
        LET new == FreshOf(McId, spent, IF twice THEN 2 ELSE 1) IN
        /\ Cardinality(new) = IF twice THEN 2 ELSE 1
        /\ mcs' = [i \in DOMAIN mcs \union new |-> IF i \in new THEN Incorporated(Row(cur.name)) ELSE mcs[i]]
        /\ spent' = spent \union new
  BY DEF MspAdd
<1> DEFINE n == IF twice THEN 2 ELSE 1
           new == FreshOf(McId, spent, n)
           k == cur.name
           c == Incorporated(Row(k))
<1>2. /\ Cardinality(new) = n /\ spent' = spent \union new
      /\ mcs' = [i \in DOMAIN mcs \union new |-> IF i \in new THEN c ELSE mcs[i]]
  BY <1>1
<1>3. IsFiniteSet(new) /\ new \subseteq McId \ spent /\ new # {}
  <2>1. n \in Nat /\ n # 0 /\ McId \subseteq Nat
    BY NumbersApart
  <2> HIDE DEF n
  <2>2. IsFiniteSet(new) /\ new \subseteq McId \ spent
    BY <2>1, FewFresh, FreshIsNew
  <2> HIDE DEF new
  <2> QED BY <1>2, <2>1, <2>2, FS_EmptySet
<1>4. /\ pc = "msp-call" /\ cur.kind = "create" /\ pc' = "msp" /\ open' = open \ {k}
      /\ UNCHANGED <<rows, allowed, base, doomed, calm>>
  BY DEF MspAdd
<1>5. k \in Keys(rows) /\ DOMAIN mcs \subseteq spent /\ DOMAIN base \subseteq spent
  BY <1>4 DEF MspInvariant, Inductive, FirmsListed, Firm
<1>6. Row(k) \in rows /\ Key(Row(k)) = k
  BY <1>5 DEF Row, Keys
<1> HIDE DEF new, n
<1>7. DOMAIN mcs' = DOMAIN mcs \union new /\ (\A i \in new : mcs'[i] = c)
      /\ \A i \in DOMAIN mcs : i \notin new /\ mcs'[i] = mcs[i]
  BY <1>2, <1>3, <1>5
<1>8. Firm'
  <2>1. IsFiniteSet(DOMAIN mcs')
    <3>1. IsFiniteSet(DOMAIN mcs)
      BY DEF MspInvariant, Firm
    <3>2. IsFiniteSet(DOMAIN mcs \union new)
      BY <1>3, <3>1, FS_Union
    <3> QED BY <1>7, <3>2
  <2>2. AddonsOK(c)
    BY <1>6, RowsLoaded, FewerAddons DEF MspInvariant
  <2>3. \A i \in DOMAIN mcs' : AddonsOK(mcs'[i])
    BY <1>7, <2>2 DEF MspInvariant, Firm
  <2> QED BY <1>2, <1>4, <2>1, <2>3 DEF MspInvariant, Firm
<1>9. ASSUME calm PROVE MspCourse'
  <2>1. MspCourse
    BY <1>4, <1>9 DEF MspInvariant, MspPc
  <2>2. k \in open \ Keys(Companies(base))
    BY <1>4, <2>1 DEF MspCourse
  <2>3. PICK r \in Written : Key(r) = k
    BY <2>1, <2>2 DEF MspCourse, Keys
  <2>4. r \in Founded(base, rows) /\ r \in rows /\ Row(k) = r
    BY <2>2, <2>3, RowsOfPlan, RowsLoaded DEF Written, MspInvariant
  <2>5. UNCHANGED <<Written, Gone, Dissolved(base, rows, allowed), Keys(Written), Founded(base, rows)>>
    BY <1>4 DEF Written, Gone
  <2>6. \A i \in DOMAIN base : Due(i)' = Due(i)
    <3> TAKE i \in DOMAIN base
    <3>1. Key(base[i]) # k
      BY <2>2 DEF Keys, Companies
    <3> QED BY <1>4, <3>1 DEF Due, Row
  <2>7. \A i \in DOMAIN base : i \notin new
    BY <1>3, <1>5
  <2>8. \A i \in DOMAIN base : IF i \in Gone' THEN i \notin DOMAIN mcs' ELSE i \in DOMAIN mcs' /\ mcs'[i] = Due(i)'
    BY <1>7, <2>1, <2>5, <2>6, <2>7 DEF MspCourse
  <2>9. \A i \in DOMAIN mcs' \ DOMAIN base : \E q \in Founded(base, rows) : mcs'[i] = Incorporated(q)
    BY <1>7, <2>1, <2>4 DEF MspCourse
  <2>10. \A q \in Founded(base, rows) :
           Key(q) \in open' \/ \E i \in DOMAIN mcs' \ DOMAIN base : mcs'[i] = Incorporated(q)
    <3> TAKE q \in Founded(base, rows)
    <3>1. CASE Key(q) = k
      <4>1. q = r
        BY <2>4, <3>1, RowsOfPlan, RowsLoaded DEF MspInvariant
      <4> QED BY <1>3, <1>7, <2>4, <2>7, <4>1
    <3>2. CASE Key(q) # k
      BY <1>4, <1>7, <2>1, <3>2 DEF MspCourse
    <3> QED BY <3>1, <3>2
  <2> QED BY <1>4, <2>1, <2>5, <2>8, <2>9, <2>10 DEF MspCourse
<1> QED BY <1>8, <1>9

LEMMA UpdatedAddons ==
  ASSUME NEW now, AddonsOK(now), NEW seen, NEW r, DOMAIN r = CompanyFields,
         \A a \in DOMAIN r.addons : r.addons[a] \in Nat
  PROVE  AddonsOK(Updated(now, seen, r))
<1> DEFINE dropped == DOMAIN seen.addons \ DOMAIN r.addons
           added == {a \in DOMAIN r.addons :
                       a \notin DOMAIN seen.addons \/ Ordered(seen.addons[a]) # Ordered(r.addons[a])}
           addons == [a \in (DOMAIN now.addons \union added) \ dropped |->
                        IF a \in added THEN Held(Ordered(r.addons[a])) ELSE now.addons[a]]
<1>1. \A a \in DOMAIN addons : addons[a] \in 0 .. Top
  <2> TAKE a \in DOMAIN addons
  <2>1. CASE a \in added
    <3>1. addons[a] = Held(Ordered(r.addons[a])) /\ a \in DOMAIN r.addons
      BY <2>1
    <3> HIDE DEF added, addons
    <3> QED BY <3>1, SeatsHeld
  <2>2. CASE a \notin added
    <3>1. addons[a] = now.addons[a] /\ a \in DOMAIN now.addons
      BY <2>2
    <3> HIDE DEF added, addons
    <3> QED BY <3>1 DEF AddonsOK
  <2> QED BY <2>1, <2>2
<1>2. PICK file : Updated(now, seen, r) = [[Incorporated(r) EXCEPT !.file = file] EXCEPT !.addons = addons]
  BY DEF Updated
<1> HIDE DEF addons
<1>3. DOMAIN Incorporated(r) = CompanyFields
  BY IncorporatedFields, WithFields
<1>4. Updated(now, seen, r).addons = addons
  BY <1>2, <1>3 DEF CompanyFields
<1> QED BY <1>1, <1>4 DEF AddonsOK

LEMMA EditCourse ==
  ASSUME MspInvariant, MspEdit, NEW k, k = cur.name, NEW r, r = Row(k)
  PROVE  Firm' /\ (calm => MspCourse')
<1>1. /\ mcs' = [i \in DOMAIN mcs |->
                   IF i = cur.id THEN Updated(mcs[i], Discovered(base[i]), r) ELSE mcs[i]]
      /\ pc = "msp-call" /\ cur.kind = "update" /\ pc' = "msp" /\ open' = open \ {k}
      /\ UNCHANGED <<spent, rows, allowed, base, doomed, calm>>
  BY DEF MspEdit
<1>2. k \in Keys(rows)
  BY <1>1 DEF MspInvariant, CompaniesKinds
<1>3. r \in rows /\ Key(r) = k
  BY <1>2 DEF Row, Keys
<1>4. /\ DOMAIN r = CompanyFields /\ \A a \in DOMAIN r.addons : r.addons[a] \in Nat
      /\ DOMAIN mcs' = DOMAIN mcs
  BY <1>1, <1>3, RowsLoaded DEF MspInvariant
<1>5. Firm'
  <2>1. ASSUME NEW i \in DOMAIN mcs PROVE AddonsOK(mcs'[i])
    <3>1. AddonsOK(mcs[i])
      BY DEF MspInvariant, Firm
    <3>2. AddonsOK(Updated(mcs[i], Discovered(base[i]), r))
      BY <1>4, <3>1, UpdatedAddons
    <3> QED BY <1>1, <3>1, <3>2
  <2> QED BY <1>1, <1>4, <2>1 DEF MspInvariant, Firm
<1>6. ASSUME calm PROVE MspCourse'
  <2>0. PICK j : j = Company(base, k)
    OBVIOUS
  <2>1. MspCourse
    BY <1>1, <1>6 DEF MspInvariant, MspPc
  <2>2. k \in open \intersect Keys(Companies(base)) /\ cur.id = j
    BY <1>1, <2>0, <2>1 DEF MspCourse
  <2>3. PICK q \in Written : Key(q) = k
    BY <2>1, <2>2 DEF MspCourse, Keys
  <2>4. q \in Changed(base, rows) /\ q = r /\ k \notin Duplicated(base)
    BY <2>2, <2>3, RowsOfPlan, RowsLoaded DEF Written, MspInvariant
  <2>5. UNCHANGED <<Written, Gone, Dissolved(base, rows, allowed), Keys(Written), Founded(base, rows)>>
    BY <1>1 DEF Written, Gone
  <2>6. j \in DOMAIN base /\ Key(base[j]) = k
    BY <2>0, <2>2, CompanyOfName
  <2>7. \A i \in DOMAIN base : i # j => Key(base[i]) # k
    BY <2>0, <2>2, <2>4, OneOfName DEF MspInvariant, Firm
  <2>8. \A i \in DOMAIN base : i # j => Due(i)' = Due(i)
    <3> TAKE i \in DOMAIN base
    <3> SUFFICES ASSUME i # j PROVE Due(i)' = Due(i)
      OBVIOUS
    <3>1. Key(base[i]) # k
      BY <2>7
    <3> QED BY <1>1, <3>1 DEF Due, Row
  <2>9. Due(j) = base[j]
    BY <2>2, <2>6 DEF Due
  <2>10. Due(j)' = Updated(base[j], Discovered(base[j]), r)
    <3>1. Key(base[j])' \in Keys(Changed(base, rows))' \ open'
      BY <1>1, <2>3, <2>4, <2>6 DEF Keys
    <3>2. Row(k)' = r
      BY <1>1 DEF Row
    <3> QED BY <1>1, <2>6, <3>1, <3>2 DEF Due
  <2>11. j \notin Gone
    BY <1>2, <2>6 DEF Gone, Dissolved
  <2>12. \A i \in DOMAIN base : IF i \in Gone' THEN i \notin DOMAIN mcs' ELSE i \in DOMAIN mcs' /\ mcs'[i] = Due(i)'
    <3> TAKE i \in DOMAIN base
    <3>1. CASE i = j
      <4>1. j \in DOMAIN mcs /\ mcs[j] = base[j]
        BY <2>1, <2>6, <2>9, <2>11 DEF MspCourse
      <4>2. mcs'[j] = Updated(base[j], Discovered(base[j]), r)
        BY <1>1, <2>2, <4>1
      <4> QED BY <1>4, <2>5, <2>10, <2>11, <3>1, <4>1, <4>2
    <3>2. CASE i # j
      <4>1. i \in DOMAIN mcs => mcs'[i] = mcs[i]
        BY <1>1, <2>2, <3>2
      <4> QED BY <1>4, <2>1, <2>5, <2>8, <3>2, <4>1 DEF MspCourse
    <3> QED BY <3>1, <3>2
  <2>13. \A i \in DOMAIN mcs \ DOMAIN base : mcs'[i] = mcs[i]
    BY <1>1, <2>2, <2>6
  <2>14. \A p \in Founded(base, rows) : Key(p) # k
    BY <2>2, RowsOfPlan
  <2>15. \A i \in DOMAIN mcs' \ DOMAIN base : \E p \in Founded(base, rows) : mcs'[i] = Incorporated(p)
    BY <1>4, <2>1, <2>13 DEF MspCourse
  <2>16. \A p \in Founded(base, rows) :
           Key(p) \in open' \/ \E i \in DOMAIN mcs' \ DOMAIN base : mcs'[i] = Incorporated(p)
    <3> TAKE p \in Founded(base, rows)
    <3>1. Key(p) \in open \/ \E i \in DOMAIN mcs \ DOMAIN base : mcs[i] = Incorporated(p)
      BY <2>1 DEF MspCourse
    <3> QED BY <1>1, <1>4, <2>13, <2>14, <3>1
  <2>17. doomed' \subseteq Dissolved(base, rows, allowed)' /\ open' \subseteq Keys(Written)'
    BY <1>1, <2>1, <2>5 DEF MspCourse
  <2> QED BY <1>1, <2>5, <2>12, <2>15, <2>16, <2>17 DEF MspCourse
<1> QED BY <1>5, <1>6

LEMMA RemoveCourse ==
  ASSUME MspInvariant, MspRemove, NEW d, d = cur.id
  PROVE  Firm' /\ (calm => MspCourse')
<1>1. /\ mcs' = [i \in DOMAIN mcs \ {d} |-> mcs[i]] /\ doomed' = doomed \ {d}
      /\ pc = "msp-call" /\ cur.kind = "delete" /\ pc' = "msp"
      /\ UNCHANGED <<spent, rows, allowed, base, open, calm>>
  BY DEF MspRemove
<1>2. DOMAIN mcs' = DOMAIN mcs \ {d} /\ \A i \in DOMAIN mcs' : mcs'[i] = mcs[i]
  BY <1>1
<1>3. Firm'
  <2>1. DOMAIN mcs' \subseteq DOMAIN mcs /\ IsFiniteSet(DOMAIN mcs)
    BY <1>2 DEF MspInvariant, Firm
  <2>2. IsFiniteSet(DOMAIN mcs')
    BY <2>1, FS_Subset
  <2> QED BY <1>1, <1>2, <2>2 DEF MspInvariant, Firm
<1>4. ASSUME calm PROVE MspCourse'
  <2>1. MspCourse
    BY <1>1, <1>4 DEF MspInvariant, MspPc
  <2>2. d \in doomed /\ doomed \subseteq Dissolved(base, rows, allowed)
    BY <1>1, <2>1 DEF MspCourse
  <2>3. UNCHANGED <<Written, Dissolved(base, rows, allowed), Keys(Written), Founded(base, rows)>>
    BY <1>1 DEF Written
  <2>4. \A i : Due(i)' = Due(i)
    BY <1>1 DEF Due, Row
  <2>5. Gone' = Gone \union {d} /\ d \in DOMAIN base
    BY <1>1, <2>2 DEF Gone, Dissolved
  <2>6. \A i \in DOMAIN base : IF i \in Gone' THEN i \notin DOMAIN mcs' ELSE i \in DOMAIN mcs' /\ mcs'[i] = Due(i)'
    BY <1>2, <2>1, <2>4, <2>5 DEF MspCourse
  <2>7. \A i \in DOMAIN mcs' \ DOMAIN base : \E r \in Founded(base, rows) : mcs'[i] = Incorporated(r)
    BY <1>2, <2>1 DEF MspCourse
  <2>8. \A r \in Founded(base, rows) :
          Key(r) \in open \/ \E i \in DOMAIN mcs' \ DOMAIN base : mcs'[i] = Incorporated(r)
    BY <1>2, <2>1, <2>5 DEF MspCourse
  <2>9. doomed' \subseteq Dissolved(base, rows, allowed)' /\ open' \subseteq Keys(Written)' /\ pc' # "msp-call"
    BY <1>1, <2>1, <2>3 DEF MspCourse
  <2>10. UNCHANGED <<base, open>>
    BY <1>1
  <2>11. (\A i \in DOMAIN base : IF i \in Gone THEN i \notin DOMAIN mcs ELSE i \in DOMAIN mcs /\ mcs[i] = Due(i))'
    BY <2>6, <2>10
  <2>12. (\A i \in DOMAIN mcs \ DOMAIN base : \E r \in Founded(base, rows) : mcs[i] = Incorporated(r))'
    BY <2>3, <2>7, <2>10
  <2>13. (\A r \in Founded(base, rows) :
            Key(r) \in open \/ \E i \in DOMAIN mcs \ DOMAIN base : mcs[i] = Incorporated(r))'
    BY <2>3, <2>8, <2>10
  <2> QED BY <2>9, <2>11, <2>12, <2>13 DEF MspCourse
<1> QED BY <1>3, <1>4

\* Idle again
LEMMA IdleCourse == ASSUME MspInvariant, MspIdle PROVE Firm' /\ pc' \notin MspPc
<1>1. pc' = "idle" /\ base' = NobodyYet /\ UNCHANGED <<mcs, spent>>
  BY DEF MspIdle
<1>2. DOMAIN base' = {}
  BY <1>1 DEF NobodyYet
<1>3. IsFiniteSet(DOMAIN base')
  BY <1>2, FS_EmptySet
<1> QED BY <1>1, <1>2, <1>3 DEF MspInvariant, Firm, MspPc

LEMMA OthersFirm == ASSUME MspInvariant, MspOthers PROVE Firm'
<1>1. UNCHANGED base /\ spent \subseteq spent'
  BY DEF MspOthers
<1>2. IsFiniteSet(DOMAIN mcs) /\ \A i \in DOMAIN mcs : AddonsOK(mcs[i]) /\ DOMAIN mcs[i] = CompanyFields
  BY DEF MspInvariant, Firm, CompaniesKinds, CompanyOK
<1>3. \A r \in Rivals : DOMAIN r = CompanyFields /\ AddonsOK(r)
  BY MspApplyAssumption DEF AddonsOK
<1>4. IsFiniteSet(DOMAIN mcs') /\ \A i \in DOMAIN mcs' : AddonsOK(mcs'[i])
  <2>1. CASE \E r \in Rivals, i \in FreshOf(McId, spent, 1) :
               mcs' = [j \in DOMAIN mcs \union {i} |-> IF j = i THEN r ELSE mcs[j]]
    <3>1. PICK r \in Rivals, i \in FreshOf(McId, spent, 1) :
            mcs' = [j \in DOMAIN mcs \union {i} |-> IF j = i THEN r ELSE mcs[j]]
      BY <2>1
    <3>2. IsFiniteSet(DOMAIN mcs \union {i})
      BY <1>2, FS_AddElement
    <3> QED BY <1>2, <1>3, <3>1, <3>2
  <2>2. CASE \E r \in Rivals, i \in DOMAIN mcs : mcs' = [mcs EXCEPT ![i] = [r EXCEPT !.name = mcs[i].name]]
    <3>1. PICK r \in Rivals, i \in DOMAIN mcs : mcs' = [mcs EXCEPT ![i] = [r EXCEPT !.name = mcs[i].name]]
      BY <2>2
    <3>2. [r EXCEPT !.name = mcs[i].name].addons = r.addons
      BY <1>3 DEF CompanyFields
    <3>3. AddonsOK([r EXCEPT !.name = mcs[i].name])
      BY <1>3, <3>2 DEF AddonsOK
    <3> QED BY <1>2, <3>1, <3>3
  <2>3. CASE \E i \in DOMAIN mcs : mcs' = [j \in DOMAIN mcs \ {i} |-> mcs[j]]
    <3>1. PICK i \in DOMAIN mcs : mcs' = [j \in DOMAIN mcs \ {i} |-> mcs[j]]
      BY <2>3
    <3>2. IsFiniteSet(DOMAIN mcs \ {i})
      BY <1>2, FS_RemoveElement
    <3> QED BY <1>2, <3>1, <3>2
  <2> QED BY <2>1, <2>2, <2>3 DEF MspOthers
<1> QED BY <1>1, <1>4 DEF MspInvariant, Firm

LEMMA MspInvariantStep ==
  ASSUME MspInvariant, Stationed, [Next]_vars, Inductive', CompaniesKinds'
  PROVE  MspInvariant'
<1>1. CASE CompaniesAct
  <2>1. CASE Companies_Plan
    BY <2>1, PlanCourse DEF Companies_Plan, MspInvariant
  <2>2. CASE Companies_Look
    <3>1. MspLook /\ UNCHANGED <<mcs, spent, base, calm>>
      BY <2>2 DEF Companies_Look, MspLook
    <3>2. Firm'
      BY <3>1 DEF MspInvariant, Firm
    <3> QED BY <3>1, <3>2, LookCourse DEF MspInvariant
  <2>3. CASE Companies_Add
    <3>1. MspAdd /\ UNCHANGED calm
      BY <2>3 DEF Companies_Add, MspAdd
    <3> QED BY <3>1, AddCourse DEF MspInvariant
  <2>4. CASE Companies_Edit
    <3>1. MspEdit /\ UNCHANGED calm
      BY <2>4 DEF Companies_Edit, MspEdit
    <3> QED BY <3>1, EditCourse DEF MspInvariant
  <2>5. CASE Companies_Remove
    <3>1. MspRemove /\ UNCHANGED calm
      BY <2>5 DEF Companies_Remove, MspRemove
    <3> QED BY <3>1, RemoveCourse DEF MspInvariant
  <2>6. CASE Companies_Finish \/ Companies_Refuse \/ (Mishap /\ calm' = FALSE /\ MspStop /\ OnlyCompanies)
    <3>1. MspIdle
      BY <2>6 DEF Companies_Finish, Companies_Refuse, MspFinish, MspRefuse, MspStop
    <3> QED BY <3>1, IdleCourse DEF MspInvariant
  <2>7. CASE OthersCompany
    <3>1. MspOthers /\ ~calm'
      BY <2>7 DEF OthersCompany
    <3> QED BY <3>1, OthersFirm DEF MspInvariant
  <2> QED BY <1>1, <2>1, <2>2, <2>3, <2>4, <2>5, <2>6, <2>7 DEF CompaniesAct
<1>2. CASE AppsAct \/ BootAct \/ ServiceAct \/ BenchAct
  <2>1. UNCHANGED company /\ pc' \notin MspPc
    BY <1>2, NotCompanies
  <2>2. Firm'
    BY <2>1 DEF company, MspInvariant, Firm
  <2> QED BY <2>1, <2>2 DEF MspInvariant
<1>3. CASE UNCHANGED vars
  <2>1. UNCHANGED <<pc, calm, mcs, spent, rows, allowed, base, open, doomed, cur>>
    BY <1>3 DEF vars, process, company
  <2>2. Firm'
    BY <2>1 DEF MspInvariant, Firm
  <2>3. UNCHANGED <<Written, Gone>> /\ \A i : Due(i)' = Due(i)
    BY <2>1 DEF Written, Gone, Due, Row
  <2>4. UNCHANGED <<Dissolved(base, rows, allowed), Keys(Written), Founded(base, rows), Keys(Companies(base))>>
    BY <2>1, <2>3
  <2>5. MspCourse => MspCourse'
    BY <2>1, <2>3, <2>4 DEF MspCourse
  <2> QED BY <2>1, <2>2, <2>5 DEF MspInvariant
<1> QED BY <1>1, <1>2, <1>3, OneFamilyActs

LEMMA MspInvariantHolds == Spec => []MspInvariant
<1>1. ASSUME Init, TypeInvariant PROVE MspInvariant
  <2>1. pc = "idle" /\ mcs = NobodyYet /\ base = NobodyYet
    BY <1>1 DEF Init, SessionInit, MspInit
  <2>2. DOMAIN mcs = {} /\ DOMAIN base = {}
    BY <2>1 DEF NobodyYet
  <2>3. IsFiniteSet({})
    BY FS_EmptySet
  <2> QED BY <1>1, <2>1, <2>2, <2>3 DEF TypeInvariant, BootInvariant, MspInvariant, Firm, MspPc
<1>2. ASSUME MspInvariant, TypeInvariant, [Next]_vars, TypeInvariant' PROVE MspInvariant'
  BY <1>2, MspInvariantStep DEF TypeInvariant, BootInvariant
<1> QED BY <1>1, <1>2, TypeInvariantHolds, PTL DEF Spec

\* What a finished plan made of a company it changed: its file plan may be the old one
LEMMA ChangedCompany ==
  ASSUME MspInvariant, MspCourse, open = {}, NEW i \in DOMAIN base,
         Key(base[i]) \in Keys(Changed(base, rows))
  PROVE  LET r == Row(Key(base[i])) IN
         /\ r \in Changed(base, rows) /\ Key(r) = Key(base[i]) /\ i \in DOMAIN mcs
         /\ Blurred(Discovered(mcs[i])) = Blurred(Normal(r))
<1> DEFINE r == Row(Key(base[i]))
<1>1. PICK q \in Changed(base, rows) : Key(q) = Key(base[i])
  BY DEF Keys
<1>2. q \in rows /\ q = r
  BY <1>1, RowsOfPlan, RowsLoaded DEF MspInvariant
<1> HIDE DEF r
<1>3. /\ DOMAIN r = CompanyFields /\ r.name \in CompanyName /\ r.seats \in Nat /\ r \in rows
      /\ \A a \in DOMAIN r.addons : r.addons[a] \in Nat
  BY <1>2, RowsLoaded DEF MspInvariant
<1>4. i \notin Gone
  BY <1>1, <1>2 DEF Gone, Dissolved, Keys
<1>5. i \in DOMAIN mcs /\ mcs[i] = Updated(base[i], Discovered(base[i]), r)
  BY <1>4 DEF MspCourse, Due, r
<1>6. DOMAIN base[i] = CompanyFields /\ AddonsOK(base[i])
  BY DEF MspInvariant, Firm
<1>7. PICK file : Discovered(mcs[i]) = [Normal(r) EXCEPT !.file = file] /\ (r.file # NoFile => file = r.file)
  <2>1. PICK file : /\ file = IF r.file = NoFile THEN base[i].file ELSE r.file
                    /\ Discovered(mcs[i]) = [Normal(r) EXCEPT !.file = file]
    BY <1>3, <1>5, <1>6, UpdatedAsRow
  <2> QED BY <2>1
<1>8. /\ DOMAIN Normal(r) = CompanyFields /\ Normal(r).file = r.file /\ Normal(r).name = r.name
  <2>1. PICK a : Normal(r) = With(r, Canonical(r.seats), a)
    BY <1>3, NormalIs
  <2> QED BY <2>1, WithFields
<1>9. Blurred([Normal(r) EXCEPT !.file = file]) = Blurred(Normal(r))
  <2> DEFINE n == Normal(r)
             m == [n EXCEPT !.file = file]
  <2>1. DOMAIN n = CompanyFields /\ n.file = r.file /\ n.name = r.name
    BY <1>8
  <2>0. n = [x \in DOMAIN n |-> n[x]]
    BY <1>3, NormalIs DEF With
  <2> HIDE DEF n
  <2>2. DOMAIN m = CompanyFields /\ m.file = file /\ m.name = r.name
        /\ [m EXCEPT !.file = NoFile] = [n EXCEPT !.file = NoFile]
    BY <2>1 DEF CompanyFields
  <2>3. r.file # NoFile => m = n
    BY <1>7, <2>0, <2>1
  <2>4. Key(m) = Key(r) /\ Key(n) = Key(r)
    BY <2>1, <2>2 DEF Key
  <2> HIDE DEF m
  <2>5. r.file = NoFile => Key(r) \in {Key(p) : p \in {s \in rows : s.file = NoFile}}
    BY <1>3
  <2>6. Blurred(m) = Blurred(n)
    BY <2>2, <2>3, <2>4, <2>5 DEF Blurred
  <2> QED BY <2>6 DEF m, n
<1> QED BY <1>1, <1>2, <1>5, <1>7, <1>9 DEF r

\* An apply that was let alone, and ended with 0, has left what the mock's would
LEMMA FinishedAsMock ==
  ASSUME MspInvariant, calm, MspFinish
  PROVE  CompaniesAsMock
<1>1. open = {} /\ doomed = {} /\ MspCourse
  BY DEF MspFinish, MspInvariant, MspPc
<1>2. Gone = Dissolved(base, rows, allowed)
  BY <1>1 DEF Gone
<1>3. \A i \in DOMAIN base : IF i \in Gone THEN i \notin DOMAIN mcs ELSE i \in DOMAIN mcs /\ mcs[i] = Due(i)
  BY <1>1 DEF MspCourse
<1>4. \A r \in Founded(base, rows) : \E i \in DOMAIN mcs \ DOMAIN base : mcs[i] = Incorporated(r)
  BY <1>1 DEF MspCourse
<1>5. \A r \in Founded(base, rows) : Discovered(Incorporated(r)) = Normal(r)
  BY RowsOfPlan, RowsLoaded, FoundedAsRow DEF MspInvariant
<1>6. \A i \in DOMAIN base : Key(base[i]) \notin Keys(Changed(base, rows)) => Due(i) = base[i]
  BY <1>1 DEF Due
<1>7. \A i \in DOMAIN base : Key(base[i]) \notin Keys(Founded(base, rows))
  BY RowsOfPlan DEF Keys, Companies
<1>8. Keys(Written) = Keys(Founded(base, rows)) \union Keys(Changed(base, rows))
  BY DEF Keys, Written
<1> DEFINE kept == {j \in DOMAIN base \ Gone : Key(base[j]) \notin Keys(Written)}
<1>9. MockApplied(base, rows, allowed) = {Normal(r) : r \in Written} \union {Discovered(base[j]) : j \in kept}
  BY <1>2 DEF MockApplied, Written
<1>10. ASSUME NEW i \in DOMAIN mcs
       PROVE  \E c \in MockApplied(base, rows, allowed) : Blurred(Discovered(mcs[i])) = Blurred(c)
  <2>1. CASE i \notin DOMAIN base
    <3>1. PICK r \in Founded(base, rows) : mcs[i] = Incorporated(r)
      BY <1>1, <2>1 DEF MspCourse
    <3> QED BY <1>5, <1>9, <3>1 DEF Written
  <2>2. CASE i \in DOMAIN base /\ Key(base[i]) \in Keys(Changed(base, rows))
    <3>1. PICK r \in Changed(base, rows) : Blurred(Discovered(mcs[i])) = Blurred(Normal(r))
      BY <1>1, <2>2, ChangedCompany
    <3> QED BY <1>9, <3>1 DEF Written
  <2>3. CASE i \in DOMAIN base /\ Key(base[i]) \notin Keys(Changed(base, rows))
    <3>1. i \in kept /\ mcs[i] = base[i]
      BY <1>3, <1>6, <1>7, <1>8, <2>3
    <3> QED BY <1>9, <3>1
  <2> QED BY <2>1, <2>2, <2>3
<1>11. ASSUME NEW c \in MockApplied(base, rows, allowed)
       PROVE  \E i \in DOMAIN mcs : Blurred(Discovered(mcs[i])) = Blurred(c)
  <2>1. CASE \E r \in Founded(base, rows) : c = Normal(r)
    BY <1>4, <1>5, <2>1
  <2>2. CASE \E r \in Changed(base, rows) : c = Normal(r)
    <3>1. PICK r \in Changed(base, rows) : c = Normal(r)
      BY <2>2
    <3>2. Key(r) \in Keys(Companies(base)) /\ r \in rows
      BY <3>1, RowsOfPlan
    <3>3. PICK i \in DOMAIN base : Key(base[i]) = Key(r)
      BY <3>2 DEF Keys, Companies
    <3>4. Key(base[i]) \in Keys(Changed(base, rows)) /\ Row(Key(base[i])) = r
      BY <3>1, <3>2, <3>3, RowsLoaded DEF Keys, MspInvariant
    <3> QED BY <1>1, <3>1, <3>4, ChangedCompany
  <2>3. CASE \E j \in kept : c = Discovered(base[j])
    <3>1. PICK j \in kept : c = Discovered(base[j])
      BY <2>3
    <3>2. j \in DOMAIN mcs /\ mcs[j] = base[j]
      BY <1>3, <1>6, <1>8, <3>1
    <3> QED BY <3>1, <3>2
  <2> QED BY <1>9, <2>1, <2>2, <2>3 DEF Written
<1> QED BY <1>10, <1>11 DEF CompaniesAsMock

\* For all manifests and tenants: an apply of companies that is let alone and ends
\* with 0 leaves what the mock provider's apply of the same plan leaves.
THEOREM CompaniesAgree == Spec => [][Companies_Finish /\ calm => CompaniesAsMock]_vars
<1>1. ASSUME MspInvariant, [Next]_vars PROVE [Companies_Finish /\ calm => CompaniesAsMock]_vars
  BY <1>1, FinishedAsMock DEF Companies_Finish
<1> QED BY <1>1, MspInvariantHolds, PTL DEF Spec

------------------------------------------------------------------------------
(* What the applications are while an apply that is let alone goes on *)

\* No two applications have one marker: only new ones are marked, for rows that had
\* none when the plan was made
OneMark(a) == \A u, w \in Owned(a) : a[u].mark = a[w].mark => u = w

Marking ==
  /\ OneMark(apps) /\ OneMark(before)
  /\ pc \in KsmPc => (todo \ OwnedRefs(before)) \intersect OwnedRefs(apps) = {}
  /\ pc \in {"ksm-create", "ksm-mark"} => at.ref \in todo \ OwnedRefs(before)

\* What an application of the plan is by now
Titled(u) ==
  IF before[u].mark \in DOMAIN target.names \ todo THEN target.names[before[u].mark] ELSE before[u].name

Editable(u, v) ==
  IF <<before[u].mark, v>> \in ChangedShares(before, target) \ reshare
  THEN target.shares[<<before[u].mark, v>>] ELSE before[u].shares[v]

AsPlanned(u) ==
  /\ apps[u].mark = before[u].mark /\ apps[u].name = Titled(u)
  /\ DOMAIN apps[u].shares = DOMAIN before[u].shares
  /\ \A v \in DOMAIN before[u].shares : apps[u].shares[v] = Editable(u, v)

Removed == GoneApps(before, target, deleting) \ retired

KsmCourse ==
  /\ todo \subseteq NewApps(before, target) \union ChangedApps(before, target)
  /\ reshare \subseteq ChangedShares(before, target)
  /\ retired \subseteq GoneApps(before, target, deleting)
  /\ \A u \in DOMAIN before : IF u \in Removed THEN u \notin DOMAIN apps ELSE u \in DOMAIN apps /\ AsPlanned(u)
  /\ \A u \in DOMAIN apps \ DOMAIN before :
       /\ DOMAIN apps[u].shares = {}
       /\ \/ apps[u].mark = NoMark
          \/ apps[u].mark \in NewApps(before, target) \ todo /\ apps[u].name = target.names[apps[u].mark]
  /\ \A r \in NewApps(before, target) \ todo : \E u \in DOMAIN apps \ DOMAIN before : apps[u].mark = r
  /\ pc = "ksm-mark" => at.uid \in DOMAIN apps \ DOMAIN before /\ apps[at.uid].name = target.names[at.ref]

KsmInvariant ==
  /\ Inductive /\ AppsKinds /\ Marking
  /\ \A u \in DOMAIN before : AppOK(before[u])
  /\ pc \in KsmPc /\ calm => quiet /\ KsmCourse

LEMMA OnlyOne ==
  ASSUME NEW S, \A x, y \in S : x = y
  PROVE  ~(Cardinality(S) > 1) /\ (S # {} => Cardinality(S) = 1)
<1>1. CASE S = {}
  BY <1>1, FS_EmptySet
<1>2. CASE S # {}
  <2>1. PICK x : S = {x}
    BY <1>2
  <2>2. Cardinality(S) = 1
    BY <2>1, FS_Singleton
  <2> QED BY <2>2
<1> QED BY <1>1, <1>2

\* Then nothing is ambiguous
LEMMA MarkedOnce ==
  ASSUME NEW a, OneMark(a)
  PROVE  /\ Ambiguous(a) = {} /\ ClearPairs(a) = LivePairs(a)
         /\ \A u \in Owned(a) : AppOf(a, a[u].mark) = u
         /\ \A p, u : u \in SharedWith(a, p) => (CHOOSE w \in SharedWith(a, p) : TRUE) = u
         /\ \A p : \A u, w \in SharedWith(a, p) : u = w
<1>1. \A r : \A u, w \in OfRef(a, r) : u = w
  BY DEF OneMark, OfRef
<1>2. \A p : \A u, w \in SharedWith(a, p) : u = w
  BY <1>1 DEF SharedWith
<1>3. Ambiguous(a) = {}
  BY <1>1, OnlyOne DEF Ambiguous
<1>4. ClearPairs(a) = LivePairs(a)
  BY <1>2, OnlyOne DEF ClearPairs, LivePairs
<1>5. ASSUME NEW u \in Owned(a) PROVE AppOf(a, a[u].mark) = u
  <2>1. u \in OfRef(a, a[u].mark)
    BY DEF OfRef
  <2> QED BY <1>1, <2>1 DEF AppOf
<1>6. ASSUME NEW p, NEW u \in SharedWith(a, p) PROVE (CHOOSE w \in SharedWith(a, p) : TRUE) = u
  BY <1>2
<1> QED BY <1>2, <1>3, <1>4, <1>5, <1>6

\* Steps that give no application a marker
LEMMA MarksKept ==
  ASSUME NEW S, S \subseteq Owned(apps), \A u \in S : u \in DOMAIN apps' /\ apps'[u].mark = apps[u].mark,
         \A u \in DOMAIN apps' : u \in S \/ apps'[u].mark = NoMark
  PROVE  Owned(apps') = S /\ OwnedRefs(apps') \subseteq OwnedRefs(apps) /\ (OneMark(apps) => OneMark(apps'))
<1>1. Owned(apps') = S
  BY DEF Owned
<1> QED BY <1>1 DEF OwnedRefs, OneMark

LEMMA KsmPlanCourse ==
  ASSUME KsmInvariant, KsmPlan
  PROVE  Marking' /\ KsmCourse' /\ quiet' /\ \A u \in DOMAIN before' : AppOK(before'[u])
<1>1. PICK v \in Rollouts, allow \in BOOLEAN :
        /\ target' = v /\ deleting' = allow
        /\ todo' = NewApps(apps, v) \union ChangedApps(apps, v)
        /\ reshare' = ChangedShares(apps, v) /\ retired' = GoneApps(apps, v, allow)
  BY DEF KsmPlan
<1>2. before' = apps /\ apps' = apps /\ at' = at /\ pc' = "ksm" /\ quiet'
  BY DEF KsmPlan
<1>3. OneMark(apps)
  BY DEF KsmInvariant, Marking
<1>4. Marking'
  BY <1>2, <1>3 DEF Marking
<1>5. Removed' = {}
  BY <1>1, <1>2 DEF Removed
<1>6. LoadsApps(v)
  BY KsmApplyAssumption
<1>7. ASSUME NEW u \in DOMAIN apps PROVE AsPlanned(u)'
  <2>1. Titled(u)' = apps[u].name
    <3>1. CASE apps[u].mark \in DOMAIN v.names \ todo'
      <4>1. apps[u].mark \in OwnedRefs(apps) /\ u \in Owned(apps)
        BY <1>6, <3>1, KsmDiffAssumption DEF LoadsApps, Owned, OwnedRefs
      <4>2. AppOf(apps, apps[u].mark) = u /\ Ambiguous(apps) = {}
        BY <1>3, <4>1, MarkedOnce
      <4>3. apps[u].name = v.names[apps[u].mark]
        BY <1>1, <3>1, <4>1, <4>2 DEF ChangedApps
      <4> QED BY <1>1, <1>2, <3>1, <4>3 DEF Titled
    <3>2. CASE apps[u].mark \notin DOMAIN v.names \ todo'
      BY <1>1, <1>2, <3>2 DEF Titled
    <3> QED BY <3>1, <3>2
  <2>2. ASSUME NEW w \in DOMAIN apps[u].shares PROVE Editable(u, w)' = apps[u].shares[w]
    BY <1>1, <1>2 DEF Editable
  <2> QED BY <1>2, <2>1, <2>2 DEF AsPlanned
<1>8. \A r \in NewApps(apps, v) \ todo' : FALSE
  BY <1>1
<1>9. \A u \in DOMAIN before' : u \notin Removed' /\ u \in DOMAIN apps' /\ AsPlanned(u)'
  BY <1>2, <1>5, <1>7
<1>10. KsmCourse'
  BY <1>1, <1>2, <1>8, <1>9 DEF KsmCourse
<1>11. \A u \in DOMAIN before' : AppOK(before'[u])
  BY <1>2 DEF KsmInvariant, AppsKinds, AppsOK
<1> QED BY <1>2, <1>4, <1>10, <1>11

LEMMA KsmLookCourse ==
  ASSUME KsmInvariant, KsmLook
  PROVE  Marking' /\ (calm => quiet' /\ KsmCourse')
<1>1. PICK r \in todo \ OwnedRefs(before) : at' = [ref |-> r, uid |-> 0]
  BY DEF KsmLook
<1>2. /\ pc = "ksm" /\ pc' = "ksm-create" /\ (quiet => quiet')
      /\ UNCHANGED <<calm, apps, target, deleting, before, todo, reshare, retired>>
  BY DEF KsmLook
<1>3. Marking'
  BY <1>1, <1>2 DEF KsmInvariant, Marking, KsmPc
<1>4. UNCHANGED Removed /\ \A u : AsPlanned(u)' = AsPlanned(u)
  BY <1>2 DEF Removed, AsPlanned, Titled, Editable
<1>5. calm => quiet /\ KsmCourse
  BY <1>2 DEF KsmInvariant, KsmPc
<1>6. KsmCourse => KsmCourse'
  BY <1>2, <1>4 DEF KsmCourse
<1> QED BY <1>2, <1>3, <1>5, <1>6

LEMMA KsmRenameCourse ==
  ASSUME KsmInvariant, KsmRename
  PROVE  Marking' /\ (calm => quiet' /\ KsmCourse')
<1>1. PICK r \in todo \intersect OwnedRefs(before) :
        /\ Planned(r) \in DOMAIN apps
        /\ apps' = [apps EXCEPT ![Planned(r)].name = target.names[r]] /\ todo' = todo \ {r}
  BY DEF KsmRename
<1>2. /\ pc = "ksm" /\ pc' = "ksm"
      /\ UNCHANGED <<calm, quiet, target, deleting, before, reshare, retired, at>>
  BY DEF KsmRename
<1>3. PICK d \in Owned(before) : before[d].mark = r
  BY <1>1 DEF OwnedRefs
<1>4. Planned(r) = d /\ \A u \in Owned(before) : before[u].mark = r => u = d
  BY <1>3, MarkedOnce DEF KsmInvariant, Marking, OneMark, Planned
<1>5. /\ DOMAIN apps' = DOMAIN apps /\ d \in DOMAIN apps
      /\ \A u \in DOMAIN apps : /\ u # d => apps'[u] = apps[u]
                                /\ apps'[u].mark = apps[u].mark /\ apps'[u].shares = apps[u].shares
      /\ apps'[d].name = target.names[r]
  <2>1. apps' = [apps EXCEPT ![d] = [apps[d] EXCEPT !.name = target.names[r]]]
    BY <1>1, <1>4
  <2>2. DOMAIN apps[d] = {"name", "mark", "shares"}
    BY <1>1, <1>4 DEF KsmInvariant, AppsKinds, AppsOK, AppOK
  <2> QED BY <1>1, <1>4, <2>1, <2>2
<1>6. Owned(apps') = Owned(apps) /\ OwnedRefs(apps') \subseteq OwnedRefs(apps) /\ OneMark(apps')
  <2>1. \A u \in DOMAIN apps' : u \in Owned(apps) \/ apps'[u].mark = NoMark
    BY <1>5 DEF Owned
  <2>2. \A u \in Owned(apps) : u \in DOMAIN apps' /\ apps'[u].mark = apps[u].mark
    BY <1>5 DEF Owned
  <2> QED BY <2>1, <2>2, MarksKept DEF KsmInvariant, Marking
<1>7. Marking'
  BY <1>1, <1>2, <1>6 DEF KsmInvariant, Marking, KsmPc
<1>8. ASSUME calm PROVE KsmCourse'
  <2>1. KsmCourse
    BY <1>2, <1>8 DEF KsmInvariant, KsmPc
  <2>2. UNCHANGED Removed /\ NoMark \notin DOMAIN target.names
    BY <1>2, TargetOK DEF Removed, KsmInvariant, AppsKinds
  <2>3. r \in DOMAIN target.names /\ r \notin NewApps(before, target)
    BY <1>1 DEF KsmInvariant, AppsKinds, TasksOK, NewApps
  <2>4. ASSUME NEW u \in DOMAIN before, u \notin Removed PROVE AsPlanned(u)'
    <3>1. AsPlanned(u) /\ u \in DOMAIN apps
      BY <2>1, <2>4 DEF KsmCourse
    <3>2. \A v : Editable(u, v)' = Editable(u, v)
      BY <1>2 DEF Editable
    <3>3. CASE u = d
      <4>1. Titled(u)' = target.names[r]
        BY <1>1, <1>2, <1>3, <2>3, <3>3 DEF Titled
      <4> QED BY <1>2, <1>5, <3>1, <3>2, <3>3, <4>1 DEF AsPlanned
    <3>4. CASE u # d
      <4>1. before[u].mark # r
        BY <1>4, <2>2, <2>3, <2>4, <3>4 DEF Owned
      <4>2. Titled(u)' = Titled(u)
        BY <1>1, <1>2, <4>1 DEF Titled
      <4> QED BY <1>2, <1>5, <3>1, <3>2, <3>4, <4>2 DEF AsPlanned
    <3> QED BY <3>3, <3>4
  <2>5. \A u \in DOMAIN before : IF u \in Removed' THEN u \notin DOMAIN apps' ELSE u \in DOMAIN apps' /\ AsPlanned(u)'
    BY <1>5, <2>1, <2>2, <2>4 DEF KsmCourse
  <2>6. NewApps(before, target) \ todo' = NewApps(before, target) \ todo
    BY <1>1, <2>3
  <2>7. d \in DOMAIN before
    BY <1>3 DEF Owned
  <2>8. \A u \in DOMAIN apps' \ DOMAIN before : apps'[u] = apps[u]
    BY <1>5, <2>7
  <2>9. \A u \in DOMAIN apps' \ DOMAIN before :
          /\ DOMAIN apps'[u].shares = {}
          /\ \/ apps'[u].mark = NoMark
             \/ apps'[u].mark \in NewApps(before, target) \ todo' /\ apps'[u].name = target.names[apps'[u].mark]
    BY <1>5, <2>1, <2>6, <2>8 DEF KsmCourse
  <2>10. \A q \in NewApps(before, target) \ todo' : \E u \in DOMAIN apps' \ DOMAIN before : apps'[u].mark = q
    BY <1>5, <2>1, <2>6, <2>8 DEF KsmCourse
  <2>11. /\ todo' \subseteq NewApps(before, target) \union ChangedApps(before, target)
         /\ reshare \subseteq ChangedShares(before, target)
         /\ retired \subseteq GoneApps(before, target, deleting)
    BY <1>1, <2>1 DEF KsmCourse
  <2> QED BY <1>2, <2>5, <2>9, <2>10, <2>11 DEF KsmCourse
<1> QED BY <1>2, <1>7, <1>8 DEF KsmInvariant, KsmPc

LEMMA KsmCreateCourse ==
  ASSUME KsmInvariant, KsmCreate
  PROVE  Marking' /\ (calm => quiet' /\ KsmCourse')
<1>1. PICK n, new, u :
        /\ new \subseteq AppId \ given /\ u \in DOMAIN apps \union new
        /\ n = target.names[at.ref]
        /\ apps' = [w \in DOMAIN apps \union new |-> IF w \in new THEN NewApp(n) ELSE apps[w]]
        /\ at' = [at EXCEPT !.uid = u]
        /\ Named(n) = {} => u \in new
  BY CreateIsNew DEF KsmInvariant
<1>2. /\ pc = "ksm-create" /\ pc' = "ksm-mark"
      /\ UNCHANGED <<calm, quiet, target, deleting, before, todo, reshare, retired>>
  BY DEF KsmCreate
<1>3. DOMAIN apps \subseteq given /\ DOMAIN before \subseteq given
  BY DEF KsmInvariant, Inductive, AppsGiven
<1>4. at'.ref = at.ref /\ at'.uid = u
  BY <1>1 DEF KsmInvariant, AppsKinds, AtOK
<1>5. NewApp(n).mark = NoMark /\ NewApp(n).name = n /\ DOMAIN NewApp(n).shares = {}
  BY DEF NewApp
<1>6. /\ DOMAIN apps' = DOMAIN apps \union new /\ \A w \in new : w \notin DOMAIN before /\ apps'[w] = NewApp(n)
      /\ \A w \in DOMAIN apps : w \notin new /\ apps'[w] = apps[w]
  BY <1>1, <1>3
<1>7. Owned(apps') = Owned(apps) /\ OwnedRefs(apps') \subseteq OwnedRefs(apps) /\ OneMark(apps')
  <2>1. \A w \in DOMAIN apps' : w \in Owned(apps) \/ apps'[w].mark = NoMark
    BY <1>5, <1>6 DEF Owned
  <2>2. \A w \in Owned(apps) : w \in DOMAIN apps' /\ apps'[w].mark = apps[w].mark
    BY <1>6 DEF Owned
  <2> QED BY <2>1, <2>2, MarksKept DEF KsmInvariant, Marking
<1>8. Marking'
  BY <1>2, <1>4, <1>7 DEF KsmInvariant, Marking, KsmPc
<1>9. ASSUME calm PROVE KsmCourse'
  <2>1. KsmCourse /\ quiet
    BY <1>2, <1>9 DEF KsmInvariant, KsmPc
  <2>2. u \in new
    BY <1>1, <1>2, <2>1 DEF KsmInvariant, Inductive, ListingHolds
  <2>3. UNCHANGED Removed
    BY <1>2 DEF Removed
  <2>4. \A w \in DOMAIN before \intersect DOMAIN apps : AsPlanned(w)' = AsPlanned(w)
    BY <1>2, <1>6 DEF AsPlanned, Titled, Editable
  <2>5. \A w \in DOMAIN before : IF w \in Removed' THEN w \notin DOMAIN apps' ELSE w \in DOMAIN apps' /\ AsPlanned(w)'
    BY <1>6, <2>1, <2>3, <2>4 DEF KsmCourse
  <2>6. \A w \in DOMAIN apps' \ DOMAIN before :
          /\ DOMAIN apps'[w].shares = {}
          /\ \/ apps'[w].mark = NoMark
             \/ apps'[w].mark \in NewApps(before, target) \ todo /\ apps'[w].name = target.names[apps'[w].mark]
    BY <1>5, <1>6, <2>1 DEF KsmCourse
  <2>7. \A r \in NewApps(before, target) \ todo : \E w \in DOMAIN apps' \ DOMAIN before : apps'[w].mark = r
    BY <1>6, <2>1 DEF KsmCourse
  <2>8. at'.uid \in DOMAIN apps' \ DOMAIN before /\ apps'[at'.uid].name = target.names[at'.ref]
    BY <1>1, <1>4, <1>5, <1>6, <2>2
  <2>9. /\ todo \subseteq NewApps(before, target) \union ChangedApps(before, target)
        /\ reshare \subseteq ChangedShares(before, target)
        /\ retired \subseteq GoneApps(before, target, deleting)
    BY <2>1 DEF KsmCourse
  <2> QED BY <1>2, <2>5, <2>6, <2>7, <2>8, <2>9 DEF KsmCourse
<1> QED BY <1>2, <1>8, <1>9 DEF KsmInvariant, KsmPc

LEMMA KsmMarkCourse ==
  ASSUME KsmInvariant, KsmMark, NEW r, r = at.ref, NEW d, d = at.uid
  PROVE  Marking' /\ (calm => quiet' /\ KsmCourse')
<1>1. /\ pc = "ksm-mark" /\ pc' = "ksm" /\ d \in DOMAIN apps
      /\ apps' = [apps EXCEPT ![d].mark = r] /\ todo' = todo \ {r}
      /\ UNCHANGED <<calm, quiet, target, deleting, before, reshare, retired>>
  BY DEF KsmMark
<1>2. r \in todo \ OwnedRefs(before) /\ r \notin OwnedRefs(apps)
  BY <1>1 DEF KsmInvariant, Marking, KsmPc
<1>3. r \in DOMAIN target.names /\ r # NoMark
  BY <1>2, TargetOK DEF KsmInvariant, AppsKinds, TasksOK
<1>4. /\ DOMAIN apps' = DOMAIN apps /\ apps'[d].mark = r
      /\ apps'[d].name = apps[d].name /\ apps'[d].shares = apps[d].shares
      /\ \A u \in DOMAIN apps \ {d} : apps'[u] = apps[u]
  <2>1. apps' = [apps EXCEPT ![d] = [apps[d] EXCEPT !.mark = r]]
    BY <1>1
  <2>2. DOMAIN apps[d] = {"name", "mark", "shares"}
    BY <1>1 DEF KsmInvariant, AppsKinds, AppsOK, AppOK
  <2> QED BY <1>1, <2>1, <2>2
<1>5. Owned(apps') = Owned(apps) \union {d}
  BY <1>1, <1>3, <1>4 DEF Owned
<1>6. \A u \in Owned(apps) \ {d} : apps'[u].mark = apps[u].mark /\ apps[u].mark # r
  BY <1>2, <1>4 DEF Owned, OwnedRefs
<1>7. OneMark(apps')
  BY <1>4, <1>5, <1>6 DEF OneMark, KsmInvariant, Marking
<1>8. OwnedRefs(apps') \subseteq OwnedRefs(apps) \union {r}
  BY <1>4, <1>5, <1>6 DEF OwnedRefs
<1>9. Marking'
  BY <1>1, <1>7, <1>8 DEF KsmInvariant, Marking, KsmPc
<1>10. ASSUME calm PROVE KsmCourse'
  <2>1. KsmCourse /\ quiet
    BY <1>1, <1>10 DEF KsmInvariant, KsmPc
  <2>2. d \in DOMAIN apps \ DOMAIN before /\ apps[d].name = target.names[r]
    BY <1>1, <2>1 DEF KsmCourse
  <2>3. apps[d].mark = NoMark
    BY <1>1, <2>1 DEF KsmInvariant, Inductive, ListingHolds
  <2>4. UNCHANGED Removed
    BY <1>1 DEF Removed
  <2>5. r \in NewApps(before, target)
    BY <1>2, <1>3 DEF NewApps
  <2>6. ASSUME NEW u \in DOMAIN before \intersect DOMAIN apps PROVE AsPlanned(u)' = AsPlanned(u)
    <3>1. before[u].mark # r
      BY <1>2, <1>3 DEF Owned, OwnedRefs
    <3>2. Titled(u)' = Titled(u) /\ \A v : Editable(u, v)' = Editable(u, v)
      BY <1>1, <3>1 DEF Titled, Editable
    <3>3. apps'[u] = apps[u] /\ before' = before
      BY <1>1, <1>4, <2>2
    <3> QED BY <3>2, <3>3 DEF AsPlanned
  <2>7. \A u \in DOMAIN before : IF u \in Removed' THEN u \notin DOMAIN apps' ELSE u \in DOMAIN apps' /\ AsPlanned(u)'
    BY <1>4, <2>1, <2>4, <2>6 DEF KsmCourse
  <2>8. \A u \in DOMAIN apps' \ DOMAIN before :
          /\ DOMAIN apps'[u].shares = {}
          /\ \/ apps'[u].mark = NoMark
             \/ apps'[u].mark \in NewApps(before, target) \ todo' /\ apps'[u].name = target.names[apps'[u].mark]
    <3> TAKE u \in DOMAIN apps' \ DOMAIN before
    <3>1. CASE u = d
      <4>1. DOMAIN apps[d].shares = {}
        BY <2>1, <2>2 DEF KsmCourse
      <4>2. r \in NewApps(before, target) \ todo' /\ apps'[d].name = target.names[r]
        BY <1>1, <1>4, <2>2, <2>5
      <4> QED BY <1>4, <3>1, <4>1, <4>2
    <3>2. CASE u # d
      <4>1. apps'[u] = apps[u] /\ u \in DOMAIN apps \ DOMAIN before
        BY <1>4, <3>2
      <4>2. /\ DOMAIN apps[u].shares = {}
            /\ \/ apps[u].mark = NoMark
               \/ apps[u].mark \in NewApps(before, target) \ todo /\ apps[u].name = target.names[apps[u].mark]
        BY <2>1, <4>1 DEF KsmCourse
      <4>3. todo' \subseteq todo
        BY <1>1
      <4> QED BY <4>1, <4>2, <4>3
    <3> QED BY <3>1, <3>2
  <2>9. \A q \in NewApps(before, target) \ todo' : \E u \in DOMAIN apps' \ DOMAIN before : apps'[u].mark = q
    <3> TAKE q \in NewApps(before, target) \ todo'
    <3>1. CASE q = r
      BY <1>4, <2>2, <3>1
    <3>2. CASE q # r
      <4>1. PICK u \in DOMAIN apps \ DOMAIN before : apps[u].mark = q
        BY <1>1, <2>1, <3>2 DEF KsmCourse
      <4>2. q # NoMark
        BY TargetOK DEF NewApps, KsmInvariant, AppsKinds
      <4>3. u # d
        BY <2>3, <4>1, <4>2
      <4> QED BY <1>4, <4>1, <4>3
    <3> QED BY <3>1, <3>2
  <2>10. /\ todo' \subseteq NewApps(before, target) \union ChangedApps(before, target)
         /\ reshare \subseteq ChangedShares(before, target)
         /\ retired \subseteq GoneApps(before, target, deleting)
    BY <1>1, <2>1 DEF KsmCourse
  <2> QED BY <1>1, <2>7, <2>8, <2>9, <2>10 DEF KsmCourse
<1> QED BY <1>1, <1>9, <1>10 DEF KsmInvariant, KsmPc

LEMMA KsmReshareCourse ==
  ASSUME KsmInvariant, KsmReshare
  PROVE  Marking' /\ (calm => quiet' /\ KsmCourse')
<1>1. PICK p \in reshare, d \in DOMAIN apps :
        /\ d \in SharedWith(before, p) /\ p[2] \in DOMAIN apps[d].shares
        /\ apps' = [apps EXCEPT ![d].shares[p[2]] = target.shares[p]] /\ reshare' = reshare \ {p}
  BY DEF KsmReshare
<1>2. /\ pc = "ksm" /\ pc' = "ksm"
      /\ UNCHANGED <<calm, quiet, target, deleting, before, todo, retired, at>>
  BY DEF KsmReshare
<1>3. d \in Owned(before) /\ d \in DOMAIN before /\ before[d].mark = p[1]
  BY <1>1 DEF SharedWith, OfRef, Owned
<1>4. \A u \in Owned(before) : before[u].mark = p[1] => u = d
  BY <1>3 DEF KsmInvariant, Marking, OneMark
<1> DEFINE s == [apps[d].shares EXCEPT ![p[2]] = target.shares[p]]
<1>5. /\ DOMAIN apps' = DOMAIN apps
      /\ \A u \in DOMAIN apps : u # d => apps'[u] = apps[u]
      /\ apps'[d].mark = apps[d].mark /\ apps'[d].name = apps[d].name /\ apps'[d].shares = s
  <2>1. apps' = [apps EXCEPT ![d] = [apps[d] EXCEPT !.shares = s]]
    BY <1>1
  <2>2. DOMAIN apps[d] = {"name", "mark", "shares"}
    BY <1>1 DEF KsmInvariant, AppsKinds, AppsOK, AppOK
  <2> HIDE DEF s
  <2> QED BY <1>1, <2>1, <2>2
<1>6. DOMAIN s = DOMAIN apps[d].shares /\ s[p[2]] = target.shares[p]
      /\ \A v \in DOMAIN apps[d].shares : v # p[2] => s[v] = apps[d].shares[v]
  BY <1>1
<1> HIDE DEF s
<1>7. Owned(apps') = Owned(apps) /\ OwnedRefs(apps') \subseteq OwnedRefs(apps) /\ OneMark(apps')
  <2>1. \A u \in DOMAIN apps' : u \in Owned(apps) \/ apps'[u].mark = NoMark
    BY <1>1, <1>5 DEF Owned
  <2>2. \A u \in Owned(apps) : u \in DOMAIN apps' /\ apps'[u].mark = apps[u].mark
    BY <1>5 DEF Owned
  <2> QED BY <2>1, <2>2, MarksKept DEF KsmInvariant, Marking
<1>8. Marking'
  BY <1>2, <1>7 DEF KsmInvariant, Marking, KsmPc
<1>9. ASSUME calm PROVE KsmCourse'
  <2>1. KsmCourse
    BY <1>2, <1>9 DEF KsmInvariant, KsmPc
  <2>2. UNCHANGED Removed
    BY <1>2 DEF Removed
  <2>3. p \in ChangedShares(before, target) /\ p = <<p[1], p[2]>> /\ p[1] # NoMark
    <3>1. p \in ChangedShares(before, target)
      BY <2>1 DEF KsmCourse
    <3>2. p \in AppRef \X Vault
      BY <3>1 DEF ChangedShares, ClearPairs, LivePairs
    <3>3. p[1] \in AppRef /\ p = <<p[1], p[2]>>
      BY <3>2
    <3> QED BY <3>1, <3>3, KsmDiffAssumption
  <2>4. ASSUME NEW u \in DOMAIN before, u # d, NEW v PROVE Editable(u, v)' = Editable(u, v)
    <3>1. before[u].mark # p[1]
      BY <1>4, <2>3, <2>4 DEF Owned
    <3>2. <<before[u].mark, v>> # p
      BY <2>3, <3>1
    <3> QED BY <1>1, <1>2, <3>2 DEF Editable
  <2>5. ASSUME NEW v, v # p[2] PROVE Editable(d, v)' = Editable(d, v)
    <3>1. <<before[d].mark, v>> # p
      BY <2>3, <2>5
    <3> QED BY <1>1, <1>2, <3>1 DEF Editable
  <2>6. Editable(d, p[2])' = target.shares[p]
    <3>1. <<before[d].mark, p[2]>> = p
      BY <1>3, <2>3
    <3> QED BY <1>1, <1>2, <2>3, <3>1 DEF Editable
  <2>7. ASSUME NEW u \in DOMAIN before, u \notin Removed PROVE AsPlanned(u)'
    <3>1. AsPlanned(u) /\ u \in DOMAIN apps
      BY <2>1, <2>7 DEF KsmCourse
    <3>2. Titled(u)' = Titled(u)
      BY <1>2 DEF Titled
    <3>3. CASE u = d
      <4>1. \A v \in DOMAIN before[d].shares : apps'[d].shares[v] = Editable(d, v)'
        <5> TAKE v \in DOMAIN before[d].shares
        <5>1. v \in DOMAIN apps[d].shares /\ apps[d].shares[v] = Editable(d, v)
          BY <3>1, <3>3 DEF AsPlanned
        <5>2. CASE v = p[2]
          BY <1>5, <1>6, <2>6, <5>2
        <5>3. CASE v # p[2]
          BY <1>5, <1>6, <2>5, <5>1, <5>3
        <5> QED BY <5>2, <5>3
      <4> QED BY <1>2, <1>5, <1>6, <3>1, <3>2, <3>3, <4>1 DEF AsPlanned
    <3>4. CASE u # d
      BY <1>2, <1>5, <2>4, <3>1, <3>2, <3>4 DEF AsPlanned
    <3> QED BY <3>3, <3>4
  <2>8. \A u \in DOMAIN before : IF u \in Removed' THEN u \notin DOMAIN apps' ELSE u \in DOMAIN apps' /\ AsPlanned(u)'
    BY <1>5, <2>1, <2>2, <2>7 DEF KsmCourse
  <2>9. \A u \in DOMAIN apps' \ DOMAIN before : apps'[u] = apps[u]
    BY <1>3, <1>5
  <2> QED BY <1>1, <1>2, <1>5, <2>1, <2>8, <2>9 DEF KsmCourse
<1> QED BY <1>2, <1>8, <1>9 DEF KsmInvariant, KsmPc

LEMMA KsmDeleteCourse ==
  ASSUME KsmInvariant, KsmDelete
  PROVE  Marking' /\ (calm => quiet' /\ KsmCourse')
<1>1. PICK d \in retired : apps' = [w \in DOMAIN apps \ {d} |-> apps[w]] /\ retired' = retired \ {d}
  BY DEF KsmDelete
<1>2. /\ pc = "ksm" /\ pc' = "ksm"
      /\ UNCHANGED <<calm, quiet, target, deleting, before, todo, reshare, at>>
  BY DEF KsmDelete
<1>3. DOMAIN apps' = DOMAIN apps \ {d} /\ \A u \in DOMAIN apps' : apps'[u] = apps[u]
  BY <1>1
<1>4. OwnedRefs(apps') \subseteq OwnedRefs(apps) /\ OneMark(apps')
  BY <1>3 DEF OwnedRefs, Owned, OneMark, KsmInvariant, Marking
<1>5. Marking'
  BY <1>2, <1>4 DEF KsmInvariant, Marking, KsmPc
<1>6. ASSUME calm PROVE KsmCourse'
  <2>1. KsmCourse
    BY <1>2, <1>6 DEF KsmInvariant, KsmPc
  <2>2. d \in GoneApps(before, target, deleting) /\ d \in DOMAIN before
    BY <2>1 DEF KsmCourse, GoneApps, Owned
  <2>3. Removed' = Removed \union {d}
    BY <1>1, <1>2, <2>2 DEF Removed
  <2>4. \A u \in DOMAIN apps' : AsPlanned(u)' = AsPlanned(u)
    BY <1>2, <1>3 DEF AsPlanned, Titled, Editable
  <2>5. \A u \in DOMAIN before : IF u \in Removed' THEN u \notin DOMAIN apps' ELSE u \in DOMAIN apps' /\ AsPlanned(u)'
    BY <1>3, <2>1, <2>3, <2>4 DEF KsmCourse
  <2>6. DOMAIN apps' \ DOMAIN before = DOMAIN apps \ DOMAIN before
    BY <1>3, <2>2
  <2> QED BY <1>1, <1>2, <1>3, <2>1, <2>5, <2>6 DEF KsmCourse
<1> QED BY <1>2, <1>5, <1>6 DEF KsmInvariant, KsmPc

LEMMA NotApplications ==
  ASSUME Stationed, CompaniesAct \/ ServiceAct \/ BenchAct
  PROVE  UNCHANGED application /\ pc' \notin KsmPc
<1>1. UNCHANGED application /\ pc \notin KsmPc
  BY CompaniesStay, ServiceStays, BenchStays DEF OnlyCompanies, OnlyService, OnlyBench, Stationed
<1>2. UNCHANGED pc \/ pc' \in MspPc \union SvcPc \union BenchPc \union {"idle"}
  BY CompaniesStay, ServiceStays, BenchStays
<1> QED BY <1>1, <1>2, StepsApart DEF KsmPc

\* What the bootstrap and others do to applications leaves the markers
LEMMA BootMarks == ASSUME KsmInvariant, Stationed, BootKinds, BootAct PROVE Marking' /\ pc' \notin KsmPc /\ UNCHANGED before
<1>1. UNCHANGED apply
  BY DEF BootAct, Boot_Start, Boot_Steps, Learn, BootStart, BootLookApp, BootAddApp, BootShare, BootLookDir,
     BootAddDir, BootShareDir, BootToken, BootRedeem, BootFinish, BootPoll, BootGiveUp, BootIdle, BootStop,
     Propagate, application
<1>2. pc' \notin KsmPc
  BY DEF BootAct, Boot_Start, Boot_Steps, Learn, BootStart, BootLookApp, BootAddApp, BootShare, BootLookDir,
     BootAddDir, BootShareDir, BootToken, BootRedeem, BootFinish, BootPoll, BootGiveUp, BootStop, BootIdle,
     Propagate, KsmPc, BootSteps, process
<1>3. OneMark(apps')
  <2>1. CASE UNCHANGED apps
    BY <2>1 DEF KsmInvariant, Marking
  <2>2. CASE BootAddApp
    <3>1. PICK u \in FreshOf(AppId, given, 1) :
            apps' = [w \in DOMAIN apps \union {u} |-> IF w = u THEN NewApp(BootName) ELSE apps[w]]
      BY <2>2 DEF BootAddApp
    <3>2. u \notin DOMAIN apps
      BY FreshIsNew DEF KsmInvariant, Inductive, AppsGiven
    <3>3. NewApp(BootName).mark = NoMark
      BY DEF NewApp
    <3>4. \A w \in Owned(apps) : w \in DOMAIN apps' /\ apps'[w].mark = apps[w].mark
      BY <3>1, <3>2 DEF Owned
    <3>5. \A w \in DOMAIN apps' : w \in Owned(apps) \/ apps'[w].mark = NoMark
      BY <3>1, <3>2, <3>3 DEF Owned
    <3> QED BY <3>4, <3>5, MarksKept DEF KsmInvariant, Marking
  <2>3. ASSUME BootShare \/ BootShareDir PROVE OneMark(apps')
    <3>1. \E r, e : app \in DOMAIN apps /\ Share(app, r, e)
      BY <2>3 DEF BootShare, BootShareDir
    <3>2. DOMAIN apps' = DOMAIN apps /\ \A w \in DOMAIN apps : apps'[w].mark = apps[w].mark
      BY <3>1, SharedApp DEF KsmInvariant, AppsKinds
    <3> QED BY <3>2 DEF OneMark, Owned, KsmInvariant, Marking
  <2> QED BY <2>1, <2>2, <2>3
          DEF BootAct, Boot_Start, Boot_Steps, Learn, BootStart, BootLookApp, BootLookDir,
     BootAddDir, BootToken, BootRedeem, BootFinish, BootPoll, BootGiveUp, BootIdle, BootStop,
     Propagate, application
<1> QED BY <1>1, <1>2, <1>3 DEF apply, KsmInvariant, Marking, KsmPc

LEMMA OthersMarks == ASSUME KsmInvariant, OthersApp PROVE Marking' /\ UNCHANGED before
<1>1. UNCHANGED <<pc, target, before, todo, at>>
  BY DEF OthersApp, apply
<1>2. OneMark(apps') /\ OwnedRefs(apps') \subseteq OwnedRefs(apps)
  <2>1. CASE \E a \in StrangeApps, u \in FreshOf(AppId, given, 1) :
               apps' = [w \in DOMAIN apps \union {u} |-> IF w = u THEN a ELSE apps[w]]
    <3>1. PICK a \in StrangeApps, u \in AppId \ given :
            apps' = [w \in DOMAIN apps \union {u} |-> IF w = u THEN a ELSE apps[w]]
      BY <2>1, FreshIsNew
    <3>2. u \notin DOMAIN apps
      BY DEF KsmInvariant, Inductive, AppsGiven
    <3>3. a.mark = NoMark
      BY TenantAssumption DEF NewApp
    <3>4. \A w \in Owned(apps) : w \in DOMAIN apps' /\ apps'[w].mark = apps[w].mark
      BY <3>1, <3>2 DEF Owned
    <3>5. \A w \in DOMAIN apps' : w \in Owned(apps) \/ apps'[w].mark = NoMark
      BY <3>1, <3>2, <3>3 DEF Owned
    <3> QED BY <3>4, <3>5, MarksKept DEF KsmInvariant, Marking
  <2>2. CASE \E u \in DOMAIN apps : apps' = [w \in DOMAIN apps \ {u} |-> apps[w]]
    BY <2>2 DEF KsmInvariant, Marking, OneMark, Owned, OwnedRefs
  <2> QED BY <2>1, <2>2 DEF OthersApp
<1> QED BY <1>1, <1>2 DEF KsmInvariant, Marking

LEMMA KsmIdleMarks ==
  ASSUME KsmInvariant, KsmIdle
  PROVE  Marking' /\ pc' \notin KsmPc /\ \A u \in DOMAIN before' : AppOK(before'[u])
<1>1. pc' = "idle" /\ before' = NoApps /\ apps' = apps
  BY DEF KsmIdle
<1>2. DOMAIN before' = {}
  BY <1>1 DEF NoApps
<1>3. OneMark(before')
  BY <1>2 DEF OneMark, Owned
<1> QED BY <1>1, <1>2, <1>3 DEF KsmInvariant, Marking, KsmPc

LEMMA KsmInvariantStep ==
  ASSUME KsmInvariant, Stationed, BootKinds, [Next]_vars, Inductive', AppsKinds'
  PROVE  KsmInvariant'
<1>1. CASE AppsAct
  <2>1. CASE Apps_Plan
    BY <2>1, KsmPlanCourse DEF Apps_Plan, KsmInvariant
  <2>2. CASE Apps_Rename \/ Apps_Look \/ Apps_Create \/ Apps_Mark \/ Apps_Reshare \/ Apps_Delete
    <3>1. pc \in KsmPc /\ UNCHANGED <<calm, before>>
      BY <2>2 DEF Apps_Rename, Apps_Look, Apps_Create, Apps_Mark, Apps_Reshare, Apps_Delete,
                  KsmRename, KsmLook, KsmCreate, KsmMark, KsmReshare, KsmDelete, KsmPc
    <3>2. Marking' /\ (calm => quiet' /\ KsmCourse')
      BY <2>2, KsmRenameCourse, KsmLookCourse, KsmCreateCourse, KsmMarkCourse, KsmReshareCourse, KsmDeleteCourse
         DEF Apps_Rename, Apps_Look, Apps_Create, Apps_Mark, Apps_Reshare, Apps_Delete
    <3> QED BY <3>1, <3>2 DEF KsmInvariant
  <2>3. CASE Apps_Finish \/ Apps_Refuse \/ (Mishap /\ calm' = FALSE /\ KsmStop /\ OnlyApps)
    <3>1. KsmIdle
      BY <2>3 DEF Apps_Finish, Apps_Refuse, KsmFinish, KsmRefuse, KsmStop
    <3> QED BY <3>1, KsmIdleMarks DEF KsmInvariant
  <2>4. CASE OthersApp
    <3>1. ~calm'
      BY <2>4 DEF OthersApp
    <3> QED BY <2>4, <3>1, OthersMarks DEF KsmInvariant
  <2> QED BY <1>1, <2>1, <2>2, <2>3, <2>4 DEF AppsAct
<1>2. CASE BootAct
  BY <1>2, BootMarks DEF KsmInvariant
<1>3. CASE CompaniesAct \/ ServiceAct \/ BenchAct
  <2>1. UNCHANGED <<apps, before, todo, at>> /\ pc' \notin KsmPc
    BY <1>3, NotApplications DEF application, apply
  <2> QED BY <2>1 DEF KsmInvariant, Marking, KsmPc
<1>4. CASE UNCHANGED vars
  <2>1. UNCHANGED <<pc, calm, quiet, apps, target, deleting, before, todo, reshare, retired, at>>
    BY <1>4 DEF vars, process, application, apply
  <2>2. UNCHANGED Removed /\ \A u : AsPlanned(u)' = AsPlanned(u)
    BY <2>1 DEF Removed, AsPlanned, Titled, Editable
  <2>3. KsmCourse => KsmCourse'
    BY <2>1, <2>2 DEF KsmCourse
  <2>4. Marking'
    BY <2>1 DEF KsmInvariant, Marking
  <2> QED BY <2>1, <2>3, <2>4 DEF KsmInvariant
<1> QED BY <1>1, <1>2, <1>3, <1>4, OneFamilyActs

LEMMA KsmInvariantHolds == Spec => []KsmInvariant
<1>1. ASSUME Init, TypeInvariant PROVE KsmInvariant
  <2>1. pc = "idle" /\ apps = NoApps /\ before = NoApps
    BY <1>1 DEF Init, SessionInit, KsmInit
  <2>2. DOMAIN NoApps = {} /\ OneMark(NoApps)
    BY DEF NoApps, OneMark, Owned
  <2> QED BY <1>1, <2>1, <2>2 DEF TypeInvariant, BootInvariant, KsmInvariant, Marking, KsmPc
<1>2. ASSUME KsmInvariant, TypeInvariant, [Next]_vars, TypeInvariant' PROVE KsmInvariant'
  BY <1>2, KsmInvariantStep DEF TypeInvariant, BootInvariant
<1> QED BY <1>1, <1>2, TypeInvariantHolds, PTL DEF Spec

\* The applications of a plan that is through: what is left of those it saw, and the
\* ones it made
LEMMA AppsAtEnd ==
  ASSUME KsmInvariant, calm, KsmFinish
  PROVE  /\ \A u \in DOMAIN before : IF u \in GoneApps(before, target, deleting)
                                     THEN u \notin DOMAIN apps ELSE u \in DOMAIN apps /\ AsPlanned(u)
         /\ \A u \in DOMAIN apps \ DOMAIN before :
              /\ DOMAIN apps[u].shares = {}
              /\ \/ apps[u].mark = NoMark
                 \/ apps[u].mark \in NewApps(before, target) /\ apps[u].name = target.names[apps[u].mark]
         /\ \A r \in NewApps(before, target) : \E u \in DOMAIN apps \ DOMAIN before : apps[u].mark = r
         /\ todo = {} /\ reshare = {} /\ OneMark(apps) /\ OneMark(before)
         /\ GoneShares(before, target, deleting) = {} /\ NewShares(before, target) = {}
<1>1. todo = {} /\ reshare = {} /\ retired = {} /\ Blocked = {} /\ Unshared = {}
  BY DEF KsmFinish
<1>2. KsmCourse /\ OneMark(apps) /\ OneMark(before)
  BY DEF KsmFinish, KsmInvariant, KsmPc, Marking
<1>3. Removed = GoneApps(before, target, deleting)
  BY <1>1 DEF Removed
<1> QED BY <1>1, <1>2, <1>3 DEF KsmCourse, Blocked, Unshared

LEMMA NamesAsMock ==
  ASSUME KsmInvariant, calm, KsmFinish
  PROVE  {[ref |-> apps[u].mark, name |-> apps[u].name] : u \in Owned(apps)} =
           MockApps(before, target, deleting)
<1> DEFINE row(u) == [ref |-> apps[u].mark, name |-> apps[u].name]
           wanted(r) == [ref |-> r, name |-> target.names[r]]
           old(u) == [ref |-> before[u].mark, name |-> before[u].name]
           kept == {w \in Owned(before) \ GoneApps(before, target, deleting) :
                      before[w].mark \notin DOMAIN target.names}
<1>1. Ambiguous(before) = {}
  BY AppsAtEnd, MarkedOnce
<1>2. MockApps(before, target, deleting) =
        {wanted(r) : r \in DOMAIN target.names} \union {old(u) : u \in kept}
  BY <1>1 DEF MockApps
<1>3. ASSUME NEW u \in DOMAIN before \intersect DOMAIN apps
      PROVE  /\ apps[u].mark = before[u].mark /\ u \notin GoneApps(before, target, deleting)
             /\ apps[u].name = IF before[u].mark \in DOMAIN target.names
                               THEN target.names[before[u].mark] ELSE before[u].name
  BY AppsAtEnd DEF AsPlanned, Titled
<1>4. NoMark \notin DOMAIN target.names
  BY TargetOK DEF KsmInvariant, AppsKinds
<1>5. ASSUME NEW u \in Owned(apps) PROVE row(u) \in MockApps(before, target, deleting)
  <2>1. u \in DOMAIN apps /\ apps[u].mark # NoMark
    BY DEF Owned
  <2>2. CASE u \in DOMAIN before /\ before[u].mark \in DOMAIN target.names
    <3>1. row(u) = wanted(before[u].mark)
      BY <1>3, <2>1, <2>2
    <3> QED BY <1>2, <2>2, <3>1
  <2>3. CASE u \in DOMAIN before /\ before[u].mark \notin DOMAIN target.names
    <3>1. u \in kept
      BY <1>3, <2>1, <2>3 DEF Owned
    <3>2. row(u) = old(u)
      BY <1>3, <2>1, <2>3
    <3> QED BY <1>2, <3>1, <3>2
  <2>4. CASE u \notin DOMAIN before
    <3>1. apps[u].mark \in DOMAIN target.names /\ apps[u].name = target.names[apps[u].mark]
      BY <2>1, <2>4, AppsAtEnd DEF NewApps
    <3> QED BY <1>2, <3>1
  <2> QED BY <2>2, <2>3, <2>4
<1>6. ASSUME NEW r \in DOMAIN target.names
      PROVE  \E u \in Owned(apps) : row(u) = wanted(r)
  <2>1. CASE r \in OwnedRefs(before)
    <3>1. PICK u \in Owned(before) : before[u].mark = r
      BY <2>1 DEF OwnedRefs
    <3>2. u \in DOMAIN before /\ u \notin GoneApps(before, target, deleting)
      BY <3>1 DEF GoneApps, Owned
    <3>3. u \in DOMAIN apps
      BY <3>2, AppsAtEnd
    <3>4. apps[u].mark = r /\ apps[u].name = target.names[r]
      BY <1>3, <3>1, <3>2, <3>3
    <3> QED BY <1>4, <3>3, <3>4 DEF Owned
  <2>2. CASE r \notin OwnedRefs(before)
    <3>1. r \in NewApps(before, target)
      BY <2>2 DEF NewApps
    <3>2. PICK u \in DOMAIN apps \ DOMAIN before : apps[u].mark = r
      BY <3>1, AppsAtEnd
    <3>3. apps[u].name = target.names[r] /\ u \in Owned(apps)
      BY <1>4, <3>2, AppsAtEnd DEF Owned
    <3> QED BY <3>2, <3>3
  <2> QED BY <2>1, <2>2
<1>7. ASSUME NEW w \in kept
      PROVE  w \in Owned(apps) /\ row(w) = old(w)
  <2>1. w \in DOMAIN before /\ before[w].mark # NoMark
    BY DEF Owned
  <2>2. w \in DOMAIN apps
    BY <2>1, AppsAtEnd
  <2> QED BY <1>3, <2>1, <2>2 DEF Owned
<1> HIDE DEF kept, row, wanted, old
<1>8. {row(u) : u \in Owned(apps)} = MockApps(before, target, deleting)
  BY <1>2, <1>5, <1>6, <1>7
<1> QED BY <1>8 DEF row

\* A share is of an application that the plan saw
LEMMA LiveAtEnd ==
  ASSUME KsmInvariant, calm, KsmFinish, NEW p
  PROVE  /\ \A u \in SharedWith(apps, p) :
              u \in SharedWith(before, p) /\ apps[u].shares[p[2]] = Editable(u, p[2])
         /\ p[1] \in DOMAIN target.names \/ ~deleting => SharedWith(before, p) \subseteq SharedWith(apps, p)
<1>1. ASSUME NEW u \in SharedWith(apps, p)
      PROVE  u \in SharedWith(before, p) /\ apps[u].shares[p[2]] = Editable(u, p[2])
  <2>1. u \in DOMAIN apps /\ apps[u].mark # NoMark /\ apps[u].mark = p[1] /\ p[2] \in DOMAIN apps[u].shares
    BY DEF SharedWith, OfRef, Owned
  <2>2. u \in DOMAIN before
    <3>1. u \notin DOMAIN before => DOMAIN apps[u].shares = {}
      BY <2>1, AppsAtEnd
    <3> QED BY <2>1, <3>1
  <2>3. AsPlanned(u)
    BY <2>1, <2>2, AppsAtEnd
  <2> QED BY <2>1, <2>2, <2>3 DEF AsPlanned, SharedWith, OfRef, Owned
<1>2. ASSUME NEW u \in SharedWith(before, p), p[1] \in DOMAIN target.names \/ ~deleting
      PROVE  u \in SharedWith(apps, p)
  <2>1. u \in DOMAIN before /\ before[u].mark # NoMark /\ before[u].mark = p[1] /\ p[2] \in DOMAIN before[u].shares
    BY DEF SharedWith, OfRef, Owned
  <2>2. u \notin GoneApps(before, target, deleting)
    BY <1>2, <2>1 DEF GoneApps
  <2>3. u \in DOMAIN apps /\ AsPlanned(u)
    BY <2>1, <2>2, AppsAtEnd
  <2> QED BY <2>1, <2>3 DEF AsPlanned, SharedWith, OfRef, Owned
<1> QED BY <1>1, <1>2

LEMMA ShareAtEnd ==
  ASSUME KsmInvariant, calm, KsmFinish, NEW p \in AppRef \X Vault, NEW u \in SharedWith(apps, p)
  PROVE  /\ p \in ClearPairs(before) /\ u \in SharedWith(before, p)
         /\ apps[u].shares[p[2]] = IF p \in DOMAIN target.shares THEN target.shares[p] ELSE before[u].shares[p[2]]
<1>1. u \in SharedWith(before, p) /\ apps[u].shares[p[2]] = Editable(u, p[2])
  BY LiveAtEnd
<1>2. p \in ClearPairs(before)
  BY <1>1, AppsAtEnd, MarkedOnce DEF LivePairs
<1>3. p = <<before[u].mark, p[2]>>
  <2>1. before[u].mark = p[1]
    BY <1>1 DEF SharedWith, OfRef
  <2> QED BY <2>1
<1>4. Editable(u, p[2]) = IF p \in ChangedShares(before, target) THEN target.shares[p] ELSE before[u].shares[p[2]]
  BY <1>3, AppsAtEnd DEF Editable
<1>5. p \in ChangedShares(before, target) => p \in DOMAIN target.shares
  BY DEF ChangedShares
<1>6. p \in DOMAIN target.shares /\ p \notin ChangedShares(before, target) =>
        before[u].shares[p[2]] = target.shares[p]
  BY <1>1, <1>2 DEF ChangedShares
<1> QED BY <1>1, <1>2, <1>4, <1>5, <1>6

LEMMA SharesAsMock ==
  ASSUME KsmInvariant, calm, KsmFinish
  PROVE  {[pair |-> p, editable |-> apps[CHOOSE u \in SharedWith(apps, p) : TRUE].shares[p[2]]] :
            p \in ClearPairs(apps)} =
         MockShares(before, target, deleting)
<1> DEFINE now(p) == [pair |-> p, editable |-> apps[CHOOSE u \in SharedWith(apps, p) : TRUE].shares[p[2]]]
           then(p) == [pair |-> p, editable |-> before[CHOOSE u \in SharedWith(before, p) : TRUE].shares[p[2]]]
           wanted(p) == [pair |-> p, editable |-> target.shares[p]]
<1>1. /\ ClearPairs(apps) = LivePairs(apps) /\ ClearPairs(before) = LivePairs(before)
      /\ \A p, u : u \in SharedWith(apps, p) => (CHOOSE w \in SharedWith(apps, p) : TRUE) = u
      /\ \A p, u : u \in SharedWith(before, p) => (CHOOSE w \in SharedWith(before, p) : TRUE) = u
  BY AppsAtEnd, MarkedOnce
<1>2. MockShares(before, target, deleting) =
        {wanted(p) : p \in DOMAIN target.shares} \union {then(p) : p \in ClearPairs(before) \ DOMAIN target.shares}
  BY AppsAtEnd DEF MockShares
<1>3. ASSUME NEW p \in ClearPairs(apps)
      PROVE  /\ p \in ClearPairs(before)
             /\ now(p) = IF p \in DOMAIN target.shares THEN wanted(p) ELSE then(p)
  <2>1. PICK u : u \in SharedWith(apps, p)
    BY <1>1 DEF LivePairs
  <2>2. p \in AppRef \X Vault
    BY DEF ClearPairs, LivePairs
  <2>3. /\ p \in ClearPairs(before) /\ u \in SharedWith(before, p)
        /\ apps[u].shares[p[2]] = IF p \in DOMAIN target.shares THEN target.shares[p] ELSE before[u].shares[p[2]]
    BY <2>1, <2>2, ShareAtEnd
  <2> QED BY <1>1, <2>1, <2>3
<1>4. ASSUME NEW p \in DOMAIN target.shares PROVE p \in ClearPairs(apps)
  <2>1. p \in LivePairs(before)
    BY AppsAtEnd DEF NewShares
  <2>2. p[1] \in DOMAIN target.names
    BY KsmApplyAssumption DEF KsmInvariant, AppsKinds, TasksOK, NoTarget, LoadsApps
  <2>3. SharedWith(apps, p) # {}
    BY <2>1, <2>2, LiveAtEnd DEF LivePairs
  <2> QED BY <1>1, <2>1, <2>3 DEF LivePairs
<1>5. ASSUME NEW p \in ClearPairs(before) \ DOMAIN target.shares PROVE p \in ClearPairs(apps)
  <2>1. ~deleting
    BY AppsAtEnd DEF GoneShares
  <2>2. SharedWith(apps, p) # {}
    BY <1>1, <2>1, LiveAtEnd DEF LivePairs
  <2> QED BY <1>1, <2>2 DEF LivePairs
<1> HIDE DEF now, then, wanted
<1>6. {now(p) : p \in ClearPairs(apps)} = MockShares(before, target, deleting)
  BY <1>2, <1>3, <1>4, <1>5
<1> QED BY <1>6 DEF now

\* For all manifests and tenants: an apply of applications that is let alone and ends
\* with 0 leaves what the mock provider's apply of the same plan leaves, applications
\* and shares, and no marker is there twice.
THEOREM AppsAgree == Spec => [][Apps_Finish /\ calm => AppsAsMock]_vars
<1>1. ASSUME KsmInvariant, [Next]_vars PROVE [Apps_Finish /\ calm => AppsAsMock]_vars
  BY <1>1, NamesAsMock, SharesAsMock DEF Apps_Finish, AppsAsMock
<1> QED BY <1>1, KsmInvariantHolds, PTL DEF Spec

------------------------------------------------------------------------------
(* What a service-mode apply that is let alone still has to do *)

Steady == \E t \in [SvcRef -> SvcTitle] : TitlesFor(t) /\ Titling(project, t)

\* The command that a change of the plan is
Sent(c) == IF c.kind = "delete" THEN Removal(c) ELSE Command(c)

Targets == {c.uid : c \in {d \in asked : d.kind # "create"}}

\* A create's record is none that the plan changes
Achieved(c) ==
  /\ c.kind = "create" =>
       \E u \in DOMAIN project \ Targets : project[u].title = c.title /\ project[u].body = c.body
  /\ c.kind = "update" => c.uid \in DOMAIN project /\ c.body \in {project[c.uid].body, Keep}
  /\ c.kind = "delete" => c.uid \notin DOMAIN project

\* Its command is still to post, or posted and not answered yet
Waiting(c) == \E i \in DOMAIN commands : commands[i] = Sent(c) /\ (reply.status = "done" => i > 1)

\* A create is a row of the manifest, and no record is changed twice
AskedOK ==
  /\ \A c \in asked : c.kind \in {"create", "update", "delete"}
  /\ \A c \in asked : c.kind = "create" => \E r \in order : r.title = c.title /\ r.body = c.body
  /\ Targets \subseteq born
  /\ \A c, d \in asked : c.kind = "update" /\ d.kind # "create" /\ c.uid = d.uid => c = d

SvcCourse ==
  IF asked = {} THEN reply.status = "done" => reply.found = project
  ELSE /\ AskedOK
       /\ \A i \in DOMAIN commands : \E c \in asked : commands[i] = Sent(c)
       /\ \A c \in asked : Achieved(c) \/ Waiting(c)
       /\ \A c \in asked : c.kind = "create" => Achieved(c) \/ D!Titled(project, c.title) = {}

\* The request that is waited for is the last of the queue, and once there is a plan
\* the only one: what was left there was worked off before the listing came back
SvcQueueing ==
  /\ pc \notin SvcPc => asked = {}
  /\ pc \in SvcPc /\ asked = {} => commands = <<List>>
  /\ pc = "svc-poll" =>
       IF reply = None THEN mine = Len(queue) /\ queue # <<>> /\ queue[Len(queue)] = Head(commands)
       ELSE queue = <<>> /\ reply.status \in {"done", "failed"}
  /\ asked # {} /\ pc = "svc-post" => queue = <<>>
  /\ asked # {} /\ pc = "svc-poll" /\ reply = None => Len(queue) = 1

SvcInvariant == SvcKinds /\ SvcQueueing /\ Steady /\ (calm /\ pc \in SvcPc => SvcCourse)

LEMMA MatchFound ==
  ASSUME NEW s, DOMAIN s \subseteq SvcUid, NEW t, TitlesFor(t), Titling(s, t), order \in Manifests,
         NEW f \in D!TitleIndexes(s), NEW row \in order
  PROVE  IF D!Match(s, f, row) = 0 THEN D!Titled(s, row.title) = {}
         ELSE D!Match(s, f, row) \in DOMAIN s /\ s[D!Match(s, f, row)].title = row.title
<1> DEFINE u == D!Match(s, f, row)
<1>1. row \in D!Rows /\ row.ref \in SvcRef /\ row.title \in SvcTitle
  BY ManifestOK DEF D!Rows
<1>2. row.title = t[row.ref]
  BY DEF Manifests, TitlesFor
<1>3. 0 \notin SvcUid
  BY ServiceApplyAssumption
<1>4. CASE D!Claimants(s, row.ref) # {}
  <2>1. u \in D!Claimants(s, row.ref)
    BY <1>4 DEF D!Match
  <2>2. u \in DOMAIN s /\ s[u].marker.ref = row.ref
    BY <2>1 DEF D!Claimants, D!Live
  <2>3. s[u].title = row.title
    BY <1>1, <1>2, <2>2 DEF Titling
  <2> QED BY <1>3, <2>2, <2>3
<1>5. CASE D!Claimants(s, row.ref) = {}
  <2>1. u = f[row.title]
    BY <1>5 DEF D!Match
  <2>2. IF D!Titled(s, row.title) = {} THEN f[row.title] = 0 ELSE f[row.title] \in D!Titled(s, row.title)
    BY <1>1 DEF D!TitleIndexes
  <2>3. D!Titled(s, row.title) # {} => u \in DOMAIN s /\ s[u].title = row.title
    BY <2>1, <2>2 DEF D!Titled, D!Live
  <2> QED BY <1>3, <2>1, <2>2, <2>3
<1> QED BY <1>4, <1>5

\* Creates are of rows whose title is nowhere, updates of the one record that a row
\* matches
LEMMA WritesAre ==
  ASSUME NEW s, DOMAIN s \subseteq SvcUid, NEW t, TitlesFor(t), Titling(s, t), order \in Manifests,
         NEW f \in D!TitleIndexes(s), NEW c \in Writes(s, f)
  PROVE  \E r \in order :
           \/ /\ c.kind = "create" /\ c.title = r.title /\ c.body = r.body
              /\ D!Titled(s, r.title) = {}
           \/ /\ c.kind = "update" /\ c = D!UpdateOf(s, f, r) /\ c.uid = D!Match(s, f, r)
              /\ c.uid \in DOMAIN s /\ s[c.uid].title = r.title
              /\ c.uid \in D!Matched(s, f, order, FALSE)
<1>1. CASE \E r \in D!ToCreate(s, f, order) : c = D!CreateOf(r)
  <2>1. PICK r \in D!ToCreate(s, f, order) : c = D!CreateOf(r)
    BY <1>1
  <2>2. r \in order /\ D!Match(s, f, r) = 0
    BY <2>1 DEF D!ToCreate
  <2> QED BY <2>1, <2>2, MatchFound DEF D!CreateOf
<1>2. CASE \E r \in D!ToUpdate(s, f, order) : c = D!UpdateOf(s, f, r)
  <2>1. PICK r \in D!ToUpdate(s, f, order) : c = D!UpdateOf(s, f, r)
    BY <1>2
  <2>2. r \in D!Matching(s, f, order, {"sdk", "blank"})
    BY <2>1 DEF D!ToUpdate
  <2>3. r \in order /\ D!Match(s, f, r) # 0
    BY <2>2 DEF D!Matching
  <2>4. c.kind = "update" /\ c.uid = D!Match(s, f, r)
    BY <2>1 DEF D!UpdateOf
  <2>5. c.uid \in D!Matched(s, f, order, FALSE)
    BY <2>2, <2>4 DEF D!Matched, D!ToAdopt
  <2>6. D!Match(s, f, r) \in DOMAIN s /\ s[D!Match(s, f, r)].title = r.title
    BY <2>3, MatchFound
  <2> QED BY <2>1, <2>3, <2>4, <2>5, <2>6
<1> QED BY <1>1, <1>2 DEF Writes, D!Writes, D!ToAdopt

LEMMA ErasedAre ==
  ASSUME NEW s, NEW f, NEW c \in Erased(s, f)
  PROVE  c.kind = "delete" /\ c.uid \in DOMAIN s \ D!Matched(s, f, order, FALSE)
<1>1. PICK u \in D!Deletes(s, f, order, FALSE, Project, prune) : c = [kind |-> "delete", uid |-> u]
  BY DEF Erased
<1>2. u \in DOMAIN s \ D!Matched(s, f, order, FALSE)
  BY <1>1 DEF D!Deletes, D!Orphans, D!Live
<1> QED BY <1>1, <1>2

\* No record is changed twice
LEMMA ChangesApart ==
  ASSUME NEW s, DOMAIN s \subseteq SvcUid, NEW t, TitlesFor(t), Titling(s, t), order \in Manifests,
         NEW f \in D!TitleIndexes(s),
         NEW c \in Writes(s, f) \union Erased(s, f), NEW d \in Writes(s, f) \union Erased(s, f),
         c.kind = "update", d.kind # "create", c.uid = d.uid
  PROVE  c = d
<1>1. c \in Writes(s, f)
  BY ErasedAre
<1>2. PICK r \in order : /\ c = D!UpdateOf(s, f, r) /\ s[c.uid].title = r.title
                         /\ c.uid \in D!Matched(s, f, order, FALSE)
  BY <1>1, WritesAre
<1>3. d \in Writes(s, f) /\ d.kind = "update"
  BY <1>2, ErasedAre, WritesAre
<1>4. PICK q \in order : d = D!UpdateOf(s, f, q) /\ s[d.uid].title = q.title
  BY <1>3, WritesAre
<1>5. r = q
  <2>1. order \in Orders
    BY <1>2 DEF Manifests
  <2> QED BY <1>2, <1>4, <2>1 DEF TitlesFor
<1> QED BY <1>2, <1>4, <1>5

LEMMA JoinedItems ==
  ASSUME NEW p \in Seq(Requests), NEW q \in Seq(Requests)
  PROVE  Range(p \o q) = Range(p) \union Range(q)
<1> DEFINE pq == p \o q
<1>1. ASSUME NEW i \in DOMAIN p PROVE i \in DOMAIN pq /\ pq[i] = p[i]
  OBVIOUS
<1>2. ASSUME NEW i \in DOMAIN q PROVE Len(p) + i \in DOMAIN pq /\ pq[Len(p) + i] = q[i]
  OBVIOUS
<1>3. ASSUME NEW k \in DOMAIN pq
      PROVE  \/ k \in DOMAIN p /\ pq[k] = p[k]
             \/ \E i \in DOMAIN q : k = Len(p) + i /\ pq[k] = q[i]
  <2>1. k \in 1 .. (Len(p) + Len(q)) /\ Len(p) \in Nat /\ Len(q) \in Nat
    OBVIOUS
  <2>2. CASE k <= Len(p)
    BY <2>1, <2>2
  <2>3. CASE k > Len(p)
    <3>1. k - Len(p) \in DOMAIN q /\ k = Len(p) + (k - Len(p))
      BY <2>1, <2>3
    <3> QED BY <1>2, <3>1
  <2> QED BY <2>1, <2>2, <2>3
<1> DEFINE A == {p[i] : i \in DOMAIN p}
           B == {q[i] : i \in DOMAIN q}
           C == {pq[i] : i \in DOMAIN pq}
<1>4. A \subseteq C
  BY <1>1
<1>5. B \subseteq C
  BY <1>2
<1>6. C \subseteq A \union B
  <2> SUFFICES ASSUME NEW k \in DOMAIN pq PROVE pq[k] \in A \union B
    OBVIOUS
  <2> QED BY <1>3
<1> HIDE DEF A, B, C
<1>7. C = A \union B
  BY <1>4, <1>5, <1>6
<1> QED BY <1>7 DEF A, B, C, Range

\* The commands of a plan are those of its changes, and no change is left out
LEMMA ListingCovers ==
  ASSUME order \in Manifests, NEW s, DOMAIN s \subseteq SvcUid, IsFiniteSet(DOMAIN s),
         NEW f \in D!TitleIndexes(s), NEW cs \in Listings(s, f)
  PROVE  /\ \A c \in Writes(s, f) \union Erased(s, f) : \E i \in DOMAIN cs : cs[i] = Sent(c)
         /\ \A i \in DOMAIN cs : \E c \in Writes(s, f) \union Erased(s, f) : cs[i] = Sent(c)
<1> DEFINE writes == Writes(s, f)
           erased == Erased(s, f)
           n == Cardinality(writes)
           removals == SetToSeq(erased)
           m == Cardinality(erased)
<1>1. PICK w \in [1 .. n -> writes] :
        /\ writes \subseteq Range(w)
        /\ cs = [i \in DOMAIN w |-> Command(w[i])] \o [i \in DOMAIN removals |-> Removal(removals[i])]
  BY DEF Listings
<1> DEFINE a == [i \in DOMAIN w |-> Command(w[i])]
           b == [i \in DOMAIN removals |-> Removal(removals[i])]
<1>2. IsFiniteSet(writes) /\ n \in Nat
  BY FiniteWrites, FS_CardinalityType
<1>3. IsFiniteSet(erased) /\ m \in Nat /\ removals \in Seq(erased) /\ DOMAIN removals = 1 .. m
  BY ErasedOK, Ordering
<1>4. \A c \in erased : \E i \in 1 .. m : removals[i] = c
  BY <1>3, AllInOrder
<1>5. \A c \in writes : \E i \in 1 .. n : w[i] = c
  BY <1>1 DEF Range
<1>6. ASSUME NEW c \in writes PROVE Sent(c) = Command(c) /\ Command(c) \in Requests
  <2>1. c.kind # "delete"
    BY DEF Writes, D!Writes, D!ToAdopt, D!CreateOf, D!UpdateOf
  <2> QED BY <2>1, CommandOK DEF Sent
<1>7. ASSUME NEW c \in erased PROVE Sent(c) = Removal(c) /\ Removal(c) \in Requests
  BY ErasedOK, ErasedAre DEF Sent
<1> HIDE DEF writes, erased, n, m
<1>8. \A i \in 1 .. m : removals[i] \in erased
  <2> HIDE DEF removals
  <2> QED BY <1>3
<1> HIDE DEF removals
<1>9. a \in [1 .. n -> Requests] /\ \A i \in 1 .. n : a[i] = Sent(w[i]) /\ w[i] \in writes
  BY <1>1, <1>6
<1>10. b \in [1 .. m -> Requests] /\ \A i \in 1 .. m : b[i] = Sent(removals[i])
  BY <1>3, <1>7, <1>8
<1>11. cs = a \o b
  BY <1>1
<1> HIDE DEF a, b
<1>12. /\ a \in Seq(Requests) /\ DOMAIN a = 1 .. n
       /\ b \in Seq(Requests) /\ DOMAIN b = 1 .. m
  <2>1. a \in Seq(Requests) /\ DOMAIN a = 1 .. n
    BY <1>2, <1>9
  <2>2. b \in Seq(Requests) /\ DOMAIN b = 1 .. m
    BY <1>3, <1>10
  <2> QED BY <2>1, <2>2
<1>13. Range(cs) = Range(a) \union Range(b)
  <2>1. a \in Seq(Requests) /\ b \in Seq(Requests)
    BY <1>12
  <2>2. Range(a \o b) = Range(a) \union Range(b)
    BY <2>1, JoinedItems, Zenon
  <2> QED BY <1>11, <2>2, Zenon
<1>14. \A c \in writes \union erased : \E i \in DOMAIN cs : cs[i] = Sent(c)
  <2> SUFFICES ASSUME NEW c \in writes \union erased PROVE Sent(c) \in Range(cs)
    BY DEF Range
  <2>1. c \in writes => Sent(c) \in Range(a)
    BY <1>5, <1>9, <1>12 DEF Range
  <2>2. c \in erased => Sent(c) \in Range(b)
    BY <1>4, <1>10, <1>12 DEF Range
  <2> QED BY <1>13, <2>1, <2>2
<1>15. ASSUME NEW k \in DOMAIN cs PROVE \E c \in writes \union erased : cs[k] = Sent(c)
  <2>1. cs[k] \in Range(a) \/ cs[k] \in Range(b)
    BY <1>13 DEF Range
  <2>2. CASE cs[k] \in Range(a)
    BY <1>9, <1>12, <2>2 DEF Range
  <2>3. CASE cs[k] \in Range(b)
    BY <1>8, <1>10, <1>12, <2>3 DEF Range
  <2> QED BY <2>1, <2>2, <2>3
<1> QED BY <1>14, <1>15 DEF writes, erased

\* A plan of what there is: all of it is still to do
LEMMA SvcPlanCourse ==
  ASSUME SvcInvariant, SvcPlan
  PROVE  SvcQueueing' /\ UNCHANGED project /\ (calm => SvcCourse')
<1>1. /\ pc = "svc-poll" /\ pc' = "svc-post" /\ asked = {} /\ Status \notin {"failed", "expired", "none"}
      /\ reply' = None /\ UNCHANGED <<calm, project, born, queue, order, prune>>
  BY DEF SvcPlan, FailedStatuses
<1>2. reply # None /\ reply.status = "done" /\ queue = <<>>
  BY <1>1, NothingFound DEF Status, SvcInvariant, SvcQueueing
<1> DEFINE s == reply.found
<1>3. PICK f \in D!TitleIndexes(s) :
        /\ ~Refuses(s, f)
        /\ asked' = Writes(s, f) \union Erased(s, f) /\ commands' \in Listings(s, f)
  BY DEF SvcPlan
<1>4. asked' # {}
  BY <1>3 DEF Refuses
<1>5. SvcQueueing'
  BY <1>1, <1>2, <1>4 DEF SvcQueueing, SvcPc
<1>6. ASSUME calm PROVE SvcCourse'
  <2>1. s = project
    BY <1>1, <1>2, <1>6 DEF SvcInvariant, SvcCourse, SvcPc
  <2>2. /\ DOMAIN s \subseteq SvcUid /\ DOMAIN s \subseteq born /\ IsFiniteSet(DOMAIN s)
        /\ order \in Manifests
    BY <2>1 DEF SvcInvariant, SvcKinds
  <2>3. PICK t \in [SvcRef -> SvcTitle] : TitlesFor(t) /\ Titling(s, t)
    BY <2>1 DEF SvcInvariant, Steady
  <2> HIDE DEF s
  <2>4. \A c \in asked' :
          \/ /\ c.kind = "create" /\ c \in Writes(s, f)
             /\ \E r \in order : c.title = r.title /\ c.body = r.body /\ D!Titled(s, r.title) = {}
          \/ c.kind \in {"update", "delete"} /\ c.uid \in DOMAIN s
    <3> TAKE c \in asked'
    <3>1. CASE c \in Writes(s, f)
      <4>1. \E r \in order :
              \/ /\ c.kind = "create" /\ c.title = r.title /\ c.body = r.body
                 /\ D!Titled(s, r.title) = {}
              \/ c.kind = "update" /\ c.uid \in DOMAIN s
        BY <2>2, <2>3, <3>1, WritesAre
      <4> QED BY <3>1, <4>1
    <3>2. CASE c \in Erased(s, f)
      BY <3>2, ErasedAre
    <3> QED BY <1>3, <3>1, <3>2
  <2>5. AskedOK'
    <3>1. Targets' \subseteq born'
      BY <1>1, <2>2, <2>4 DEF Targets
    <3>2. \A c, d \in asked' : c.kind = "update" /\ d.kind # "create" /\ c.uid = d.uid => c = d
      BY <1>3, <2>2, <2>3, ChangesApart
    <3> QED BY <1>1, <2>4, <3>1, <3>2 DEF AskedOK
  <2>6. \A c : Sent(c)' = Sent(c)
    BY <1>1 DEF Sent, Command, Removal, List
  <2>7. /\ \A c \in asked' : \E i \in DOMAIN commands' : commands'[i] = Sent(c)
        /\ \A i \in DOMAIN commands' : \E c \in asked' : commands'[i] = Sent(c)
    BY <1>3, <2>2, ListingCovers
  <2>8. \A c \in asked' : Waiting(c)'
    BY <1>1, <2>6, <2>7, NothingFound DEF Waiting
  <2>9. \A c \in asked' : c.kind = "create" => D!Titled(project, c.title)' = {}
    <3>1. \A c \in asked' : c.kind = "create" => D!Titled(s, c.title) = {}
      BY <2>4
    <3>2. \A c : D!Titled(project, c.title)' = D!Titled(s, c.title)
      BY <1>1, <2>1 DEF D!Titled, D!Live
    <3> QED BY <3>1, <3>2
  <2> QED BY <1>4, <2>5, <2>6, <2>7, <2>8, <2>9 DEF SvcCourse
<1> QED BY <1>1, <1>5, <1>6

------------------------------------------------------------------------------
(* What the service's work does to that *)

LEMMA TargetOf ==
  ASSUME AskedOK, NEW c \in asked, c.kind # "create"
  PROVE  c.uid \in Targets /\ c.uid \in born
BY DEF AskedOK, Targets

\* After an import every create of the plan has its record
LEMMA ImportAchieves ==
  ASSUME SvcKinds, AskedOK, NEW h \in Requests, h.kind = "import", h.rows = order, Done(h),
         UNCHANGED asked,
         \A c \in asked : c.kind = "create" => Achieved(c) \/ D!Titled(project, c.title) = {}
  PROVE  /\ \A c \in asked : Achieved(c) => Achieved(c)'
         /\ \A c \in asked : c.kind = "create" => Achieved(c)'
<1>1. StoreOK
  BY DEF SvcKinds, StoreOK
<1>2. PICK made :
        /\ DOMAIN made \subseteq SvcUid \ born
        /\ \A r \in order : D!Titled(project, r.title) = {} =>
             \E u \in DOMAIN made : made[u].title = r.title /\ made[u].body = r.body
        /\ DOMAIN project' = DOMAIN project \union DOMAIN made
        /\ \A u \in DOMAIN project' : project'[u] = IF u \in DOMAIN made THEN made[u] ELSE project[u]
  BY <1>1, ImportMakes
<1>3. DOMAIN project \subseteq born /\ Targets \subseteq born /\ Targets' = Targets
  BY <1>1 DEF StoreOK, AskedOK, Targets
<1>4. \A u \in DOMAIN project : u \in DOMAIN project' /\ project'[u] = project[u]
  BY <1>2, <1>3
<1>5. \A u \in DOMAIN made : u \in DOMAIN project' \ Targets /\ project'[u] = made[u]
  BY <1>2, <1>3
<1>6. ASSUME NEW c \in asked, Achieved(c) PROVE Achieved(c)'
  <2>1. CASE c.kind = "create"
    <3>1. PICK u \in DOMAIN project \ Targets : project[u].title = c.title /\ project[u].body = c.body
      BY <1>6, <2>1 DEF Achieved
    <3>2. u \in DOMAIN project' \ Targets' /\ project'[u].title = c.title /\ project'[u].body = c.body
      BY <1>3, <1>4, <3>1
    <3> QED BY <2>1, <3>2 DEF Achieved
  <2>2. CASE c.kind = "update"
    <3>1. c.uid \in DOMAIN project /\ c.body \in {project[c.uid].body, Keep}
      BY <1>6, <2>2 DEF Achieved
    <3>2. c.uid \in DOMAIN project' /\ c.body \in {project'[c.uid].body, Keep}
      BY <1>4, <3>1
    <3> QED BY <2>2, <3>2 DEF Achieved
  <2>3. CASE c.kind = "delete"
    <3>1. c.uid \notin DOMAIN project /\ c.uid \in born
      BY <1>6, <2>3, TargetOf DEF Achieved
    <3>2. c.uid \notin DOMAIN project'
      BY <1>2, <3>1
    <3> QED BY <2>3, <3>2 DEF Achieved
  <2> QED BY <2>1, <2>2, <2>3 DEF AskedOK
<1>7. ASSUME NEW c \in asked, c.kind = "create" PROVE Achieved(c)'
  <2>1. CASE D!Titled(project, c.title) = {}
    <3>1. PICK r \in order : r.title = c.title /\ r.body = c.body
      BY <1>7 DEF AskedOK
    <3>2. PICK u \in DOMAIN made : made[u].title = c.title /\ made[u].body = c.body
      BY <1>2, <2>1, <3>1
    <3>3. u \in DOMAIN project' \ Targets' /\ project'[u].title = c.title /\ project'[u].body = c.body
      BY <1>3, <1>5, <3>2
    <3> QED BY <1>7, <3>3 DEF Achieved
  <2> QED BY <1>6, <1>7, <2>1
<1> QED BY <1>6, <1>7

\* An edit is of a record that no other change of the plan is about
LEMMA EditAchieves ==
  ASSUME SvcKinds, AskedOK, NEW d \in asked, d.kind = "update", UNCHANGED asked,
         d.uid \in DOMAIN project,
         project' = [project EXCEPT ![d.uid].body = IF d.body = Keep THEN @ ELSE d.body]
  PROVE  /\ \A c \in asked : Achieved(c) => Achieved(c)'
         /\ Achieved(d)'
         /\ \A ti : D!Titled(project, ti) = {} => D!Titled(project', ti) = {}
<1> DEFINE b == IF d.body = Keep THEN project[d.uid].body ELSE d.body
<1>1. project' = [project EXCEPT ![d.uid] = [project[d.uid] EXCEPT !.body = b]]
  OBVIOUS
<1>2. /\ DOMAIN project' = DOMAIN project
      /\ \A u \in DOMAIN project \ {d.uid} : project'[u] = project[u]
      /\ project'[d.uid] = [project[d.uid] EXCEPT !.body = b]
  BY <1>1
<1>3. project[d.uid] \in D!Records
  BY DEF SvcKinds, RecordsOK
<1>4. project'[d.uid].title = project[d.uid].title /\ project'[d.uid].body = b
  BY <1>2, <1>3 DEF D!Records
<1>5. d.body \in {project'[d.uid].body, Keep}
  BY <1>4
<1> HIDE DEF b
<1>6. \A u \in DOMAIN project : project'[u].title = project[u].title
  BY <1>2, <1>4
<1>7. Targets' = Targets /\ d.uid \in Targets
  BY TargetOf DEF Targets
<1>8. Achieved(d)'
  BY <1>2, <1>5 DEF Achieved
<1>9. ASSUME NEW c \in asked, Achieved(c) PROVE Achieved(c)'
  <2>1. CASE c.kind = "create"
    <3>1. PICK u \in DOMAIN project \ Targets : project[u].title = c.title /\ project[u].body = c.body
      BY <1>9, <2>1 DEF Achieved
    <3>2. u \in DOMAIN project' \ Targets' /\ project'[u].title = c.title /\ project'[u].body = c.body
      BY <1>2, <1>7, <3>1
    <3> QED BY <2>1, <3>2 DEF Achieved
  <2>2. CASE c.kind = "update" /\ c # d
    <3>1. c.uid # d.uid
      BY <2>2 DEF AskedOK
    <3>2. c.uid \in DOMAIN project /\ c.body \in {project[c.uid].body, Keep}
      BY <1>9, <2>2 DEF Achieved
    <3>3. c.uid \in DOMAIN project' /\ c.body \in {project'[c.uid].body, Keep}
      BY <1>2, <3>1, <3>2
    <3> QED BY <2>2, <3>3 DEF Achieved
  <2>3. CASE c.kind = "delete"
    BY <1>2, <1>9, <2>3 DEF Achieved
  <2> QED BY <1>8, <2>1, <2>2, <2>3 DEF AskedOK
<1>10. \A ti : D!Titled(project, ti) = {} => D!Titled(project', ti) = {}
  BY <1>2, <1>6 DEF D!Titled, D!Live
<1> QED BY <1>8, <1>9, <1>10

\* What is deleted is no record that the plan wants
LEMMA DeleteAchieves ==
  ASSUME SvcKinds, AskedOK, NEW d \in asked, d.kind = "delete", UNCHANGED asked,
         project' = [u \in DOMAIN project \ {d.uid} |-> project[u]]
  PROVE  /\ \A c \in asked : Achieved(c) => Achieved(c)'
         /\ Achieved(d)'
         /\ \A ti : D!Titled(project, ti) = {} => D!Titled(project', ti) = {}
<1>1. DOMAIN project' = DOMAIN project \ {d.uid} /\ \A u \in DOMAIN project' : project'[u] = project[u]
  OBVIOUS
<1>2. Targets' = Targets /\ d.uid \in Targets
  BY TargetOf DEF Targets
<1>3. Achieved(d)'
  BY <1>1 DEF Achieved
<1>4. ASSUME NEW c \in asked, Achieved(c) PROVE Achieved(c)'
  <2>1. CASE c.kind = "create"
    <3>1. PICK u \in DOMAIN project \ Targets : project[u].title = c.title /\ project[u].body = c.body
      BY <1>4, <2>1 DEF Achieved
    <3>2. u \in DOMAIN project' \ Targets' /\ project'[u].title = c.title /\ project'[u].body = c.body
      BY <1>1, <1>2, <3>1
    <3> QED BY <2>1, <3>2 DEF Achieved
  <2>2. CASE c.kind = "update"
    <3>1. c.uid # d.uid
      BY <2>2 DEF AskedOK
    <3>2. c.uid \in DOMAIN project' /\ c.body \in {project'[c.uid].body, Keep}
      BY <1>1, <1>4, <2>2, <3>1 DEF Achieved
    <3> QED BY <2>2, <3>2 DEF Achieved
  <2>3. CASE c.kind = "delete"
    BY <1>1, <1>4, <2>3 DEF Achieved
  <2> QED BY <2>1, <2>2, <2>3 DEF AskedOK
<1>5. \A ti : D!Titled(project, ti) = {} => D!Titled(project', ti) = {}
  BY <1>1 DEF D!Titled, D!Live
<1> QED BY <1>3, <1>4, <1>5

LEMMA SentIs ==
  ASSUME NEW c
  PROVE  /\ c.kind = "create" => Sent(c).kind = "import" /\ Sent(c).rows = order
         /\ c.kind = "update" => Sent(c).kind = "edit" /\ Sent(c).uid = c.uid /\ Sent(c).body = c.body
         /\ c.kind = "delete" => Sent(c).kind = "delete" /\ Sent(c).uid = c.uid
<1>1. CASE c.kind = "create"
  BY <1>1 DEF Sent, Command, List
<1>2. CASE c.kind = "update"
  <2>1. Sent(c) = [[[List EXCEPT !.kind = "edit"] EXCEPT !.uid = c.uid] EXCEPT !.body = c.body]
    BY <1>2 DEF Sent, Command
  <2> QED BY <1>2, <2>1 DEF List
<1>3. CASE c.kind = "delete"
  <2>1. Sent(c) = [[List EXCEPT !.kind = "delete"] EXCEPT !.uid = c.uid]
    BY <1>3 DEF Sent, Removal
  <2> QED BY <1>3, <2>1 DEF List
<1> QED BY <1>1, <1>2, <1>3

\* A command that is done does what its change asked for, and spoils no other
LEMMA DoneAchieves ==
  ASSUME SvcKinds, AskedOK, NEW d \in asked, Sent(d) \in Requests, Done(Sent(d)), UNCHANGED asked,
         \A c \in asked : c.kind = "create" => Achieved(c) \/ D!Titled(project, c.title) = {}
  PROVE  /\ \A c \in asked : Achieved(c) \/ Sent(c) = Sent(d) => Achieved(c)'
         /\ \A c \in asked : c.kind = "create" => Achieved(c)' \/ D!Titled(project', c.title) = {}
<1>1. CASE d.kind = "create"
  <2>1. Sent(d).kind = "import" /\ Sent(d).rows = order
    BY <1>1, SentIs
  <2>2. /\ \A c \in asked : Achieved(c) => Achieved(c)'
        /\ \A c \in asked : c.kind = "create" => Achieved(c)'
    BY <2>1, ImportAchieves
  <2>3. \A c \in asked : Sent(c) = Sent(d) => c.kind = "create"
    BY <2>1, SentIs DEF AskedOK
  <2> QED BY <2>2, <2>3
<1>2. CASE d.kind = "update"
  <2>1. Sent(d).kind = "edit" /\ Sent(d).uid = d.uid /\ Sent(d).body = d.body
    BY <1>2, SentIs
  <2>2. /\ d.uid \in DOMAIN project
        /\ project' = [project EXCEPT ![d.uid].body = IF d.body = Keep THEN @ ELSE d.body]
    BY <2>1 DEF Done
  <2>3. /\ \A c \in asked : Achieved(c) => Achieved(c)'
        /\ Achieved(d)'
        /\ \A ti : D!Titled(project, ti) = {} => D!Titled(project', ti) = {}
    BY <1>2, <2>2, EditAchieves
  <2>4. ASSUME NEW c \in asked, Sent(c) = Sent(d) PROVE c = d
    <3>1. c.kind = "update" /\ c.uid = d.uid
      BY <2>1, <2>4, SentIs DEF AskedOK
    <3> QED BY <1>2, <3>1 DEF AskedOK
  <2> QED BY <2>3, <2>4
<1>3. CASE d.kind = "delete"
  <2>1. Sent(d).kind = "delete" /\ Sent(d).uid = d.uid
    BY <1>3, SentIs
  <2>2. project' = [u \in DOMAIN project \ {d.uid} |-> project[u]]
    BY <2>1 DEF Done
  <2>3. /\ \A c \in asked : Achieved(c) => Achieved(c)'
        /\ Achieved(d)'
        /\ \A ti : D!Titled(project, ti) = {} => D!Titled(project', ti) = {}
    BY <1>3, <2>2, DeleteAchieves
  <2>4. ASSUME NEW c \in asked, Sent(c) = Sent(d) PROVE Achieved(c)'
    <3>1. c.kind = "delete" /\ c.uid = d.uid
      BY <2>1, <2>4, SentIs DEF AskedOK
    <3>2. d.uid \notin DOMAIN project'
      BY <1>3, <2>3 DEF Achieved
    <3> QED BY <3>1, <3>2 DEF Achieved
  <2> QED BY <2>3, <2>4
<1> QED BY <1>1, <1>2, <1>3 DEF AskedOK

\* An answer to the listing
LEMMA ServeListing ==
  ASSUME SvcInvariant, Serve, asked = {}, calm', pc \in SvcPc
  PROVE  SvcCourse'
<1>1. UNCHANGED <<pc, calm, asked, commands>>
  BY DEF Serve, process, Mishap
<1>2. SvcCourse /\ commands = <<List>>
  BY <1>1 DEF SvcInvariant, SvcQueueing
<1>3. PICK status \in {"done", "failed"} :
        /\ Answer(status)
        /\ status = "done" => Done(Head(queue))
  BY DEF Serve
<1>4. CASE mine = 1
  <2>1. pc = "svc-poll" /\ reply = None
    BY <1>4 DEF SvcInvariant, SvcKinds
  <2>2. queue # <<>> /\ queue \in Seq(Requests) /\ Len(queue) = 1 /\ queue[Len(queue)] = Head(commands)
    BY <1>4, <2>1 DEF SvcInvariant, SvcQueueing, SvcKinds
  <2>3. Head(queue) = List
    BY <1>2, <2>2
  <2>4. reply' = [status |-> status, found |-> project]
    BY <1>3, <1>4, <2>3 DEF Answer, List
  <2>5. status = "done" => UNCHANGED project
    BY <1>3, <2>3 DEF Done, List
  <2> QED BY <1>1, <2>4, <2>5 DEF SvcCourse
<1>5. CASE mine # 1
  <2>1. UNCHANGED reply
    BY <1>3, <1>5 DEF Answer
  <2>2. reply.status # "done"
    <3>1. CASE pc = "svc-poll"
      <4>1. queue # <<>>
        BY DEF Serve
      <4> QED BY <3>1, <4>1, NothingFound DEF SvcInvariant, SvcQueueing
    <3>2. CASE pc # "svc-poll"
      BY <3>2, NothingFound DEF SvcInvariant, SvcKinds
    <3> QED BY <3>1, <3>2
  <2> QED BY <1>1, <2>1, <2>2 DEF SvcCourse
<1> QED BY <1>4, <1>5

\* An answer to the command that the plan is at
LEMMA ServeCommand ==
  ASSUME SvcInvariant, Serve, asked # {}, calm', pc \in SvcPc
  PROVE  SvcCourse'
<1>1. UNCHANGED <<pc, calm, asked, commands, order>>
  BY DEF Serve, process, Mishap
<1>2. SvcCourse /\ SvcKinds /\ SvcQueueing
  BY <1>1 DEF SvcInvariant
<1>3. /\ AskedOK /\ \A i \in DOMAIN commands : \E c \in asked : commands[i] = Sent(c)
      /\ \A c \in asked : Achieved(c) \/ Waiting(c)
      /\ \A c \in asked : c.kind = "create" => Achieved(c) \/ D!Titled(project, c.title) = {}
  BY <1>2 DEF SvcCourse
<1>4. pc = "svc-poll" /\ reply = None /\ queue # <<>> /\ Len(queue) = 1 /\ mine = 1
      /\ queue[Len(queue)] = Head(commands)
  <2>1. queue # <<>>
    BY DEF Serve
  <2> QED BY <1>2, <2>1 DEF SvcQueueing, SvcPc
<1>5. /\ queue \in Seq(Requests) /\ commands \in Seq(Requests) /\ commands # <<>>
  BY <1>2 DEF SvcKinds
<1>6. Head(queue) = commands[1] /\ 1 \in DOMAIN commands /\ Head(queue) \in Requests
  BY <1>4, <1>5
<1>7. PICK d \in asked : commands[1] = Sent(d)
  BY <1>3, <1>6
<1>8. \A c : Sent(c)' = Sent(c)
  BY <1>1 DEF Sent, Command, Removal, List
<1>9. AskedOK'
  <2>1. born \subseteq born'
    BY <1>2, <1>6 DEF Serve, Done
  <2> QED BY <1>1, <1>3, <2>1 DEF AskedOK, Targets
<1>10. (\A i \in DOMAIN commands : \E c \in asked : commands[i] = Sent(c))'
  BY <1>1, <1>3, <1>8
<1>11. CASE Done(Head(queue))
  <2>1. /\ \A c \in asked : Achieved(c) \/ Sent(c) = Sent(d) => Achieved(c)'
        /\ \A c \in asked : c.kind = "create" => Achieved(c)' \/ D!Titled(project', c.title) = {}
    BY <1>1, <1>2, <1>3, <1>6, <1>7, <1>11, DoneAchieves
  <2>2. ASSUME NEW c \in asked, ~Achieved(c), Sent(c) # Sent(d) PROVE Waiting(c)'
    <3>1. PICK i \in DOMAIN commands : commands[i] = Sent(c)
      BY <1>3, <2>2 DEF Waiting
    <3>2. i # 1 /\ i \in Nat /\ i >= 1
      BY <1>5, <1>7, <2>2, <3>1
    <3> QED BY <1>1, <1>8, <3>1, <3>2 DEF Waiting
  <2>3. \A c \in asked' : Achieved(c)' \/ Waiting(c)'
    BY <1>1, <2>1, <2>2
  <2> QED BY <1>1, <1>9, <1>10, <2>1, <2>3 DEF SvcCourse
<1>12. CASE UNCHANGED <<project, born>> /\ Answer("failed")
  <2>1. reply'.status = "failed"
    BY <1>4, <1>12 DEF Answer
  <2>2. \A c : Achieved(c)' = Achieved(c)
    BY <1>1, <1>12 DEF Achieved, Targets
  <2>3. ASSUME NEW c \in asked, Waiting(c) PROVE Waiting(c)'
    BY <1>1, <1>8, <2>1, <2>3 DEF Waiting
  <2>4. \A c \in asked' : Achieved(c)' \/ Waiting(c)'
    BY <1>1, <1>3, <2>2, <2>3
  <2>5. \A c \in asked' : c.kind = "create" => Achieved(c)' \/ D!Titled(project', c.title) = {}
    BY <1>1, <1>3, <1>12, <2>2
  <2> QED BY <1>1, <1>9, <1>10, <2>4, <2>5 DEF SvcCourse
<1> QED BY <1>11, <1>12 DEF Serve

------------------------------------------------------------------------------
(* Steps of the client, and the titles *)

LEMMA SvcStartCourse ==
  ASSUME SvcInvariant, SvcStart
  PROVE  SvcQueueing' /\ SvcCourse' /\ UNCHANGED project
<1>1. /\ pc = "idle" /\ pc' = "svc-post" /\ commands' = <<List>>
      /\ UNCHANGED <<project, queue, asked, reply>>
  BY DEF SvcStart
<1>2. asked = {} /\ reply = None
  BY <1>1 DEF SvcInvariant, SvcQueueing, SvcKinds, SvcPc
<1> QED BY <1>1, <1>2, NothingFound DEF SvcQueueing, SvcCourse, SvcPc

\* The plan and what came of it, where nothing is served
LEMMA SameCourse ==
  ASSUME SvcCourse, UNCHANGED <<project, born, order, asked, commands, reply>>
  PROVE  SvcCourse'
<1>1. \A c : Sent(c)' = Sent(c)
  BY DEF Sent, Command, Removal, List
<1>2. AskedOK => AskedOK'
  BY DEF AskedOK, Targets
<1>3. \A c : Achieved(c)' = Achieved(c)
  BY DEF Achieved, Targets
<1>4. \A c : Waiting(c)' = Waiting(c)
  BY <1>1 DEF Waiting
<1> QED BY <1>1, <1>2, <1>3, <1>4 DEF SvcCourse

LEMMA SvcPostCourse ==
  ASSUME SvcInvariant, SvcPost
  PROVE  SvcQueueing' /\ UNCHANGED project /\ (calm => SvcCourse')
<1>1. /\ pc = "svc-post" /\ pc' = "svc-poll" /\ queue' = Append(queue, Head(commands))
      /\ mine' = Len(queue) + 1
      /\ UNCHANGED <<project, born, order, asked, commands, reply>>
  BY DEF SvcPost
<1>2. reply = None /\ queue \in Seq(Requests) /\ commands \in Seq(Requests) /\ commands # <<>>
  BY <1>1 DEF SvcInvariant, SvcKinds, SvcPc
<1>3. Head(commands) \in Requests /\ Len(queue) \in Nat
  BY <1>2
<1>4. Len(queue') = Len(queue) + 1 /\ queue' # <<>> /\ queue'[Len(queue')] = Head(commands)
  BY <1>1, <1>2, <1>3
<1>5. asked # {} => queue = <<>>
  BY <1>1 DEF SvcInvariant, SvcQueueing
<1>6. SvcQueueing'
  <2>1. asked # {} => Len(queue') = 1
    BY <1>4, <1>5
  <2>2. pc \in SvcPc /\ asked = {} => commands = <<List>>
    BY DEF SvcInvariant, SvcQueueing
  <2> QED BY <1>1, <1>2, <1>4, <2>1, <2>2 DEF SvcQueueing, SvcPc
<1>7. calm => SvcCourse'
  BY <1>1, SameCourse DEF SvcInvariant, SvcPc
<1> QED BY <1>1, <1>6, <1>7

LEMMA SvcIdleCourse ==
  ASSUME SvcIdle
  PROVE  SvcQueueing' /\ pc' \notin SvcPc /\ UNCHANGED project
BY DEF SvcIdle, SvcQueueing, SvcPc

LEMMA SvcWaitCourse ==
  ASSUME SvcInvariant, UNCHANGED <<pc, project, born, queue, order, asked, commands, reply, mine>>
  PROVE  SvcQueueing' /\ (calm /\ pc \in SvcPc => SvcCourse')
<1>1. SvcQueueing'
  BY DEF SvcInvariant, SvcQueueing
<1>2. calm /\ pc \in SvcPc => SvcCourse'
  BY SameCourse DEF SvcInvariant
<1> QED BY <1>1, <1>2

LEMMA SvcNextCourse ==
  ASSUME SvcInvariant, SvcNext
  PROVE  SvcQueueing' /\ UNCHANGED project /\ (calm => SvcCourse')
<1>1. /\ pc = "svc-poll" /\ pc' = "svc-post" /\ asked # {} /\ Status \notin {"failed", "expired", "none"}
      /\ Len(commands) > 1 /\ commands' = Tail(commands) /\ reply' = None
      /\ UNCHANGED <<calm, project, born, queue, order, asked>>
  BY DEF SvcNext, FailedStatuses
<1>2. reply # None /\ reply.status = "done"
  BY <1>1, NothingFound DEF Status, SvcInvariant, SvcQueueing
<1>3. queue = <<>>
  BY <1>1, <1>2 DEF SvcInvariant, SvcQueueing
<1>4. SvcQueueing'
  BY <1>1, <1>3 DEF SvcQueueing, SvcPc
<1>5. commands \in Seq(Requests)
  BY DEF SvcInvariant, SvcKinds
<1>6. /\ \A i \in DOMAIN commands' : i + 1 \in DOMAIN commands /\ commands'[i] = commands[i + 1]
      /\ \A i \in DOMAIN commands : i > 1 => i - 1 \in DOMAIN commands' /\ commands'[i - 1] = commands[i]
  BY <1>1, <1>5
<1>7. ASSUME calm PROVE SvcCourse'
  <2>1. SvcCourse
    BY <1>1, <1>7 DEF SvcInvariant, SvcPc
  <2>2. \A c : Sent(c)' = Sent(c)
    BY <1>1 DEF Sent, Command, Removal, List
  <2>3. AskedOK'
    BY <1>1, <2>1 DEF SvcCourse, AskedOK, Targets
  <2>4. \A c : Achieved(c)' = Achieved(c)
    BY <1>1 DEF Achieved, Targets
  <2>5. ASSUME NEW c \in asked, Waiting(c) PROVE Waiting(c)'
    <3>1. PICK i \in DOMAIN commands : commands[i] = Sent(c) /\ i > 1
      BY <1>2, <2>5 DEF Waiting
    <3> QED BY <1>1, <1>6, <2>2, <3>1, NothingFound DEF Waiting
  <2>6. (\A i \in DOMAIN commands : \E c \in asked : commands[i] = Sent(c))'
    <3> SUFFICES ASSUME NEW i \in DOMAIN commands' PROVE \E c \in asked' : commands'[i] = Sent(c)'
      OBVIOUS
    <3>1. PICK c \in asked : commands[i + 1] = Sent(c)
      BY <1>1, <1>6, <2>1 DEF SvcCourse
    <3> QED BY <1>1, <1>6, <2>2, <3>1
  <2>7. (\A c \in asked : Achieved(c) \/ Waiting(c))'
    BY <1>1, <2>1, <2>4, <2>5 DEF SvcCourse
  <2>8. (\A c \in asked : c.kind = "create" => Achieved(c) \/ D!Titled(project, c.title) = {})'
    BY <1>1, <2>1, <2>4 DEF SvcCourse
  <2> QED BY <1>1, <2>3, <2>6, <2>7, <2>8 DEF SvcCourse
<1> QED BY <1>1, <1>4, <1>7

LEMMA ServeCourse ==
  ASSUME SvcInvariant, Serve
  PROVE  SvcQueueing' /\ (calm' /\ pc' \in SvcPc => SvcCourse')
<1>1. UNCHANGED <<pc, calm, asked, commands>> /\ queue # <<>> /\ queue' = Tail(queue)
      /\ mine' = IF mine > 0 THEN mine - 1 ELSE 0
  BY DEF Serve, process, Mishap
<1>2. SvcCourse' \/ ~calm' \/ pc' \notin SvcPc
  BY <1>1, ServeListing, ServeCommand
<1>3. PICK status \in {"done", "failed"} : Answer(status)
  BY DEF Serve
<1>4. /\ queue \in Seq(Requests) /\ mine \in 0 .. Len(queue) /\ Len(queue) \in Nat
      /\ SvcQueueing /\ (pc # "svc-poll" => mine = 0)
  BY DEF SvcInvariant, SvcKinds
<1>5. Len(queue') = Len(queue) - 1 /\ \A i \in 1 .. Len(queue') : queue'[i] = queue[i + 1]
  BY <1>1, <1>4
<1>6. CASE pc = "svc-poll"
  <2>1. reply = None /\ mine = Len(queue) /\ queue[Len(queue)] = Head(commands)
    BY <1>1, <1>4, <1>6 DEF SvcQueueing
  <2>2. CASE mine = 1
    <3>1. reply'.status = status
      BY <1>3, <2>2 DEF Answer
    <3>2. queue' = <<>>
      <4>1. Len(queue') = 0 /\ queue' \in Seq(Requests)
        BY <1>1, <1>4, <1>5, <2>1, <2>2
      <4> QED BY <4>1
    <3>3. reply' # None /\ reply'.status \in {"done", "failed"}
      BY <3>1, NothingFound
    <3>4. (pc = "svc-poll" =>
            IF reply = None THEN mine = Len(queue) /\ queue # <<>> /\ queue[Len(queue)] = Head(commands)
            ELSE queue = <<>> /\ reply.status \in {"done", "failed"})'
      BY <3>2, <3>3
    <3> QED BY <1>1, <1>2, <1>4, <1>6, <3>3, <3>4 DEF SvcQueueing, SvcPc
  <2>3. CASE mine # 1
    <3>1. reply' = None /\ mine' = Len(queue') /\ Len(queue') >= 1
      BY <1>1, <1>3, <1>4, <1>5, <2>1, <2>3 DEF Answer
    <3>2. Len(queue') \in 1 .. Len(queue') /\ queue' # <<>>
      BY <1>4, <1>5, <3>1
    <3>3. queue'[Len(queue')] = Head(commands)
      BY <1>4, <1>5, <2>1, <3>2
    <3>4. asked = {}
      BY <1>4, <1>6, <2>1, <2>3 DEF SvcQueueing
    <3>5. (pc = "svc-poll" =>
            IF reply = None THEN mine = Len(queue) /\ queue # <<>> /\ queue[Len(queue)] = Head(commands)
            ELSE queue = <<>> /\ reply.status \in {"done", "failed"})'
      BY <1>1, <3>1, <3>2, <3>3
    <3> QED BY <1>1, <1>2, <1>4, <1>6, <3>4, <3>5 DEF SvcQueueing, SvcPc
  <2> QED BY <2>2, <2>3
<1>7. CASE pc # "svc-poll"
  <2>1. ~(asked # {} /\ pc = "svc-post")
    BY <1>1, <1>4 DEF SvcQueueing
  <2>2. (/\ pc \notin SvcPc => asked = {}
         /\ pc \in SvcPc /\ asked = {} => commands = <<List>>
         /\ asked # {} /\ pc = "svc-post" => queue = <<>>)'
    BY <1>1, <1>4, <2>1 DEF SvcQueueing
  <2> QED BY <1>1, <1>2, <1>7, <2>2 DEF SvcQueueing
<1> QED BY <1>1, <1>2, <1>6, <1>7

LEMMA TitlesKept ==
  ASSUME Steady,
         \A u \in DOMAIN project' :
           \/ /\ u \in DOMAIN project /\ project'[u].title = project[u].title
              /\ project'[u].marker = project[u].marker
           \/ project'[u].marker.ref \notin SvcRef
  PROVE  Steady'
<1>1. PICK t \in [SvcRef -> SvcTitle] : TitlesFor(t) /\ Titling(project, t)
  BY DEF Steady
<1>2. Titling(project', t)
  BY <1>1 DEF Titling
<1> QED BY <1>1, <1>2 DEF Steady

LEMMA RecordEdited ==
  ASSUME SvcKinds, NEW u \in DOMAIN project, NEW b, project' = [project EXCEPT ![u] = [project[u] EXCEPT !.body = b]]
  PROVE  /\ DOMAIN project' = DOMAIN project
         /\ \A w \in DOMAIN project : /\ project'[w].title = project[w].title
                                      /\ project'[w].marker = project[w].marker
<1>1. DOMAIN project' = DOMAIN project /\ \A w \in DOMAIN project \ {u} : project'[w] = project[w]
  OBVIOUS
<1>2. project'[u] = [project[u] EXCEPT !.body = b] /\ project[u] \in D!Records
  BY DEF SvcKinds, RecordsOK
<1>3. project'[u].title = project[u].title /\ project'[u].marker = project[u].marker
  BY <1>2 DEF D!Records
<1> QED BY <1>1, <1>3

LEMMA DoneTitles == ASSUME SvcKinds, Steady, NEW h \in Requests, Done(h) PROVE Steady'
<1>1. CASE h.kind = "import"
  <2>1. StoreOK
    BY DEF SvcKinds, StoreOK
  <2>2. PICK made :
          /\ \A u \in DOMAIN made : \E r \in h.rows :
               made[u] = [title |-> r.title, body |-> r.body, marker |-> D!Unmarked]
          /\ DOMAIN project' = DOMAIN project \union DOMAIN made
          /\ \A u \in DOMAIN project' : project'[u] = IF u \in DOMAIN made THEN made[u] ELSE project[u]
    BY <1>1, <2>1, ImportMakes
  <2>3. \A u \in DOMAIN made : made[u].marker.ref \notin SvcRef
    BY <2>2, ServiceApplyAssumption DEF D!Unmarked
  <2> QED BY <2>2, <2>3, TitlesKept
<1>2. CASE h.kind = "edit"
  <2>1. h.uid \in DOMAIN project
        /\ project' = [project EXCEPT ![h.uid].body = IF h.body = Keep THEN @ ELSE h.body]
    BY <1>2 DEF Done
  <2>2. PICK b : project' = [project EXCEPT ![h.uid] = [project[h.uid] EXCEPT !.body = b]]
    BY <2>1
  <2> QED BY <2>1, <2>2, RecordEdited, TitlesKept
<1>3. CASE h.kind = "delete"
  <2>1. project' = [u \in DOMAIN project \ {h.uid} |-> project[u]]
    BY <1>3 DEF Done
  <2> QED BY <2>1, TitlesKept
<1>4. CASE h.kind = "list"
  <2>1. UNCHANGED project
    BY <1>4 DEF Done
  <2> QED BY <2>1, TitlesKept
<1> QED BY <1>1, <1>2, <1>3, <1>4 DEF Requests

LEMMA ServeTitles == ASSUME SvcInvariant, Serve PROVE Steady'
<1>1. SvcKinds /\ Steady
  BY DEF SvcInvariant
<1>2. Head(queue) \in Requests
  <2>1. queue \in Seq(Requests) /\ queue # <<>>
    BY <1>1 DEF SvcKinds, Serve
  <2> QED BY <2>1
<1>3. Done(Head(queue)) \/ UNCHANGED project
  BY DEF Serve
<1> QED BY <1>1, <1>2, <1>3, DoneTitles, TitlesKept

\* Others mark a record for a row of its title
LEMMA OthersTitles == ASSUME SvcInvariant, SvcOthers PROVE Steady' /\ UNCHANGED <<queue, errand>>
<1>1. SvcKinds /\ Steady
  BY DEF SvcInvariant
<1>2. CASE \E u \in DOMAIN project, b \in SvcBody : project' = [project EXCEPT ![u].body = b]
  <2>1. PICK u \in DOMAIN project, b \in SvcBody : project' = [project EXCEPT ![u] = [project[u] EXCEPT !.body = b]]
    BY <1>2
  <2> QED BY <1>1, <2>1, RecordEdited, TitlesKept DEF SvcOthers
<1>3. CASE \E u \in DOMAIN project : project' = [w \in DOMAIN project \ {u} |-> project[w]]
  BY <1>1, <1>3, TitlesKept DEF SvcOthers
<1>4. CASE \E u \in DOMAIN project, v \in Orders : \E r \in v :
             /\ r.title = project[u].title
             /\ project' = [project EXCEPT ![u].marker = D!EncodeMarker(r.ref, Project)]
  <2>1. PICK u \in DOMAIN project, v \in Orders : \E r \in v :
          /\ r.title = project[u].title
          /\ project' = [project EXCEPT ![u].marker = D!EncodeMarker(r.ref, Project)]
    BY <1>4
  <2>2. PICK r \in v :
          /\ r.title = project[u].title
          /\ project' = [project EXCEPT ![u] = [project[u] EXCEPT !.marker = D!EncodeMarker(r.ref, Project)]]
    BY <2>1
  <2>3. PICK t \in [SvcRef -> SvcTitle] : TitlesFor(t) /\ Titling(project, t)
    BY <1>1 DEF Steady
  <2>4. r.title = t[r.ref]
    BY <2>2, <2>3 DEF TitlesFor
  <2>5. project[u] \in D!Records
    BY <1>1 DEF SvcKinds, RecordsOK
  <2>6. project'[u].title = project[u].title /\ project'[u].marker.ref = r.ref
    BY <2>2, <2>5 DEF D!Records, D!EncodeMarker
  <2>7. DOMAIN project' = DOMAIN project /\ \A w \in DOMAIN project \ {u} : project'[w] = project[w]
    BY <2>2
  <2>8. Titling(project', t)
    BY <2>2, <2>3, <2>4, <2>6, <2>7 DEF Titling
  <2> QED BY <2>3, <2>8 DEF Steady, SvcOthers
<1> QED BY <1>2, <1>3, <1>4 DEF SvcOthers

LEMMA NotServed ==
  ASSUME SvcInvariant, UNCHANGED service, UNCHANGED <<pc, calm>> \/ (pc \notin SvcPc /\ pc' \notin SvcPc)
  PROVE  SvcQueueing' /\ Steady' /\ (calm' /\ pc' \in SvcPc => SvcCourse')
<1>1. UNCHANGED <<project, born, queue, order, asked, commands, reply, mine>>
  BY DEF service, errand
<1>2. Steady'
  BY <1>1, TitlesKept DEF SvcInvariant
<1>3. CASE UNCHANGED <<pc, calm>>
  BY <1>1, <1>2, <1>3, SvcWaitCourse
<1>4. CASE pc \notin SvcPc /\ pc' \notin SvcPc
  BY <1>1, <1>2, <1>4 DEF SvcInvariant, SvcQueueing, SvcPc
<1> QED BY <1>3, <1>4

LEMMA ServiceActCourse ==
  ASSUME SvcInvariant, ServiceAct
  PROVE  SvcQueueing' /\ Steady' /\ (calm' /\ pc' \in SvcPc => SvcCourse')
<1>1. ASSUME UNCHANGED project PROVE Steady'
  BY <1>1, TitlesKept DEF SvcInvariant
<1>2. CASE SvcStart
  BY <1>1, <1>2, SvcStartCourse
<1>3. CASE SvcPost \/ SvcPlan \/ SvcNext
  <2>1. SvcQueueing' /\ UNCHANGED project /\ (calm => SvcCourse')
    BY <1>3, SvcPostCourse, SvcPlanCourse, SvcNextCourse
  <2>2. UNCHANGED calm
    BY <1>3 DEF SvcPost, SvcPlan, SvcNext
  <2> QED BY <1>1, <2>1, <2>2
<1>4. CASE SvcIdle
  BY <1>1, <1>4, SvcIdleCourse
<1>5. CASE SvcPoll \/ (SvcThrottled /\ ~SvcIdle)
  <2>1. UNCHANGED <<pc, calm, project, born, queue, order, asked, commands, reply, mine>>
    BY <1>5 DEF SvcPoll, SvcThrottled, process
  <2> QED BY <1>1, <2>1, SvcWaitCourse
<1>6. CASE Serve
  BY <1>6, ServeCourse, ServeTitles
<1>7. CASE OthersRecord
  <2>1. SvcOthers /\ ~calm' /\ UNCHANGED pc
    BY <1>7 DEF OthersRecord
  <2>2. UNCHANGED <<queue, errand>> /\ Steady'
    BY <2>1, OthersTitles
  <2>3. SvcQueueing'
    BY <2>1, <2>2 DEF SvcInvariant, SvcQueueing, errand
  <2> QED BY <2>1, <2>2, <2>3
<1> QED BY <1>2, <1>3, <1>4, <1>5, <1>6, <1>7
  DEF ServiceAct, Service_Start, Service_Steps, Service_Works, SvcGiveUp, SvcFinish, SvcStop

LEMMA SvcInvariantHolds == ASSUME SteadyTitles PROVE Spec => []SvcInvariant
<1>1. ASSUME Init, TypeInvariant PROVE SvcInvariant
  <2>1. pc = "idle" /\ asked = {} /\ project \in Founding
    BY <1>1 DEF Init, SessionInit, SvcInit
  <2>2. Steady
    BY <2>1 DEF SteadyTitles, TitlesFor, Steady
  <2> QED BY <1>1, <2>1, <2>2 DEF TypeInvariant, SvcInvariant, SvcQueueing, SvcPc
<1>2. ASSUME SvcInvariant, TypeInvariant, [Next]_vars, TypeInvariant' PROVE SvcInvariant'
  <2>1. SvcKinds'
    BY <1>2 DEF TypeInvariant
  <2>2. SvcQueueing' /\ Steady' /\ (calm' /\ pc' \in SvcPc => SvcCourse')
    <3>1. CASE UNCHANGED vars
      <4>1. UNCHANGED <<service, pc, calm>>
        BY <3>1 DEF vars, process
      <4> QED BY <1>2, <4>1, NotServed
    <3>2. CASE ServiceAct
      BY <1>2, <3>2, ServiceActCourse
    <3>3. CASE CompaniesAct \/ AppsAct \/ BootAct \/ BenchAct
      BY <1>2, <3>3, NotService, NotServed DEF TypeInvariant, BootInvariant
    <3> QED BY <1>2, <3>1, <3>2, <3>3, OneFamilyActs
  <2> QED BY <2>1, <2>2 DEF SvcInvariant
<1> QED BY <1>1, <1>2, TypeInvariantHolds, PTL DEF Spec

\* What was asked for is in force when the last answer is in
LEMMA AllServed == ASSUME SvcInvariant, SvcFinish, calm PROVE Served
<1>1. pc = "svc-poll" /\ asked # {} /\ Status \notin {"failed", "expired", "none"} /\ Len(commands) = 1
  BY DEF SvcFinish, FailedStatuses
<1>2. reply.status = "done"
  BY <1>1, NothingFound DEF Status, SvcInvariant, SvcQueueing
<1>3. commands \in Seq(Requests) /\ SvcCourse
  BY <1>1 DEF SvcInvariant, SvcKinds, SvcPc
<1>4. \A c \in asked : ~Waiting(c)
  <2>1. DOMAIN commands = {1}
    BY <1>1, <1>3
  <2> QED BY <1>2, <2>1 DEF Waiting
<1>5. \A c \in asked : Achieved(c)
  BY <1>1, <1>3, <1>4 DEF SvcCourse
<1> QED BY <1>5 DEF Served, Achieved

\* For all manifests and tenants where no ref changes its title: an apply that is let
\* alone and ends with 0 leaves what the mock provider's apply of the same plan leaves,
\* companies and applications, and in service mode all that its plan asked for, though
\* a request may be answered late, after others, or by an import of more than a row.
THEOREM AllAgree == ASSUME SteadyTitles PROVE Spec => AgreesWithMock
<1>1. ASSUME SvcInvariant, [Next]_vars PROVE [SvcFinish /\ calm => Served]_vars
  BY <1>1, AllServed
<1>2. Spec => [][SvcFinish /\ calm => Served]_vars
  BY <1>1, SvcInvariantHolds, PTL DEF Spec
<1> QED BY <1>2, CompaniesAgree, AppsAgree, PTL DEF AgreesWithMock


------------------------------------------------------------------------------
(* Every step of a command brings it nearer to its end *)

\* A call is one of those that are left
MspDue ==
  pc = "msp-call" =>
    \/ cur.kind \in {"create", "update"} /\ cur.name \in open
    \/ cur.kind = "delete" /\ cur.id \in doomed

KsmDue == pc \in {"ksm-create", "ksm-mark"} => at.ref \in todo

FewApps == IsFiniteSet(DOMAIN apps) /\ IsFiniteSet(DOMAIN before)

Bounded ==
  /\ tries \in 0 .. 2 /\ (pc = "svc-poll" => tries = 0)
  /\ attempt \in 0 .. Attempts

Tasks == MspDue /\ KsmDue /\ FewApps /\ Bounded

Underway == TypeInvariant /\ Firm /\ Tasks

LEMMA TasksInitially == Init => Tasks
<1>1. IsFiniteSet(DOMAIN NoApps)
  BY FS_EmptySet DEF NoApps
<1> QED BY <1>1 DEF Init, SessionInit, KsmInit, SvcInit, BenchInit, Tasks, MspDue, KsmDue, FewApps, Bounded, Attempts

LEMMA MspDueKept == ASSUME Stationed, MspDue, [Next]_vars PROVE MspDue'
<1>1. CASE UNCHANGED <<pc, cur, open, doomed>>
  BY <1>1 DEF MspDue
<1>2. CASE pc' # "msp-call"
  BY <1>2 DEF MspDue
<1>3. CASE Companies_Look
  BY <1>3 DEF Companies_Look, MspLook, NextChange, MspDue
<1>4. CASE CompaniesAct /\ ~Companies_Look
  BY <1>1, <1>2, <1>4 DEF CompaniesAct, Companies_Plan, Companies_Add, Companies_Edit, Companies_Remove,
     Companies_Finish, Companies_Refuse, OthersCompany, MspPlan, MspAdd, MspEdit, MspRemove,
     MspFinish, MspRefuse, MspIdle, MspStop, MspOthers
<1>5. CASE UNCHANGED vars
  BY <1>1, <1>5 DEF vars, process, company
<1>6. CASE AppsAct \/ BootAct \/ ServiceAct \/ BenchAct
  <2>1. UNCHANGED company
    BY <1>6, AppsStay, BootStays, ServiceStays, BenchStays DEF OnlyApps, OnlyBoot, OnlyService, OnlyBench
  <2>2. UNCHANGED pc \/ pc' # "msp-call"
    BY <1>6, AppsStay, BootStays, ServiceStays, BenchStays DEF KsmPc, BootSteps, SvcPc, BenchPc
  <2> QED BY <1>1, <1>2, <2>1, <2>2 DEF company
<1> QED BY <1>3, <1>4, <1>5, <1>6, OneFamilyActs

\* A bootstrap has no part in the tasks of an apply
LEMMA BootApart ==
  ASSUME BootAct
  PROVE  UNCHANGED apply /\ (UNCHANGED pc \/ pc' \notin {"ksm-create", "ksm-mark"})
<1>1. UNCHANGED apply
  BY DEF BootAct, Boot_Start, Boot_Steps, Learn, BootStart, BootLookApp, BootAddApp, BootShare, BootLookDir,
     BootAddDir, BootShareDir, BootToken, BootRedeem, BootFinish, BootPoll, BootGiveUp, BootIdle, BootStop,
     Propagate, application
<1> QED BY <1>1, BootStays DEF BootSteps

LEMMA KsmDueKept == ASSUME KsmDue, Inductive, [Next]_vars PROVE KsmDue'
<1>1. CASE UNCHANGED <<pc, at, todo>>
  BY <1>1 DEF KsmDue
<1>2. CASE pc' \notin {"ksm-create", "ksm-mark"}
  BY <1>2 DEF KsmDue
<1>3. CASE Apps_Look
  BY <1>3 DEF Apps_Look, KsmLook, KsmDue
<1>4. CASE Apps_Create
  <2>1. pc = "ksm-create" /\ UNCHANGED todo /\ at'.ref = at.ref
    BY <1>4 DEF Apps_Create, KsmCreate
  <2> QED BY <2>1 DEF KsmDue
<1>5. CASE AppsAct /\ ~Apps_Look /\ ~Apps_Create
  BY <1>1, <1>2, <1>5 DEF AppsAct, Apps_Plan, Apps_Rename, Apps_Mark, Apps_Reshare, Apps_Delete,
     Apps_Finish, Apps_Refuse, OthersApp, KsmPlan, KsmRename, KsmMark, KsmReshare, KsmDelete, KsmFinish,
     KsmRefuse, KsmIdle, KsmStop, apply
<1>6. CASE UNCHANGED vars
  BY <1>1, <1>6 DEF vars, process, application, apply
<1>7. CASE CompaniesAct \/ ServiceAct \/ BenchAct
  <2>1. UNCHANGED application
    BY <1>7, CompaniesStay, ServiceStays, BenchStays DEF OnlyCompanies, OnlyService, OnlyBench
  <2>2. UNCHANGED pc \/ pc' \notin {"ksm-create", "ksm-mark"}
    BY <1>7, CompaniesStay, ServiceStays, BenchStays DEF MspPc, SvcPc, BenchPc
  <2> QED BY <1>1, <1>2, <2>1, <2>2 DEF application, apply
<1>8. CASE BootAct
  BY <1>1, <1>2, <1>8, BootApart DEF apply
<1> QED BY <1>3, <1>4, <1>5, <1>6, <1>7, <1>8, OneFamilyActs

LEMMA FewMore ==
  ASSUME FewApps, NEW n \in Nat, DOMAIN apps' \subseteq DOMAIN apps \union FreshOf(AppId, given, n),
         UNCHANGED before \/ before' = apps \/ before' = NoApps
  PROVE  FewApps'
<1>1. IsFiniteSet(FreshOf(AppId, given, n))
  BY NumbersApart, FewFresh
<1>2. IsFiniteSet(DOMAIN apps \union FreshOf(AppId, given, n))
  BY <1>1, FS_Union DEF FewApps
<1>3. IsFiniteSet(DOMAIN apps')
  BY <1>2, FS_Subset
<1>4. IsFiniteSet(DOMAIN NoApps)
  BY FS_EmptySet DEF NoApps
<1> QED BY <1>3, <1>4 DEF FewApps

LEMMA FewAppsKept == ASSUME FewApps, Stationed, [Next]_vars PROVE FewApps'
<1>1. CASE DOMAIN apps' \subseteq DOMAIN apps /\ (UNCHANGED before \/ before' = apps \/ before' = NoApps)
  BY <1>1, FewMore, 0 \in Nat
<1>2. CASE Apps_Create
  <2>1. PICK k \in 0 .. 2 :
          apps' = [u \in DOMAIN apps \union FreshOf(AppId, given, k) |->
                     IF u \in FreshOf(AppId, given, k) THEN NewApp(target.names[at.ref]) ELSE apps[u]]
    BY <1>2 DEF Apps_Create, KsmCreate
  <2>2. UNCHANGED before
    BY <1>2 DEF Apps_Create, KsmCreate
  <2> QED BY <2>1, <2>2, FewMore
<1>3. CASE OthersApp
  <2>1. UNCHANGED before
    BY <1>3 DEF OthersApp, apply
  <2>2. CASE \E a \in StrangeApps, u \in FreshOf(AppId, given, 1) :
               apps' = [w \in DOMAIN apps \union {u} |-> IF w = u THEN a ELSE apps[w]]
    <3>1. DOMAIN apps' \subseteq DOMAIN apps \union FreshOf(AppId, given, 1)
      BY <2>2
    <3> QED BY <2>1, <3>1, FewMore, 1 \in Nat
  <2>3. CASE \E u \in DOMAIN apps : apps' = [w \in DOMAIN apps \ {u} |-> apps[w]]
    BY <1>1, <2>1, <2>3
  <2> QED BY <1>3, <2>2, <2>3 DEF OthersApp
<1>4. CASE AppsAct /\ ~Apps_Create /\ ~OthersApp
  BY <1>1, <1>4 DEF AppsAct, Apps_Plan, Apps_Rename, Apps_Look, Apps_Mark, Apps_Reshare, Apps_Delete,
     Apps_Finish, Apps_Refuse, KsmPlan, KsmRename, KsmLook, KsmMark, KsmReshare, KsmDelete, KsmFinish,
     KsmRefuse, KsmIdle, KsmStop
<1>5. CASE BootAct
  <2>1. UNCHANGED before
    BY <1>5, BootApart DEF apply
  <2>2. CASE Boot_Steps /\ BootAddApp
    <3>1. DOMAIN apps' \subseteq DOMAIN apps \union FreshOf(AppId, given, 1)
      BY <2>2 DEF BootAddApp
    <3> QED BY <2>1, <3>1, FewMore, 1 \in Nat
  <2>3. CASE ~(Boot_Steps /\ BootAddApp)
    <3>1. DOMAIN apps' = DOMAIN apps
      BY <1>5, <2>3 DEF BootAct, Boot_Start, Boot_Steps, Learn, BootStart, BootLookApp, BootShare, BootLookDir,
         BootAddDir, BootShareDir, BootToken, BootRedeem, BootFinish, BootPoll, BootGiveUp, BootIdle, BootStop,
         Propagate, application, Share
    <3> QED BY <1>1, <2>1, <3>1
  <2> QED BY <2>2, <2>3
<1>6. CASE CompaniesAct \/ ServiceAct \/ BenchAct
  BY <1>1, <1>6, OtherFamilies DEF application, apply
<1>7. CASE UNCHANGED vars
  BY <1>1, <1>7 DEF vars, application, apply
<1> QED BY <1>2, <1>3, <1>4, <1>5, <1>6, <1>7, OneFamilyActs

LEMMA BoundedKept == ASSUME Bounded, Stationed, [Next]_vars PROVE Bounded'
<1>1. tries' \in 0 .. 2 /\ (pc' = "svc-poll" => tries' = 0)
  <2>1. CASE ServiceAct
    BY <2>1 DEF Bounded, ServiceAct, Service_Start, Service_Steps, Service_Works, OthersRecord, SvcStart, SvcPost,
       SvcThrottled, SvcPoll, SvcPlan, SvcNext, SvcGiveUp, SvcFinish, SvcIdle, SvcStop, Serve, SvcOthers,
       process, errand
  <2>2. CASE CompaniesAct \/ AppsAct \/ BootAct \/ BenchAct
    BY <2>2, NotService DEF Bounded, service, errand, SvcPc
  <2> QED BY <2>1, <2>2, OneFamilyActs DEF Bounded, vars, process, service, errand
<1>2. attempt' \in 0 .. Attempts
  <2>1. CASE BenchAct
    <3>1. CASE Bench_Steps /\ BenchVerify
      <4>1. attempt' = attempt \/ (attempt < Attempts /\ attempt' = attempt + 1)
        BY <3>1, Zenon DEF BenchVerify, Again
      <4>2. attempt \in 0 .. 3
        BY DEF Bounded, Attempts
      <4> QED BY <4>1, <4>2 DEF Attempts
    <3>2. CASE ~(Bench_Steps /\ BenchVerify)
      BY <2>1, <3>2 DEF Bounded, Attempts, BenchAct, Bench_Start, Bench_Steps, OthersAccount, BenchSteps, BenchStart,
         BenchStored, BenchClear, BenchBare, BenchList, BenchAdd, BenchValidate, BenchLook, BenchRm, BenchRecord,
         BenchGateway, BenchFolder, BenchGrant, BenchApp, BenchPart, BenchFinish, BenchGiveUp, BenchIdle,
         BenchStop, BenchOthers, lab
    <3> QED BY <3>1, <3>2
  <2>2. CASE CompaniesAct \/ AppsAct \/ BootAct \/ ServiceAct
    BY <2>2, NotBench DEF Bounded, lab
  <2> QED BY <2>1, <2>2, OneFamilyActs DEF Bounded, vars, lab
<1> QED BY <1>1, <1>2 DEF Bounded

LEMMA UnderwayHolds == Spec => []Underway
<1>1. Init => Tasks
  BY TasksInitially
<1>2. Tasks /\ TypeInvariant /\ [Next]_vars => Tasks'
  BY MspDueKept, KsmDueKept, FewAppsKept, BoundedKept DEF Tasks, TypeInvariant, BootInvariant
<1>3. MspInvariant => Firm
  BY DEF MspInvariant
<1>4. TypeInvariant /\ Firm /\ Tasks => Underway
  BY DEF Underway
<1> QED BY <1>1, <1>2, <1>3, <1>4, TypeInvariantHolds, MspInvariantHolds, PTL DEF Spec

------------------------------------------------------------------------------
(* How much is left is a number *)

LEMMA CountOf == ASSUME NEW S, IsFiniteSet(S) PROVE Cardinality(S) \in Nat
BY FS_CardinalityType

LEMMA OneLess ==
  ASSUME NEW S, IsFiniteSet(S), NEW x \in S
  PROVE  Cardinality(S \ {x}) = Cardinality(S) - 1 /\ Cardinality(S) \in Nat
BY FS_RemoveElement, FS_CardinalityType

LEMMA FewCompanies ==
  ASSUME Inductive, CompaniesKinds, Firm
  PROVE  IsFiniteSet(open) /\ IsFiniteSet(doomed)
<1>1. IsFiniteSet(rows)
  BY FilesAreFinite, FS_EmptySet DEF Inductive, FirmsListed
<1> DEFINE f == [r \in rows |-> Key(r)]
<1>2. IsFiniteSet({f[r] : r \in rows})
  <2>1. DOMAIN f = rows
    OBVIOUS
  <2> HIDE DEF f
  <2> QED BY <1>1, <2>1, FiniteImage
<1>3. {f[r] : r \in rows} = Keys(rows)
  BY DEF Keys
<1>4. open \in SUBSET Keys(rows) /\ doomed \in SUBSET DOMAIN base /\ IsFiniteSet(DOMAIN base)
  BY DEF Inductive, FirmsListed, CompaniesKinds, Firm
<1> HIDE DEF f
<1> QED BY <1>2, <1>3, <1>4, FS_Subset

LEMMA FewTasks ==
  ASSUME AppsKinds, FewApps
  PROVE  IsFiniteSet(todo) /\ IsFiniteSet(reshare) /\ IsFiniteSet(retired)
<1>1. IsFiniteSet(DOMAIN target.names) /\ IsFiniteSet(DOMAIN target.shares)
  BY FilesAreFinite, FS_EmptySet DEF AppsKinds, TasksOK, NoTarget
<1>2. todo \in SUBSET DOMAIN target.names /\ reshare \in SUBSET DOMAIN target.shares /\ retired \in SUBSET DOMAIN before
  BY DEF AppsKinds, TasksOK
<1> QED BY <1>1, <1>2, FS_Subset DEF FewApps

LEMMA SvcFactor == ASSUME SvcKinds PROVE Len(commands) \in Nat /\ Len(commands) * (SvcPatience + 4) \in Nat
<1>1. \A l, c \in Nat : l * c \in Nat
  OBVIOUS
<1>2. Len(commands) \in Nat /\ SvcPatience + 4 \in Nat
  BY ServiceApplyAssumption DEF SvcKinds
<1> QED BY <1>1, <1>2

Measured == pc # "idle" => Left \in Nat

LEMMA LeftIsNat == ASSUME Underway PROVE Measured
<1>1. /\ Inductive /\ Stationed /\ AppsKinds /\ BootKinds /\ CompaniesKinds /\ SvcKinds /\ Firm
      /\ FewApps /\ Bounded
  BY DEF Underway, TypeInvariant, BootInvariant, Tasks
<1>2. MspLeft \in Nat
  <2>1. Cardinality(open) \in Nat /\ Cardinality(doomed) \in Nat
    BY <1>1, FewCompanies, CountOf
  <2> QED BY <2>1 DEF MspLeft
<1>3. KsmLeft \in Nat
  <2>1. Cardinality(todo) \in Nat /\ Cardinality(reshare) \in Nat /\ Cardinality(retired) \in Nat
    BY <1>1, FewTasks, CountOf
  <2> QED BY <2>1 DEF KsmLeft
<1>4. BootLeft \in Nat
  BY <1>1, BootstrapAssumption DEF BootKinds, BootLeft
<1>5. SvcLeft \in Nat
  <2>1. tries \in 0 .. 2 /\ waits \in 0 .. SvcPatience /\ SvcPatience \in Nat
    BY <1>1, ServiceApplyAssumption DEF Bounded, SvcKinds
  <2>2. Len(commands) * (SvcPatience + 4) \in Nat
    BY <1>1, SvcFactor
  <2> QED BY <2>1, <2>2 DEF SvcLeft
<1>6. BenchLeft \in Nat
  BY <1>1 DEF Bounded, BenchLeft, Attempts
<1> QED BY <1>2, <1>3, <1>4, <1>5, <1>6 DEF Measured, Left

------------------------------------------------------------------------------
(* The steps of a command *)

LEMMA MspAdvances ==
  ASSUME Inductive, CompaniesKinds, Firm, MspDue, MspLook \/ MspAdd \/ MspEdit \/ MspRemove
  PROVE  MspLeft' < MspLeft
<1>1. IsFiniteSet(open) /\ IsFiniteSet(doomed) /\ Cardinality(open) \in Nat /\ Cardinality(doomed) \in Nat
  BY FewCompanies, CountOf
<1>2. CASE MspLook
  <2>1. pc = "msp" /\ pc' = "msp-call" /\ UNCHANGED <<open, doomed>>
    BY <1>2 DEF MspLook
  <2> QED BY <1>1, <2>1 DEF MspLeft
<1>3. CASE MspAdd \/ MspEdit
  <2>1. pc = "msp-call" /\ pc' = "msp" /\ open' = open \ {cur.name} /\ UNCHANGED doomed /\ cur.name \in open
    BY <1>3 DEF MspAdd, MspEdit, MspDue
  <2>2. Cardinality(open') = Cardinality(open) - 1
    BY <1>1, <2>1, OneLess
  <2> QED BY <1>1, <2>1, <2>2 DEF MspLeft
<1>4. CASE MspRemove
  <2>1. pc = "msp-call" /\ pc' = "msp" /\ doomed' = doomed \ {cur.id} /\ UNCHANGED open /\ cur.id \in doomed
    BY <1>4 DEF MspRemove, MspDue
  <2>2. Cardinality(doomed') = Cardinality(doomed) - 1
    BY <1>1, <2>1, OneLess
  <2> QED BY <1>1, <2>1, <2>2 DEF MspLeft
<1> QED BY <1>2, <1>3, <1>4

LEMMA KsmAdvances ==
  ASSUME AppsKinds, FewApps, KsmDue,
         KsmRename \/ KsmLook \/ KsmCreate \/ KsmMark \/ KsmReshare \/ KsmDelete
  PROVE  KsmLeft' < KsmLeft
<1>1. /\ IsFiniteSet(todo) /\ IsFiniteSet(reshare) /\ IsFiniteSet(retired)
      /\ Cardinality(todo) \in Nat /\ Cardinality(reshare) \in Nat /\ Cardinality(retired) \in Nat
  BY FewTasks, CountOf
<1>2. CASE KsmRename
  <2>1. PICK r \in todo : todo' = todo \ {r}
    BY <1>2, Zenon DEF KsmRename
  <2>2. UNCHANGED <<pc, reshare, retired>>
    BY <1>2, Zenon DEF KsmRename
  <2>3. Cardinality(todo') = Cardinality(todo) - 1
    BY <1>1, <2>1, OneLess
  <2> QED BY <1>1, <2>2, <2>3 DEF KsmLeft
<1>3. CASE KsmLook
  <2>1. pc = "ksm" /\ pc' = "ksm-create" /\ UNCHANGED <<todo, reshare, retired>>
    BY <1>3 DEF KsmLook
  <2> QED BY <1>1, <2>1 DEF KsmLeft
<1>4. CASE KsmCreate
  <2>1. pc = "ksm-create" /\ pc' = "ksm-mark" /\ UNCHANGED <<todo, reshare, retired>>
    BY <1>4 DEF KsmCreate
  <2> QED BY <1>1, <2>1 DEF KsmLeft
<1>5. CASE KsmMark
  <2>1. /\ pc = "ksm-mark" /\ pc' = "ksm" /\ todo' = todo \ {at.ref} /\ UNCHANGED <<reshare, retired>>
        /\ at.ref \in todo
    BY <1>5 DEF KsmMark, KsmDue
  <2>2. Cardinality(todo') = Cardinality(todo) - 1
    BY <1>1, <2>1, OneLess
  <2> QED BY <1>1, <2>1, <2>2 DEF KsmLeft
<1>6. CASE KsmReshare
  <2>1. PICK p \in reshare : reshare' = reshare \ {p}
    BY <1>6, Zenon DEF KsmReshare
  <2>2. UNCHANGED <<pc, todo, retired>>
    BY <1>6, Zenon DEF KsmReshare
  <2>3. Cardinality(reshare') = Cardinality(reshare) - 1
    BY <1>1, <2>1, OneLess
  <2> QED BY <1>1, <2>2, <2>3 DEF KsmLeft
<1>7. CASE KsmDelete
  <2>1. PICK u \in retired : retired' = retired \ {u}
    BY <1>7, Zenon DEF KsmDelete
  <2>2. UNCHANGED <<pc, todo, reshare>>
    BY <1>7, Zenon DEF KsmDelete
  <2>3. Cardinality(retired') = Cardinality(retired) - 1
    BY <1>1, <2>1, OneLess
  <2> QED BY <1>1, <2>2, <2>3 DEF KsmLeft
<1> QED BY <1>2, <1>3, <1>4, <1>5, <1>6, <1>7

LEMMA BootAdvances ==
  ASSUME BootKinds, Boot_Steps, pc' # "idle"
  PROVE  pc \in BootSteps /\ pc' \in BootSteps /\ BootLeft' < BootLeft
<1>1. Patience \in Nat /\ polls \in 0 .. Patience
  BY BootstrapAssumption DEF BootKinds
<1>2. CASE BootPoll
  <2>1. pc = "boot-verify" /\ pc' = "boot-verify" /\ polls' = polls + 1 /\ polls < Patience
    BY <1>1, <1>2 DEF BootPoll, Deadline, process
  <2> QED BY <1>1, <2>1 DEF BootLeft, BootSteps
<1>3. CASE ~BootPoll
  <2>1. \/ pc = "boot-app" /\ pc' \in {"boot-share", "boot-app-add"}
        \/ pc = "boot-app-add" /\ pc' = "boot-share"
        \/ pc = "boot-share" /\ pc' \in {"boot-dir", "boot-token"}
        \/ pc = "boot-dir" /\ pc' \in {"boot-dir-share", "boot-dir-add"}
        \/ pc = "boot-dir-add" /\ pc' = "boot-dir-share"
        \/ pc = "boot-dir-share" /\ pc' = "boot-token"
        \/ pc = "boot-token" /\ pc' = "boot-redeem"
        \/ pc = "boot-redeem" /\ pc' = "boot-verify"
    BY <1>3 DEF Boot_Steps, BootLookApp, BootAddApp, BootShare, BootLookDir, BootAddDir, BootShareDir, BootToken,
       BootRedeem, BootFinish, BootGiveUp, BootIdle
  <2>2. polls' \in Nat
    <3>1. polls' = polls \/ pc' = "idle"
      BY <1>3, Zenon DEF Boot_Steps, BootLookApp, BootAddApp, BootShare, BootLookDir, BootAddDir, BootShareDir,
         BootToken, BootRedeem, BootFinish, BootGiveUp, BootIdle, boot
    <3> QED BY <1>1, <3>1
  <2> QED BY <1>1, <2>1, <2>2 DEF BootLeft, BootSteps
<1> QED BY <1>2, <1>3

LEMMA SvcAdvances ==
  ASSUME SvcKinds, Bounded, SvcPost \/ SvcThrottled \/ SvcPoll \/ SvcNext, pc' # "idle"
  PROVE  SvcLeft' < SvcLeft /\ UNCHANGED asked
<1> DEFINE C == SvcPatience + 4
           n == Len(commands)
<1>1. SvcPatience \in Nat /\ tries \in 0 .. 2 /\ waits \in 0 .. SvcPatience /\ C \in Nat /\ n * C \in Nat
  BY SvcFactor, ServiceApplyAssumption DEF Bounded, SvcKinds
<1>2. CASE SvcPost
  <2>1. pc = "svc-post" /\ pc' = "svc-poll" /\ waits' = 0 /\ UNCHANGED <<commands, asked>>
    BY <1>2 DEF SvcPost
  <2> HIDE DEF C, n
  <2>2. SvcLeft = n * C + (SvcPatience + 3 - tries) /\ SvcLeft' = n * C + (SvcPatience - 0)
    BY <2>1 DEF SvcLeft, C, n
  <2> QED BY <1>1, <2>1, <2>2
<1>3. CASE SvcThrottled
  <2>1. pc = "svc-post" /\ pc' = "svc-post" /\ tries' = tries + 1 /\ UNCHANGED <<commands, asked>>
    BY <1>3 DEF SvcThrottled, SvcIdle
  <2> HIDE DEF C, n
  <2>2. SvcLeft = n * C + (SvcPatience + 3 - tries) /\ SvcLeft' = n * C + (SvcPatience + 3 - (tries + 1))
    BY <2>1 DEF SvcLeft, C, n
  <2> QED BY <1>1, <2>1, <2>2
<1>4. CASE SvcPoll
  <2>1. pc = "svc-poll" /\ pc' = "svc-poll" /\ waits' = waits + 1 /\ UNCHANGED <<commands, asked>>
    BY <1>4 DEF SvcPoll, process
  <2> HIDE DEF C, n
  <2>2. SvcLeft = n * C + (SvcPatience - waits) /\ SvcLeft' = n * C + (SvcPatience - (waits + 1))
    BY <2>1 DEF SvcLeft, C, n
  <2> QED BY <1>1, <2>1, <2>2
<1>5. CASE SvcNext
  <2>1. /\ pc = "svc-poll" /\ pc' = "svc-post" /\ commands' = Tail(commands) /\ n > 1
        /\ tries' = 0 /\ UNCHANGED asked /\ commands \in Seq(Requests)
    BY <1>5 DEF SvcNext, Bounded, SvcKinds
  <2>2. Len(commands') = n - 1 /\ n \in Nat
    BY <2>1
  <2> HIDE DEF C, n
  <2>3. SvcLeft = n * C + (SvcPatience - waits) /\ SvcLeft' = (n - 1) * C + (SvcPatience + 3 - 0)
    BY <2>1, <2>2 DEF SvcLeft, C, n
  <2>4. (n - 1) * C = n * C - C
    BY <1>1, <2>2
  <2>5. C = SvcPatience + 4
    BY DEF C
  <2> QED BY <1>1, <2>1, <2>3, <2>4, <2>5
<1> QED BY <1>2, <1>3, <1>4, <1>5

\* The plan of a client of the service asks for something
LEMMA PlanAsks ==
  ASSUME SvcPlan
  PROVE  asked = {} /\ asked' # {}
<1>1. PICK f \in D!TitleIndexes(reply.found) :
        ~Refuses(reply.found, f) /\ asked' = Writes(reply.found, f) \union Erased(reply.found, f)
  BY DEF SvcPlan
<1>2. Writes(reply.found, f) # {} \/ Erased(reply.found, f) # {}
  BY <1>1 DEF Refuses
<1> QED BY <1>1, <1>2 DEF SvcPlan

LEMMA BenchAdvances ==
  ASSUME Bounded, BenchSteps, pc' # "idle"
  PROVE  BenchLeft' < BenchLeft
<1>1. CASE BenchVerify
  <2>1. \/ pc = "bench-verify" /\ pc' = "bench-gateway" /\ attempt' = attempt
        \/ pc = "bench-verify" /\ pc' = "bench-verify" /\ attempt < Attempts /\ attempt' = attempt + 1
    BY <1>1, Zenon DEF BenchVerify, Again, To
  <2>2. attempt \in 0 .. 3
    BY DEF Bounded, Attempts
  <2> QED BY <2>1, <2>2 DEF BenchLeft, Attempts
<1>2. CASE BenchRecord
  <2>1. pc = "bench-record" /\ pc' = "bench-verify" /\ attempt' = 1
    BY <1>2 DEF BenchRecord, To
  <2> QED BY <2>1 DEF BenchLeft, Attempts
<1>3. CASE ~BenchVerify /\ ~BenchRecord
  <2>1. \/ pc = "bench-stored" /\ pc' \in {"bench-gateway", "bench-clear"}
        \/ pc = "bench-clear" /\ pc' = "bench-bare"
        \/ pc = "bench-bare" /\ pc' = "bench-list"
        \/ pc = "bench-list" /\ pc' = "bench-add"
        \/ pc = "bench-add" /\ pc' = "bench-validate"
        \/ pc = "bench-validate" /\ pc' = "bench-look"
        \/ pc = "bench-look" /\ pc' \in {"bench-record", "bench-rm"}
        \/ pc = "bench-rm" /\ pc' = "bench-record"
        \/ pc = "bench-gateway" /\ pc' = "bench-folder"
        \/ pc = "bench-folder" /\ pc' = "bench-grant"
        \/ pc = "bench-grant" /\ pc' = "bench-app"
        \/ pc = "bench-app" /\ pc' = "bench-ready"
    BY <1>3 DEF BenchSteps, BenchStored, BenchClear, BenchBare, BenchList, BenchAdd, BenchValidate, BenchLook, BenchRm,
       BenchGateway, BenchFolder, BenchGrant, BenchApp, BenchPart, BenchFinish, BenchGiveUp, BenchIdle, To
  <2>2. attempt \in 0 .. 3
    BY DEF Bounded, Attempts
  <2> QED BY <2>1, <2>2 DEF BenchLeft, Attempts
<1> QED BY <1>1, <1>2, <1>3

LEMMA WorkAdvances ==
  ASSUME Underway, Work, pc' # "idle"
  PROVE  Unplanned' < Unplanned \/ (Unplanned' = Unplanned /\ Left' < Left)
<1>1. /\ Inductive /\ AppsKinds /\ BootKinds /\ CompaniesKinds /\ SvcKinds /\ Firm
      /\ MspDue /\ KsmDue /\ FewApps /\ Bounded
  BY DEF Underway, TypeInvariant, BootInvariant, Tasks
<1>2. CASE Companies_Look \/ Companies_Add \/ Companies_Edit \/ Companies_Remove
  <2>1. family = "msp" /\ family' = "msp"
    BY <1>2 DEF Companies_Look, Companies_Add, Companies_Edit, Companies_Remove, OnlyCompanies
  <2>2. MspLeft' < MspLeft
    BY <1>1, <1>2, MspAdvances DEF Companies_Look, Companies_Add, Companies_Edit, Companies_Remove
  <2> QED BY <2>1, <2>2 DEF Left, Unplanned
<1>3. CASE Apps_Rename \/ Apps_Look \/ Apps_Create \/ Apps_Mark \/ Apps_Reshare \/ Apps_Delete
  <2>1. family = "ksm" /\ family' = "ksm"
    BY <1>3 DEF Apps_Rename, Apps_Look, Apps_Create, Apps_Mark, Apps_Reshare, Apps_Delete, OnlyApps
  <2>2. KsmLeft' < KsmLeft
    BY <1>1, <1>3, KsmAdvances DEF Apps_Rename, Apps_Look, Apps_Create, Apps_Mark, Apps_Reshare, Apps_Delete
  <2>3. pc \in KsmPc /\ pc' \in KsmPc
    BY <1>3, Zenon DEF Apps_Rename, Apps_Look, Apps_Create, Apps_Mark, Apps_Reshare, Apps_Delete, KsmRename, KsmLook,
       KsmCreate, KsmMark, KsmReshare, KsmDelete, KsmPc
  <2> QED BY <2>1, <2>2, <2>3 DEF Left, Unplanned, KsmPc, BootSteps
<1>4. CASE Boot_Steps
  <2>1. family = "ksm" /\ family' = "ksm"
    BY <1>4 DEF Boot_Steps, OnlyBoot
  <2>2. pc \in BootSteps /\ pc' \in BootSteps /\ BootLeft' < BootLeft
    BY <1>1, <1>4, BootAdvances
  <2> QED BY <2>1, <2>2 DEF Left, Unplanned
<1>5. CASE Service_Steps
  <2>1. family = "pam" /\ family' = "pam"
    BY <1>5 DEF Service_Steps, OnlyService
  <2>2. CASE SvcPlan
    BY <2>1, <2>2, PlanAsks DEF Unplanned
  <2>3. CASE ~SvcPlan
    <3>1. SvcPost \/ SvcThrottled \/ SvcPoll \/ SvcNext
      BY <1>5, <2>3 DEF Service_Steps, SvcGiveUp, SvcFinish, SvcIdle
    <3>2. SvcLeft' < SvcLeft /\ UNCHANGED asked
      BY <1>1, <3>1, SvcAdvances
    <3> QED BY <2>1, <3>2 DEF Left, Unplanned
  <2> QED BY <2>2, <2>3
<1>6. CASE Bench_Steps
  <2>1. family = "smoke" /\ family' = "smoke"
    BY <1>6 DEF Bench_Steps, OnlyBench
  <2>2. BenchLeft' < BenchLeft
    BY <1>1, <1>6, BenchAdvances DEF Bench_Steps
  <2> QED BY <2>1, <2>2 DEF Left, Unplanned
<1>7. CASE Companies_Finish \/ Companies_Refuse \/ Apps_Finish \/ Apps_Refuse
  BY <1>7 DEF Companies_Finish, Companies_Refuse, Apps_Finish, Apps_Refuse, MspFinish, MspRefuse, MspIdle, KsmFinish,
     KsmRefuse, KsmIdle
<1> QED BY <1>2, <1>3, <1>4, <1>5, <1>6, <1>7 DEF Work

\* Others, the client service that learns of a share, and the service's own work
LEMMA OthersSetNothingBack ==
  ASSUME Stationed, Next, ~Work, pc # "idle", pc' # "idle"
  PROVE  UNCHANGED <<Left, Unplanned>>
<1>1. CASE OthersCompany
  <2>1. family = "msp" /\ family' = "msp" /\ UNCHANGED <<pc, open, doomed>>
    BY <1>1, Zenon DEF OthersCompany, OnlyCompanies, MspOthers
  <2> QED BY <2>1 DEF Left, Unplanned, MspLeft
<1>2. CASE OthersApp
  <2>1. family = "ksm" /\ family' = "ksm" /\ UNCHANGED <<pc, apply, bootstrap>>
    BY <1>2, Zenon DEF OthersApp, OnlyApps
  <2> QED BY <2>1 DEF Left, Unplanned, KsmLeft, BootLeft, apply, bootstrap, boot
<1>3. CASE OthersRecord \/ Service_Works
  <2>1. family = "pam" /\ family' = "pam" /\ UNCHANGED <<pc, asked, commands, tries, waits>>
    BY <1>3, Zenon DEF OthersRecord, Service_Works, OnlyService, SvcOthers, Serve, process, errand
  <2> QED BY <2>1 DEF Left, Unplanned, SvcLeft
<1>4. CASE OthersAccount
  <2>1. family = "smoke" /\ family' = "smoke" /\ UNCHANGED <<pc, attempt>>
    BY <1>4, Zenon DEF OthersAccount, OnlyBench, BenchOthers
  <2> QED BY <2>1 DEF Left, Unplanned, BenchLeft
<1>5. CASE Learn
  <2>1. family = "ksm" /\ family' = "ksm" /\ pc = "boot-verify" /\ UNCHANGED <<pc, polls>>
    BY <1>5 DEF Learn, OnlyBoot, Propagate, process
  <2> QED BY <2>1 DEF Left, Unplanned, BootLeft, BootSteps
<1>6. ~(Companies_Plan \/ Apps_Plan \/ Boot_Start \/ Service_Start \/ Bench_Start)
  BY Zenon DEF Companies_Plan, Apps_Plan, Boot_Start, Service_Start, Bench_Start, MspPlan, KsmPlan, BootStart, SvcStart,
     BenchStart
<1>7. ~Stop
  BY Zenon DEF Stop, MspStop, KsmStop, BootStop, SvcStop, BenchStop, MspIdle, KsmIdle, BootIdle, SvcIdle, BenchIdle
<1> QED BY <1>1, <1>2, <1>3, <1>4, <1>5, <1>6, <1>7 DEF Next

\* Every command comes to its end: each of its steps leaves less to do, for all files,
\* tenants and deadlines, whatever fails and whatever others do.
THEOREM CommandsAdvance == Spec => Advances
<1>1. Underway => Measured
  BY LeftIsNat
<1>2. ASSUME Underway, Measured, Measured', [Next]_vars
      PROVE  [pc # "idle" /\ pc' # "idle" =>
                /\ Left' \in Nat
                /\ \/ Unplanned' < Unplanned
                   \/ Unplanned' = Unplanned /\ (IF Work THEN Left' < Left ELSE Left' <= Left)]_vars
  <2> SUFFICES ASSUME Next, pc # "idle", pc' # "idle"
               PROVE  /\ Left' \in Nat
                      /\ \/ Unplanned' < Unplanned
                         \/ Unplanned' = Unplanned /\ (IF Work THEN Left' < Left ELSE Left' <= Left)
    BY <1>2
  <2>1. Left \in Nat /\ Left' \in Nat
    BY <1>2 DEF Measured
  <2>2. CASE Work
    BY <1>2, <2>1, <2>2, WorkAdvances
  <2>3. CASE ~Work
    <3>1. Stationed
      BY <1>2 DEF Underway, TypeInvariant, BootInvariant
    <3>2. Left' = Left /\ Unplanned' = Unplanned
      BY <2>3, <3>1, OthersSetNothingBack
    <3> QED BY <2>1, <2>3, <3>2
  <2> QED BY <2>2, <2>3
<1> QED BY <1>1, <1>2, UnderwayHolds, PTL DEF Spec, Advances
==============================================================================
