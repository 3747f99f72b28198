------------------------------- MODULE Tenant -------------------------------
(***************************************************************************)
(* Managed companies, applications with the bootstrap of a client, PAM     *)
(* records through the service mode, and what a smoke run needs, on one    *)
(* tenant.  A shell works for one of these four.                           *)
(***************************************************************************)
EXTENDS MspApply, Bootstrap, ServiceApply, Enrolment

CONSTANTS
  StrangeApps  \* applications that people add

ASSUME TenantAssumption == StrangeApps \subseteq {NewApp(n) : n \in AppName}

\* The files are, and so is what a plan writes
ASSUME FilesAreFinite ==
  /\ \A v \in Portfolios : IsFiniteSet(v)
  /\ \A v \in Rollouts : IsFiniteSet(DOMAIN v.names) /\ IsFiniteSet(DOMAIN v.shares)

VARIABLE family  \* "msp", "ksm", "pam" or "smoke"

vars == <<process, company, application, bootstrap, service, lab, family>>

Init ==
  /\ SessionInit /\ MspInit /\ KsmInit /\ BootInit /\ SvcInit /\ BenchInit
  /\ family \in {"msp", "ksm", "pam", "smoke"}
  /\ family # "pam" => project = <<>>
  /\ family # "smoke" => channels = {}

OnlyCompanies == family = "msp" /\ UNCHANGED <<application, bootstrap, service, lab, family>>
OnlyApps == family = "ksm" /\ UNCHANGED <<company, bootstrap, service, lab, family>>
OnlyBoot == family = "ksm" /\ UNCHANGED <<company, service, lab, family>>
OnlyService == family = "pam" /\ UNCHANGED <<company, application, bootstrap, lab, family>>
OnlyBench == family = "smoke" /\ UNCHANGED <<company, application, bootstrap, service, family>>

Companies_Plan == MspPlan /\ OnlyCompanies
Companies_Look == MspLook /\ OnlyCompanies
Companies_Add == MspAdd /\ OnlyCompanies
Companies_Edit == MspEdit /\ OnlyCompanies
Companies_Remove == MspRemove /\ OnlyCompanies
Companies_Finish == MspFinish /\ OnlyCompanies
Companies_Refuse == MspRefuse /\ OnlyCompanies

Apps_Plan == KsmPlan /\ OnlyApps
Apps_Rename == KsmRename /\ OnlyApps
Apps_Look == KsmLook /\ OnlyApps
Apps_Create == KsmCreate /\ OnlyApps
Apps_Mark == KsmMark /\ OnlyApps
Apps_Reshare == KsmReshare /\ OnlyApps
Apps_Delete == KsmDelete /\ OnlyApps
Apps_Finish == KsmFinish /\ OnlyApps
Apps_Refuse == KsmRefuse /\ OnlyApps

Boot_Start == BootStart /\ OnlyBoot
Boot_Steps ==
  /\ \/ BootLookApp \/ BootAddApp \/ BootShare \/ BootLookDir \/ BootAddDir \/ BootShareDir
     \/ BootToken \/ BootRedeem \/ BootFinish \/ BootPoll \/ BootGiveUp
  /\ OnlyBoot

Service_Start == SvcStart /\ OnlyService
Service_Steps ==
  /\ \/ SvcPost \/ SvcThrottled \/ SvcPoll \/ SvcPlan \/ SvcNext \/ SvcGiveUp \/ SvcFinish
  /\ OnlyService
Service_Works == Serve /\ OnlyService

Bench_Start == BenchStart /\ OnlyBench
Bench_Steps == BenchSteps /\ OnlyBench

\* A call raises, or the process is killed
Stop ==
  /\ Mishap
  /\ calm' = FALSE
  /\ \/ MspStop /\ OnlyCompanies
     \/ KsmStop /\ OnlyApps
     \/ BootStop /\ OnlyBoot
     \/ SvcStop /\ UNCHANGED queue /\ OnlyService
     \/ BenchStop /\ OnlyBench

\* People and other tools
OthersCompany ==
  /\ Mishap /\ calm' = FALSE /\ quiet' = FALSE
  /\ MspOthers
  /\ UNCHANGED <<pc>> /\ OnlyCompanies

OthersApp ==
  /\ Mishap /\ calm' = FALSE /\ quiet' = FALSE
  /\ \/ \E a \in StrangeApps, u \in FreshOf(AppId, given, 1) :
          /\ Room(AppId, given)
          /\ apps' = [w \in DOMAIN apps \union {u} |-> IF w = u THEN a ELSE apps[w]]
          /\ given' = given \union {u}
     \/ \E u \in DOMAIN apps :
          apps' = [w \in DOMAIN apps \ {u} |-> apps[w]] /\ UNCHANGED given
  /\ UNCHANGED <<pc, apply>> /\ OnlyApps

OthersRecord ==
  /\ Mishap /\ calm' = FALSE
  /\ SvcOthers
  /\ UNCHANGED <<pc, quiet>> /\ OnlyService

OthersAccount ==
  /\ Mishap /\ calm' = FALSE
  /\ BenchOthers
  /\ UNCHANGED <<pc, quiet>> /\ OnlyBench

Learn == Propagate /\ OnlyBoot

Work ==
  \/ Companies_Look \/ Companies_Add \/ Companies_Edit \/ Companies_Remove
  \/ Companies_Finish \/ Companies_Refuse
  \/ Apps_Rename \/ Apps_Look \/ Apps_Create \/ Apps_Mark \/ Apps_Reshare \/ Apps_Delete
  \/ Apps_Finish \/ Apps_Refuse
  \/ Boot_Steps
  \/ Service_Steps
  \/ Bench_Steps

Next ==
  \/ Companies_Plan \/ Apps_Plan \/ Boot_Start \/ Service_Start \/ Bench_Start \/ Work
  \/ Stop \/ OthersCompany \/ OthersApp \/ OthersRecord \/ OthersAccount \/ Learn \/ Service_Works

\* A process that runs goes on running
Spec == Init /\ [][Next]_vars /\ WF_vars(Work)

------------------------------------------------------------------------------
\* Every variable keeps its type, and an idle shell has nothing under way.
TypeOK ==
  /\ CompanyTypeOK /\ AppsTypeOK /\ BootTypeOK /\ SvcTypeOK /\ BenchTypeOK
  /\ mishaps \in 0..Mishaps

\* An undisturbed apply that ends with 0 leaves what the mock provider's apply of
\* the same plan leaves: the plan that tests see is the plan that runs.  A file
\* plan that the manifest no longer has is excepted: Commander's update keeps it.
\* In service mode, what the plan asked for is in force when its apply ends with 0,
\* however often a create imports the whole manifest.
AgreesWithMock ==
  [][/\ Companies_Finish /\ calm => CompaniesAsMock
     /\ Apps_Finish /\ calm => AppsAsMock
     /\ SvcFinish /\ calm => Served]_vars

\* A process never makes a second company or application of one name, unless a
\* create is sent twice, or somebody else makes the first between the listing it
\* relies on and the create.
MakesNoTwin ==
  [][(Companies_Add \/ Apps_Create \/ Apps_Rename \/ Boot_Steps) /\ quiet /\ mishaps' = mishaps =>
       CompanyTwins(mcs') = CompanyTwins(mcs) /\ AppTwins(apps') \subseteq AppTwins(apps)]_vars

\* The marker of an application is written without a look at it.  All the same,
\* nobody else's application is taken over: what is marked is new, and nobody's.
\* A later plan with --allow-delete would remove it.
MarksOnlyNewApps ==
  [][Apps_Mark /\ quiet =>
       /\ apps[at.uid].mark = NoMark
       /\ at.uid \notin DOMAIN before]_vars

\* A bootstrap that ends with 0 leaves a configuration whose client reads the admin
\* record through the application of the name, and the bus directory shared for
\* writing, if it was asked for.
BootstrapWorks ==
  [][BootFinish /\ calm =>
       /\ config \in Named(BootName) /\ visible
       /\ Admin \in DOMAIN apps[config].shares
       /\ bus => dir \in DOMAIN apps[config].shares /\ apps[config].shares[dir]]_vars

\* A smoke run that was let in to its tests has what they need, whatever the runs
\* before it left behind: a record whose secret is that of the session, with which
\* the test user can log in again, the folder, its grant and the application.
BenchWorks ==
  [][BenchFinish /\ calm =>
       /\ creds.uid \in DOMAIN logins /\ logins[creds.uid] = creds.secret
       /\ LogsIn(creds.secret)
       /\ {"folder", "grant", "app"} \subseteq parts]_vars

\* No interrupted enrolment locks the next one out: a run that is let alone gives up
\* only without a password, an approved device or a gateway.
EnrolmentRecovers ==
  [][BenchGiveUp /\ calm => ~password \/ device = "new" \/ "gateway" \notin parts]_vars

\* What a command has still to do.  The plan of a client of the service, which decides
\* how much that is, comes with the answer to its first command.
Unplanned == IF family = "pam" /\ asked = {} THEN 1 ELSE 0

Left ==
  CASE family = "msp"   -> MspLeft
    [] family = "pam"   -> SvcLeft
    [] family = "smoke" -> BenchLeft
    [] OTHER            -> IF pc \in BootSteps THEN BootLeft ELSE KsmLeft

\* Each step of a command brings it nearer to its end: no poll, no retry and no second
\* look goes on for ever, whatever fails and whatever others do.  What others do, and
\* the service at its own pace, never sets it back.
Advances ==
  [][pc # "idle" /\ pc' # "idle" =>
       /\ Left' \in Nat
       /\ \/ Unplanned' < Unplanned
          \/ Unplanned' = Unplanned /\ (IF Work THEN Left' < Left ELSE Left' <= Left)]_vars

\* Whatever happens to the tenant, every command ends: the bootstrap's wait for a
\* share that the client service never learns of has a deadline.
Ends == (pc # "idle") ~> (pc = "idle")
=============================================================================
