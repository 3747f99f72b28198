--------------------------------- MODULE Lab ---------------------------------
(***************************************************************************)
(* The live smoke test, and the applies of its PAM scenarios.  Their       *)
(* manifests refer to a gateway that exists already, and `dsk apply` of    *)
(* those, one step in Smoke, is what Scaffold has call by call.  A         *)
(* behaviour is one of the test, or one of runs that apply such manifests. *)
(* Scaffold comes with its theorems, which SmokeProofs takes over.         *)
(***************************************************************************)
EXTENDS Smoke

\* Those of Scaffold
CONSTANTS
  Handle, RowTitle, RowRef, RowBody,   \* its Uid, Title, Ref and Body
  ManifestName, NoUid, NoRef, NoName, Keep,
  Run, Manifest, GatewayOf, ConfOf, Wirings, Strangers, PathUids, TitleUids,
  MaxStarts, MaxMishaps

ASSUME LabAssumption ==
  /\ NoUid \notin Handle
  /\ NoRef \notin RowRef
  /\ NoName \notin ManifestName
  /\ Keep \notin RowTitle
  /\ Keep \notin RowBody

VARIABLES
  scope,   \* which of the two it is
  dirs, recs, wiring, applies, given, undone, starts, trouble

R == INSTANCE ScaffoldProofs WITH
       Uid <- Handle, Title <- RowTitle, Ref <- RowRef, Body <- RowBody,
       runs <- applies, used <- given, mishaps <- trouble

scaffold == <<dirs, recs, wiring, applies, given, undone, starts, trouble>>

\* The tests have no use for more than one wiring
LabInit ==
  /\ Init /\ R!Init
  /\ scope \in {"test", "apply"}
  /\ scope = "test" => wiring = CHOOSE w \in Wirings : TRUE

LabNext ==
  \/ scope = "test" /\ Next /\ UNCHANGED <<scope, scaffold>>
  \/ scope = "apply" /\ R!Next /\ UNCHANGED <<scope, vars>>

LabSpec == LabInit /\ [][LabNext]_<<scope, vars, scaffold>>

------------------------------------------------------------------------------
\* Every variable of both keeps its type.
TypesOK == TypeOK /\ R!TypeOK

\* Scaffold: what is marked can be read by the gateway of its project.
MarkedIsReachable == R!MarkedIsReachable

\* Scaffold: an undisturbed run gets through, whatever earlier ones left behind.
RerunsGetThrough == R!RerunsGetThrough
=============================================================================
