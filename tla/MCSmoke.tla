------------------------------- MODULE MCSmoke -------------------------------
(* Small instances of Smoke and of Scaffold, side by side in Lab, for TLC. *)
EXTENDS Lab, TLC

CONSTANTS p1, p2, p3

\* the two profiles share a Commander config
MCConfig == [f \in Profile |-> "shared"]

\* and one runs scenarios of each family
MCScenarios == {<<1, "vault">>, <<2, "pam">>}

------------------------------------------------------------------------------
(* Scaffold: two projects on one gateway, which name one of their records alike *)

MCHandle == 2..17 \union 101..103 \union 111..112

Row(ref, place) == [ref |-> ref, title |-> ref, body |-> "b", place |-> place]
MCManifest == "a" :> {Row("vm", "Resources"), Row("root", "Users")} @@ "b" :> {Row("vm", "Resources")}

MCGatewayOf == "a" :> "gw" @@ "b" :> "gw"
MCConfOf == "a" :> "cfg" @@ "b" :> "cfg2"

\* as declared, the second configuration being found by its gateway; the gateway
\* with another application; no gateway
Declared == [apps |-> "gw" :> "app", confs |-> "cfg" :> [gateway |-> "gw"]]
MCWirings ==
  {Declared,
   [Declared EXCEPT !.apps = "gw" :> "app2"],
   [apps |-> <<>>, confs |-> "cfg" :> [gateway |-> "none"]]}

\* two uids each, for what is removed or added by others and made again
Top == "PAM Environments"
Folders ==
  <<<<"elsewhere">>, <<Top>>, <<Top, "a">>, <<Top, "b">>, <<Top, "a", "Resources">>,
    <<Top, "a", "Users">>, <<Top, "b", "Resources">>, <<Top, "b", "Users">>>>
MCPathUids ==
  [x \in {Folders[i] : i \in DOMAIN Folders} |->
     LET n == CHOOSE i \in DOMAIN Folders : Folders[i] = x IN {2 * n, 2 * n + 1}]
MCTitleUids == "vm" :> {101, 102, 103} @@ "root" :> {111, 112}

Intruder(title, manager) ==
  [title |-> title, body |-> "b",
   marker |-> [manager |-> manager, supported |-> manager = "none", ref |-> NoRef, manifest |-> NoName]]
MCStrangers == {Intruder("vm", "none"), Intruder("root", "foreign")}

ASSUME R!Fits /\ R!StrangersHoldNothing

Symmetric == Permutations(Pid) \union Permutations(Run)
=============================================================================
