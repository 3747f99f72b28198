------------------------------- MODULE MCPam -------------------------------
(* A small instance of PamApply for TLC. *)
EXTENDS PamApply, TLC

Row(ref, title, body, settings, refs) ==
  [ref |-> ref, title |-> title, body |-> body, settings |-> settings, refs |-> refs,
   parent |-> NoRef, rotation |-> Off, scripts |-> FALSE]

Cfg(t)  == Row("cfg", t, "b", <<>>, {})
Vm(t, b, on) == Row("vm", t, b, "recording" :> on, {"cfg"})
User(r, s) == [Row("root", "root", "b", <<>>, {}) EXCEPT !.parent = "vm", !.rotation = r, !.scripts = s]

V(rows) == [rows |-> rows, gateways |-> {}]

\* with a rotation; edited, with scripts; user removed and machine retitled;
\* without a rotation
MCVersions ==
  {V({Cfg("cfg"), Vm("vm", "b", "on"), User("daily", FALSE)}),
   [V({Cfg("cfg"), Vm("vm", "c", "off"), User("weekly", TRUE)}) EXCEPT !.gateways = {"gw"}],
   V({Cfg("cfg"), Vm("host", "c", "off")}),
   V({Cfg("cfg"), Vm("vm", "b", "on"), User(Off, FALSE)})}

MCKind == [t \in {"cfg", "vm", "host", "root"} |->
             CASE t = "cfg" -> "pam_configuration" [] t \in {"vm", "host"} -> "pamMachine" [] OTHER -> "pamUser"]
MCName == [t \in {"cfg", "vm", "host", "root"} |-> t]
MCUnowned == "connections" :> "on"

Stranger(marker) ==
  [title |-> "root", body |-> "b", settings |-> <<>>, rotation |-> Off, scripts |-> FALSE,
   marker |-> marker]
MCStrangers ==
  {Stranger(Unmarked),
   Stranger([manager |-> "foreign", supported |-> FALSE, ref |-> NoRef, manifest |-> NoName])}

ASSUME /\ TitlesKeepTheirRefs /\ RotatingRowsStay /\ NamesTellTypes /\ StrangersStayApart
       /\ SettingsAreTuned
=============================================================================
