------------------------------ MODULE Bootstrap ------------------------------
(***************************************************************************)
(* `dsk bootstrap-ksm`: an admin record, an application with that record   *)
(* and, if asked for, the bus directory, and a client configuration that   *)
(* is verified to read the record.  What exists by name or title is used   *)
(* again.  A share is written in the vault and shows up at the client's    *)
(* service some time later; the verification waits for it a while.         *)
(***************************************************************************)
EXTENDS KsmApply

CONSTANTS
  BootName,  \* --app-name
  Admin,     \* an admin record
  Directory, \* records with the directory's title
  NoRecord,
  Patience   \* polls until the verification's deadline

ASSUME BootstrapAssumption ==
  /\ BootName \in AppName /\ Patience \in Nat
  /\ Directory \subseteq Vault /\ Admin \in Vault \ Directory
  /\ NoRecord \notin Vault

VARIABLES
  titled,  \* records that have the directory's title
  config,  \* the configuration file: the application of its client, or 0
  bus,     \* --with-bus
  app,     \* the application found or created
  dir,     \* the directory found or created
  visible, \* the client service knows of the admin record's share by now
  polls    \* of the verification

records == <<titled, config>>
boot == <<bus, app, dir, visible, polls>>
bootstrap == <<records, boot>>

BootInit ==
  /\ titled = {} /\ config = 0
  /\ bus = FALSE /\ app = 0 /\ dir = NoRecord /\ visible = FALSE /\ polls = 0

\* add_app_share
Share(u, r, editable) ==
  apps' = [apps EXCEPT ![u].shares =
             [v \in DOMAIN @ \union {r} |-> IF v = r THEN editable ELSE @[v]]]

\* _validate_inputs: where there is a configuration, with --overwrite.  The admin
\* record is given, or a new one is made.
BootStart ==
  /\ pc = "idle" /\ Room(AppId, given)
  /\ bus' \in BOOLEAN
  /\ pc' = "boot-app" /\ calm' = TRUE
  /\ UNCHANGED <<quiet, mishaps, records, app, dir, visible, polls, application>>

\* sync_down and get_app_record
BootLookApp ==
  /\ pc = "boot-app"
  /\ IF Named(BootName) # {}
     THEN app' \in Named(BootName) /\ pc' = "boot-share"
     ELSE pc' = "boot-app-add" /\ UNCHANGED app
  /\ quiet' = TRUE
  /\ UNCHANGED <<calm, mishaps, records, bus, dir, visible, polls, application>>

BootAddApp ==
  /\ pc = "boot-app-add"
  /\ \E u \in FreshOf(AppId, given, 1) :
       /\ apps' = [w \in DOMAIN apps \union {u} |-> IF w = u THEN NewApp(BootName) ELSE apps[w]]
       /\ given' = given \union {u}
       /\ app' = u
  /\ pc' = "boot-share"
  /\ UNCHANGED <<calm, quiet, mishaps, records, bus, dir, visible, polls, apply>>

BootShare ==
  /\ pc = "boot-share" /\ app \in DOMAIN apps
  /\ Share(app, Admin, FALSE)
  /\ pc' = IF bus THEN "boot-dir" ELSE "boot-token"
  /\ UNCHANGED <<calm, quiet, mishaps, records, boot, given, apply>>

BootLookDir ==
  /\ pc = "boot-dir"
  /\ IF titled # {}
     THEN dir' \in titled /\ pc' = "boot-dir-share"
     ELSE pc' = "boot-dir-add" /\ UNCHANGED dir
  /\ quiet' = TRUE
  /\ UNCHANGED <<calm, mishaps, records, bus, app, visible, polls, application>>

BootAddDir ==
  /\ pc = "boot-dir-add"
  /\ dir' \in Directory \ titled
  /\ titled' = titled \union {dir'}
  /\ pc' = "boot-dir-share"
  /\ UNCHANGED <<calm, quiet, mishaps, config, bus, app, visible, polls, application>>

BootShareDir ==
  /\ pc = "boot-dir-share" /\ app \in DOMAIN apps
  /\ Share(app, dir, TRUE)
  /\ pc' = "boot-token"
  /\ UNCHANGED <<calm, quiet, mishaps, records, boot, given, apply>>

\* sync_down and add_client; then an existing configuration is removed
BootToken ==
  /\ pc = "boot-token" /\ app \in DOMAIN apps
  /\ config' = 0
  /\ pc' = "boot-redeem"
  /\ UNCHANGED <<calm, quiet, mishaps, titled, boot, application>>

BootRedeem ==
  /\ pc = "boot-redeem" /\ app \in DOMAIN apps
  /\ config' = app
  /\ pc' = "boot-verify"
  /\ UNCHANGED <<calm, quiet, mishaps, titled, boot, application>>

AnyClient == config # 0
Readable == config \in DOMAIN apps /\ visible

BootIdle ==
  /\ pc' = "idle"
  /\ bus' = FALSE /\ app' = 0 /\ dir' = NoRecord /\ visible' = FALSE /\ polls' = 0
  /\ UNCHANGED <<quiet, records, application>>

BootFinish ==
  /\ pc = "boot-verify" /\ Readable
  /\ BootIdle /\ UNCHANGED <<calm, mishaps>>

NoDeadline == FALSE
Deadline == polls >= Patience

BootPoll ==
  /\ pc = "boot-verify" /\ ~Readable /\ ~Deadline
  /\ polls' = IF polls < Patience THEN polls + 1 ELSE polls
  /\ UNCHANGED <<process, records, bus, app, dir, visible, application>>

\* CapabilityError: the deadline, or the application is gone.  What was made stays.
BootGiveUp ==
  /\ \/ pc = "boot-verify" /\ ~Readable /\ Deadline
     \/ pc \in {"boot-share", "boot-dir-share", "boot-token", "boot-redeem"} /\ app \notin DOMAIN apps
  /\ BootIdle /\ UNCHANGED <<calm, mishaps>>

BootSteps == {"boot-app", "boot-app-add", "boot-share", "boot-dir", "boot-dir-add",
              "boot-dir-share", "boot-token", "boot-redeem", "boot-verify"}

BootStop == pc \in BootSteps /\ BootIdle

\* The client service learns of the share
Propagate ==
  /\ pc = "boot-verify" /\ ~visible
  /\ config \in DOMAIN apps /\ Admin \in DOMAIN apps[config].shares
  /\ visible' = TRUE
  /\ UNCHANGED <<process, records, bus, app, dir, polls, application>>

\* How many steps it has still to make
BootLeft ==
  CASE pc = "boot-app"       -> Patience + 8
    [] pc = "boot-app-add"   -> Patience + 7
    [] pc = "boot-share"     -> Patience + 6
    [] pc = "boot-dir"       -> Patience + 5
    [] pc = "boot-dir-add"   -> Patience + 4
    [] pc = "boot-dir-share" -> Patience + 3
    [] pc = "boot-token"     -> Patience + 2
    [] pc = "boot-redeem"    -> Patience + 1
    [] OTHER                 -> Patience - polls

BootTypeOK ==
  /\ titled \subseteq Directory /\ config \in AppId \union {0} /\ app \in AppId \union {0}
  /\ polls \in 0..Patience
  /\ pc = "idle" => app = 0 /\ dir = NoRecord
=============================================================================
