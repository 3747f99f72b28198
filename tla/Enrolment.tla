------------------------------ MODULE Enrolment ------------------------------
(***************************************************************************)
(* What a smoke run needs before it starts: a test user that can log in    *)
(* with a second factor whose secret is in the admin's vault               *)
(* (scripts/smoke/identity.py), and a shared folder and an application     *)
(* (scripts/smoke/sandbox.py).  A run may stop anywhere; the next one has  *)
(* to put right what it left.                                              *)
(***************************************************************************)
EXTENDS Session

CONSTANTS
  Token,      \* secrets of factors, and uids of records
  Benches     \* states of the tenant that there may be at first

ASSUME EnrolmentAssumption ==
  /\ Token \subseteq Nat \ {0}
  /\ \A b \in Benches :
       /\ DOMAIN b.logins \subseteq b.issued /\ b.issued \subseteq Token
       /\ \A u \in DOMAIN b.logins : b.logins[u] \in b.issued \union {0}
       /\ \A c \in b.channels : c.secret \in b.issued
       /\ b.device \in {"new", "approved", "remembered"}
       /\ b.parts \subseteq {"gateway", "folder", "grant", "app"}
       /\ "grant" \in b.parts => "folder" \in b.parts

VARIABLES
  channels,  \* of the test user's second factor, in the order of their places
  device,    \* of the test user's configuration: "new", "approved" or "remembered"
  used,      \* the secret whose code was used in this window of 30 seconds, or 0
  logins,    \* the admin's records with the title: uid -> secret in its oneTimeCode
  parts,     \* of the sandbox that exist, and the gateway
  issued,    \* secrets and uids that were given out
  creds,     \* uid and secret that the process works with, 0 for none
  password,  \* DSK_SMOKE_TARGET_PASSWORD is set
  attempt    \* of the login that verifies

account == <<channels, device, used>>
lab == <<account, logins, parts, issued, creds, password, attempt>>

NoCreds == [uid |-> 0, secret |-> 0]

BenchInit ==
  /\ \E b \in Benches :
       /\ channels = b.channels /\ device = b.device /\ logins = b.logins
       /\ parts = b.parts /\ issued = b.issued
  /\ used = 0 /\ creds = NoCreds /\ password = FALSE /\ attempt = 0

------------------------------------------------------------------------------
(* A login of the test user.  Keeper asks a new device for a code, and any   *)
(* device that it does not remember, when the account has a factor.  It      *)
(* takes a code once in a window.  Disabling the factor forgets devices.     *)

Factors == {c \in channels : c.active}

\* AutoUI answers from the first channel, with the one secret it has
Fits(s) ==
  s # 0 /\ \E c \in Factors : c.secret = s /\ \A d \in Factors : c.place <= d.place

\* passed: the codes, 1 or 2, before which the window passes
Results(s, passed) ==
  LET earlier == IF 1 \in passed THEN 0 ELSE used
      known == device # "new" \/ (Fits(s) /\ earlier # s)
      after == IF 2 \in passed THEN 0 ELSE IF device = "new" THEN s ELSE earlier
      asked == Factors # {} /\ device # "remembered"
      taken == ~asked \/ (Fits(s) /\ after # s)
      verdicts == IF known /\ taken THEN {"in"}
                  ELSE IF s = 0 THEN {"refused"}
                  ELSE IF known THEN {"code invalid"} ELSE {"code invalid", "refused"}
  IN [verdict : verdicts,
      device : {IF ~known THEN "new" ELSE IF asked /\ taken THEN "remembered"
                ELSE IF device = "new" THEN "approved" ELSE device},
      used : {IF ~known THEN earlier ELSE IF asked /\ taken THEN s ELSE after}]

Logins(s) == UNION {Results(s, passed) : passed \in SUBSET {1, 2}}

After(r) == device' = r.device /\ used' = r.used /\ UNCHANGED channels

LogsIn(s) == \E r \in Logins(s) : r.verdict = "in"

------------------------------------------------------------------------------
(* ensure_sdktest_identity *)

To(next) == pc' = next /\ UNCHANGED <<calm, quiet>>

\* admin_login and a sync, and the first record with the title.  --force, or a
\* record that lacks a secret, leads to a new factor.
BenchStart ==
  /\ pc = "idle" /\ Room(Token, issued)
  /\ \E u \in IF DOMAIN logins = {} THEN {0} ELSE DOMAIN logins, force \in BOOLEAN :
       LET secret == IF u = 0 THEN 0 ELSE logins[u] IN
       /\ creds' = [uid |-> u, secret |-> secret]
       /\ pc' = IF secret # 0 /\ ~force THEN "bench-stored" ELSE "bench-clear"
  /\ password' \in BOOLEAN /\ calm' = TRUE
  /\ UNCHANGED <<quiet, mishaps, account, logins, parts, issued, attempt>>

\* Whatever goes wrong with the stored credentials leads to new ones
AnyVerdict(r) == TRUE
Usable(r) == r.verdict = "in"

BenchStored ==
  /\ pc = "bench-stored"
  /\ \E r \in Logins(creds.secret) :
       /\ After(r)
       /\ \/ Usable(r) /\ To("bench-gateway") /\ UNCHANGED mishaps
          \/ ~Usable(r) /\ To("bench-clear") /\ UNCHANGED mishaps
          \/ Mishap /\ To("bench-clear")
  /\ UNCHANGED <<logins, parts, issued, creds, password, attempt>>

\* enterprise-user --disable-2fa
LeftAlone == channels
Cleared == {}

BenchClear ==
  /\ pc = "bench-clear" /\ password
  /\ channels' = Cleared
  /\ device' = IF device = "remembered" THEN "approved" ELSE device
  /\ To("bench-bare")
  /\ UNCHANGED <<mishaps, used, logins, parts, issued, creds, password, attempt>>

BenchBare ==
  /\ pc = "bench-bare"
  /\ \E r \in Logins(0) : Usable(r) /\ After(r)
  /\ To("bench-list")
  /\ UNCHANGED <<mishaps, logins, parts, issued, creds, password, attempt>>

\* 2fa_list, and a 2fa_delete of each channel of the name; one that fails is a warning
BenchList ==
  /\ pc = "bench-list"
  /\ \E survivors \in SUBSET {c \in channels : c.ours} :
       /\ channels' = {c \in channels : ~c.ours} \union survivors
       /\ IF survivors = {} THEN UNCHANGED mishaps ELSE Mishap
  /\ To("bench-add")
  /\ UNCHANGED <<device, used, logins, parts, issued, creds, password, attempt>>

\* 2fa_add: the server makes up a secret
BenchAdd ==
  /\ pc = "bench-add"
  /\ \E s \in FreshOf(Token, issued, 1) :
       /\ channels' = channels \union
            {[place |-> s, ours |-> TRUE, secret |-> s, active |-> FALSE]}
       /\ issued' = issued \union {s} /\ creds' = [creds EXCEPT !.secret = s]
  /\ To("bench-validate")
  /\ UNCHANGED <<mishaps, device, used, logins, parts, password, attempt>>

InForce(c) == [place |-> c.place, ours |-> c.ours, secret |-> c.secret, active |-> TRUE]

\* 2fa_add_validate takes a code, and the channel is in force
BenchValidate ==
  /\ pc = "bench-validate"
  /\ \E c \in channels :
       /\ c.secret = creds.secret
       /\ channels' = (channels \ {c}) \union {InForce(c)}
  /\ used' = creds.secret
  /\ To("bench-look")
  /\ UNCHANGED <<mishaps, device, logins, parts, issued, creds, password, attempt>>

\* _upsert_admin_record: the first record with the title, its removal, which may fail
\* with a warning, and a new record
BenchLook ==
  /\ pc = "bench-look"
  /\ \/ DOMAIN logins = {} /\ To("bench-record") /\ UNCHANGED creds
     \/ \E u \in DOMAIN logins : creds' = [creds EXCEPT !.uid = u] /\ To("bench-rm")
  /\ UNCHANGED <<mishaps, account, logins, parts, issued, password, attempt>>

BenchRm ==
  /\ pc = "bench-rm"
  /\ \/ logins' = [u \in DOMAIN logins \ {creds.uid} |-> logins[u]] /\ UNCHANGED mishaps
     \/ Mishap /\ UNCHANGED logins
  /\ To("bench-record")
  /\ UNCHANGED <<account, parts, issued, creds, password, attempt>>

\* The record, and then the wait for the next window
BenchRecord ==
  /\ pc = "bench-record"
  /\ \E u \in FreshOf(Token, issued, 1) :
       /\ logins' = [w \in DOMAIN logins \union {u} |-> IF w = u THEN creds.secret ELSE logins[w]]
       /\ issued' = issued \union {u} /\ creds' = [creds EXCEPT !.uid = u]
  /\ used' = 0 /\ attempt' = 1
  /\ To("bench-verify")
  /\ UNCHANGED <<mishaps, channels, device, parts, password>>

\* _retry_totp_login: after a code that is not taken, one of the next window
Attempts == 3
AgainAndAgain(r) == r.verdict = "code invalid"
Again(r) == r.verdict = "code invalid" /\ attempt < Attempts

BenchVerify ==
  /\ pc = "bench-verify"
  /\ \E r \in Logins(creds.secret) :
       \/ Usable(r) /\ After(r) /\ To("bench-gateway") /\ UNCHANGED attempt
       \/ /\ Again(r) /\ After([r EXCEPT !.used = 0])
          /\ To("bench-verify") /\ attempt' = attempt + 1
  /\ UNCHANGED <<mishaps, logins, parts, issued, creds, password>>

------------------------------------------------------------------------------
(* ensure_sandbox: what is not there is made *)

BenchPart(step, part, next) ==
  /\ pc = step
  /\ parts' = parts \union {part}
  /\ To(next)
  /\ UNCHANGED <<mishaps, account, logins, issued, creds, password, attempt>>

BenchGateway ==
  /\ pc = "bench-gateway" /\ "gateway" \in parts
  /\ To("bench-folder")
  /\ UNCHANGED <<mishaps, lab>>

BenchFolder == BenchPart("bench-folder", "folder", "bench-grant")
BenchGrant == "folder" \in parts /\ BenchPart("bench-grant", "grant", "bench-app")
BenchApp == BenchPart("bench-app", "app", "bench-ready")

BenchIdle ==
  /\ pc' = "idle" /\ creds' = NoCreds /\ password' = FALSE /\ attempt' = 0
  /\ UNCHANGED <<quiet, channels, logins, parts, issued>>

BenchFinish == pc = "bench-ready" /\ BenchIdle /\ UNCHANGED <<calm, mishaps, device, used>>

\* Errors of the code's own: no password, a login without a factor that is asked for
\* one, a channel that is gone, a login that does not verify, no gateway, no folder
Unmet ==
  \/ pc = "bench-clear" /\ ~password
  \/ pc = "bench-validate" /\ \A c \in channels : c.secret # creds.secret
  \/ pc = "bench-gateway" /\ "gateway" \notin parts
  \/ pc = "bench-grant" /\ "folder" \notin parts

BenchGiveUp ==
  /\ \/ Unmet /\ UNCHANGED <<device, used>>
     \/ /\ pc = "bench-bare"
        /\ \E r \in Logins(0) : ~Usable(r) /\ After(r)
     \/ /\ pc = "bench-verify"
        /\ \E r \in Logins(creds.secret) : ~Usable(r) /\ ~Again(r) /\ After(r)
  /\ BenchIdle /\ UNCHANGED <<calm, mishaps>>

BenchSteps ==
  \/ BenchStored \/ BenchClear \/ BenchBare \/ BenchList \/ BenchAdd \/ BenchValidate
  \/ BenchLook \/ BenchRm \/ BenchRecord \/ BenchVerify
  \/ BenchGateway \/ BenchFolder \/ BenchGrant \/ BenchApp \/ BenchFinish \/ BenchGiveUp

BenchPc ==
  {"bench-stored", "bench-clear", "bench-bare", "bench-list", "bench-add", "bench-validate",
   "bench-look", "bench-rm", "bench-record", "bench-verify", "bench-gateway", "bench-folder",
   "bench-grant", "bench-app", "bench-ready"}

BenchStop == pc \in BenchPc /\ BenchIdle /\ UNCHANGED <<device, used>>

------------------------------------------------------------------------------
\* People lose the configuration of the test user, take a channel away or put one
\* before it, and remove records, the folder or the gateway
BenchOthers ==
  /\ \/ device' = "new" /\ UNCHANGED <<channels, used, logins, parts, issued>>
     \/ \E c \in channels :
          channels' = channels \ {c} /\ UNCHANGED <<device, used, logins, parts, issued>>
     \/ \E s \in FreshOf(Token, issued, 1), o \in BOOLEAN :
          /\ Room(Token, issued)
          /\ channels' = channels \union
               {[place |-> -s, ours |-> o, secret |-> s, active |-> TRUE]}
          /\ issued' = issued \union {s}
          /\ UNCHANGED <<device, used, logins, parts>>
     \/ \E u \in DOMAIN logins :
          /\ logins' = [w \in DOMAIN logins \ {u} |-> logins[w]]
          /\ UNCHANGED <<device, used, channels, parts, issued>>
     \/ \E lost \in {{"folder", "grant"}, {"gateway"}} :
          parts' = parts \ lost /\ UNCHANGED <<account, logins, issued>>
  /\ UNCHANGED <<creds, password, attempt>>

\* How many steps it has still to make
BenchLeft ==
  CASE pc = "bench-stored"   -> 17
    [] pc = "bench-clear"    -> 16
    [] pc = "bench-bare"     -> 15
    [] pc = "bench-list"     -> 14
    [] pc = "bench-add"      -> 13
    [] pc = "bench-validate" -> 12
    [] pc = "bench-look"     -> 11
    [] pc = "bench-rm"       -> 10
    [] pc = "bench-record"   -> 9
    [] pc = "bench-verify"   -> 5 + Attempts - attempt
    [] pc = "bench-gateway"  -> 4
    [] pc = "bench-folder"   -> 3
    [] pc = "bench-grant"    -> 2
    [] pc = "bench-app"      -> 1
    [] OTHER                 -> 0

BenchTypeOK ==
  /\ DOMAIN logins \subseteq issued /\ issued \subseteq Token
  /\ \A c \in channels : c.secret \in issued
  /\ device \in {"new", "approved", "remembered"} /\ used \in issued \union {0}
  /\ parts \subseteq {"gateway", "folder", "grant", "app"}
  /\ "grant" \in parts => "folder" \in parts
  /\ pc = "idle" => creds = NoCreds /\ ~password /\ attempt = 0
=============================================================================
