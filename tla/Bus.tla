-------------------------------- MODULE Bus --------------------------------
(***************************************************************************)
(* KsmBus and BusClient (keeper_sdk/secrets/bus.py): versioned values and  *)
(* ordered message channels in the custom fields of one KSM record.        *)
(*                                                                         *)
(* Every write is client-side compare-and-swap: read the record, compare   *)
(* the version, save the WHOLE record.  A BusClient reads once more before *)
(* that, to learn the version it will expect.  Each of these reads and     *)
(* saves is a step here, and agents interleave between them.               *)
(*                                                                         *)
(* Data abstraction.  A message is its id; the uuid suffix of an id is the *)
(* number of the attempt that drew it.  A channel is the set of its        *)
(* messages, since readers sort them by their ids.  The value of another   *)
(* key is the attempt that wrote it.  Every message is addressed to all.   *)
(***************************************************************************)
EXTENDS Integers

CONSTANTS
  Agent,
  Channel,    \* key of the message channel
  CasKeys,    \* other keys that are written with an expected_version
  LooseKeys,  \* keys that are written without one, or deleted
  Fenced,     \* does the KSM server refuse to save a stale record?
  MaxRetries, \* BusClient.max_retries
  MaxOps      \* bound on the operations started

ASSUME BusAssumption ==
  /\ Channel \notin CasKeys \union LooseKeys
  /\ Fenced \in BOOLEAN
  /\ MaxRetries \in Nat \ {0}
  /\ MaxOps \in Nat

VARIABLES
  fields,   \* the record on the server: key -> entry
  rev,      \* its revision
  pc,       \* where each agent is: "idle", "load", "loaded" or "fetched"
  op,       \* the operation it runs
  ops,      \* operations and retries started so far, by all agents
  sent,     \* ids of the messages whose send() has returned
  since,    \* each agent's since_id: the last message it received
  seen,     \* the messages it received
  expired   \* messages whose ttl has passed

vars == <<fields, rev, pc, op, ops, sent, since, seen, expired>>

Key == {Channel} \union CasKeys \union LooseKeys

Absent == [value |-> {}, version |-> 0, there |-> FALSE]
Entry(val, ver) == [value |-> val, version |-> ver, there |-> TRUE]

\* f"{next_version:020d}-{uuid}" sorts by version first
Id(version, uuid) == [version |-> version, uuid |-> uuid]
Before(i, j) ==
  i.version < j.version \/ (i.version = j.version /\ i.uuid < j.uuid)
NoId == Id(0, 0)

NoExpectation == -1
NoOp == [kind |-> "none", key |-> Channel, uuid |-> 0, tries |-> 0,
         base |-> Absent, expects |-> NoExpectation, value |-> {},
         copy |-> << >>, rev |-> 0]

Messages == fields[Channel].value

Init ==
  /\ fields = [k \in Key |-> Absent]
  /\ rev = 0
  /\ pc = [a \in Agent |-> "idle"]
  /\ op = [a \in Agent |-> NoOp]
  /\ ops = 0
  /\ sent = {}
  /\ since = [a \in Agent |-> NoId]
  /\ seen = [a \in Agent |-> {}]
  /\ expired = {}

Served == <<fields, rev>>
Told   == <<sent, since, seen, expired>>

\* The operations that load first, and those that write at once
Loading == {"send", "gc", "cas"}
Blind   == {"publish", "put", "delete"}

------------------------------------------------------------------------------
Start(a, kind, key) ==
  /\ pc[a] = "idle"
  /\ ops < MaxOps
  /\ ops' = ops + 1
  /\ op' = [op EXCEPT ![a] = [NoOp EXCEPT !.kind = kind, !.key = key, !.uuid = ops + 1]]
  /\ pc' = [pc EXCEPT ![a] = IF kind \in Loading THEN "load" ELSE "loaded"]
  /\ UNCHANGED <<Served, Told>>

\* publish (send, post), gc, ack, which is also what a KsmBus user does who gets
\* a value and publishes with its version, and the calls that expect no version
StartSend(a)  == Start(a, "send", Channel)
StartGc(a)    == Start(a, "gc", Channel)
StartCas(a)   == \E k \in CasKeys : Start(a, "cas", k)
StartBlind(a) == \E kind \in Blind, k \in LooseKeys : Start(a, kind, k)

\* f"{next_version:020d}-{uuid}"
MessageIdWithoutVersion(version, uuid) == Id(0, uuid)

MessageId(version, uuid) == Id(version + 1, uuid)

PreparedUpToExpired(o, e) ==
  CASE o.kind = "send" -> e.value \union {MessageId(e.version, o.uuid)}
    [] o.kind = "gc"   -> {m \in e.value : \A x \in e.value \intersect expired : Before(x, m)}
    [] OTHER           -> {Id(0, o.uuid)}

\* What an operation is going to write under its key, given the entry it loaded
Prepared(o, e) ==
  CASE o.kind = "send" -> e.value \union {MessageId(e.version, o.uuid)}
    [] o.kind = "gc"   -> e.value \ expired
    [] OTHER           -> {Id(0, o.uuid)}

\* _load_channel or get.  A gc that finds nothing expired returns.
Load(a) ==
  /\ pc[a] = "load"
  /\ LET e == fields[op[a].key] IN
     IF op[a].kind = "gc" /\ Messages \intersect expired = {}
     THEN /\ pc' = [pc EXCEPT ![a] = "idle"]
          /\ op' = [op EXCEPT ![a] = NoOp]
     ELSE /\ pc' = [pc EXCEPT ![a] = "loaded"]
          /\ op' = [op EXCEPT ![a].base = e, ![a].expects = e.version,
                              ![a].value = Prepared(op[a], e)]
  /\ UNCHANGED <<Served, ops, Told>>

NeverStale(a) == FALSE

Stale(a) ==
  op[a].expects # NoExpectation /\ op[a].expects # fields[op[a].key].version

\* KsmBus.publish, put, delete: get_record and the version check
Fetch(a) ==
  /\ pc[a] = "loaded" /\ ~Stale(a)
  /\ op[a].kind = "delete" => fields[op[a].key].there
  /\ pc' = [pc EXCEPT ![a] = "fetched"]
  /\ op' = [op EXCEPT ![a].copy = fields, ![a].rev = rev]
  /\ UNCHANGED <<Served, ops, Told>>

Quit(a) ==
  /\ pc' = [pc EXCEPT ![a] = "idle"]
  /\ op' = [op EXCEPT ![a] = NoOp]
  /\ UNCHANGED <<Served, ops, Told>>

\* VersionConflict: send tries again with a fresh load and a new uuid
Retry(a) ==
  /\ pc[a] = "loaded" /\ Stale(a)
  /\ op[a].kind = "send" /\ op[a].tries + 1 < MaxRetries
  /\ ops < MaxOps /\ ops' = ops + 1
  /\ pc' = [pc EXCEPT ![a] = "load"]
  /\ op' = [op EXCEPT ![a].tries = @ + 1, ![a].uuid = ops + 1]
  /\ UNCHANGED <<Served, Told>>

\* VersionConflict out of tries, or of an operation that does not retry; a
\* delete of a key that is not there
GiveUp(a) ==
  /\ pc[a] = "loaded"
  /\ \/ Stale(a) /\ (op[a].kind = "send" => op[a].tries + 1 >= MaxRetries)
     \/ op[a].kind = "delete" /\ ~fields[op[a].key].there
  /\ Quit(a)

\* The entry an operation leaves under its key, given the entry it fetched
WrittenSameVersion(o, e) ==
  CASE o.kind = "put"    -> Entry({Id(0, o.uuid)}, 0)
    [] o.kind = "delete" -> Absent
    [] o.kind = "publish" -> Entry({Id(0, o.uuid)}, e.version)
    [] OTHER             -> Entry(o.value, e.version)

Written(o, e) ==
  CASE o.kind = "put"     -> Entry({Id(0, o.uuid)}, 0)
    [] o.kind = "delete"  -> Absent
    [] o.kind = "publish" -> Entry({Id(0, o.uuid)}, e.version + 1)
    [] OTHER              -> Entry(o.value, e.version + 1)

\* SecretsManager.save: the whole record as fetched, with one field changed
Save(a) ==
  LET o == op[a] IN
  /\ pc[a] = "fetched"
  /\ Fenced => o.rev = rev
  /\ fields' = [o.copy EXCEPT ![o.key] = Written(o, @)]
  /\ rev' = rev + 1
  /\ sent' = IF o.kind = "send" THEN sent \union {MessageId(o.expects, o.uuid)} ELSE sent
  /\ pc' = [pc EXCEPT ![a] = "idle"]
  /\ op' = [op EXCEPT ![a] = NoOp]
  /\ UNCHANGED <<ops, since, seen, expired>>

\* The save is refused, or the agent dies before or after any read
Abort(a) == pc[a] # "idle" /\ Quit(a)

\* BusClient.subscribe(since_id): everything newer, the last id is remembered
Poll(a) ==
  LET new == {m \in Messages \ expired : Before(since[a], m)} IN
  /\ seen' = [seen EXCEPT ![a] = @ \union new]
  /\ \E last \in new :
       /\ \A m \in new : ~Before(last, m)
       /\ since' = [since EXCEPT ![a] = last]
  /\ UNCHANGED <<Served, pc, op, ops, sent, expired>>

Expire ==
  /\ \E m \in Messages \ expired : expired' = expired \union {m}
  /\ UNCHANGED <<Served, pc, op, ops, sent, since, seen>>

Step(a) ==
  \/ StartSend(a) \/ StartGc(a) \/ StartCas(a) \/ StartBlind(a)
  \/ Load(a) \/ Fetch(a) \/ Retry(a) \/ GiveUp(a) \/ Save(a) \/ Abort(a) \/ Poll(a)

Next == (\E a \in Agent : Step(a)) \/ Expire

Spec == Init /\ [][Next]_vars

------------------------------------------------------------------------------
\* A message whose send() returned stays in the channel until its ttl passes:
\* no other writer overwrites it.
NoMessageLost == \A m \in sent : m \in Messages \union expired

\* An agent that polls with the last id it received misses nothing: no message
\* turns up behind its since_id.
NoMessageMissed ==
  \A a \in Agent, m \in Messages :
     m \in seen[a] \union expired \/ Before(since[a], m)

\* docs/KSM_INTEGRATION.md: a stale writer that passes an old expected_version
\* does not overwrite a newer value.  What a save with an expected version
\* replaces is the very entry that the new one was made from.
NoSilentOverwrite ==
  [][\A a \in Agent : Save(a) /\ op[a].expects # NoExpectation =>
       fields[op[a].key] = op[a].base]_vars

\* Agents may take the bus for a log and registers, although every write replaces the
\* whole record: each operation has the effect it would have had if it had happened
\* at once, on its own key, when it was saved; and each reader receives the messages
\* in the order in which they were sent, and none twice.
Atomic == INSTANCE AtomicBus WITH
  channel <- Messages, top <- fields[Channel].version,
  values <- [k \in CasKeys \union LooseKeys |-> fields[k]],
  since <- [a \in Agent |-> since[a].version]

BusIsAtomic == Atomic!AtomicSpec
=============================================================================
