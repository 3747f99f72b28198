-------------------------------- MODULE Slot --------------------------------
(***************************************************************************)
(* KsmAgentBus (keeper_sdk/secrets/bus.py): a KSM record as a slot with a  *)
(* lock that expires and a payload.  Every operation reads the record and  *)
(* the clock, decides, and saves the whole record; other agents act        *)
(* between the read and the save.                                          *)
(*                                                                         *)
(* Data abstraction.  A payload is the number of the operation that        *)
(* published it.  Each agent is its own holder name, and all agents read   *)
(* one clock.                                                              *)
(***************************************************************************)
EXTENDS Naturals

CONSTANTS
  Agent, Nobody,
  TTL,       \* ttl_seconds of every lease
  Fenced,    \* does the KSM server refuse to save a stale record?
  MaxNow,    \* bound on the clock
  MaxOps     \* bound on the operations started

ASSUME SlotAssumption ==
  /\ Nobody \notin Agent
  /\ TTL \in Nat
  /\ Fenced \in BOOLEAN
  /\ MaxNow \in Nat
  /\ MaxOps \in Nat

VARIABLES
  slot,      \* the record: _bus_holder, _bus_expiry, _bus_payload
  rev,       \* its revision on the server
  now,       \* the clock
  op,        \* the operation each agent is about to save, or Idle
  lease,     \* does the agent's _leases have an entry for the slot?
  until,     \* when the lease ends that the agent last got or renewed
  ops,       \* operations started
  delivered  \* how often consume() returned each payload

vars == <<slot, rev, now, op, lease, until, ops, delivered>>

NoPayload == 0
Payload   == 1..MaxOps

Slots == [holder : Agent \union {Nobody}, expiry : Nat, payload : Payload \union {NoPayload}]

\* A record without the three fields, and what _clear_slot leaves
Free == [holder |-> Nobody, expiry |-> 0, payload |-> NoPayload]

Kinds == {"acquire", "release", "publish", "consume", "ping"}

Idle == [kind |-> "none", rev |-> 0, base |-> Free, new |-> Free]

\* A record nobody holds has no payload either.
Tidy(s) == s.holder = Nobody => s = Free

\* Every variable keeps its type, an agent's pending operation was read from a
\* revision there has been, and no step leaves a payload behind without a lock.
TypeOK ==
  /\ slot \in Slots
  /\ rev \in Nat
  /\ now \in 0..MaxNow
  /\ op \in [Agent -> [kind : Kinds \union {"none"}, rev : 0..rev, base : Slots, new : Slots]]
  /\ lease \in [Agent -> BOOLEAN]
  /\ until \in [Agent -> Nat]
  /\ ops \in 0..MaxOps
  /\ delivered \in [Payload -> Nat]
  /\ Tidy(slot)
  /\ \A a \in Agent : Tidy(op[a].base) /\ Tidy(op[a].new)

Init ==
  /\ slot = Free
  /\ rev = 0
  /\ now = 0
  /\ op = [a \in Agent |-> Idle]
  /\ lease = [a \in Agent |-> FALSE]
  /\ until = [a \in Agent |-> 0]
  /\ ops = 0
  /\ delivered = [p \in Payload |-> 0]

------------------------------------------------------------------------------
\* _slot_expired: a missing expiry has passed
Lapsed(s) == s.expiry <= now

Holds(a) == slot.holder = a /\ ~Lapsed(slot)

\* get_record, and the save to come
Begin(a, kind, new) ==
  /\ op[a] = Idle
  /\ ops < MaxOps
  /\ ops' = ops + 1
  /\ op' = [op EXCEPT ![a] = [kind |-> kind, rev |-> rev, base |-> slot, new |-> new]]
  /\ UNCHANGED <<slot, rev, now, lease, until, delivered>>

MayAcquireHeld(a) == TRUE

\* Otherwise acquire returns False and changes nothing
MayAcquire(a) == slot.holder \in {Nobody, a} \/ Lapsed(slot)

Acquire(a) ==
  /\ MayAcquire(a)
  /\ Begin(a, "acquire", [slot EXCEPT !.holder = a, !.expiry = now + TTL])


\* release looks at the holder only
MayRelease(a) == slot.holder = a

Release(a) == MayRelease(a) /\ Begin(a, "release", Free)

Publish(a) == Holds(a) /\ Begin(a, "publish", [slot EXCEPT !.payload = ops + 1])

ConsumedKeepingPayload == [slot EXCEPT !.holder = Nobody, !.expiry = 0]

\* What consume leaves: no payload, and no lock whoever holds it
Consumed == Free

Consume(a) == slot.payload # NoPayload /\ Begin(a, "consume", Consumed)

PingRemembered(a) == lease[a] /\ Begin(a, "ping", [slot EXCEPT !.expiry = now + TTL])

Ping(a) ==
  lease[a] /\ Holds(a) /\ Begin(a, "ping", [slot EXCEPT !.expiry = now + TTL])

\* publish raises PermissionError or ping returns False
Refuse(a) ==
  /\ op[a] = Idle /\ lease[a] /\ ~Holds(a)
  /\ lease' = [lease EXCEPT ![a] = FALSE]
  /\ UNCHANGED <<slot, rev, now, op, until, ops, delivered>>

\* SecretsManager.save of the record as it was read, and the return
Save(a) ==
  LET o == op[a] IN
  /\ o.kind # "none"
  /\ Fenced => o.rev = rev
  /\ slot' = o.new
  /\ rev' = rev + 1
  /\ op' = [op EXCEPT ![a] = Idle]
  /\ lease' = [lease EXCEPT ![a] = (@ \/ o.kind = "acquire") /\ o.kind \notin {"release", "consume"}]
  /\ until' =
       CASE o.kind \in {"acquire", "ping"} -> [until EXCEPT ![a] = o.new.expiry]
         [] o.kind = "release" -> [until EXCEPT ![a] = 0]
         [] o.kind = "consume" -> [b \in Agent |-> 0]
         [] OTHER -> until
  /\ delivered' =
       IF o.kind = "consume" THEN [delivered EXCEPT ![o.base.payload] = @ + 1] ELSE delivered
  /\ UNCHANGED <<now, ops>>

\* get_record or save raises
Abort(a) ==
  /\ op[a] # Idle
  /\ op' = [op EXCEPT ![a] = Idle]
  /\ UNCHANGED <<slot, rev, now, lease, until, ops, delivered>>

\* The agent dies and another starts in its name, without its _leases
Restart(a) ==
  /\ op' = [op EXCEPT ![a] = Idle]
  /\ lease' = [lease EXCEPT ![a] = FALSE]
  /\ UNCHANGED <<slot, rev, now, until, ops, delivered>>

Tick ==
  /\ now < MaxNow
  /\ now' = now + 1
  /\ UNCHANGED <<slot, rev, op, lease, until, ops, delivered>>

Step(a) ==
  \/ Acquire(a) \/ Release(a) \/ Publish(a) \/ Consume(a) \/ Ping(a)
  \/ Refuse(a) \/ Save(a) \/ Abort(a) \/ Restart(a)

Next == (\E a \in Agent : Step(a)) \/ Tick

Spec == Init /\ [][Next]_vars

------------------------------------------------------------------------------
\* No two agents hold the lock at once, each by the lease acquire or ping gave
\* it.  (A consume ends the lease of whoever holds the slot.)
MutualExclusion ==
  \A a, b \in Agent : until[a] > now /\ until[b] > now => a = b

\* No payload is consumed twice, whoever polls the slot.
ConsumedOnce == \A p \in Payload : delivered[p] <= 1

\* A payload leaves the slot only by being consumed, or by the hand of the agent
\* that holds the lock: it publishes another one or releases the slot.
PayloadsGoByHolder ==
  [][\A a \in Agent : Save(a) /\ slot.payload \notin {NoPayload, slot'.payload} =>
       \/ op[a].kind = "consume" /\ op[a].base.payload = slot.payload
       \/ slot.holder = a]_vars

\* Agents need not know of reads, revisions or each other's pending saves: whatever
\* happens between the read of an operation and its save, the operation has the
\* effect it would have had if it had happened at once when it was saved.
Atomic == INSTANCE AtomicSlot WITH holder <- slot.holder, expiry <- slot.expiry, cell <- slot.payload

SlotIsAtomic == Atomic!AtomicSpec

------------------------------------------------------------------------------
(* Why these hold: what the agents between a read and its save may count on, *)
(* as long as the server refuses the save of a record that has changed.      *)

\* An operation whose save would be accepted decided on the slot as it is now.
PendingOf(a, o) ==
  /\ o.base = slot
  /\ o.kind = "acquire" => MayAcquire(a)
  /\ o.kind \in {"release", "publish", "ping"} => slot.holder = a
  /\ o.kind \in {"acquire", "publish", "ping"} => o.new.holder = a
  /\ o.kind \in {"acquire", "ping"} => o.new.payload = slot.payload
  /\ o.kind = "publish" => o.new.expiry = slot.expiry
  /\ o.kind = "consume" => slot.payload # NoPayload
  /\ o.kind \in {"release", "consume"} => o.new = Free

Pending == \A a \in Agent : op[a] # Idle /\ op[a].rev = rev => PendingOf(a, op[a])

\* A lease that has not run out is the one in the record.
LeaseInRecord ==
  \A a \in Agent : until[a] > now => slot.holder = a /\ slot.expiry = until[a]

\* A payload about to be published is new, and one that was consumed is gone.
PayloadsNew ==
  /\ \A a \in Agent : op[a].kind = "publish" =>
       /\ op[a].new.payload \in 1..ops
       /\ op[a].new.payload # slot.payload
       /\ delivered[op[a].new.payload] = 0
       /\ \A b \in Agent \ {a} :
            op[b].kind = "publish" => op[b].new.payload # op[a].new.payload
  /\ slot.payload \in 0..ops
  /\ \A p \in Payload : p > ops => delivered[p] = 0
  /\ \A p \in Payload : delivered[p] = 0 \/ (delivered[p] = 1 /\ slot.payload # p)
=============================================================================
