----------------------------- MODULE AtomicSlot -----------------------------
(***************************************************************************)
(* What the agents of a slot may take it for: a lock with a term and a     *)
(* payload, on which every operation happens at once, when its save does.  *)
(* There are no reads, no revisions and no operations under way.           *)
(***************************************************************************)
EXTENDS Naturals

CONSTANTS Agent, Nobody, Payload, NoPayload, TTL

VARIABLES
  holder, expiry,  \* the lock
  cell,            \* the payload
  now,
  until,           \* the end of the term each agent was promised
  delivered        \* how often each payload was handed out

slotVars == <<holder, expiry, cell, now, until, delivered>>

AtomicInit ==
  /\ holder = Nobody /\ expiry = 0 /\ cell = NoPayload
  /\ now = 0
  /\ until = [a \in Agent |-> 0]
  /\ delivered = [p \in Payload |-> 0]

Vacate == holder' = Nobody /\ expiry' = 0 /\ cell' = NoPayload

\* acquire and ping: a free or lapsed lock, or one's own; the time it took to save
\* is part of the term
Grant(a) ==
  /\ holder \in {Nobody, a} \/ expiry <= now
  /\ holder' = a /\ expiry' \in 0..(now + TTL)
  /\ until' = [until EXCEPT ![a] = expiry']
  /\ UNCHANGED <<cell, now, delivered>>

\* publish, of what was never handed out
Put(a) ==
  /\ holder = a
  /\ cell' \in Payload \ {cell} /\ delivered[cell'] = 0
  /\ UNCHANGED <<holder, expiry, now, until, delivered>>

Release(a) ==
  /\ holder = a
  /\ Vacate
  /\ until' = [until EXCEPT ![a] = 0]
  /\ UNCHANGED <<now, delivered>>

\* consume, which ends every term
Take ==
  /\ cell # NoPayload /\ delivered[cell] = 0
  /\ delivered' = [delivered EXCEPT ![cell] = 1]
  /\ until' = [a \in Agent |-> 0]
  /\ Vacate
  /\ UNCHANGED now

Pass ==
  /\ now' = now + 1
  /\ UNCHANGED <<holder, expiry, cell, until, delivered>>

AtomicNext == (\E a \in Agent : Grant(a) \/ Put(a) \/ Release(a)) \/ Take \/ Pass

AtomicSpec == AtomicInit /\ [][AtomicNext]_slotVars
=============================================================================
