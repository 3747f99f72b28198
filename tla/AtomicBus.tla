------------------------------ MODULE AtomicBus ------------------------------
(***************************************************************************)
(* What the agents of a bus may take it for: a log and some registers, on  *)
(* which every operation happens at once.  There is no whole record that   *)
(* is read and saved: an operation touches its own key.  Messages come in  *)
(* the order of their versions, of which no two have the same, and a       *)
(* reader that remembers the last one receives each of them once.          *)
(***************************************************************************)
EXTENDS Naturals

CONSTANTS Agent, CasKeys, LooseKeys, Absent

VARIABLES
  channel,  \* the messages that are there
  top,      \* the version of the channel
  values,   \* the entries of the other keys
  sent,     \* the messages whose send() has returned
  since,    \* the version up to which each agent has received
  seen,     \* the messages it received
  expired   \* messages whose ttl has passed

log == <<channel, top, sent>>
readers == <<since, seen>>
busVars == <<log, values, readers, expired>>

AtomicInit ==
  /\ channel = {} /\ top = 0 /\ sent = {} /\ expired = {}
  /\ values = [k \in CasKeys \union LooseKeys |-> Absent]
  /\ since = [a \in Agent |-> 0]
  /\ seen = [a \in Agent |-> {}]

Send ==
  /\ top' = top + 1
  /\ \E m \in sent' :
       /\ m.version = top'
       /\ channel' = channel \union {m} /\ sent' = sent \union {m}
  /\ UNCHANGED <<values, readers, expired>>

\* gc removes what has expired by then, or some of it
Collect ==
  /\ top' = top + 1
  /\ channel' \subseteq channel /\ channel \subseteq channel' \union expired
  /\ UNCHANGED <<sent, values, readers, expired>>

Receive(a) ==
  LET new == {m \in channel \ expired : m.version > since[a]} IN
  /\ new \intersect seen[a] = {}
  /\ seen' = [seen EXCEPT ![a] = @ \union new]
  /\ \E last \in new :
       /\ \A m \in new \ {last} : m.version < last.version
       /\ since' = [since EXCEPT ![a] = last.version]
  /\ UNCHANGED <<log, values, expired>>

Alter(k) == values' = [values EXCEPT ![k] = values'[k]] /\ UNCHANGED <<log, readers, expired>>

\* A key that is written with an expected version: its versions count its writes
Swap(k) == Alter(k) /\ values'[k].there /\ values'[k].version = values[k].version + 1

\* publish without one; put and delete, from which the count starts again
Write(k) ==
  /\ Alter(k)
  /\ \/ values'[k].there /\ values'[k].version \in {0, values[k].version + 1}
     \/ values[k].there /\ values'[k] = Absent

Age == expired \subseteq expired' /\ expired' \subseteq expired \union channel /\ UNCHANGED <<log, values, readers>>

AtomicNext ==
  \/ Send \/ Collect \/ Age
  \/ \E a \in Agent : Receive(a)
  \/ \E k \in CasKeys : Swap(k)
  \/ \E k \in LooseKeys : Write(k)

AtomicSpec == AtomicInit /\ [][AtomicNext]_busVars
==============================================================================
