----------------------------- MODULE SlotProofs -----------------------------
(***************************************************************************)
(* Theorems about Slot, for any number of agents, any ttl and any bounds.  *)
(* All but the first assume a server that refuses stale saves.             *)
(***************************************************************************)
EXTENDS Slot, TLAPS

LEMMA FreeIsSlot == Free \in Slots /\ Tidy(Free)
  BY DEF Free, Slots, NoPayload, Payload, Tidy

\* What Begin has read and will save
LEMMA TypeBegin ==
  ASSUME TypeOK, NEW a \in Agent, NEW kind \in Kinds, NEW new \in Slots, Tidy(new),
         Begin(a, kind, new)
  PROVE  TypeOK'
<1> USE SlotAssumption
<1>1. op' \in [Agent -> [kind : Kinds \union {"none"}, rev : 0..rev, base : Slots, new : Slots]]
  BY DEF TypeOK, Begin
<1>2. \A b \in Agent : Tidy(op'[b].base) /\ Tidy(op'[b].new)
  BY DEF TypeOK, Begin, Tidy
<1>3. ops' \in 0..MaxOps
  BY DEF TypeOK, Begin
<1> QED
  BY <1>1, <1>2, <1>3 DEF TypeOK, Begin, Tidy

LEMMA TypeInit == Init => TypeOK
  BY SlotAssumption, FreeIsSlot DEF Init, TypeOK, Idle, Kinds

\* The records the five operations are going to save
LEMMA NewSlots ==
  ASSUME TypeOK
  PROVE  /\ \A a \in Agent, t \in Nat : [slot EXCEPT !.holder = a, !.expiry = t] \in Slots
         /\ \A t \in Nat : [slot EXCEPT !.expiry = t] \in Slots
         /\ \A p \in Payload : [slot EXCEPT !.payload = p] \in Slots
         /\ now + TTL \in Nat
         /\ ops < MaxOps => ops + 1 \in Payload
<1> USE SlotAssumption
<1>1. \A a \in Agent, t \in Nat : [slot EXCEPT !.holder = a, !.expiry = t] \in Slots
  BY DEF TypeOK, Slots
<1>2. \A t \in Nat : [slot EXCEPT !.expiry = t] \in Slots
  BY DEF TypeOK, Slots
<1>3. \A p \in Payload : [slot EXCEPT !.payload = p] \in Slots
  BY DEF TypeOK, Slots
<1>4. now + TTL \in Nat
  BY DEF TypeOK
<1>5. ops < MaxOps => ops + 1 \in Payload
  BY DEF TypeOK, Payload
<1> QED
  BY <1>1, <1>2, <1>3, <1>4, <1>5

LEMMA TypeSave ==
  ASSUME TypeOK, NEW a \in Agent, Save(a)
  PROVE  TypeOK'
<1> USE SlotAssumption
<1>1. slot' \in Slots /\ rev' \in Nat /\ Tidy(slot')
  BY DEF TypeOK, Save
<1>2. op' \in [Agent -> [kind : Kinds \union {"none"}, rev : 0..rev', base : Slots, new : Slots]]
  <2>1. 0..rev \subseteq 0..rev'
    BY DEF TypeOK, Save
  <2>2. Idle \in [kind : Kinds \union {"none"}, rev : 0..rev', base : Slots, new : Slots]
    BY FreeIsSlot, <1>1 DEF Idle
  <2>3. \A b \in Agent : op[b] \in [kind : Kinds \union {"none"}, rev : 0..rev', base : Slots, new : Slots]
    BY <2>1 DEF TypeOK
  <2> QED
    BY <2>2, <2>3 DEF TypeOK, Save
<1>3. \A b \in Agent : Tidy(op'[b].base) /\ Tidy(op'[b].new)
  BY FreeIsSlot DEF TypeOK, Save, Idle
<1>4. lease' \in [Agent -> BOOLEAN]
  <2> DEFINE v == (lease[a] \/ op[a].kind = "acquire") /\ op[a].kind \notin {"release", "consume"}
  <2>1. lease' = [lease EXCEPT ![a] = v]
    BY DEF Save
  <2>2. v \in BOOLEAN
    BY Zenon
  <2> HIDE DEF v
  <2>3. lease \in [Agent -> BOOLEAN]
    BY DEF TypeOK
  <2> QED
    BY <2>1, <2>2, <2>3
<1>5. until' \in [Agent -> Nat]
  <2>1. op[a].new.expiry \in Nat
    BY DEF TypeOK, Slots
  <2> QED
    BY <2>1 DEF TypeOK, Save
<1>6. delivered' \in [Payload -> Nat]
  <2>1. CASE op[a].kind = "consume"
    <3>1. delivered' = [p \in Payload |-> IF p = op[a].base.payload THEN delivered[p] + 1
                                                                  ELSE delivered[p]]
      BY <2>1 DEF TypeOK, Save
    <3>2. \A p \in Payload : delivered[p] \in Nat
      BY DEF TypeOK
    <3> QED
      BY <3>1, <3>2
  <2>2. CASE op[a].kind # "consume"
    BY <2>2 DEF TypeOK, Save
  <2> QED
    BY <2>1, <2>2
<1> QED
  BY <1>1, <1>2, <1>3, <1>4, <1>5, <1>6 DEF TypeOK, Save

LEMMA TypeStep == TypeOK /\ [Next]_vars => TypeOK'
<1> SUFFICES ASSUME TypeOK, [Next]_vars
             PROVE  TypeOK'
  OBVIOUS
<1> USE SlotAssumption
<1>1. ASSUME NEW a \in Agent, Acquire(a) PROVE TypeOK'
  <2> DEFINE new == [slot EXCEPT !.holder = a, !.expiry = now + TTL]
  <2>1. new \in Slots
    BY NewSlots
  <2>2. Tidy(new)
    BY DEF Tidy, TypeOK, Slots
  <2> HIDE DEF new
  <2>3. Begin(a, "acquire", new)
    BY <1>1 DEF Acquire, new
  <2> QED
    BY <2>1, <2>2, <2>3, TypeBegin DEF Kinds
<1>2. ASSUME NEW a \in Agent, Release(a) PROVE TypeOK'
  BY <1>2, FreeIsSlot, TypeBegin DEF Release, Kinds
<1>3. ASSUME NEW a \in Agent, Publish(a) PROVE TypeOK'
  <2> DEFINE new == [slot EXCEPT !.payload = ops + 1]
  <2>1. new \in Slots
    BY <1>3, NewSlots DEF Publish, Begin
  <2>2. Tidy(new)
    BY <1>3 DEF Tidy, TypeOK, Slots, Publish, Holds
  <2> HIDE DEF new
  <2>3. Begin(a, "publish", new)
    BY <1>3 DEF Publish, new
  <2> QED
    BY <2>1, <2>2, <2>3, TypeBegin DEF Kinds
<1>4. ASSUME NEW a \in Agent, Consume(a) PROVE TypeOK'
  BY <1>4, FreeIsSlot, TypeBegin DEF Consume, Consumed, Kinds
<1>5. ASSUME NEW a \in Agent, Ping(a) PROVE TypeOK'
  <2> DEFINE new == [slot EXCEPT !.expiry = now + TTL]
  <2>1. new \in Slots
    BY NewSlots
  <2>2. Tidy(new)
    BY <1>5 DEF Tidy, TypeOK, Slots, Ping, Holds
  <2> HIDE DEF new
  <2>3. Begin(a, "ping", new)
    BY <1>5 DEF Ping, new
  <2> QED
    BY <2>1, <2>2, <2>3, TypeBegin DEF Kinds
<1>6. ASSUME NEW a \in Agent, Refuse(a) PROVE TypeOK'
  BY <1>6 DEF Refuse, TypeOK, Tidy
<1>7. ASSUME NEW a \in Agent, Save(a) PROVE TypeOK'
  BY <1>7, TypeSave
<1>8. ASSUME NEW a \in Agent, Abort(a) \/ Restart(a) PROVE TypeOK'
  <2>1. Idle \in [kind : Kinds \union {"none"}, rev : 0..rev, base : Slots, new : Slots]
    <3>1. 0 \in 0..rev
      BY DEF TypeOK
    <3> QED
      BY <3>1, FreeIsSlot DEF Idle
  <2>2. Tidy(Idle.base) /\ Tidy(Idle.new)
    BY FreeIsSlot DEF Idle
  <2>3. op' \in [Agent -> [kind : Kinds \union {"none"}, rev : 0..rev, base : Slots, new : Slots]]
    BY <1>8, <2>1 DEF Abort, Restart, TypeOK
  <2>4. \A b \in Agent : Tidy(op'[b].base) /\ Tidy(op'[b].new)
    BY <1>8, <2>2 DEF Abort, Restart, TypeOK
  <2>5. lease' \in [Agent -> BOOLEAN]
    BY <1>8 DEF Abort, Restart, TypeOK
  <2> QED
    BY <1>8, <2>3, <2>4, <2>5 DEF Abort, Restart, TypeOK, Tidy
<1>9. ASSUME Tick PROVE TypeOK'
  BY <1>9 DEF Tick, TypeOK, Tidy
<1>10. CASE UNCHANGED vars
  BY <1>10 DEF vars, TypeOK, Tidy
<1> QED
  BY <1>1, <1>2, <1>3, <1>4, <1>5, <1>6, <1>7, <1>8, <1>9, <1>10 DEF Next, Step

\* Every variable of the slot keeps its type, and a slot that nobody holds has
\* no payload, whatever interleaving, crash or refused save.
THEOREM TypeCorrect == Spec => []TypeOK
  BY TypeInit, TypeStep, PTL DEF Spec

------------------------------------------------------------------------------
(* What holds at a save that the server accepts *)

LEMMA PendingStep == TypeOK /\ Pending /\ [Next]_vars => Pending'
<1> SUFFICES ASSUME TypeOK, Pending, [Next]_vars,
                    NEW a \in Agent, op'[a] # Idle, op'[a].rev = rev'
             PROVE  PendingOf(a, op[a])'
  BY DEF Pending
<1> USE SlotAssumption
<1>1. ASSUME NEW b \in Agent, NEW kind \in Kinds, NEW new, Begin(b, kind, new), b # a
      PROVE  PendingOf(a, op[a])'
  <2>1. op'[a] = op[a] /\ UNCHANGED <<slot, rev, now>>
    BY <1>1 DEF Begin, TypeOK
  <2> QED
    BY <2>1 DEF Pending, PendingOf, MayAcquire, Lapsed
<1>2. ASSUME NEW kind \in Kinds, NEW new, Begin(a, kind, new)
      PROVE  /\ op'[a] = [kind |-> kind, rev |-> rev, base |-> slot, new |-> new]
             /\ UNCHANGED <<slot, now>>
  BY <1>2 DEF Begin, TypeOK
<1>3. CASE Acquire(a)
  <2> DEFINE new == [slot EXCEPT !.holder = a, !.expiry = now + TTL]
  <2>1. Begin(a, "acquire", new) /\ MayAcquire(a)
    BY <1>3 DEF Acquire, MayAcquire
  <2>2. op'[a] = [kind |-> "acquire", rev |-> rev, base |-> slot, new |-> new] /\ UNCHANGED <<slot, now>>
    BY <2>1, <1>2 DEF Kinds
  <2>3. new.holder = a /\ new.payload = slot.payload
    BY DEF TypeOK, Slots
  <2> HIDE DEF new
  <2> QED
    BY <2>1, <2>2, <2>3 DEF PendingOf, MayAcquire, Lapsed
<1>4. CASE Release(a)
  <2> DEFINE new == Free
  <2>1. Begin(a, "release", new) /\ slot.holder = a
    BY <1>4 DEF Release, MayRelease
  <2>2. op'[a] = [kind |-> "release", rev |-> rev, base |-> slot, new |-> new] /\ UNCHANGED <<slot, now>>
    BY <2>1, <1>2 DEF Kinds
  <2> HIDE DEF new
  <2> QED
    BY <2>1, <2>2 DEF PendingOf, new
<1>5. CASE Publish(a)
  <2> DEFINE new == [slot EXCEPT !.payload = ops + 1]
  <2>1. Begin(a, "publish", new) /\ slot.holder = a
    BY <1>5 DEF Publish, Holds
  <2>2. op'[a] = [kind |-> "publish", rev |-> rev, base |-> slot, new |-> new] /\ UNCHANGED <<slot, now>>
    BY <2>1, <1>2 DEF Kinds
  <2>3. new.holder = slot.holder /\ new.expiry = slot.expiry
    BY DEF TypeOK, Slots
  <2> HIDE DEF new
  <2> QED
    BY <2>1, <2>2, <2>3 DEF PendingOf
<1>6. CASE Consume(a)
  <2> DEFINE new == Free
  <2>1. Begin(a, "consume", new) /\ slot.payload # NoPayload
    BY <1>6 DEF Consume, Consumed
  <2>2. op'[a] = [kind |-> "consume", rev |-> rev, base |-> slot, new |-> new] /\ UNCHANGED <<slot, now>>
    BY <2>1, <1>2 DEF Kinds
  <2> HIDE DEF new
  <2> QED
    BY <2>1, <2>2 DEF PendingOf, new, NoPayload
<1>7. CASE Ping(a)
  <2> DEFINE new == [slot EXCEPT !.expiry = now + TTL]
  <2>1. Begin(a, "ping", new) /\ slot.holder = a
    BY <1>7 DEF Ping, Holds
  <2>2. op'[a] = [kind |-> "ping", rev |-> rev, base |-> slot, new |-> new] /\ UNCHANGED <<slot, now>>
    BY <2>1, <1>2 DEF Kinds
  <2>3. new.holder = slot.holder /\ new.payload = slot.payload
    BY DEF TypeOK, Slots
  <2> HIDE DEF new
  <2> QED
    BY <2>1, <2>2, <2>3 DEF PendingOf
<1>8. ASSUME NEW b \in Agent, b # a,
             Acquire(b) \/ Release(b) \/ Publish(b) \/ Consume(b) \/ Ping(b)
      PROVE  PendingOf(a, op[a])'
  BY <1>1, <1>8 DEF Acquire, Release, Publish, Consume, Ping, Kinds
<1>9. ASSUME NEW b \in Agent, Save(b)
      PROVE  FALSE
  <2>1. rev' = rev + 1 /\ (op'[a] = op[a] \/ op'[a] = Idle)
    BY <1>9 DEF Save, TypeOK
  <2>2. op[a].rev <= rev /\ rev \in Nat
    BY DEF TypeOK
  <2> QED
    BY <2>1, <2>2
<1>10. ASSUME NEW b \in Agent, Refuse(b) \/ Abort(b) \/ Restart(b)
       PROVE  PendingOf(a, op[a])'
  <2>1. (op'[a] = op[a] \/ op'[a] = Idle) /\ UNCHANGED <<slot, rev, now>>
    BY <1>10 DEF Refuse, Abort, Restart, TypeOK
  <2> QED
    BY <2>1 DEF Pending, PendingOf, MayAcquire, Lapsed
<1>11. CASE Tick
  <2>1. op'[a] = op[a] /\ UNCHANGED <<slot, rev>>
    BY <1>11 DEF Tick
  <2>2. MayAcquire(a) => MayAcquire(a)'
    BY <1>11 DEF Tick, MayAcquire, Lapsed, TypeOK, Slots
  <2> QED
    BY <2>1, <2>2 DEF Pending, PendingOf
<1>12. CASE UNCHANGED vars
  BY <1>12 DEF vars, Pending, PendingOf, MayAcquire, Lapsed
<1> QED
  BY <1>3, <1>4, <1>5, <1>6, <1>7, <1>8, <1>9, <1>10, <1>11, <1>12 DEF Next, Step

LEMMA PendingInit == Init => Pending
  BY DEF Init, Pending

LEMMA Accepted ==
  ASSUME Fenced, TypeOK, Pending, NEW a \in Agent, Save(a)
  PROVE  PendingOf(a, op[a])
<1>1. op[a] # Idle /\ op[a].rev = rev
  BY DEF Save, Idle
<1> QED
  BY <1>1 DEF Pending

------------------------------------------------------------------------------
(* The lock *)

LEMMA LeaseSave ==
  ASSUME Fenced, TypeOK, Pending, LeaseInRecord, NEW b \in Agent, Save(b),
         NEW a \in Agent, until'[a] > now'
  PROVE  slot'.holder = a /\ slot'.expiry = until'[a]
<1>1. PendingOf(b, op[b])
  BY Accepted
<1>2. slot' = op[b].new /\ now' = now /\ now \in Nat
  BY SlotAssumption DEF Save, TypeOK
<1>3. op[b].kind \in Kinds
  BY DEF TypeOK, Save
<1>4. CASE op[b].kind = "acquire"
  <2>1. slot.holder # Nobody => b = slot.holder \/ slot.expiry <= now
    BY <1>1, <1>4 DEF PendingOf, MayAcquire, Lapsed
  <2>2. until' = [until EXCEPT ![b] = op[b].new.expiry] /\ slot'.holder = b
    BY <1>1, <1>2, <1>4 DEF Save, PendingOf
  <2>3. a # b => slot.holder = a /\ slot.expiry = until[a] /\ until[a] > now
    BY <1>2, <2>2 DEF LeaseInRecord, TypeOK
  <2>4. a = b
    <3>1. until[a] \in Nat /\ Nobody \notin Agent
      BY SlotAssumption DEF TypeOK
    <3> QED
      BY <2>1, <2>3, <3>1, <1>2
  <2> QED
    BY <1>2, <2>2, <2>4 DEF TypeOK
<1>5. CASE op[b].kind = "ping"
  <2>1. slot.holder = b /\ slot'.holder = b /\ until' = [until EXCEPT ![b] = op[b].new.expiry]
    BY <1>1, <1>2, <1>5 DEF Save, PendingOf
  <2>2. a = b
    BY <1>2, <2>1 DEF LeaseInRecord, TypeOK
  <2> QED
    BY <1>2, <2>1, <2>2 DEF TypeOK
<1>6. CASE op[b].kind = "publish"
  <2>1. until' = until /\ slot.holder = b /\ slot'.holder = b /\ slot'.expiry = slot.expiry
    BY <1>1, <1>2, <1>6 DEF Save, PendingOf
  <2> QED
    BY <1>2, <2>1 DEF LeaseInRecord
<1>7. CASE op[b].kind = "release"
  <2>1. until' = [until EXCEPT ![b] = 0] /\ slot.holder = b
    BY <1>1, <1>7 DEF Save, PendingOf
  <2> QED
    BY <1>2, <2>1 DEF LeaseInRecord, TypeOK
<1>8. CASE op[b].kind = "consume"
  <2>1. until'[a] = 0
    BY <1>8 DEF Save
  <2> QED
    BY <1>2, <2>1
<1> QED
  BY <1>3, <1>4, <1>5, <1>6, <1>7, <1>8 DEF Kinds

LEMMA LeaseStep ==
  Fenced /\ TypeOK /\ Pending /\ LeaseInRecord /\ [Next]_vars => LeaseInRecord'
<1> SUFFICES ASSUME Fenced, TypeOK, Pending, LeaseInRecord, [Next]_vars
             PROVE  LeaseInRecord'
  OBVIOUS
<1>1. ASSUME NEW b \in Agent, Save(b) PROVE LeaseInRecord'
  BY <1>1, LeaseSave DEF LeaseInRecord
<1>2. CASE Tick
  BY <1>2, SlotAssumption DEF Tick, LeaseInRecord, TypeOK
<1>3. ASSUME UNCHANGED <<slot, now, until>> PROVE LeaseInRecord'
  BY <1>3 DEF LeaseInRecord
<1>4. ASSUME NEW b \in Agent, Step(b), ~Save(b) PROVE UNCHANGED <<slot, now, until>>
  BY <1>4 DEF Step, Acquire, Release, Publish, Consume, Ping, Begin, Refuse, Abort, Restart
<1> QED
  BY <1>1, <1>2, <1>3, <1>4 DEF Next, vars

LEMMA LeaseInit == Init => LeaseInRecord
  BY SlotAssumption DEF Init, LeaseInRecord

LEMMA LeaseExcludes == LeaseInRecord => MutualExclusion
  BY DEF LeaseInRecord, MutualExclusion

\* If the server refuses stale saves, no two agents ever hold the lock at once,
\* however their reads and saves interleave, expire, fail or are cut off.
THEOREM LockIsExclusive ==
  ASSUME Fenced
  PROVE  Spec => []MutualExclusion
<1>1. Init => TypeOK /\ Pending /\ LeaseInRecord
  BY TypeInit, PendingInit, LeaseInit
<1>2. TypeOK /\ Pending /\ LeaseInRecord /\ [Next]_vars => (TypeOK /\ Pending /\ LeaseInRecord)'
  BY TypeStep, PendingStep, LeaseStep
<1> QED
  BY <1>1, <1>2, LeaseExcludes, PTL DEF Spec

------------------------------------------------------------------------------
(* The payload *)

LEMMA PayloadsSave ==
  ASSUME Fenced, TypeOK, Pending, PayloadsNew, NEW b \in Agent, Save(b)
  PROVE  PayloadsNew'
<1> USE SlotAssumption
<1>1. PendingOf(b, op[b])
  BY Accepted
<1>2. /\ slot' = op[b].new /\ ops' = ops /\ op'[b] = Idle
      /\ \A a \in Agent : a # b => op'[a] = op[a]
  BY DEF Save, TypeOK
<1>3. op[b].kind \in Kinds /\ ops \in Nat /\ delivered \in [Payload -> Nat]
  BY DEF TypeOK, Save
<1>4. \A a \in Agent : op'[a].kind = "publish" => a # b /\ op[a].kind = "publish" /\ op'[a] = op[a]
  BY <1>2 DEF Idle
<1>5. CASE op[b].kind = "consume"
  <2> DEFINE p == slot.payload
  <2>1. p # NoPayload /\ op[b].base = slot /\ slot'.payload = 0
    BY <1>1, <1>2, <1>5 DEF PendingOf, Free, NoPayload
  <2>2. p \in Payload /\ p \in 1..ops /\ delivered[p] = 0
    BY <1>3, <2>1 DEF PayloadsNew, TypeOK, Slots, NoPayload, Payload
  <2>3. delivered' = [delivered EXCEPT ![p] = @ + 1]
    BY <1>5, <2>1 DEF Save
  <2>4. \A q \in Payload : delivered'[q] = IF q = p THEN 1 ELSE delivered[q]
    BY <1>3, <2>2, <2>3
  <2> HIDE DEF p
  <2>5. \A a \in Agent : op'[a].kind = "publish" =>
          op'[a].new.payload # p /\ op'[a].new.payload \in Payload /\ op'[a].new.payload \in 1..ops
    BY <1>3, <1>4 DEF PayloadsNew, p, Payload, TypeOK
  <2>6. \A a \in Agent : op'[a].kind = "publish" =>
          /\ delivered'[op'[a].new.payload] = 0
          /\ op'[a].new.payload # slot'.payload
          /\ \A c \in Agent \ {a} : op'[c].kind = "publish" => op'[c].new.payload # op'[a].new.payload
    BY <1>4, <2>1, <2>4, <2>5 DEF PayloadsNew
  <2>7. \A q \in Payload : q > ops => delivered'[q] = 0
    BY <1>3, <2>2, <2>4 DEF PayloadsNew
  <2>8. \A q \in Payload : delivered'[q] = 0 \/ (delivered'[q] = 1 /\ slot'.payload # q)
    BY <2>1, <2>4 DEF PayloadsNew, Payload
  <2> QED
    BY <1>2, <1>3, <2>1, <2>5, <2>6, <2>7, <2>8 DEF PayloadsNew
<1>6. CASE op[b].kind # "consume"
  <2>1. delivered' = delivered
    BY <1>6 DEF Save
  <2>2. CASE op[b].kind = "publish"
    <3> DEFINE n == op[b].new.payload
    <3>1. slot'.payload = n /\ n \in 1..ops /\ n \in 0..ops /\ delivered[n] = 0
      BY <1>2, <1>3, <2>2 DEF PayloadsNew
    <3>2. \A a \in Agent : op'[a].kind = "publish" =>
            /\ op'[a].new.payload \in 1..ops
            /\ op'[a].new.payload # n
            /\ delivered[op'[a].new.payload] = 0
            /\ \A c \in Agent \ {a} : op'[c].kind = "publish" => op'[c].new.payload # op'[a].new.payload
      BY <1>4, <2>2 DEF PayloadsNew
    <3> HIDE DEF n
    <3>3. \A q \in Payload : delivered[q] = 0 \/ (delivered[q] = 1 /\ q # n)
      BY <3>1 DEF PayloadsNew
    <3>4. \A q \in Payload : q > ops => delivered[q] = 0
      BY DEF PayloadsNew
    <3> QED
      BY <1>2, <2>1, <3>1, <3>2, <3>3, <3>4 DEF PayloadsNew
  <2>3. CASE op[b].kind \in {"acquire", "ping"}
    <3>1. slot'.payload = slot.payload
      BY <1>1, <1>2, <2>3 DEF PendingOf
    <3> QED
      BY <1>2, <1>4, <2>1, <3>1 DEF PayloadsNew
  <2>4. CASE op[b].kind = "release"
    <3>1. slot'.payload = 0
      BY <1>1, <1>2, <2>4 DEF PendingOf, Free, NoPayload
    <3>2. \A a \in Agent : op'[a].kind = "publish" =>
            /\ op'[a].new.payload \in 1..ops
            /\ op'[a].new.payload # 0
            /\ delivered[op'[a].new.payload] = 0
            /\ \A c \in Agent \ {a} : op'[c].kind = "publish" => op'[c].new.payload # op'[a].new.payload
      BY <1>3, <1>4 DEF PayloadsNew
    <3>3. \A q \in Payload : delivered[q] = 0 \/ (delivered[q] = 1 /\ q # 0)
      BY DEF PayloadsNew, Payload
    <3>4. \A q \in Payload : q > ops => delivered[q] = 0
      BY DEF PayloadsNew
    <3>5. 0 \in 0..ops
      BY <1>3
    <3> QED
      BY <1>2, <2>1, <3>1, <3>2, <3>3, <3>4, <3>5 DEF PayloadsNew
  <2> QED
    BY <1>3, <1>6, <2>2, <2>3, <2>4 DEF Kinds
<1> QED
  BY <1>5, <1>6

LEMMA PayloadsPublish ==
  ASSUME TypeOK, PayloadsNew, NEW b \in Agent, Publish(b)
  PROVE  PayloadsNew'
<1> USE SlotAssumption
<1>1. /\ ops' = ops + 1 /\ ops < MaxOps /\ ops \in Nat
      /\ UNCHANGED <<slot, delivered>>
      /\ \A a \in Agent : a # b => op'[a] = op[a]
      /\ op'[b].new.payload = ops + 1
  <2>1. [slot EXCEPT !.payload = ops + 1].payload = ops + 1
    BY DEF TypeOK, Slots
  <2> QED
    BY <2>1 DEF Publish, Begin, TypeOK
<1>2. delivered'[ops + 1] = 0 /\ slot'.payload # ops + 1
  BY <1>1 DEF PayloadsNew, Payload
<1>3. \A a \in Agent : a # b /\ op'[a].kind = "publish" =>
        /\ op'[a].new.payload \in 1..ops
        /\ op'[a].new.payload # slot'.payload
        /\ delivered'[op'[a].new.payload] = 0
        /\ \A c \in Agent \ {a, b} :
              op'[c].kind = "publish" => op'[c].new.payload # op'[a].new.payload
  BY <1>1 DEF PayloadsNew
<1>4. \A a \in Agent : op'[a].kind = "publish" =>
        /\ op'[a].new.payload \in 1..ops'
        /\ op'[a].new.payload # slot'.payload
        /\ delivered'[op'[a].new.payload] = 0
        /\ \A c \in Agent \ {a} :
              op'[c].kind = "publish" => op'[c].new.payload # op'[a].new.payload
  BY <1>1, <1>2, <1>3
<1>5. /\ slot'.payload \in 0..ops'
      /\ \A p \in Payload : p > ops' => delivered'[p] = 0
      /\ \A p \in Payload : delivered'[p] = 0 \/ (delivered'[p] = 1 /\ slot'.payload # p)
  BY <1>1 DEF PayloadsNew, Payload
<1> QED
  BY <1>4, <1>5 DEF PayloadsNew

LEMMA PayloadsStep ==
  Fenced /\ TypeOK /\ Pending /\ PayloadsNew /\ [Next]_vars => PayloadsNew'
<1> SUFFICES ASSUME Fenced, TypeOK, Pending, PayloadsNew, [Next]_vars
             PROVE  PayloadsNew'
  OBVIOUS
<1>1. ASSUME NEW b \in Agent, Save(b) PROVE PayloadsNew'
  BY <1>1, PayloadsSave
<1>2. ASSUME NEW b \in Agent, Publish(b) PROVE PayloadsNew'
  BY <1>2, PayloadsPublish
<1>3. ASSUME UNCHANGED <<slot, delivered>>, ops' >= ops, ops' \in Nat,
             \A a \in Agent : op'[a].kind = "publish" => op'[a] = op[a]
      PROVE  PayloadsNew'
  <2>1. ops \in Nat
    BY SlotAssumption DEF TypeOK
  <2> QED
    BY <1>3, <2>1 DEF PayloadsNew, Payload
<1>4. ASSUME NEW b \in Agent, Step(b), ~Save(b), ~Publish(b)
      PROVE  /\ UNCHANGED <<slot, delivered>> /\ ops' >= ops /\ ops' \in Nat
             /\ \A a \in Agent : op'[a].kind = "publish" => op'[a] = op[a]
  <2>1. ASSUME NEW kind \in {"acquire", "release", "consume", "ping"}, NEW new,
               Begin(b, kind, new)
        PROVE  /\ UNCHANGED <<slot, delivered>> /\ ops' >= ops /\ ops' \in Nat
               /\ \A a \in Agent : op'[a].kind = "publish" => op'[a] = op[a]
    BY <2>1, SlotAssumption DEF Begin, TypeOK
  <2>2. CASE Acquire(b) \/ Release(b) \/ Consume(b) \/ Ping(b)
    BY <2>1, <2>2 DEF Acquire, Release, Consume, Ping
  <2>3. CASE Refuse(b) \/ Abort(b) \/ Restart(b)
    BY <2>3, SlotAssumption DEF Refuse, Abort, Restart, TypeOK, Idle
  <2> QED
    BY <1>4, <2>2, <2>3 DEF Step
<1>5. CASE Tick \/ UNCHANGED vars
  <2>1. ops \in Nat
    BY SlotAssumption DEF TypeOK
  <2> QED
    BY <1>3, <1>5, <2>1 DEF Tick, vars
<1> QED
  BY <1>1, <1>2, <1>3, <1>4, <1>5 DEF Next

LEMMA PayloadsInit == Init => PayloadsNew
  BY SlotAssumption DEF Init, PayloadsNew, Idle, Free, Payload, NoPayload

LEMMA PayloadsOnce == PayloadsNew => ConsumedOnce
  BY DEF PayloadsNew, ConsumedOnce

\* If the server refuses stale saves, consume returns no payload twice, however
\* many agents poll the slot.
THEOREM NoPayloadTwice ==
  ASSUME Fenced
  PROVE  Spec => []ConsumedOnce
<1>1. Init => TypeOK /\ Pending /\ PayloadsNew
  BY TypeInit, PendingInit, PayloadsInit
<1>2. TypeOK /\ Pending /\ PayloadsNew /\ [Next]_vars => (TypeOK /\ Pending /\ PayloadsNew)'
  BY TypeStep, PendingStep, PayloadsStep
<1> QED
  BY <1>1, <1>2, PayloadsOnce, PTL DEF Spec

\* If the server refuses stale saves, a payload is only ever dropped by the
\* agent that holds the slot, or handed to the one that consumes it.
THEOREM PayloadsAreHeld ==
  ASSUME Fenced
  PROVE  Spec => PayloadsGoByHolder
<1>1. Init => TypeOK /\ Pending
  BY TypeInit, PendingInit
<1>2. TypeOK /\ Pending /\ [Next]_vars => (TypeOK /\ Pending)'
  BY TypeStep, PendingStep
<1>3. ASSUME TypeOK, Pending, NEW a \in Agent, Save(a),
             slot.payload \notin {NoPayload, slot'.payload}
      PROVE  (op[a].kind = "consume" /\ op[a].base.payload = slot.payload) \/ slot.holder = a
  <2>1. PendingOf(a, op[a]) /\ slot' = op[a].new /\ op[a].kind \in Kinds
    BY <1>3, Accepted DEF Save, TypeOK
  <2> QED
    BY <1>3, <2>1 DEF PendingOf, Kinds
<1>4. TypeOK /\ Pending =>
        [\A a \in Agent : Save(a) /\ slot.payload \notin {NoPayload, slot'.payload} =>
           \/ op[a].kind = "consume" /\ op[a].base.payload = slot.payload
           \/ slot.holder = a]_vars
  BY <1>3
<1> QED
  BY <1>1, <1>2, <1>4, PTL DEF Spec, PayloadsGoByHolder

------------------------------------------------------------------------------
(* Every operation happens at once *)

\* A term to be saved was reckoned from a time that has passed
TermsFit ==
  \A a \in Agent : op[a].kind \in {"acquire", "ping"} => op[a].new.expiry \in 0..(now + TTL)

LEMMA TermsInit == Init => TermsFit
  BY DEF Init, TermsFit, Idle

LEMMA TermsStep == TypeOK /\ TermsFit /\ [Next]_vars => TermsFit'
<1> SUFFICES ASSUME TypeOK, TermsFit, [Next]_vars, NEW a \in Agent,
                    op'[a].kind \in {"acquire", "ping"}
             PROVE  op'[a].new.expiry \in 0..(now' + TTL)
  BY DEF TermsFit
<1> USE SlotAssumption
<1>1. CASE op'[a] = op[a] /\ now' \in {now, now + 1}
  <2>1. op[a].new.expiry \in 0..(now + TTL) /\ now \in Nat
    BY <1>1 DEF TermsFit, TypeOK
  <2> QED
    BY <1>1, <2>1
<1>2. CASE Acquire(a) \/ Ping(a)
  <2>1. op'[a].new = [slot EXCEPT !.holder = a, !.expiry = now + TTL] \/ op'[a].new = [slot EXCEPT !.expiry = now + TTL]
    BY <1>2 DEF Acquire, Ping, Begin, TypeOK
  <2>2. op'[a].new.expiry = now + TTL
    BY <2>1 DEF TypeOK, Slots
  <2>3. now' = now /\ now + TTL \in Nat
    BY <1>2, NewSlots DEF Acquire, Ping, Begin
  <2> QED
    BY <2>2, <2>3
<1>3. CASE Release(a) \/ Publish(a) \/ Consume(a)
  BY <1>3 DEF Release, Publish, Consume, Begin, TypeOK
<1>4. ASSUME NEW b \in Agent, Step(b), ~(a = b /\ (Acquire(a) \/ Ping(a) \/ Release(a) \/ Publish(a) \/ Consume(a)))
      PROVE  op'[a] = op[a] /\ now' = now
  <2>1. CASE a # b
    BY <1>4, <2>1 DEF Step, Acquire, Release, Publish, Consume, Ping, Begin, Refuse, Save, Abort, Restart, TypeOK
  <2>2. CASE a = b
    BY <1>4, <2>2 DEF Step, Refuse, Save, Abort, Restart, Idle, TypeOK
  <2> QED
    BY <2>1, <2>2
<1>5. CASE Tick \/ UNCHANGED vars
  BY <1>1, <1>5 DEF Tick, vars
<1> QED
  BY <1>1, <1>2, <1>3, <1>4, <1>5 DEF Next

\* The steps that save nothing are none of a slot on which operations happen at once
LEMMA OnlySavesShow ==
  ASSUME TypeOK, [Next]_vars, \A a \in Agent : ~Save(a), ~Tick
  PROVE  UNCHANGED Atomic!slotVars
<1>1. ASSUME NEW a \in Agent, Step(a), ~Save(a)
      PROVE  UNCHANGED <<slot, now, until, delivered>>
  BY <1>1 DEF Step, Acquire, Release, Publish, Consume, Ping, Begin, Refuse, Abort, Restart
<1>2. UNCHANGED <<slot, now, until, delivered>>
  BY <1>1 DEF Next, vars
<1> QED
  BY <1>2 DEF Atomic!slotVars

LEMMA SaveAtOnce ==
  ASSUME Fenced, TypeOK, Pending, PayloadsNew, TermsFit, NEW a \in Agent, Save(a)
  PROVE  Atomic!AtomicNext
<1> DEFINE o == op[a]
<1>1. /\ PendingOf(a, o) /\ slot' = o.new /\ now' = now
      /\ o.kind \in Kinds /\ o.new \in Slots /\ slot \in Slots
      /\ until \in [Agent -> Nat] /\ delivered \in [Payload -> Nat]
  BY Accepted DEF Save, TypeOK
<1>2. CASE o.kind \in {"acquire", "ping"}
  <2>1. slot.holder \in {Nobody, a} \/ slot.expiry <= now
    BY <1>1, <1>2 DEF PendingOf, MayAcquire, Lapsed
  <2>2. slot'.holder = a /\ slot'.payload = slot.payload /\ slot'.expiry \in 0..(now + TTL)
    BY <1>1, <1>2 DEF PendingOf, TermsFit
  <2>3. until' = [until EXCEPT ![a] = slot'.expiry] /\ delivered' = delivered
    BY <1>1, <1>2 DEF Save
  <2>4. Atomic!Grant(a)
    BY <1>1, <2>1, <2>2, <2>3 DEF Atomic!Grant
  <2> QED
    BY <2>4 DEF Atomic!AtomicNext
<1>3. CASE o.kind = "publish"
  <2>1. slot.holder = a /\ slot'.holder = a /\ slot'.expiry = slot.expiry
    BY <1>1, <1>3 DEF PendingOf
  <2>2. slot'.payload \in 1..ops /\ slot'.payload # slot.payload /\ delivered[slot'.payload] = 0
    BY <1>1, <1>3 DEF PayloadsNew
  <2>3. slot'.payload \in Payload
    BY <2>2, SlotAssumption DEF TypeOK, Payload
  <2>4. until' = until /\ delivered' = delivered
    BY <1>3 DEF Save
  <2>5. Atomic!Put(a)
    BY <1>1, <2>1, <2>2, <2>3, <2>4 DEF Atomic!Put
  <2> QED
    BY <2>5 DEF Atomic!AtomicNext
<1>4. CASE o.kind = "release"
  <2>1. slot.holder = a /\ slot' = Free
    BY <1>1, <1>4 DEF PendingOf
  <2>2. until' = [until EXCEPT ![a] = 0] /\ delivered' = delivered
    BY <1>4 DEF Save
  <2>3. Atomic!Release(a)
    BY <1>1, <2>1, <2>2 DEF Atomic!Release, Atomic!Vacate, Free
  <2> QED
    BY <2>3 DEF Atomic!AtomicNext
<1>5. CASE o.kind = "consume"
  <2>1. slot.payload # NoPayload /\ o.base = slot /\ slot' = Free
    BY <1>1, <1>5 DEF PendingOf
  <2>2. slot.payload \in Payload
    BY <1>1, <2>1 DEF Slots
  <2>3. delivered[slot.payload] = 0
    BY <2>2 DEF PayloadsNew
  <2>4. until' = [b \in Agent |-> 0] /\ delivered' = [delivered EXCEPT ![slot.payload] = @ + 1]
    BY <1>5, <2>1 DEF Save
  <2>5. delivered' = [delivered EXCEPT ![slot.payload] = 1]
    BY <2>3, <2>4
  <2>6. Atomic!Take
    BY <1>1, <2>1, <2>3, <2>4, <2>5 DEF Atomic!Take, Atomic!Vacate, Free
  <2> QED
    BY <2>6 DEF Atomic!AtomicNext
<1> QED
  BY <1>1, <1>2, <1>3, <1>4, <1>5 DEF Kinds

\* If the server refuses stale saves, the slot implements one on which every operation
\* happens at once: what an agent learns from a read cannot go out of date before
\* its save, except that its own term runs on.
THEOREM SlotLinearizes ==
  ASSUME Fenced
  PROVE  Spec => SlotIsAtomic
<1> DEFINE Inv == TypeOK /\ Pending /\ PayloadsNew /\ TermsFit
<1>1. Init => Inv
  BY TypeInit, PendingInit, PayloadsInit, TermsInit
<1>2. Inv /\ [Next]_vars => Inv'
  BY TypeStep, PendingStep, PayloadsStep, TermsStep
<1>3. Init => Atomic!AtomicInit
  BY DEF Init, Atomic!AtomicInit, Free
<1>4. Inv /\ [Next]_vars => [Atomic!AtomicNext]_(Atomic!slotVars)
  <2> SUFFICES ASSUME Inv, [Next]_vars
               PROVE  [Atomic!AtomicNext]_(Atomic!slotVars)
    OBVIOUS
  <2>1. CASE \E a \in Agent : Save(a)
    BY <2>1, SaveAtOnce
  <2>2. CASE Tick
    BY <2>2 DEF Tick, Atomic!AtomicNext, Atomic!Pass
  <2>3. CASE ~Tick /\ \A a \in Agent : ~Save(a)
    BY <2>3, OnlySavesShow
  <2> QED
    BY <2>1, <2>2, <2>3
<1> QED
  BY <1>1, <1>2, <1>3, <1>4, PTL DEF Spec, SlotIsAtomic, Atomic!AtomicSpec
=============================================================================
