------------------------------ MODULE BusProofs ------------------------------
(***************************************************************************)
(* Theorems about Bus for any number of agents, operations and retries,    *)
(* over a server that refuses stale records: what is loaded and compared   *)
(* in separate reads is still enough to lose, miss or overwrite nothing.   *)
(***************************************************************************)
EXTENDS Bus, TLAPS

Ids == [version : Nat, uuid : Nat]
Entries == [value : SUBSET Ids, version : Nat, there : BOOLEAN]
Records == [Key -> Entries]
Kinds == Loading \union Blind
Operations ==
  [kind : Kinds \union {"none"}, key : Key, uuid : Nat, tries : Nat, base : Entries,
   expects : Nat \union {NoExpectation}, value : SUBSET Ids, copy : Records \union {<< >>}, rev : Nat]

\* Every variable keeps its type.
Typed ==
  /\ fields \in Records /\ rev \in Nat
  /\ pc \in [Agent -> {"idle", "load", "loaded", "fetched"}]
  /\ op \in [Agent -> Operations]
  /\ ops \in Nat /\ sent \subseteq Ids
  /\ since \in [Agent -> Ids] /\ seen \in [Agent -> SUBSET Ids] /\ expired \subseteq Ids

\* Which keys an operation is for, and that those that load have something to expect
Allotted(a) ==
  pc[a] # "idle" =>
    /\ op[a].kind \in {"send", "gc"} => op[a].key = Channel
    /\ op[a].kind = "cas" => op[a].key \in CasKeys
    /\ op[a].kind \in Blind => op[a].key \in LooseKeys /\ op[a].expects = NoExpectation
    /\ op[a].kind \in Kinds
    /\ pc[a] = "load" => op[a].kind \in Loading
    /\ op[a].kind \in Loading /\ pc[a] # "load" => op[a].expects \in Nat

\* The entry that was loaded is an earlier one, or the one in the record; what is to
\* be written has all of its messages but those that have expired
Loaded(a) ==
  /\ pc[a] \in {"loaded", "fetched"} /\ op[a].kind \in Loading
  /\ op[a].key \notin LooseKeys
  => LET e == fields[op[a].key] IN
     /\ op[a].expects <= e.version
     /\ op[a].expects = e.version => op[a].base = e
     /\ op[a].kind = "send" =>
          op[a].value = op[a].base.value \union {MessageId(op[a].expects, op[a].uuid)}
     /\ op[a].kind = "gc" =>
          op[a].value \subseteq op[a].base.value /\ op[a].base.value \subseteq op[a].value \union expired

\* A record that was fetched is an earlier one, or the one on the server
Fetched(a) ==
  pc[a] = "fetched" =>
    /\ op[a].rev <= rev
    /\ op[a].rev = rev =>
         op[a].copy = fields /\ (op[a].expects # NoExpectation => op[a].expects = fields[op[a].key].version)

\* Ids are drawn above all that are in the channel or were received
Rising ==
  /\ \A m \in Messages : m.version <= fields[Channel].version
  /\ \A a \in Agent : since[a].version <= fields[Channel].version

Working == \A a \in Agent : Allotted(a) /\ Loaded(a) /\ Fetched(a)

Inductive == Typed /\ Working /\ Rising /\ NoMessageLost /\ NoMessageMissed

------------------------------------------------------------------------------
LEMMA KeysKnown == Channel \in Key /\ CasKeys \subseteq Key /\ LooseKeys \subseteq Key
BY DEF Key

LEMMA AbsentIsEntry == Absent \in Entries
BY DEF Absent, Entries

LEMMA NoOpIsOperation == NoOp \in Operations
BY AbsentIsEntry, KeysKnown DEF NoOp, Operations

LEMMA Initially == Init => Inductive
<1> SUFFICES ASSUME Init PROVE Inductive
  OBVIOUS
<1>1. Typed
  BY AbsentIsEntry, NoOpIsOperation DEF Init, Typed, Records, NoId, Id, Ids
<1>2. Working
  BY DEF Init, Working, Allotted, Loaded, Fetched
<1>3. Rising
  BY KeysKnown DEF Init, Rising, Messages, Absent, NoId, Id
<1>4. NoMessageLost /\ NoMessageMissed
  BY KeysKnown DEF Init, NoMessageLost, NoMessageMissed, Messages, Absent
<1> QED BY <1>1, <1>2, <1>3, <1>4 DEF Inductive

\* A step of one agent's process that leaves the record alone
LEMMA OthersKeepWorking ==
  ASSUME Inductive, Typed', NEW a \in Agent,
         UNCHANGED <<fields, rev>>, expired \subseteq expired',
         \A b \in Agent \ {a} : pc'[b] = pc[b] /\ op'[b] = op[b]
  PROVE  \A b \in Agent \ {a} : Allotted(b)' /\ Loaded(b)' /\ Fetched(b)'
<1> SUFFICES ASSUME NEW b \in Agent \ {a} PROVE Allotted(b)' /\ Loaded(b)' /\ Fetched(b)'
  OBVIOUS
<1>1. Allotted(b) /\ Loaded(b) /\ Fetched(b)
  BY DEF Inductive, Working
<1>2. Allotted(b)'
  BY <1>1 DEF Allotted
<1>3. Loaded(b)'
  BY <1>1 DEF Loaded
<1>4. Fetched(b)'
  BY <1>1 DEF Fetched
<1> QED BY <1>2, <1>3, <1>4

LEMMA StartWorks ==
  ASSUME Inductive, NEW a \in Agent, NEW kind \in Kinds, NEW key \in Key, Start(a, kind, key),
         kind \in {"send", "gc"} => key = Channel,
         kind = "cas" => key \in CasKeys,
         kind \in Blind => key \in LooseKeys
  PROVE  Inductive'
<1>1. Typed
  BY DEF Inductive
<1>2. op' = [op EXCEPT ![a] = [NoOp EXCEPT !.kind = kind, !.key = key, !.uuid = ops + 1]]
  BY DEF Start
<1>3. [NoOp EXCEPT !.kind = kind, !.key = key, !.uuid = ops + 1] \in Operations
  <2>1. ops + 1 \in Nat
    BY <1>1 DEF Typed
  <2> QED BY <2>1, NoOpIsOperation DEF Operations
<1>4. op'[a] = [NoOp EXCEPT !.kind = kind, !.key = key, !.uuid = ops + 1]
  BY <1>1, <1>2 DEF Typed
<1>5. pc'[a] = IF kind \in Loading THEN "load" ELSE "loaded"
  BY <1>1 DEF Start, Typed
<1>6. Typed'
  BY <1>1, <1>2, <1>3 DEF Start, Typed, Served, Told
<1>7. op'[a].kind = kind /\ op'[a].key = key /\ op'[a].expects = NoExpectation
  BY <1>4 DEF NoOp
<1>8. Allotted(a)'
  BY <1>5, <1>7 DEF Allotted, Kinds, Loading, Blind
<1>9. Loaded(a)' /\ Fetched(a)'
  BY <1>5, <1>7 DEF Loaded, Fetched, Loading
<1>10. Working'
  <2>1. \A b \in Agent \ {a} : pc'[b] = pc[b] /\ op'[b] = op[b]
    BY <1>1, <1>2 DEF Start, Typed
  <2>2. UNCHANGED <<fields, rev>> /\ expired \subseteq expired'
    BY DEF Start, Served, Told
  <2>3. \A b \in Agent \ {a} : Allotted(b)' /\ Loaded(b)' /\ Fetched(b)'
    BY <2>1, <2>2, <1>6, OthersKeepWorking
  <2> QED BY <2>3, <1>8, <1>9 DEF Working
<1>11. Rising' /\ NoMessageLost' /\ NoMessageMissed'
  BY DEF Inductive, Start, Served, Told, Rising, Messages, NoMessageLost, NoMessageMissed
<1> QED BY <1>6, <1>10, <1>11 DEF Inductive

LEMMA QuitWorks ==
  ASSUME Inductive, NEW a \in Agent, Quit(a)
  PROVE  Inductive'
<1>1. Typed
  BY DEF Inductive
<1>2. Typed'
  BY <1>1, NoOpIsOperation DEF Quit, Typed, Served, Told
<1>3. Working'
  <2>1. \A b \in Agent \ {a} : pc'[b] = pc[b] /\ op'[b] = op[b]
    BY <1>1 DEF Quit, Typed
  <2>2. UNCHANGED <<fields, rev>> /\ expired \subseteq expired'
    BY DEF Quit, Served, Told
  <2>3. \A b \in Agent \ {a} : Allotted(b)' /\ Loaded(b)' /\ Fetched(b)'
    BY <2>1, <2>2, <1>2, OthersKeepWorking
  <2>4. pc'[a] = "idle"
    BY <1>1 DEF Quit, Typed
  <2>5. Allotted(a)' /\ Loaded(a)' /\ Fetched(a)'
    BY <2>4 DEF Allotted, Loaded, Fetched
  <2> QED BY <2>3, <2>5 DEF Working
<1>4. Rising' /\ NoMessageLost' /\ NoMessageMissed'
  BY DEF Inductive, Quit, Served, Told, Rising, Messages, NoMessageLost, NoMessageMissed
<1> QED BY <1>2, <1>3, <1>4 DEF Inductive

LEMMA LoadWorks ==
  ASSUME Inductive, NEW a \in Agent, Load(a)
  PROVE  Inductive'
<1> DEFINE e == fields[op[a].key]
<1> DEFINE next == [op[a] EXCEPT !.base = e, !.expects = e.version, !.value = Prepared(op[a], e)]
<1>1. CASE op' = [op EXCEPT ![a] = NoOp] /\ pc' = [pc EXCEPT ![a] = "idle"]
  BY <1>1, QuitWorks DEF Quit, Load
<1>2. CASE op' = [op EXCEPT ![a] = next] /\ pc' = [pc EXCEPT ![a] = "loaded"]
  <2>1. Typed /\ Allotted(a) /\ pc[a] = "load"
    BY DEF Inductive, Working, Load
  <2>2. op[a] \in Operations /\ op[a].key \in Key /\ op[a].kind \in Loading /\ op[a].uuid \in Nat
    BY <2>1 DEF Typed, Operations, Allotted
  <2>3. e \in Entries
    BY <2>1, <2>2 DEF Typed, Records
  <2>4. e.version \in Nat /\ e.value \in SUBSET Ids
    BY <2>3 DEF Entries
  <2>5. Prepared(op[a], e) \in SUBSET Ids
    <3>1. MessageId(e.version, op[a].uuid) \in Ids /\ Id(0, op[a].uuid) \in Ids
      BY <2>2, <2>4 DEF MessageId, Id, Ids
    <3> QED BY <2>4, <3>1 DEF Prepared
  <2> HIDE DEF e
  <2>6. next \in Operations
    BY <2>2, <2>3, <2>4, <2>5 DEF Operations
  <2>7. /\ next.kind = op[a].kind /\ next.key = op[a].key /\ next.uuid = op[a].uuid
        /\ next.base = e /\ next.expects = e.version /\ next.value = Prepared(op[a], e)
    BY <2>2 DEF Operations
  <2> HIDE DEF next
  <2>8. op'[a] = next /\ pc'[a] = "loaded"
    BY <1>2, <2>1 DEF Typed
  <2>9. UNCHANGED <<fields, rev, ops, sent, since, seen, expired>>
    BY DEF Load, Served, Told
  <2>10. Typed'
    BY <1>2, <2>1, <2>6, <2>9 DEF Typed
  <2>11. Allotted(a)'
    BY <2>1, <2>2, <2>4, <2>7, <2>8 DEF Allotted, Loading, Blind
  <2>12. Loaded(a)'
    <3>1. op'[a].kind = "send" => op'[a].value = e.value \union {MessageId(e.version, op[a].uuid)}
      BY <2>7, <2>8 DEF Prepared
    <3>2. op'[a].kind = "gc" => op'[a].value = e.value \ expired
      BY <2>7, <2>8 DEF Prepared
    <3>3. fields'[op'[a].key] = e
      BY <2>7, <2>8, <2>9 DEF e
    <3> QED BY <2>4, <2>7, <2>8, <2>9, <3>1, <3>2, <3>3 DEF Loaded
  <2>13. Fetched(a)'
    BY <2>8 DEF Fetched
  <2>14. Working'
    <3>1. \A b \in Agent \ {a} : pc'[b] = pc[b] /\ op'[b] = op[b]
      BY <1>2, <2>1 DEF Typed
    <3>2. \A b \in Agent \ {a} : Allotted(b)' /\ Loaded(b)' /\ Fetched(b)'
      BY <2>9, <2>10, <3>1, OthersKeepWorking
    <3> QED BY <2>11, <2>12, <2>13, <3>2 DEF Working
  <2>15. Rising' /\ NoMessageLost' /\ NoMessageMissed'
    BY <2>9 DEF Inductive, Rising, Messages, NoMessageLost, NoMessageMissed
  <2> QED BY <2>10, <2>14, <2>15 DEF Inductive
<1> QED BY <1>1, <1>2 DEF Load

LEMMA FetchWorks ==
  ASSUME Inductive, NEW a \in Agent, Fetch(a)
  PROVE  Inductive'
<1> DEFINE next == [op[a] EXCEPT !.copy = fields, !.rev = rev]
<1>1. Typed /\ Allotted(a) /\ Loaded(a) /\ pc[a] = "loaded" /\ ~Stale(a)
  BY DEF Inductive, Working, Fetch
<1>2. op[a] \in Operations /\ fields \in Records /\ rev \in Nat
  BY <1>1 DEF Typed
<1>3. next \in Operations
  BY <1>2 DEF Operations
<1>4. /\ next.kind = op[a].kind /\ next.key = op[a].key /\ next.uuid = op[a].uuid
      /\ next.base = op[a].base /\ next.expects = op[a].expects /\ next.value = op[a].value
      /\ next.copy = fields /\ next.rev = rev
  BY <1>2 DEF Operations
<1>5. op' = [op EXCEPT ![a] = next] /\ pc' = [pc EXCEPT ![a] = "fetched"]
  BY DEF Fetch
<1> HIDE DEF next
<1>6. op'[a] = next /\ pc'[a] = "fetched"
  BY <1>1, <1>5 DEF Typed
<1>7. UNCHANGED <<fields, rev, ops, sent, since, seen, expired>>
  BY DEF Fetch, Served, Told
<1>8. Typed'
  BY <1>1, <1>3, <1>5, <1>7 DEF Typed
<1>9. Allotted(a)'
  BY <1>1, <1>4, <1>6 DEF Allotted
<1>10. Loaded(a)'
  BY <1>1, <1>4, <1>6, <1>7 DEF Loaded
<1>11. Fetched(a)'
  BY <1>1, <1>2, <1>4, <1>6, <1>7 DEF Fetched, Stale
<1>12. Working'
  <2>1. \A b \in Agent \ {a} : pc'[b] = pc[b] /\ op'[b] = op[b]
    BY <1>1, <1>5 DEF Typed
  <2>2. \A b \in Agent \ {a} : Allotted(b)' /\ Loaded(b)' /\ Fetched(b)'
    BY <1>7, <1>8, <2>1, OthersKeepWorking
  <2> QED BY <1>9, <1>10, <1>11, <2>2 DEF Working
<1>13. Rising' /\ NoMessageLost' /\ NoMessageMissed'
  BY <1>7 DEF Inductive, Rising, Messages, NoMessageLost, NoMessageMissed
<1> QED BY <1>8, <1>12, <1>13 DEF Inductive

LEMMA RetryWorks ==
  ASSUME Inductive, NEW a \in Agent, Retry(a)
  PROVE  Inductive'
<1> DEFINE next == [op[a] EXCEPT !.tries = op[a].tries + 1, !.uuid = ops + 1]
<1>1. Typed /\ Allotted(a) /\ pc[a] = "loaded" /\ op[a].kind = "send"
  BY DEF Inductive, Working, Retry
<1>2. op[a] \in Operations /\ ops + 1 \in Nat
  BY <1>1 DEF Typed
<1>3. next \in Operations
  <2>1. op[a].tries + 1 \in Nat
    BY <1>2 DEF Operations
  <2> QED BY <1>2, <2>1 DEF Operations
<1>4. next.kind = op[a].kind /\ next.key = op[a].key /\ next.expects = op[a].expects
  BY <1>2 DEF Operations
<1>5. op' = [op EXCEPT ![a] = next] /\ pc' = [pc EXCEPT ![a] = "load"]
  BY DEF Retry
<1> HIDE DEF next
<1>6. op'[a] = next /\ pc'[a] = "load"
  BY <1>1, <1>5 DEF Typed
<1>7. UNCHANGED <<fields, rev, sent, since, seen, expired>> /\ ops' = ops + 1
  BY DEF Retry, Served, Told
<1>8. Typed'
  BY <1>1, <1>2, <1>3, <1>5, <1>7 DEF Typed
<1>9. Allotted(a)' /\ Loaded(a)' /\ Fetched(a)'
  BY <1>1, <1>4, <1>6 DEF Allotted, Loaded, Fetched, Kinds, Loading, Blind
<1>10. Working'
  <2>1. \A b \in Agent \ {a} : pc'[b] = pc[b] /\ op'[b] = op[b]
    BY <1>1, <1>5 DEF Typed
  <2>2. \A b \in Agent \ {a} : Allotted(b)' /\ Loaded(b)' /\ Fetched(b)'
    BY <1>7, <1>8, <2>1, OthersKeepWorking
  <2> QED BY <1>9, <2>2 DEF Working
<1>11. Rising' /\ NoMessageLost' /\ NoMessageMissed'
  BY <1>7 DEF Inductive, Rising, Messages, NoMessageLost, NoMessageMissed
<1> QED BY <1>8, <1>10, <1>11 DEF Inductive

LEMMA ExpireWorks ==
  ASSUME Inductive, Expire
  PROVE  Inductive'
<1>1. PICK m \in Messages \ expired : expired' = expired \union {m}
  BY DEF Expire
<1>2. UNCHANGED <<fields, rev, pc, op, ops, sent, since, seen>> /\ expired \subseteq expired'
  BY <1>1 DEF Expire, Served
<1>3. m \in Ids
  BY KeysKnown DEF Inductive, Typed, Records, Entries, Messages
<1>4. Typed'
  BY <1>1, <1>2, <1>3 DEF Inductive, Typed
<1>5. Working'
  <2> SUFFICES ASSUME NEW b \in Agent PROVE Allotted(b)' /\ Loaded(b)' /\ Fetched(b)'
    BY DEF Working
  <2>1. Allotted(b) /\ Loaded(b) /\ Fetched(b)
    BY DEF Inductive, Working
  <2>2. Allotted(b)'
    BY <1>2, <2>1 DEF Allotted
  <2>3. Loaded(b)'
    BY <1>2, <2>1 DEF Loaded
  <2>4. Fetched(b)'
    BY <1>2, <2>1 DEF Fetched
  <2> QED BY <2>2, <2>3, <2>4
<1>6. Rising' /\ NoMessageLost' /\ NoMessageMissed'
  BY <1>2 DEF Inductive, Rising, Messages, NoMessageLost, NoMessageMissed
<1> QED BY <1>4, <1>5, <1>6 DEF Inductive

LEMMA PollWorks ==
  ASSUME Inductive, NEW a \in Agent, Poll(a)
  PROVE  Inductive'
<1> DEFINE new == {m \in Messages \ expired : Before(since[a], m)}
<1>1. PICK last \in new : (\A m \in new : ~Before(last, m)) /\ since' = [since EXCEPT ![a] = last]
  BY DEF Poll
<1>2. seen' = [seen EXCEPT ![a] = @ \union new]
  BY DEF Poll
<1>3. UNCHANGED <<fields, rev, pc, op, ops, sent, expired>>
  BY DEF Poll, Served
<1>4. Typed /\ Messages \subseteq Ids
  BY KeysKnown DEF Inductive, Typed, Records, Entries, Messages
<1>5. new \subseteq Messages \ expired /\ new \subseteq Ids
  BY <1>4
<1>6. Typed'
  BY <1>1, <1>2, <1>3, <1>4, <1>5 DEF Typed
<1>7. Working'
  BY <1>3 DEF Inductive, Working, Allotted, Loaded, Fetched
<1>8. Rising'
  BY <1>1, <1>3, <1>4, <1>5 DEF Inductive, Rising, Typed, Messages
<1>9. NoMessageMissed'
  <2> SUFFICES ASSUME NEW b \in Agent, NEW m \in Messages'
               PROVE  m \in seen'[b] \union expired' \/ Before(since'[b], m)
    BY DEF NoMessageMissed
  <2>1. m \in Messages /\ (m \in seen[b] \union expired \/ Before(since[b], m))
    BY <1>3 DEF Inductive, NoMessageMissed, Messages
  <2>2. CASE b # a
    BY <1>1, <1>2, <1>3, <1>4, <2>1, <2>2 DEF Typed
  <2>3. CASE b = a
    <3>1. seen'[a] = seen[a] \union new
      BY <1>2, <1>4 DEF Typed
    <3>2. m \in expired \/ m \in seen[a] \/ m \in new
      BY <2>1, <2>3
    <3> QED BY <1>3, <2>3, <3>1, <3>2
  <2> QED BY <2>2, <2>3
<1>10. NoMessageLost'
  BY <1>3 DEF Inductive, NoMessageLost, Messages
<1> QED BY <1>6, <1>7, <1>8, <1>9, <1>10 DEF Inductive

------------------------------------------------------------------------------
(* Save, the only step that changes the record *)

\* A save that the server accepts was prepared from the record as it is: with an
\* expected version, from the entry that it replaces.
LEMMA SavesWhatItSaw ==
  ASSUME Fenced, Inductive, NEW a \in Agent, Save(a)
  PROVE  /\ fields' = [fields EXCEPT ![op[a].key] = Written(op[a], @)]
         /\ op[a].kind \in Loading /\ op[a].key \notin LooseKeys =>
              op[a].base = fields[op[a].key] /\ op[a].expects = fields[op[a].key].version
<1>1. pc[a] = "fetched" /\ op[a].rev = rev /\ Allotted(a) /\ Loaded(a) /\ Fetched(a)
  BY DEF Save, Inductive, Working
<1>2. op[a].copy = fields
  BY <1>1 DEF Fetched
<1>3. fields' = [fields EXCEPT ![op[a].key] = Written(op[a], @)]
  BY <1>2 DEF Save
<1>4. ASSUME op[a].kind \in Loading, op[a].key \notin LooseKeys
      PROVE  op[a].base = fields[op[a].key] /\ op[a].expects = fields[op[a].key].version
  <2>1. op[a].expects # NoExpectation
    BY <1>1, <1>4 DEF Allotted, NoExpectation
  <2>2. op[a].expects = fields[op[a].key].version
    BY <1>1, <2>1 DEF Fetched
  <2> QED BY <1>1, <1>4, <2>2 DEF Loaded
<1> QED BY <1>3, <1>4

LEMMA SaveWorks ==
  ASSUME Fenced, Inductive, NEW a \in Agent, Save(a)
  PROVE  Inductive'
<1> DEFINE k == op[a].key
<1> DEFINE e == fields[k]
<1> DEFINE w == Written(op[a], e)
<1>1. /\ Typed /\ Allotted(a) /\ Loaded(a) /\ pc[a] = "fetched" /\ op[a].rev = rev
      /\ \A b \in Agent : Allotted(b) /\ Loaded(b) /\ Fetched(b)
  BY DEF Save, Inductive, Working
<1>2. /\ op[a] \in Operations /\ k \in Key /\ op[a].uuid \in Nat /\ op[a].value \in SUBSET Ids
      /\ op[a].expects \in Nat \union {NoExpectation}
  BY <1>1 DEF Typed, Operations
<1>3. e \in Entries
  BY <1>1, <1>2 DEF Typed, Records
<1>4. e.version \in Nat /\ e.value \in SUBSET Ids
  BY <1>3 DEF Entries
<1>5. fields' = [fields EXCEPT ![k] = w] /\ rev' = rev + 1
  BY SavesWhatItSaw DEF Save
<1>6. op[a].kind \in Loading /\ k \notin LooseKeys => op[a].base = e /\ op[a].expects = e.version
  BY SavesWhatItSaw
<1>7. w \in Entries
  <2>1. Id(0, op[a].uuid) \in Ids
    BY <1>2 DEF Id, Ids
  <2> QED BY <1>2, <1>4, <2>1, AbsentIsEntry DEF Written, Entry, Entries
<1>8. op[a].kind \in Loading => w = Entry(op[a].value, e.version + 1)
  BY DEF Written, Loading
<1>9. op[a].kind \notin Loading => k \in LooseKeys
  BY <1>1 DEF Allotted, Kinds
<1>10. op[a].kind \in Loading => w.value = op[a].value /\ w.version = e.version + 1
  BY <1>8 DEF Entry
<1> HIDE DEF w, e, k
<1>11. fields'[k] = w /\ \A j \in Key \ {k} : fields'[j] = fields[j]
  BY <1>1, <1>2, <1>5 DEF Typed, Records
<1>12. /\ op' = [op EXCEPT ![a] = NoOp] /\ pc' = [pc EXCEPT ![a] = "idle"]
       /\ UNCHANGED <<ops, since, seen, expired>>
       /\ sent' = IF op[a].kind = "send" THEN sent \union {MessageId(op[a].expects, op[a].uuid)} ELSE sent
  BY DEF Save
<1>13. op[a].kind \in Loading => op[a].expects \in Nat
  BY <1>1 DEF Allotted
<1>14. op[a].kind = "send" => MessageId(op[a].expects, op[a].uuid) \in Ids
  BY <1>2, <1>13 DEF MessageId, Id, Ids, Loading
<1>15. Typed'
  <2>1. fields' \in Records
    BY <1>1, <1>2, <1>5, <1>7 DEF Typed, Records
  <2>2. rev' \in Nat
    BY <1>1, <1>5 DEF Typed
  <2>3. sent' \subseteq Ids
    BY <1>1, <1>12, <1>14 DEF Typed
  <2>4. op' \in [Agent -> Operations] /\ pc' \in [Agent -> {"idle", "load", "loaded", "fetched"}]
    BY <1>1, <1>12, NoOpIsOperation DEF Typed
  <2> QED BY <1>1, <1>12, <2>1, <2>2, <2>3, <2>4 DEF Typed
<1>16. Working'
  <2> SUFFICES ASSUME NEW b \in Agent PROVE Allotted(b)' /\ Loaded(b)' /\ Fetched(b)'
    BY DEF Working
  <2>1. CASE b = a
    <3>1. pc'[a] = "idle"
      BY <1>1, <1>12 DEF Typed
    <3> QED BY <2>1, <3>1 DEF Allotted, Loaded, Fetched
  <2>2. CASE b # a
    <3>1. pc'[b] = pc[b] /\ op'[b] = op[b] /\ op[b] \in Operations
      BY <1>1, <1>12, <2>2 DEF Typed
    <3>2. op[b].key \in Key /\ op[b].rev \in Nat
      BY <3>1 DEF Operations
    <3>3. Allotted(b)'
      BY <1>1, <3>1 DEF Allotted
    <3>4. Fetched(b)'
      <4>1. pc[b] = "fetched" => op[b].rev <= rev
        BY <1>1 DEF Fetched
      <4> QED BY <1>1, <1>5, <3>1, <3>2, <4>1 DEF Fetched, Typed
    <3>5. Loaded(b)'
      <4>1. SUFFICES ASSUME pc[b] \in {"loaded", "fetched"}, op[b].kind \in Loading,
                            op[b].key \notin LooseKeys
                     PROVE  Loaded(b)'
        BY <3>1 DEF Loaded
      <4>2. Loaded(b) /\ op[b].expects \in Nat
        BY <1>1, <4>1 DEF Allotted
      <4>3. CASE op[b].key # k
        <5>1. fields'[op[b].key] = fields[op[b].key]
          BY <1>11, <3>2, <4>3
        <5> QED BY <1>12, <3>1, <4>1, <4>2, <5>1 DEF Loaded
      <4>4. CASE op[b].key = k
        <5>1. op[a].kind \in Loading
          BY <1>9, <4>1, <4>4
        <5>2. fields'[op[b].key].version = fields[op[b].key].version + 1
          BY <1>10, <1>11, <4>4, <5>1 DEF e
        <5>3. op[b].expects <= fields[op[b].key].version /\ fields[op[b].key].version \in Nat
          BY <1>4, <4>1, <4>2, <4>4 DEF Loaded, e
        <5> QED BY <1>12, <3>1, <4>1, <4>2, <5>2, <5>3 DEF Loaded
      <4> QED BY <4>3, <4>4
    <3> QED BY <3>3, <3>4, <3>5
  <2> QED BY <2>1, <2>2
<1>17. CASE k # Channel
  <2>1. fields'[Channel] = fields[Channel] /\ op[a].kind # "send"
    BY <1>1, <1>11, <1>17, KeysKnown DEF Allotted, k
  <2>2. Rising' /\ NoMessageLost' /\ NoMessageMissed'
    BY <1>12, <2>1 DEF Inductive, Rising, Messages, NoMessageLost, NoMessageMissed
  <2> QED BY <1>15, <1>16, <2>2 DEF Inductive
<1>18. CASE k = Channel
  <2>1. Channel \notin LooseKeys /\ Channel \notin CasKeys
    BY BusAssumption
  <2>2. op[a].kind \in {"send", "gc"}
    BY <1>1, <1>9, <1>18, <2>1 DEF Allotted, Loading, Kinds, k
  <2>3. op[a].kind \in Loading
    BY <2>2 DEF Loading
  <2>4. op[a].base = e /\ op[a].expects = e.version
    BY <1>6, <1>18, <2>1, <2>3
  <2>5. e = fields[Channel] /\ Messages = e.value /\ Messages' = op[a].value
        /\ fields'[Channel].version = e.version + 1
    BY <1>10, <1>11, <1>18, <2>3 DEF Messages, e
  <2> DEFINE id == MessageId(e.version, op[a].uuid)
  <2>6. op[a].kind = "send" => Messages' = Messages \union {id}
    BY <1>1, <1>18, <2>1, <2>3, <2>4, <2>5 DEF Loaded, k
  <2>7. op[a].kind = "gc" => Messages' \subseteq Messages /\ Messages \subseteq Messages' \union expired
    BY <1>1, <1>18, <2>1, <2>3, <2>4, <2>5 DEF Loaded, k
  <2>8. id.version = e.version + 1 /\ id \in Ids
    BY <1>2, <1>4 DEF MessageId, Id, Ids
  <2> HIDE DEF id
  <2>9. Rising /\ Messages \subseteq Ids /\ Messages' \subseteq Messages \union {id}
    BY <1>4, <2>2, <2>5, <2>6, <2>7 DEF Inductive
  <2>10. Rising'
    <3>1. \A m \in Messages' : m.version <= e.version + 1
      BY <1>4, <2>5, <2>8, <2>9 DEF Rising, Ids
    <3>2. \A b \in Agent : since[b].version <= e.version + 1
      BY <1>1, <1>4, <2>5, <2>9 DEF Rising, Typed, Ids
    <3> QED BY <1>12, <2>5, <3>1, <3>2 DEF Rising
  <2>11. NoMessageLost'
    <3>1. Messages \subseteq Messages' \union expired
      BY <2>2, <2>6, <2>7
    <3>2. op[a].kind = "send" => id \in Messages'
      BY <2>6
    <3>3. sent' \subseteq sent \union {id} /\ (op[a].kind # "send" => sent' = sent)
      BY <1>12, <2>4 DEF id
    <3>4. sent \subseteq Messages \union expired
      BY DEF Inductive, NoMessageLost
    <3>5. sent' \subseteq Messages' \union expired
      BY <3>1, <3>2, <3>3, <3>4
    <3> QED BY <1>12, <3>5 DEF NoMessageLost
  <2>12. NoMessageMissed'
    <3> SUFFICES ASSUME NEW b \in Agent, NEW m \in Messages'
                 PROVE  m \in seen[b] \union expired \/ Before(since[b], m)
      BY <1>12 DEF NoMessageMissed
    <3>1. CASE m \in Messages
      BY <3>1 DEF Inductive, NoMessageMissed
    <3>2. CASE m = id
      <4>1. since[b].version <= e.version /\ since[b].version \in Nat
        BY <1>1, <2>5, <2>9 DEF Rising, Typed, Ids
      <4> QED BY <1>4, <2>8, <3>2, <4>1 DEF Before
    <3> QED BY <2>9, <3>1, <3>2
  <2> QED BY <1>15, <1>16, <2>10, <2>11, <2>12 DEF Inductive
<1> QED BY <1>17, <1>18

------------------------------------------------------------------------------
LEMMA NextWorks == ASSUME Fenced, Inductive, [Next]_vars PROVE Inductive'
<1>1. CASE UNCHANGED vars
  BY <1>1 DEF vars, Inductive, Typed, Working, Allotted, Loaded, Fetched, Rising, Messages,
              NoMessageLost, NoMessageMissed
<1>2. CASE Expire
  BY <1>2, ExpireWorks
<1>3. ASSUME NEW a \in Agent, Step(a) PROVE Inductive'
  <2>1. CASE StartSend(a)
    BY <2>1, StartWorks, KeysKnown DEF StartSend, Kinds, Loading, Blind
  <2>2. CASE StartGc(a)
    BY <2>2, StartWorks, KeysKnown DEF StartGc, Kinds, Loading, Blind
  <2>3. CASE StartCas(a)
    <3>1. PICK k \in CasKeys : Start(a, "cas", k)
      BY <2>3 DEF StartCas
    <3> QED BY <3>1, StartWorks, KeysKnown DEF Kinds, Loading, Blind
  <2>4. CASE StartBlind(a)
    <3>1. PICK kind \in Blind, k \in LooseKeys : Start(a, kind, k)
      BY <2>4 DEF StartBlind
    <3> QED BY <3>1, StartWorks, KeysKnown DEF Kinds, Loading, Blind
  <2>5. CASE Load(a)
    BY <2>5, LoadWorks
  <2>6. CASE Fetch(a)
    BY <2>6, FetchWorks
  <2>7. CASE Retry(a)
    BY <2>7, RetryWorks
  <2>8. CASE GiveUp(a) \/ Abort(a)
    BY <2>8, QuitWorks DEF GiveUp, Abort
  <2>9. CASE Save(a)
    BY <2>9, SaveWorks
  <2>10. CASE Poll(a)
    BY <2>10, PollWorks
  <2> QED BY <1>3, <2>1, <2>2, <2>3, <2>4, <2>5, <2>6, <2>7, <2>8, <2>9, <2>10 DEF Step
<1> QED BY <1>1, <1>2, <1>3 DEF Next

LEMMA InductiveHolds == ASSUME Fenced PROVE Spec => []Inductive
<1>1. Init => Inductive
  BY Initially
<1>2. Inductive /\ [Next]_vars => Inductive'
  BY NextWorks
<1> QED BY <1>1, <1>2, PTL DEF Spec

\* However many agents send, collect and retry, a message whose send() returned stays
\* in its channel until it expires: the two reads and the save of a publish need no
\* lock, if the server refuses stale records.
THEOREM MessagesAreKept == ASSUME Fenced PROVE Spec => []NoMessageLost
<1>1. Inductive => NoMessageLost
  BY DEF Inductive
<1> QED BY <1>1, InductiveHolds, PTL

\* A reader that asks for what came after the last id it received misses no message:
\* ids are drawn from the version under which they are saved, in that order.
THEOREM NothingIsMissed == ASSUME Fenced PROVE Spec => []NoMessageMissed
<1>1. Inductive => NoMessageMissed
  BY DEF Inductive
<1> QED BY <1>1, InductiveHolds, PTL

\* A writer that expects a version replaces the entry that it made its value from, on
\* keys that nobody puts, deletes or publishes without a version; bus_aba shows what
\* happens on the others.
THEOREM StaleWritersFail ==
  ASSUME Fenced, CasKeys \intersect LooseKeys = {}
  PROVE  Spec => NoSilentOverwrite
<1> DEFINE Fresh == \A a \in Agent : Save(a) /\ op[a].expects # NoExpectation =>
                      fields[op[a].key] = op[a].base
<1>1. Inductive /\ [Next]_vars => [Fresh]_vars
  <2> SUFFICES ASSUME Inductive, NEW a \in Agent, Save(a), op[a].expects # NoExpectation
               PROVE  fields[op[a].key] = op[a].base
    OBVIOUS
  <2>1. Allotted(a) /\ pc[a] = "fetched"
    BY DEF Inductive, Working, Save
  <2>2. op[a].kind \in Loading
    BY <2>1 DEF Allotted, Kinds
  <2>3. op[a].key \notin LooseKeys
    BY <2>1, <2>2, BusAssumption DEF Allotted, Loading
  <2> QED BY <2>2, <2>3, SavesWhatItSaw
<1>2. Spec => [][Fresh]_vars
  BY <1>1, InductiveHolds, PTL DEF Spec
<1> QED BY <1>2 DEF NoSilentOverwrite

------------------------------------------------------------------------------
(* Every operation happens at once *)

\* The messages there are or were have versions of their own, up to the channel's;
\* a reader has received nothing later than the last one; what is deleted is there.
Ordered ==
  /\ Messages \subseteq sent
  /\ \A m \in sent : m.version \in 1..fields[Channel].version
  /\ \A m, n \in sent : m.version = n.version => m = n
  /\ \A a \in Agent :
       /\ since[a] \in sent \union {NoId}
       /\ \A m \in seen[a] : m.version <= since[a].version

DeletesWhatIsThere ==
  \A a \in Agent : pc[a] = "fetched" /\ op[a].kind = "delete" => op[a].copy[op[a].key].there

LEMMA OrderedInit == Init => Ordered /\ DeletesWhatIsThere
BY KeysKnown DEF Init, Ordered, DeletesWhatIsThere, Messages, Absent

\* The channel, in a save
LEMMA ChannelSaved ==
  ASSUME Fenced, Inductive, NEW a \in Agent, Save(a)
  PROVE  /\ fields[Channel].version \in Nat
         /\ op[a].kind = "send" =>
              /\ fields'[Channel].version = fields[Channel].version + 1
              /\ \E m \in Ids :
                   /\ m.version = fields[Channel].version + 1
                   /\ Messages' = Messages \union {m} /\ sent' = sent \union {m}
         /\ op[a].kind = "gc" =>
              /\ fields'[Channel].version = fields[Channel].version + 1
              /\ Messages' \subseteq Messages /\ Messages \subseteq Messages' \union expired
              /\ sent' = sent
         /\ op[a].kind \notin {"send", "gc"} => fields'[Channel] = fields[Channel] /\ sent' = sent
<1> DEFINE e == fields[Channel]
<1>1. Typed /\ Allotted(a) /\ Loaded(a) /\ pc[a] = "fetched"
  BY DEF Inductive, Working, Save
<1>2. e \in Entries /\ op[a] \in Operations
  BY <1>1, KeysKnown DEF Typed, Records
<1>3. e.version \in Nat /\ op[a].uuid \in Nat /\ op[a].key \in Key
  BY <1>2 DEF Entries, Operations
<1>4. sent' = IF op[a].kind = "send" THEN sent \union {MessageId(op[a].expects, op[a].uuid)} ELSE sent
  BY DEF Save
<1>5. fields' = [fields EXCEPT ![op[a].key] = Written(op[a], fields[op[a].key])]
  BY SavesWhatItSaw
<1>6. ASSUME op[a].kind \in {"send", "gc"}
      PROVE  /\ fields'[Channel] = Entry(op[a].value, e.version + 1)
             /\ op[a].base = e /\ op[a].expects = e.version
  <2>1. op[a].key = Channel /\ Channel \notin LooseKeys /\ op[a].kind \in Loading
    BY <1>1, <1>6, BusAssumption DEF Allotted, Loading
  <2>2. fields'[Channel] = Written(op[a], e)
    BY <1>1, <1>5, <2>1, KeysKnown DEF Typed, Records
  <2> QED BY <1>6, <2>1, <2>2, SavesWhatItSaw DEF Written
<1>7. CASE op[a].kind = "send"
  <2> DEFINE m == MessageId(e.version, op[a].uuid)
  <2>1. m \in Ids /\ m.version = e.version + 1
    BY <1>3 DEF MessageId, Id, Ids
  <2>2. op[a].key = Channel /\ Channel \notin LooseKeys
    BY <1>1, <1>7, BusAssumption DEF Allotted
  <2>3. op[a].value = e.value \union {m}
    BY <1>1, <1>6, <1>7, <2>2 DEF Loaded, Loading
  <2>4. Messages' = Messages \union {m} /\ sent' = sent \union {m}
    BY <1>4, <1>6, <1>7, <2>3 DEF Messages, Entry
  <2>5. fields'[Channel].version = e.version + 1
    BY <1>6, <1>7 DEF Entry
  <2> HIDE DEF m
  <2> QED BY <1>3, <1>7, <2>1, <2>4, <2>5
<1>8. CASE op[a].kind = "gc"
  <2>1. op[a].key = Channel /\ Channel \notin LooseKeys
    BY <1>1, <1>8, BusAssumption DEF Allotted
  <2>2. op[a].value \subseteq e.value /\ e.value \subseteq op[a].value \union expired
    BY <1>1, <1>6, <1>8, <2>1 DEF Loaded, Loading
  <2>3. Messages' = op[a].value /\ fields'[Channel].version = e.version + 1
    BY <1>6, <1>8 DEF Messages, Entry
  <2> QED BY <1>3, <1>4, <1>8, <2>2, <2>3 DEF Messages
<1>9. CASE op[a].kind \notin {"send", "gc"}
  <2>1. op[a].key # Channel
    BY <1>1, <1>9, BusAssumption DEF Allotted, Kinds, Loading, Blind
  <2> QED BY <1>1, <1>3, <1>4, <1>5, <1>9, <2>1, KeysKnown DEF Typed, Records
<1> QED BY <1>7, <1>8, <1>9

LEMMA OrderedSave ==
  ASSUME Fenced, Inductive, Ordered, NEW a \in Agent, Save(a)
  PROVE  Ordered'
<1>1. UNCHANGED <<since, seen>> /\ sent \subseteq Ids /\ op[a].kind \in Kinds
  BY DEF Save, Inductive, Typed, Working, Allotted
<1>2. CASE op[a].kind = "send"
  <2>1. PICK m \in Ids : /\ m.version = fields[Channel].version + 1
                         /\ Messages' = Messages \union {m} /\ sent' = sent \union {m}
    BY <1>2, ChannelSaved
  <2>2. fields'[Channel].version = fields[Channel].version + 1 /\ fields[Channel].version \in Nat
    BY <1>2, ChannelSaved
  <2>3. \A n \in sent : n.version \in 1..fields[Channel].version
    BY DEF Ordered
  <2>4. \A n \in sent' : n.version \in 1..fields'[Channel].version
    BY <2>1, <2>2, <2>3
  <2>5. \A n, l \in sent' : n.version = l.version => n = l
    <3>1. \A n \in sent : n.version # m.version
      BY <2>1, <2>2, <2>3
    <3> QED BY <2>1, <3>1 DEF Ordered
  <2>6. Messages' \subseteq sent' /\ sent \subseteq sent'
    BY <2>1 DEF Ordered
  <2> QED BY <1>1, <2>4, <2>5, <2>6 DEF Ordered
<1>3. CASE op[a].kind # "send"
  <2>1. /\ Messages' \subseteq Messages /\ sent' = sent
        /\ fields'[Channel].version \in {fields[Channel].version, fields[Channel].version + 1}
        /\ fields[Channel].version \in Nat
    BY <1>3, ChannelSaved DEF Messages
  <2> QED BY <1>1, <2>1 DEF Ordered
<1> QED BY <1>2, <1>3

\* What a reader receives is all later than what it has received
LEMMA ReceivesLater ==
  ASSUME Inductive, Ordered, NEW a \in Agent
  PROVE  /\ since[a].version \in Nat
         /\ \A m \in Messages : m.version \in Nat /\ (Before(since[a], m) <=> m.version > since[a].version)
<1>1. since[a] \in Ids /\ Messages \subseteq Ids
  BY KeysKnown DEF Inductive, Typed, Records, Entries, Messages
<1>2. since[a].version \in Nat /\ \A m \in Messages : m.version \in Nat
  BY <1>1 DEF Ids
<1> SUFFICES ASSUME NEW m \in Messages PROVE Before(since[a], m) <=> m.version > since[a].version
  BY <1>2
<1>3. m \in sent /\ m.version >= 1
  BY DEF Ordered
<1>4. CASE since[a] = NoId
  BY <1>2, <1>3, <1>4 DEF Before, NoId, Id
<1>5. CASE since[a] \in sent
  <2>1. m.version = since[a].version => m = since[a]
    BY <1>3, <1>5 DEF Ordered
  <2>2. m.uuid \in Nat
    BY <1>1 DEF Ids
  <2> QED BY <1>2, <2>1, <2>2 DEF Before
<1> QED BY <1>4, <1>5 DEF Ordered

LEMMA OrderedPoll ==
  ASSUME Inductive, Ordered, NEW a \in Agent, Poll(a)
  PROVE  Ordered' /\ Atomic!AtomicNext
<1> DEFINE new == {m \in Messages \ expired : Before(since[a], m)}
<1>1. PICK last \in new : (\A m \in new : ~Before(last, m)) /\ since' = [since EXCEPT ![a] = last]
  BY DEF Poll
<1>2. seen' = [seen EXCEPT ![a] = @ \union new] /\ UNCHANGED <<fields, sent, expired>>
  BY DEF Poll, Served
<1>3. /\ since \in [Agent -> Ids] /\ seen \in [Agent -> SUBSET Ids] /\ Messages \subseteq Ids
      /\ new \subseteq Ids /\ new \subseteq sent
  BY KeysKnown DEF Inductive, Typed, Records, Entries, Messages, Ordered
<1>4. new = {m \in Messages \ expired : m.version > since[a].version}
  BY ReceivesLater
<1>5. \A m \in new : m.version \in Nat /\ m.version > since[a].version
  BY <1>4, ReceivesLater
<1>6. \A m \in new \ {last} : m.version < last.version
  <2> SUFFICES ASSUME NEW m \in new \ {last} PROVE m.version < last.version
    OBVIOUS
  <2>1. ~Before(last, m) /\ m.version # last.version
    BY <1>1, <1>3 DEF Ordered
  <2> QED BY <1>5, <2>1 DEF Before
<1> HIDE DEF new
<1>7. \A b \in Agent : since'[b] = IF b = a THEN last ELSE since[b]
  BY <1>1, <1>3
<1>8. \A b \in Agent : seen'[b] = IF b = a THEN seen[a] \union new ELSE seen[b]
  BY <1>2, <1>3
<1>9. Ordered'
  <2>1. \A b \in Agent : since'[b] \in sent' \union {NoId}
    BY <1>1, <1>2, <1>3, <1>7 DEF Ordered
  <2>2. \A b \in Agent : \A m \in seen'[b] : m.version <= since'[b].version
    <3> SUFFICES ASSUME NEW b \in Agent, NEW m \in seen'[b] PROVE m.version <= since'[b].version
      OBVIOUS
    <3>1. CASE b # a
      BY <1>7, <1>8, <3>1 DEF Ordered
    <3>2. CASE b = a /\ m \in new
      BY <1>5, <1>6, <1>7, <3>2
    <3>3. CASE b = a /\ m \in seen[a]
      <4>1. m.version <= since[a].version /\ m.version \in Nat
        BY <1>3, <3>3 DEF Ordered, Ids
      <4> QED BY <1>1, <1>5, <1>7, <3>3, <4>1, ReceivesLater
    <3> QED BY <1>8, <3>1, <3>2, <3>3
  <2> QED BY <1>2, <2>1, <2>2 DEF Ordered, Messages
<1>10. Atomic!Receive(a)
  <2>1. new \intersect seen[a] = {}
    <3>1. \A m \in seen[a] : m.version <= since[a].version /\ m.version \in Nat
      BY <1>3 DEF Ordered, Ids
    <3> QED BY <1>5, <3>1, ReceivesLater
  <2> DEFINE marks == [b \in Agent |-> since[b].version]
  <2>2. [b \in Agent |-> since'[b].version] = [marks EXCEPT ![a] = last.version]
    BY <1>7
  <2>3. new = {m \in Messages \ expired : m.version > marks[a]}
    BY <1>4
  <2>4. UNCHANGED <<Messages, fields>>
    BY <1>2 DEF Messages
  <2> QED BY <1>1, <1>2, <1>6, <2>1, <2>2, <2>3, <2>4 DEF Atomic!Receive, Atomic!log
<1> QED BY <1>9, <1>10 DEF Atomic!AtomicNext

LEMMA DeletesStep ==
  ASSUME Inductive, DeletesWhatIsThere, [Next]_vars
  PROVE  DeletesWhatIsThere'
<1> SUFFICES ASSUME NEW a \in Agent, pc'[a] = "fetched", op'[a].kind = "delete"
             PROVE  op'[a].copy[op'[a].key].there
  BY DEF DeletesWhatIsThere
<1>1. pc \in [Agent -> {"idle", "load", "loaded", "fetched"}] /\ op \in [Agent -> Operations]
  BY DEF Inductive, Typed
<1>2. CASE pc'[a] = pc[a] /\ op'[a] = op[a]
  BY <1>2 DEF DeletesWhatIsThere
<1>3. CASE Fetch(a)
  <2> DEFINE next == [op[a] EXCEPT !.copy = fields, !.rev = rev]
  <2>1. op'[a] = next /\ (op[a].kind = "delete" => fields[op[a].key].there)
    BY <1>1, <1>3 DEF Fetch
  <2>2. next.copy = fields /\ next.key = op[a].key /\ next.kind = op[a].kind
    BY <1>1 DEF Operations
  <2> QED BY <2>1, <2>2
<1>4. ASSUME NEW b \in Agent, Step(b), ~(a = b /\ Fetch(a))
      PROVE  pc'[a] = pc[a] /\ op'[a] = op[a]
  <2>1. CASE a # b
    BY <1>1, <1>4, <2>1
       DEF Step, StartSend, StartGc, StartCas, StartBlind, Start, Load, Fetch, Retry, GiveUp, Quit,
           Abort, Save, Poll
  <2>2. CASE a = b
    <3>1. ASSUME NEW kind, NEW key, Start(a, kind, key) PROVE pc'[a] # "fetched"
      BY <1>1, <3>1 DEF Start
    <3>2. ~(Load(a) \/ Retry(a) \/ GiveUp(a) \/ Abort(a) \/ Save(a))
      BY <1>1 DEF Load, Retry, GiveUp, Abort, Quit, Save
    <3>3. ~(StartSend(a) \/ StartGc(a) \/ StartCas(a) \/ StartBlind(a))
      BY <3>1 DEF StartSend, StartGc, StartCas, StartBlind
    <3> QED BY <1>4, <2>2, <3>2, <3>3 DEF Step, Poll
  <2> QED BY <2>1, <2>2
<1>5. CASE Expire \/ UNCHANGED vars
  BY <1>2, <1>5 DEF Expire, vars
<1> QED BY <1>2, <1>3, <1>4, <1>5 DEF Next

LEMMA SaveAtOnce ==
  ASSUME Fenced, Inductive, DeletesWhatIsThere, NEW a \in Agent, Save(a)
  PROVE  Atomic!AtomicNext
<1> DEFINE vals == [k \in CasKeys \union LooseKeys |-> fields[k]]
<1> DEFINE vals2 == [k \in CasKeys \union LooseKeys |-> fields'[k]]
<1>1. /\ Typed /\ Allotted(a) /\ Fetched(a) /\ pc[a] = "fetched" /\ op[a].rev = rev
      /\ op[a].kind \in Kinds
  BY DEF Inductive, Working, Save, Allotted
<1>2. UNCHANGED <<since, seen, expired>>
  BY DEF Save
<1>9. PICK key \in Key : key = op[a].key
  BY <1>1 DEF Typed, Operations
<1> DEFINE w == Written(op[a], fields[key])
<1>3. fields \in Records /\ fields' = [fields EXCEPT ![key] = w]
  BY <1>1, <1>9, SavesWhatItSaw DEF Typed
<1>4. \A k \in CasKeys \union LooseKeys : k \in Key /\ k # Channel
  BY KeysKnown, BusAssumption
<1> HIDE DEF w
<1>5. ASSUME op[a].kind \in {"send", "gc"} PROVE vals2 = vals
  <2>1. key = Channel
    BY <1>1, <1>5, <1>9 DEF Allotted
  <2> QED BY <1>3, <1>4, <2>1 DEF Records
<1>6. CASE op[a].kind = "send"
  <2>1. Atomic!Send
    BY <1>2, <1>5, <1>6, ChannelSaved DEF Atomic!Send, Atomic!readers
  <2> QED BY <2>1 DEF Atomic!AtomicNext
<1>7. CASE op[a].kind = "gc"
  <2>1. Atomic!Collect
    BY <1>2, <1>5, <1>7, ChannelSaved DEF Atomic!Collect, Atomic!readers
  <2> QED BY <2>1 DEF Atomic!AtomicNext
<1>8. CASE op[a].kind \notin {"send", "gc"}
  <2>1. UNCHANGED <<Messages, fields[Channel].version, sent>>
    BY <1>8, ChannelSaved DEF Messages
  <2>2. key \in CasKeys \union LooseKeys /\ (op[a].kind # "cas" => key \in LooseKeys) /\ (op[a].kind = "cas" => key \in CasKeys)
    BY <1>1, <1>8, <1>9 DEF Allotted, Kinds, Loading, Blind
  <2>3. vals2[key] = w /\ vals[key] = fields[key]
    BY <1>3, <2>2 DEF Records
  <2>4. vals2 = [vals EXCEPT ![key] = vals2[key]]
    BY <1>3, <1>4, <2>2 DEF Records
  <2>5. Atomic!Alter(key)
    BY <1>2, <2>1, <2>4 DEF Atomic!Alter, Atomic!log, Atomic!readers
  <2>6. CASE op[a].kind = "cas"
    <3>1. w.there /\ w.version = fields[key].version + 1
      BY <2>6 DEF w, Written, Entry
    <3>2. Atomic!Swap(key)
      BY <2>3, <2>5, <3>1 DEF Atomic!Swap
    <3> QED BY <2>2, <2>6, <3>2 DEF Atomic!AtomicNext
  <2>7. CASE op[a].kind \in {"put", "publish"}
    <3>1. w.there /\ w.version \in {0, fields[key].version + 1}
      BY <2>7 DEF w, Written, Entry
    <3>2. Atomic!Write(key)
      BY <2>3, <2>5, <3>1 DEF Atomic!Write
    <3> QED BY <2>2, <2>7, <3>2 DEF Atomic!AtomicNext
  <2>8. CASE op[a].kind = "delete"
    <3>1. w = Absent
      BY <2>8 DEF w, Written
    <3>2. fields[key].there
      BY <1>1, <2>8, <1>9 DEF Fetched, DeletesWhatIsThere
    <3>3. Atomic!Write(key)
      BY <2>3, <2>5, <3>1, <3>2 DEF Atomic!Write
    <3> QED BY <2>2, <2>8, <3>3 DEF Atomic!AtomicNext
  <2> QED BY <1>1, <1>8, <2>6, <2>7, <2>8 DEF Kinds, Loading, Blind
<1> QED BY <1>6, <1>7, <1>8

\* If the server refuses stale records, the bus implements a log and registers on which
\* every operation happens at once: that a write replaces the whole record, and that
\* its version was read in another read than its content, cannot be noticed.
THEOREM BusLinearizes ==
  ASSUME Fenced
  PROVE  Spec => BusIsAtomic
<1> DEFINE Inv == Inductive /\ Ordered /\ DeletesWhatIsThere
<1>1. Init => Inv
  BY Initially, OrderedInit
<1>2. Init => Atomic!AtomicInit
  BY KeysKnown DEF Init, Atomic!AtomicInit, Messages, Absent, NoId, Id
<1>3. ASSUME Inv, [Next]_vars
      PROVE  Ordered' /\ [Atomic!AtomicNext]_(Atomic!busVars)
  <2>1. ASSUME NEW a \in Agent, Save(a) PROVE Ordered' /\ Atomic!AtomicNext
    BY <1>3, <2>1, OrderedSave, SaveAtOnce
  <2>2. ASSUME NEW a \in Agent, Poll(a) PROVE Ordered' /\ Atomic!AtomicNext
    BY <1>3, <2>2, OrderedPoll
  <2>3. CASE Expire
    <3>1. UNCHANGED <<fields, sent, since, seen>> /\ expired \subseteq expired' /\ expired' \subseteq expired \union Messages
      BY <2>3 DEF Expire, Served
    <3>2. Ordered'
      BY <1>3, <3>1 DEF Ordered, Messages
    <3>3. Atomic!Age
      BY <3>1 DEF Atomic!Age, Atomic!log, Atomic!readers, Messages
    <3> QED BY <3>2, <3>3 DEF Atomic!AtomicNext
  <2>4. CASE ~Expire /\ \A a \in Agent : ~Save(a) /\ ~Poll(a)
    <3>1. UNCHANGED <<fields, sent, since, seen, expired>>
      <4>1. ASSUME NEW a \in Agent, Step(a), ~Save(a), ~Poll(a)
            PROVE  UNCHANGED <<fields, sent, since, seen, expired>>
        BY <4>1 DEF Step, StartSend, StartGc, StartCas, StartBlind, Start, Load, Fetch, Retry,
                    GiveUp, Quit, Abort, Served, Told
      <4> QED BY <1>3, <2>4, <4>1 DEF Next, vars
    <3>2. Ordered'
      BY <1>3, <3>1 DEF Ordered, Messages
    <3>3. UNCHANGED Atomic!busVars
      BY <3>1 DEF Atomic!busVars, Atomic!log, Atomic!readers, Messages
    <3> QED BY <3>2, <3>3
  <2> QED BY <2>1, <2>2, <2>3, <2>4
<1>4. Inv /\ [Next]_vars => Inv' /\ [Atomic!AtomicNext]_(Atomic!busVars)
  BY <1>3, NextWorks, DeletesStep
<1> QED BY <1>1, <1>2, <1>4, PTL DEF Spec, BusIsAtomic, Atomic!AtomicSpec
==============================================================================
