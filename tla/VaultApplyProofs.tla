-------------------------- MODULE VaultApplyProofs --------------------------
(***************************************************************************)
(* Theorems about VaultApply for every folder, every set of processes and  *)
(* manifests, and any number of steps by people and other tools: first     *)
(* ownership, when scopes are disjoint; then one owner per uid_ref and     *)
(* convergence, when a manifest has one process at a time as well.         *)
(***************************************************************************)
EXTENDS VaultApply, TLAPS

------------------------------------------------------------------------------
(* The planner *)

\* What a discover() may return: any set of records under any of the uids.
Snapshot(s) == DOMAIN s \subseteq Uid /\ s \in [DOMAIN s -> Records]

\* A row is matched to a live record, by uid_ref or by title, or to none.
LEMMA MatchIsLive ==
  ASSUME NEW s, Snapshot(s), NEW f \in TitleIndexes(s), NEW row \in Rows
  PROVE  /\ Match(s, f, row) \in Live(s) \union {NoUid}
         /\ Match(s, f, row) # NoUid =>
              \/ s[Match(s, f, row)].marker.ref = row.ref
              \/ s[Match(s, f, row)].title = row.title
<1>1. CASE Claimants(s, row.ref) # {}
  <2>1. Match(s, f, row) \in Claimants(s, row.ref)
    BY <1>1 DEF Match
  <2> QED BY <2>1 DEF Claimants, Live
<1>2. CASE Claimants(s, row.ref) = {}
  <2>1. row.title \in Title
    BY DEF Rows
  <2>2. Match(s, f, row) = f[row.title]
    BY <1>2 DEF Match
  <2>3. f[row.title] = NoUid \/ f[row.title] \in Titled(s, row.title)
    BY <2>1 DEF TitleIndexes
  <2> QED BY <2>2, <2>3 DEF Titled, Live
<1> QED BY <1>1, <1>2

\* Custom fields stay a map from labels to settings when a patch is laid over them.
LEMMA MergeType ==
  ASSUME NEW now \in Customs, NEW patch \in Customs
  PROVE  MergeCustom(now, patch) \in Customs
<1>1. PICK L \in SUBSET Label : now \in [L -> Setting]
  BY DEF Customs
<1>2. PICK M \in SUBSET Label : patch \in [M -> Setting]
  BY DEF Customs
<1>3. DOMAIN now = L /\ DOMAIN patch = M
  BY <1>1, <1>2
<1>4. L \union (M \ Keyed) \in SUBSET Label
  OBVIOUS
<1>5. MergeCustom(now, patch) \in [L \union (M \ Keyed) -> Setting]
  BY <1>1, <1>2, <1>3 DEF MergeCustom
<1> QED BY <1>4, <1>5 DEF Customs

LEMMA EmptyType == Empty \in Customs /\ DOMAIN Empty = {}
<1>1. Empty \in [{} -> Setting] /\ DOMAIN Empty = {}
  BY DEF Empty
<1>2. {} \in SUBSET Label
  OBVIOUS
<1> QED BY <1>1, <1>2 DEF Customs

\* The drift of a body names the parts that differ, and a patch gives a body.
LEMMA DriftIs ==
  ASSUME NEW now \in Body, NEW body \in Body
  PROVE  /\ DriftOf(now, body) \in [content : Content \union {Keep}, custom : Customs]
         /\ DriftOf(now, body).content = IF now.content = body.content THEN Keep ELSE body.content
         /\ DriftOf(now, body).custom = IF now.custom = body.custom THEN Empty ELSE body.custom
         /\ body.content # Keep
BY BodyAssumption, EmptyType DEF DriftOf

LEMMA PatchBodyType ==
  ASSUME NEW now \in Body, NEW patch \in [content : Content \union {Keep}, custom : Customs]
  PROVE  /\ PatchBody(now, patch) \in Body
         /\ PatchBody(now, patch).content = IF patch.content = Keep THEN now.content ELSE patch.content
         /\ PatchBody(now, patch).custom = MergeCustom(now.custom, patch.custom)
<1>1. MergeCustom(now.custom, patch.custom) \in Customs
  BY BodyAssumption, MergeType
<1> QED BY <1>1, BodyAssumption DEF PatchBody

\* An edit is the update of core/diff.py with the drifted parts of the body.
LEMMA EditIs ==
  ASSUME NEW s, NEW f, NEW row
  PROVE  /\ EditOf(s, f, row) =
              [kind |-> "update", ref |-> row.ref, uid |-> Match(s, f, row),
               title |-> IF s[Match(s, f, row)].title # row.title THEN row.title ELSE Keep,
               body |-> DriftOf(s[Match(s, f, row)].body, row.body)]
         /\ EditOf(s, f, row).kind = "update" /\ EditOf(s, f, row).ref = row.ref
         /\ EditOf(s, f, row).uid = Match(s, f, row)
         /\ EditOf(s, f, row).title = IF s[Match(s, f, row)].title # row.title THEN row.title ELSE Keep
         /\ EditOf(s, f, row).body = DriftOf(s[Match(s, f, row)].body, row.body)
BY DEF EditOf, UpdateOf

\* The creates and updates of a plan are well formed.
LEMMA PlannedType ==
  ASSUME NEW s, Snapshot(s), NEW f \in TitleIndexes(s), NEW rows \in SUBSET Rows
  PROVE  Planned(s, f, rows) \subseteq Calls
<1>1. ASSUME NEW row \in ToCreate(s, f, rows) PROVE CreateOf(row) \in Calls
  BY <1>1 DEF ToCreate, CreateOf, Calls, Creates, Rows
<1>2. ASSUME NEW row \in ToUpdate(s, f, rows) PROVE EditOf(s, f, row) \in Calls
  <2>1. row \in Rows /\ Match(s, f, row) # NoUid
    BY <1>2 DEF ToUpdate, Matching
  <2>2. Match(s, f, row) \in Uid
    BY <2>1, MatchIsLive DEF Snapshot, Live
  <2>3. s[Match(s, f, row)].body \in Body /\ row.body \in Body
    BY <2>1, MatchIsLive DEF Snapshot, Live, Records, Rows
  <2>4. DriftOf(s[Match(s, f, row)].body, row.body) \in [content : Content \union {Keep}, custom : Customs]
    BY <2>3, DriftIs
  <2> QED BY <2>1, <2>2, <2>4, EditIs DEF Calls, Edits, Rows
<1> QED BY <1>1, <1>2 DEF Planned

LEMMA DeletesAreLive ==
  ASSUME NEW s, NEW f, NEW rows, NEW m, NEW allow \in BOOLEAN
  PROVE  Deletes(s, f, rows, FALSE, m, allow) \subseteq Live(s)
BY DEF Deletes, Orphans

------------------------------------------------------------------------------
(* Type correctness *)

\* The folder stays a folder when a record is added or replaced, and when one
\* is removed.
LEMMA WithType ==
  ASSUME NEW u \in Uid, NEW r \in Records, rec \in [DOMAIN rec -> Records]
  PROVE  /\ DOMAIN With(rec, u, r) = DOMAIN rec \union {u}
         /\ u \in DOMAIN rec => /\ DOMAIN With(rec, u, r) = DOMAIN rec
                                /\ With(rec, u, r) \in [DOMAIN rec -> Records]
         /\ With(rec, u, r) \in [DOMAIN rec \union {u} -> Records]
         /\ With(rec, u, r)[u] = r
         /\ \A v \in DOMAIN rec : v # u => With(rec, u, r)[v] = rec[v]
BY DEF With

LEMMA WithIs ==
  \A s, u, r : /\ DOMAIN With(s, u, r) = DOMAIN s \union {u}
               /\ u \in DOMAIN s => DOMAIN With(s, u, r) = DOMAIN s
               /\ With(s, u, r)[u] = r
               /\ \A v \in DOMAIN s : v # u => With(s, u, r)[v] = s[v]
BY DEF With

LEMMA WithoutType ==
  ASSUME NEW u, rec \in [DOMAIN rec -> Records]
  PROVE  /\ DOMAIN Without(u) = DOMAIN rec \ {u}
         /\ Without(u) \in [DOMAIN rec \ {u} -> Records]
         /\ \A v \in DOMAIN rec \ {u} : Without(u)[v] = rec[v]
BY DEF Without

\* The records that processes write are records.
LEMMA WrittenType ==
  /\ \A c \in Creates : NewRecord(c) \in Records
  /\ \A r \in Records, c \in Edits : Patch(r, c) \in Records /\ Patch(r, c).marker = r.marker
  /\ \A r \in Records, x \in Ref \union {NoRef}, m \in ManifestName :
        [r EXCEPT !.marker = EncodeMarker(x, m)] \in Records
<1>1. \A c \in Creates : NewRecord(c) \in Records
  BY DEF Creates, NewRecord, Records, Unmarked, Markers, Managers
<1>2. \A r \in Records, c \in Edits : Patch(r, c) \in Records /\ Patch(r, c).marker = r.marker
  <2> SUFFICES ASSUME NEW r \in Records, NEW c \in Edits
               PROVE  Patch(r, c) \in Records /\ Patch(r, c).marker = r.marker
    OBVIOUS
  <2>1. PatchBody(r.body, c.body) \in Body
    BY PatchBodyType DEF Records, Edits
  <2> QED BY <2>1 DEF Edits, Patch, Records
<1>3. \A r \in Records, x \in Ref \union {NoRef}, m \in ManifestName :
         [r EXCEPT !.marker = EncodeMarker(x, m)] \in Records
  BY DEF Records, EncodeMarker, Markers, Managers
<1> QED BY <1>1, <1>2, <1>3

LEMMA TypeInit == Init => TypeOK
BY VaultAssumption DEF Init, TypeOK, NoCur, Empty

LEMMA TypeList ==
  ASSUME TypeOK, NEW p \in Run, List(p)
  PROVE  TypeOK'
BY DEF TypeOK, List, Live

LEMMA TypeRead ==
  ASSUME TypeOK, NEW p \in Run, Read(p)
  PROVE  TypeOK'
<1>1. PICK u \in ahead[p] \intersect Live(rec) :
        /\ ahead' = [ahead EXCEPT ![p] = @ \ {u}]
        /\ snap' = [snap EXCEPT ![p] = With(snap[p], u, rec[u])]
  BY DEF Read
<1>2. UNCHANGED <<rec, used, pc, todo, doomed, cur, want, calm, outside>>
  BY DEF Read
<1>3. u \in used /\ rec[u] \in Records
  BY <1>1 DEF TypeOK, Live
<1>4. /\ DOMAIN With(snap[p], u, rec[u]) = DOMAIN snap[p] \union {u}
      /\ With(snap[p], u, rec[u]) \in [DOMAIN snap[p] \union {u} -> Records]
  BY <1>3 DEF TypeOK, With
<1>5. /\ DOMAIN snap' = Run
      /\ snap'[p] = With(snap[p], u, rec[u])
      /\ \A q \in Run : q # p => snap'[q] = snap[q]
  BY <1>1 DEF TypeOK
<1>6. \A q \in Run : DOMAIN snap'[q] \subseteq used /\ snap'[q] \in [DOMAIN snap'[q] -> Records]
  BY <1>3, <1>4, <1>5 DEF TypeOK
<1>7. ahead' \in [Run -> SUBSET used]
  BY <1>1 DEF TypeOK
<1> QED BY <1>2, <1>5, <1>6, <1>7 DEF TypeOK

LEMMA TypePlan ==
  ASSUME TypeOK, NEW p \in Run, Plan(p)
  PROVE  TypeOK'
<1> DEFINE s == snap[p]
<1>1. Snapshot(s)
  BY DEF TypeOK, Snapshot
<1>2. PICK rows \in Versions[ManifestOf[p]], allow \in BOOLEAN, f \in TitleIndexes(s) :
        /\ todo' = [todo EXCEPT ![p] = Planned(s, f, rows)]
        /\ doomed' = [doomed EXCEPT ![p] = Deletes(s, f, rows, FALSE, ManifestOf[p], allow)]
        /\ want' = [want EXCEPT ![p] = rows]
  BY DEF Plan
<1>3. rows \in SUBSET Rows
  BY VaultAssumption
<1>4. Planned(s, f, rows) \subseteq Calls
  BY <1>1, <1>3, PlannedType
<1>5. Deletes(s, f, rows, FALSE, ManifestOf[p], allow) \subseteq used
  BY DeletesAreLive DEF TypeOK, Live
<1>6. /\ pc[p] = "discover" /\ pc' = [pc EXCEPT ![p] = "apply"]
      /\ snap' = [snap EXCEPT ![p] = Empty]
      /\ UNCHANGED <<rec, used, ahead, cur, calm, outside>>
  BY DEF Plan
<1> HIDE DEF s
<1>7. todo' \in [Run -> SUBSET Calls] /\ doomed' \in [Run -> SUBSET used] /\ want' \in [Run -> SUBSET Rows]
  BY <1>2, <1>3, <1>4, <1>5 DEF TypeOK
<1>8. \A q \in Run : q # p => todo'[q] = todo[q] /\ doomed'[q] = doomed[q] /\ want'[q] = want[q]
  BY <1>2 DEF TypeOK
<1>9. \A q \in Run : /\ pc'[q] = "idle" => todo'[q] = {} /\ doomed'[q] = {} /\ want'[q] = {}
                     /\ pc'[q] = "mark" <=> cur'[q] # NoCur
  BY <1>6, <1>8 DEF TypeOK
<1>10. /\ pc' \in [Run -> {"idle", "discover", "apply", "retry", "mark"}]
       /\ calm' \subseteq {q \in Run : pc'[q] # "idle"}
  BY <1>6 DEF TypeOK
<1>11. /\ DOMAIN snap' = Run
       /\ \A q \in Run : DOMAIN snap'[q] \subseteq used' /\ snap'[q] \in [DOMAIN snap'[q] -> Records]
  BY <1>6 DEF TypeOK, Empty
<1> QED BY <1>6, <1>7, <1>9, <1>10, <1>11 DEF TypeOK

LEMMA TypeCreate ==
  ASSUME TypeOK, NEW p \in Run, Create(p)
  PROVE  TypeOK'
<1>1. PICK c \in todo[p], u \in Uid \ used :
        /\ c.kind = "create"
        /\ rec' = With(rec, u, NewRecord(c))
        /\ used' = used \union {u}
        /\ todo' = [todo EXCEPT ![p] = @ \ {c}]
        /\ cur' = [cur EXCEPT ![p] = [uid |-> u, ref |-> c.ref]]
  BY DEF Create
<1>2. c \in Creates
  BY <1>1 DEF TypeOK, Calls, Creates, Edits
<1>3. NewRecord(c) \in Records
  BY <1>2, WrittenType
<1>4. DOMAIN rec' = DOMAIN rec \union {u} /\ rec' \in [DOMAIN rec \union {u} -> Records]
  BY <1>1, <1>3, WithType DEF TypeOK
<1>5. /\ pc[p] \in {"apply", "retry"} /\ pc' = [pc EXCEPT ![p] = "mark"]
      /\ calm' = calm \intersect {p}
      /\ UNCHANGED <<ahead, snap, doomed, want, outside>>
  BY DEF Create, Disturb, Found
<1>6. c.ref \in Ref /\ u # NoUid
  BY <1>2, NullsAreNew DEF Creates
<1> QED BY <1>1, <1>4, <1>5, <1>6 DEF TypeOK, NoCur

LEMMA TypeCreateLost ==
  ASSUME TypeOK, NEW p \in Run, CreateLost(p)
  PROVE  TypeOK'
<1>1. PICK c \in todo[p], u \in Uid \ used :
        /\ c.kind = "create"
        /\ rec' = With(rec, u, NewRecord(c))
        /\ used' = used \union {u}
  BY DEF CreateLost
<1>2. NewRecord(c) \in Records
  BY <1>1, WrittenType DEF TypeOK, Calls, Creates, Edits
<1>3. DOMAIN rec' = DOMAIN rec \union {u} /\ rec' \in [DOMAIN rec \union {u} -> Records]
  BY <1>1, <1>2, WithType DEF TypeOK
<1>4. /\ pc[p] = "apply" /\ pc' = [pc EXCEPT ![p] = "retry"]
      /\ calm' = {}
      /\ UNCHANGED <<ahead, snap, todo, doomed, cur, want, outside>>
  BY DEF CreateLost, Found
<1> QED BY <1>1, <1>3, <1>4 DEF TypeOK, NoCur

LEMMA TypeUpdateBody ==
  ASSUME TypeOK, NEW p \in Run, UpdateBody(p)
  PROVE  TypeOK'
<1>1. PICK c \in todo[p] :
        /\ c.kind = "update"
        /\ c.uid \in Live(rec)
        /\ rec' = With(rec, c.uid, Patch(rec[c.uid], c))
        /\ todo' = [todo EXCEPT ![p] = @ \ {c}]
        /\ cur' = [cur EXCEPT ![p] = [uid |-> c.uid, ref |-> c.ref]]
  BY DEF UpdateBody
<1>2. c \in Edits
  BY <1>1 DEF TypeOK, Calls, Creates, Edits
<1>3. c.uid \in used /\ c.uid \in DOMAIN rec /\ c.uid \in Uid /\ c.ref \in Ref /\ c.uid # NoUid
  BY <1>1, <1>2, NullsAreNew DEF TypeOK, Live, Edits
<1>4. Patch(rec[c.uid], c) \in Records
  BY <1>2, <1>3, WrittenType DEF TypeOK
<1>5. DOMAIN rec' = DOMAIN rec /\ rec' \in [DOMAIN rec -> Records]
  <2> DEFINE r == Patch(rec[c.uid], c)
  <2>1. r \in Records /\ c.uid \in Uid /\ c.uid \in DOMAIN rec
    BY <1>3, <1>4
  <2>2. rec' = With(rec, c.uid, r)
    BY <1>1
  <2>3. rec \in [DOMAIN rec -> Records]
    BY DEF TypeOK
  <2> HIDE DEF r
  <2> QED BY <2>1, <2>2, <2>3, WithType
<1>6. /\ pc[p] = "apply" /\ pc' = [pc EXCEPT ![p] = "mark"]
      /\ calm' = calm \intersect {p}
      /\ UNCHANGED <<ahead, snap, used, doomed, want, outside>>
  BY DEF UpdateBody, Disturb, Found
<1>7. DOMAIN rec' \subseteq used' /\ rec' \in [DOMAIN rec' -> Records]
  BY <1>5, <1>6 DEF TypeOK
<1>8. /\ todo' \in [Run -> SUBSET Calls]
      /\ cur' \in [Run -> [uid : used' \union {NoUid}, ref : Ref \union {NoRef}]]
  BY <1>1, <1>3, <1>6 DEF TypeOK
<1>9. \A q \in Run : /\ pc'[q] = "idle" => todo'[q] = {} /\ doomed'[q] = {} /\ want'[q] = {}
                     /\ pc'[q] = "mark" <=> cur'[q] # NoCur
  BY <1>1, <1>3, <1>6 DEF TypeOK, NoCur
<1>10. pc' \in [Run -> {"idle", "discover", "apply", "retry", "mark"}] /\ calm' \subseteq {q \in Run : pc'[q] # "idle"}
  BY <1>6 DEF TypeOK
<1>11. /\ ahead' \in [Run -> SUBSET used'] /\ DOMAIN snap' = Run
       /\ \A q \in Run : DOMAIN snap'[q] \subseteq used' /\ snap'[q] \in [DOMAIN snap'[q] -> Records]
       /\ doomed' \in [Run -> SUBSET used'] /\ used' \subseteq Uid
       /\ want' \in [Run -> SUBSET Rows] /\ outside' \in 0..MaxOutside
  BY <1>6 DEF TypeOK
<1> QED BY <1>7, <1>8, <1>9, <1>10, <1>11 DEF TypeOK

LEMMA TypeMark ==
  ASSUME TypeOK, NEW p \in Run, Mark(p)
  PROVE  TypeOK'
<1> DEFINE u == cur[p].uid
<1>1. u \in DOMAIN rec /\ u \in Uid
  BY DEF Mark, Live, TypeOK
<1>2. cur[p].ref \in Ref \union {NoRef} /\ ManifestOf[p] \in ManifestName
  BY VaultAssumption DEF TypeOK
<1>3. rec' = With(rec, u, [rec[u] EXCEPT !.marker = EncodeMarker(cur[p].ref, ManifestOf[p])])
  BY DEF Mark
<1>4. DOMAIN rec' = DOMAIN rec /\ rec' \in [DOMAIN rec -> Records]
  <2> DEFINE r == [rec[u] EXCEPT !.marker = EncodeMarker(cur[p].ref, ManifestOf[p])]
  <2>1. r \in Records
    BY <1>1, <1>2, WrittenType DEF TypeOK
  <2>2. rec' = With(rec, u, r)
    BY <1>3
  <2> HIDE DEF r, u
  <2> QED BY <1>1, <2>1, <2>2, WithType DEF TypeOK
<1>5. /\ pc[p] = "mark" /\ pc' = [pc EXCEPT ![p] = "apply"]
      /\ cur' = [cur EXCEPT ![p] = NoCur]
      /\ calm' = calm \intersect {p}
      /\ UNCHANGED <<ahead, snap, used, todo, doomed, want, outside>>
  BY DEF Mark, Disturb, Found
<1>6. DOMAIN rec' \subseteq used' /\ rec' \in [DOMAIN rec' -> Records]
  BY <1>4, <1>5 DEF TypeOK
<1>7. \A q \in Run : /\ pc'[q] = "idle" => todo'[q] = {} /\ doomed'[q] = {} /\ want'[q] = {}
                     /\ pc'[q] = "mark" <=> cur'[q] # NoCur
  BY <1>5 DEF TypeOK
<1>8. pc' \in [Run -> {"idle", "discover", "apply", "retry", "mark"}] /\ calm' \subseteq {q \in Run : pc'[q] # "idle"}
  BY <1>5 DEF TypeOK
<1>9. cur' \in [Run -> [uid : used' \union {NoUid}, ref : Ref \union {NoRef}]]
  BY <1>5 DEF TypeOK, NoCur
<1>10. /\ ahead' \in [Run -> SUBSET used'] /\ DOMAIN snap' = Run
       /\ \A q \in Run : DOMAIN snap'[q] \subseteq used' /\ snap'[q] \in [DOMAIN snap'[q] -> Records]
       /\ doomed' \in [Run -> SUBSET used'] /\ used' \subseteq Uid
       /\ todo' \in [Run -> SUBSET Calls]
       /\ want' \in [Run -> SUBSET Rows] /\ outside' \in 0..MaxOutside
  BY <1>5 DEF TypeOK
<1> QED BY <1>6, <1>7, <1>8, <1>9, <1>10 DEF TypeOK

LEMMA TypeDelete ==
  ASSUME TypeOK, NEW p \in Run, Delete(p)
  PROVE  TypeOK'
<1>1. PICK u \in doomed[p] : rec' = Without(u) /\ doomed' = [doomed EXCEPT ![p] = @ \ {u}]
  BY DEF Delete
<1>2. DOMAIN rec' = DOMAIN rec \ {u} /\ rec' \in [DOMAIN rec \ {u} -> Records]
  BY <1>1, WithoutType DEF TypeOK
<1>3. pc[p] = "apply" /\ calm' = calm \intersect {p} /\ UNCHANGED <<ahead, snap, used, pc, todo, cur, want, outside>>
  BY DEF Delete, Disturb, Found
<1> QED BY <1>1, <1>2, <1>3 DEF TypeOK

LEMMA TypeEnd ==
  ASSUME TypeOK, NEW p \in Run, End(p)
  PROVE  TypeOK'
BY DEF TypeOK, End, NoCur, Empty

LEMMA TypeOutside ==
  ASSUME TypeOK, OutsideCreate \/ OutsideEdit \/ OutsideRename \/ OutsideDelete
  PROVE  TypeOK'
<1>1. /\ outside' \in 0..MaxOutside
      /\ calm' = {}
      /\ UNCHANGED <<ahead, snap, pc, todo, doomed, cur, want>>
  BY VaultAssumption DEF OutsideCreate, OutsideEdit, OutsideRename, OutsideDelete, OutsideStep, Found, TypeOK
<1>2. SUFFICES /\ used \subseteq used' /\ used' \subseteq Uid
               /\ DOMAIN rec' \subseteq used' /\ rec' \in [DOMAIN rec' -> Records]
  BY <1>1 DEF TypeOK
<1>3. CASE OutsideCreate
  <2>1. PICK u \in Uid \ used, t \in OutsideTitle, b \in OutsideBody, k \in OutsideMarkers :
          rec' = With(rec, u, [title |-> t, body |-> b, marker |-> k]) /\ used' = used \union {u}
    BY <1>3 DEF OutsideCreate
  <2>2. [title |-> t, body |-> b, marker |-> k] \in Records
    BY VaultAssumption DEF Records
  <2>3. DOMAIN rec' = DOMAIN rec \union {u} /\ rec' \in [DOMAIN rec \union {u} -> Records]
    BY <2>1, <2>2, WithType DEF TypeOK
  <2> QED BY <2>1, <2>3 DEF TypeOK
<1>4. CASE OutsideEdit
  <2>1. PICK u \in Live(rec), b \in OutsideBody : rec' = With(rec, u, [rec[u] EXCEPT !.body = b])
    BY <1>4 DEF OutsideEdit
  <2>2. [rec[u] EXCEPT !.body = b] \in Records /\ u \in Uid /\ u \in DOMAIN rec
    BY <2>1, VaultAssumption DEF Records, TypeOK, Live
  <2>3. DOMAIN rec' = DOMAIN rec /\ rec' \in [DOMAIN rec -> Records]
    BY <2>1, <2>2, WithType DEF TypeOK
  <2> QED BY <1>4, <2>3 DEF TypeOK, OutsideEdit
<1>5. CASE OutsideRename
  <2>1. PICK u \in Live(rec), t \in RenameTitle : rec' = With(rec, u, [rec[u] EXCEPT !.title = t])
    BY <1>5 DEF OutsideRename
  <2>2. [rec[u] EXCEPT !.title = t] \in Records /\ u \in Uid /\ u \in DOMAIN rec
    BY <2>1, VaultAssumption DEF Records, TypeOK, Live
  <2>3. DOMAIN rec' = DOMAIN rec /\ rec' \in [DOMAIN rec -> Records]
    BY <2>1, <2>2, WithType DEF TypeOK
  <2> QED BY <1>5, <2>3 DEF TypeOK, OutsideRename
<1>6. CASE OutsideDelete
  <2>1. PICK u \in Live(rec) : rec' = Without(u)
    BY <1>6 DEF OutsideDelete
  <2>2. DOMAIN rec' = DOMAIN rec \ {u} /\ rec' \in [DOMAIN rec \ {u} -> Records]
    BY <2>1, WithoutType DEF TypeOK
  <2> QED BY <1>6, <2>2 DEF TypeOK, OutsideDelete
<1> QED BY <1>3, <1>4, <1>5, <1>6

\* Every step, by whomever, preserves the type invariant.
LEMMA TypeNext == TypeOK /\ [Next]_vars => TypeOK'
<1> SUFFICES ASSUME TypeOK, [Next]_vars PROVE TypeOK'
  OBVIOUS
<1>1. ASSUME NEW p \in Run, RunStep(p) PROVE TypeOK'
  BY <1>1, TypeList, TypeRead, TypePlan, TypeCreate, TypeCreateLost, TypeUpdateBody, TypeMark, TypeDelete, TypeEnd
     DEF RunStep, Finish, Fail
<1>2. CASE UNCHANGED vars
  BY <1>2 DEF vars, TypeOK
<1> QED BY <1>1, <1>2, TypeOutside DEF Next

\* TypeOK holds in every reachable state.  Besides the types it says that a
\* process that has ended, in whatever way, keeps nothing of its plan, and that
\* it has a record to mark exactly while it is between a write and the marker.
THEOREM TypeCorrect == Spec => []TypeOK
<1> QED BY TypeInit, TypeNext, PTL DEF Spec

------------------------------------------------------------------------------
(* Isolation of manifests with disjoint scopes *)

IsolationInv == TypeOK /\ StaleButOwn

\* A row never matches a record that another manifest had marked when it was read.
LEMMA MatchIsOwn ==
  ASSUME DisjointScopes, NEW s, Snapshot(s), \A u \in Live(s) : InScope(s[u]),
         NEW f \in TitleIndexes(s), NEW p \in Run,
         NEW rows \in Versions[ManifestOf[p]], NEW row \in rows,
         Match(s, f, row) # NoUid,
         s[Match(s, f, row)].marker.manager = "sdk"
  PROVE  s[Match(s, f, row)].marker.manifest = ManifestOf[p]
<1> DEFINE u == Match(s, f, row)
           m == ManifestOf[p]
           n == s[u].marker.manifest
<1>1. m \in ManifestName /\ rows \subseteq Rows
  BY VaultAssumption
<1>2. /\ u \in Live(s)
      /\ s[u].marker.ref = row.ref \/ s[u].title = row.title
  BY <1>1, MatchIsLive
<1>3. row.ref \in RefsOf(m) /\ row.title \in TitlesOf(m)
  BY DEF RefsOf, TitlesOf
<1>4. /\ n \in ManifestName
      /\ s[u].marker.ref \in RefsOf(n)
      /\ s[u].title \in TitlesOf(n) \union RenameTitle
  BY <1>2 DEF InScope
<1> HIDE DEF u, m, n
<1>5. n = m
  BY <1>1, <1>2, <1>3, <1>4 DEF DisjointScopes
<1> QED BY <1>5 DEF n, m, u

\* A plan is made for the manifest's own records.
LEMMA PlanStartsOwn ==
  ASSUME DisjointScopes, TypeOK, NEW p \in Run, SnapIsOwn(p), Plan(p)
  PROVE  PlanIsOwn(p)'
<1> DEFINE m == ManifestOf[p]
           s == snap[p]
<1>1. PICK rows \in Versions[m], allow \in BOOLEAN, f \in TitleIndexes(s) :
        /\ todo' = [todo EXCEPT ![p] = Planned(s, f, rows)]
        /\ doomed' = [doomed EXCEPT ![p] = Deletes(s, f, rows, FALSE, m, allow)]
  BY DEF Plan
<1>2. UNCHANGED <<rec, used>>
  BY DEF Plan
<1>3. todo'[p] = Planned(s, f, rows) /\ doomed'[p] = Deletes(s, f, rows, FALSE, m, allow)
  BY <1>1 DEF TypeOK
<1>4. rows \subseteq Rows /\ Snapshot(s) /\ Live(s) \subseteq used
  BY VaultAssumption DEF TypeOK, Snapshot, Live
<1>5. \A row \in rows : row.ref \in RefsOf(m) /\ row.title \in TitlesOf(m)
  BY DEF RefsOf, TitlesOf
<1>6. \A u \in Live(s) :
        /\ InScope(s[u])
        /\ s[u].marker.manager = "sdk" /\ u \in Live(rec) => Own(u, s[u].marker.manifest)
  BY DEF SnapIsOwn
<1> HIDE DEF s
<1>7. ASSUME NEW row \in ToUpdate(s, f, rows)
      PROVE  LET c == EditOf(s, f, row) IN
             /\ c.ref \in RefsOf(m) /\ c.title \in TitlesOf(m) \union {Keep}
             /\ c.uid \in used /\ (c.uid \in Live(rec) => Own(c.uid, m))
  <2>1. /\ row \in rows /\ Match(s, f, row) # NoUid
        /\ s[Match(s, f, row)].marker.manager \in {"sdk", "blank"}
    BY DEF ToUpdate, Matching
  <2>2. Match(s, f, row) \in Live(s)
    BY <1>4, <2>1, MatchIsLive
  <2>3. s[Match(s, f, row)].marker.manager = "sdk"
    BY <1>6, <2>1, <2>2 DEF InScope
  <2>4. s[Match(s, f, row)].marker.manifest = m
    BY <1>4, <1>6, <2>1, <2>3, MatchIsOwn
  <2> QED BY <1>4, <1>5, <1>6, <2>1, <2>2, <2>3, <2>4, EditIs
<1>8. ASSUME NEW row \in ToCreate(s, f, rows)
      PROVE  LET c == CreateOf(row) IN
             /\ c.ref \in RefsOf(m) /\ c.title \in TitlesOf(m) \union {Keep}
             /\ c.kind = "create"
  BY <1>5 DEF ToCreate, CreateOf
<1>9. \A c \in Planned(s, f, rows) :
         /\ c.ref \in RefsOf(m) /\ c.title \in TitlesOf(m) \union {Keep}
         /\ c.kind = "update" => c.uid \in used /\ (c.uid \in Live(rec) => Own(c.uid, m))
  BY <1>7, <1>8 DEF Planned
<1>10. \A u \in Deletes(s, f, rows, FALSE, m, allow) : u \in Live(rec) => Own(u, m)
  <2> SUFFICES ASSUME NEW u \in Orphans(s, f, rows, FALSE, m), u \in Live(rec) PROVE Own(u, m)
    BY DEF Deletes
  <2>1. u \in Live(s) /\ s[u].marker.manager = "sdk" /\ s[u].marker.manifest \in {NoName, m}
    BY DEF Orphans
  <2>2. s[u].marker.manifest = m
    BY <1>6, <2>1, NullsAreNew DEF InScope
  <2> QED BY <1>6, <2>1, <2>2
<1> QED BY <1>2, <1>3, <1>9, <1>10 DEF PlanIsOwn, Own, Live

\* The steps that leave every live record's marker alone, add records under
\* new uids only, and keep titles in scope: they disturb nobody's plan.
Quiet ==
  /\ used \subseteq used'
  /\ DOMAIN rec' \intersect used \subseteq DOMAIN rec
  /\ \A u \in DOMAIN rec' \intersect used :
        /\ rec'[u].marker = rec[u].marker
        /\ rec'[u].title = rec[u].title \/ rec'[u].title \in RenameTitle
           \/ \E m \in ManifestName : Own(u, m) /\ rec'[u].title \in TitlesOf(m)

LEMMA QuietKeepsScoped ==
  ASSUME TypeOK, Scoped, Quiet,
         \A u \in DOMAIN rec' \ used : rec'[u].marker.manager \in {"none", "foreign"}
  PROVE  Scoped'
BY DEF Scoped, InScope, Quiet, Live, Own

LEMMA QuietKeepsPlans ==
  ASSUME TypeOK, Quiet, NEW p \in Run, PlanIsOwn(p),
         todo'[p] \subseteq todo[p], doomed'[p] \subseteq doomed[p]
  PROVE  PlanIsOwn(p)'
<1>1. doomed[p] \subseteq used
  BY DEF TypeOK
<1>2. /\ used \subseteq used'
      /\ \A u \in used : \A m : u \in Live(rec') /\ (u \in Live(rec) => Own(u, m)) => Own(u, m)'
  BY DEF Quiet, Own, Live
<1> QED BY <1>1, <1>2 DEF PlanIsOwn

LEMMA QuietKeepsSnaps ==
  ASSUME TypeOK, Quiet, NEW p \in Run, SnapIsOwn(p), snap'[p] \in {snap[p], Empty}
  PROVE  SnapIsOwn(p)'
<1>1. Live(snap[p]) \subseteq used
  BY DEF TypeOK, Live
<1>2. CASE snap'[p] = Empty
  BY <1>2 DEF SnapIsOwn, Empty, Live
<1>3. CASE snap'[p] = snap[p]
  <2>1. SUFFICES ASSUME NEW u \in Live(snap[p])
                 PROVE  /\ InScope(snap[p][u])
                        /\ snap[p][u].marker.manager = "sdk" /\ u \in Live(rec') =>
                             Own(u, snap[p][u].marker.manifest)'
    BY <1>3 DEF SnapIsOwn, Live, InScope, Own
  <2>2. u \in used
    BY <1>1
  <2>3. /\ InScope(snap[p][u])
        /\ snap[p][u].marker.manager = "sdk" /\ u \in Live(rec) => Own(u, snap[p][u].marker.manifest)
    BY DEF SnapIsOwn
  <2> QED BY <1>3, <2>2, <2>3 DEF Quiet, Own, Live
<1> QED BY <1>2, <1>3

LEMMA QuietKeepsMarks ==
  ASSUME TypeOK, TypeOK', Quiet, NEW p \in Run, MarkIsOwn(p), pc'[p] = pc[p], cur'[p] = cur[p],
         \A q \in Run : /\ pc'[q] = "mark" /\ cur'[q].uid = cur[p].uid
                        /\ rec[cur[p].uid].marker = Unmarked
                        => pc[q] = "mark" /\ cur[q].uid = cur[p].uid
  PROVE  MarkIsOwn(p)'
<1> DEFINE u == cur[p].uid
<1>1. SUFFICES ASSUME pc[p] = "mark", u \in Live(rec')
               PROVE  \/ Own(u, ManifestOf[p])'
                      \/ /\ rec'[u].marker = Unmarked
                         /\ rec'[u].title \in TitlesOf(ManifestOf[p]) \union RenameTitle
                         /\ \A q \in Run : pc'[q] = "mark" /\ cur'[q].uid = u => q = p
  BY DEF MarkIsOwn, Live, Own
<1>2. u \in DOMAIN rec' \intersect used /\ u \in Live(rec)
  <2>1. u \in used \union {NoUid}
    BY DEF TypeOK
  <2>2. used' \subseteq Uid /\ DOMAIN rec' \subseteq used'
    BY DEF TypeOK
  <2> QED BY <1>1, <2>1, <2>2, NullsAreNew DEF Quiet, Live
<1>3. rec'[u].marker = rec[u].marker
  BY <1>2 DEF Quiet
<1>4. CASE Own(u, ManifestOf[p])
  BY <1>3, <1>4 DEF Own
<1>5. CASE ~Own(u, ManifestOf[p])
  <2>1. /\ rec[u].marker = Unmarked
        /\ rec[u].title \in TitlesOf(ManifestOf[p]) \union RenameTitle
        /\ \A q \in Run : pc[q] = "mark" /\ cur[q].uid = u => q = p
    BY <1>1, <1>2, <1>5 DEF MarkIsOwn
  <2>2. rec'[u].title = rec[u].title \/ rec'[u].title \in RenameTitle
    BY <1>2, <2>1 DEF Quiet, Own, Unmarked
  <2> QED BY <1>3, <2>1, <2>2
<1> QED BY <1>4, <1>5

------------------------------------------------------------------------------
(* One lemma per action *)

LEMMA IsolationList ==
  ASSUME IsolationInv, TypeOK', NEW p \in Run, List(p)
  PROVE  StaleButOwn'
<1>1. /\ UNCHANGED <<rec, used, snap, todo, doomed, cur>>
      /\ \A q \in Run : pc'[q] = "mark" <=> pc[q] = "mark"
  BY DEF List, IsolationInv, TypeOK
<1>2. Quiet
  BY <1>1 DEF Quiet, IsolationInv, TypeOK
<1>3. Scoped'
  BY <1>1 DEF Scoped, IsolationInv, StaleButOwn, Live, InScope
<1>4. \A q \in Run : SnapIsOwn(q)' /\ PlanIsOwn(q)'
  BY <1>1, <1>2, QuietKeepsSnaps, QuietKeepsPlans DEF IsolationInv, StaleButOwn
<1>5. \A q \in Run : MarkIsOwn(q)'
  BY <1>1 DEF IsolationInv, StaleButOwn, MarkIsOwn, Own, Live
<1> QED BY <1>3, <1>4, <1>5 DEF StaleButOwn

\* What is read now is in scope now, and its manifest's own.
LEMMA IsolationRead ==
  ASSUME IsolationInv, TypeOK', NEW p \in Run, Read(p)
  PROVE  StaleButOwn'
<1>1. PICK u \in ahead[p] \intersect Live(rec) :
        snap' = [snap EXCEPT ![p] = With(snap[p], u, rec[u])]
  BY DEF Read
<1>2. UNCHANGED <<rec, used, pc, todo, doomed, cur>>
  BY DEF Read
<1>3. Quiet
  BY <1>2 DEF Quiet, IsolationInv, TypeOK
<1>4. Scoped'
  BY <1>2 DEF Scoped, IsolationInv, StaleButOwn, Live, InScope
<1>5. snap'[p] = With(snap[p], u, rec[u]) /\ \A q \in Run : q # p => snap'[q] = snap[q]
  BY <1>1 DEF IsolationInv, TypeOK
<1>6. SnapIsOwn(p)'
  <2>1. /\ DOMAIN snap'[p] = DOMAIN snap[p] \union {u}
        /\ snap'[p][u] = rec[u]
        /\ \A v \in DOMAIN snap[p] : v # u => snap'[p][v] = snap[p][v]
    BY <1>5 DEF With
  <2>2. InScope(rec[u]) /\ (rec[u].marker.manager = "sdk" => Own(u, rec[u].marker.manifest))
    BY DEF IsolationInv, StaleButOwn, Scoped, Own
  <2>3. \A v \in Live(snap[p]) :
          /\ InScope(snap[p][v])
          /\ snap[p][v].marker.manager = "sdk" /\ v \in Live(rec) =>
               Own(v, snap[p][v].marker.manifest)
    BY DEF IsolationInv, StaleButOwn, SnapIsOwn
  <2>4. SUFFICES ASSUME NEW v \in DOMAIN snap'[p]
                 PROVE  /\ InScope(snap'[p][v])
                        /\ snap'[p][v].marker.manager = "sdk" /\ v \in Live(rec) =>
                             Own(v, snap'[p][v].marker.manifest)
    BY <1>2 DEF SnapIsOwn, Live, InScope, Own
  <2>5. CASE v = u
    BY <2>1, <2>2, <2>5
  <2>6. CASE v # u
    BY <2>1, <2>3, <2>6 DEF Live
  <2> QED BY <2>5, <2>6
<1>7. \A q \in Run : SnapIsOwn(q)'
  BY <1>3, <1>5, <1>6, QuietKeepsSnaps DEF IsolationInv, StaleButOwn
<1>8. \A q \in Run : PlanIsOwn(q)'
  BY <1>2, <1>3, QuietKeepsPlans DEF IsolationInv, StaleButOwn
<1>9. \A q \in Run : MarkIsOwn(q)'
  BY <1>2 DEF IsolationInv, StaleButOwn, MarkIsOwn, Own, Live
<1> QED BY <1>4, <1>7, <1>8, <1>9 DEF StaleButOwn

LEMMA IsolationPlan ==
  ASSUME DisjointScopes, IsolationInv, TypeOK', NEW p \in Run, Plan(p)
  PROVE  StaleButOwn'
<1>1. /\ UNCHANGED <<rec, used, cur>> /\ pc[p] = "discover" /\ pc' = [pc EXCEPT ![p] = "apply"]
      /\ snap' = [snap EXCEPT ![p] = Empty]
  BY DEF Plan
<1>2. Quiet
  BY <1>1 DEF Quiet, IsolationInv, TypeOK
<1>3. \A q \in Run : q # p => todo'[q] = todo[q] /\ doomed'[q] = doomed[q]
  BY DEF Plan, IsolationInv, TypeOK
<1>4. Scoped'
  BY <1>1 DEF Scoped, IsolationInv, StaleButOwn, Live, InScope
<1>5. \A q \in Run : PlanIsOwn(q)'
  BY <1>2, <1>3, PlanStartsOwn, QuietKeepsPlans DEF IsolationInv, StaleButOwn
<1>6. \A q \in Run : MarkIsOwn(q)'
  BY <1>1 DEF IsolationInv, StaleButOwn, MarkIsOwn, Own, Live, TypeOK
<1>7. \A q \in Run : SnapIsOwn(q)'
  <2>1. \A q \in Run : snap'[q] \in {snap[q], Empty}
    BY <1>1 DEF IsolationInv, TypeOK
  <2> QED BY <1>2, <2>1, QuietKeepsSnaps DEF IsolationInv, StaleButOwn
<1> QED BY <1>4, <1>5, <1>6, <1>7 DEF StaleButOwn

LEMMA IsolationCreate ==
  ASSUME DisjointScopes, IsolationInv, TypeOK', NEW p \in Run, Create(p)
  PROVE  StaleButOwn'
<1>1. PICK c \in todo[p], u \in Uid \ used :
        /\ c.kind = "create"
        /\ rec' = With(rec, u, NewRecord(c))
        /\ used' = used \union {u}
        /\ todo' = [todo EXCEPT ![p] = @ \ {c}]
        /\ cur' = [cur EXCEPT ![p] = [uid |-> u, ref |-> c.ref]]
  BY DEF Create
<1>2. pc' = [pc EXCEPT ![p] = "mark"] /\ UNCHANGED <<snap, doomed>>
  BY DEF Create, Found
<1>3. c \in Creates /\ NewRecord(c) \in Records
  BY <1>1, WrittenType DEF IsolationInv, TypeOK, Calls, Creates, Edits
<1>4. /\ DOMAIN rec' = DOMAIN rec \union {u}
      /\ rec'[u] = NewRecord(c)
      /\ \A v \in DOMAIN rec : v # u => rec'[v] = rec[v]
  <2>1. rec' = With(rec, u, NewRecord(c))
    BY <1>1
  <2> QED BY <2>1 DEF With
<1>5. u \notin used /\ DOMAIN rec \subseteq used /\ u # NoUid
  BY NullsAreNew DEF IsolationInv, TypeOK
<1>6. Quiet
  BY <1>1, <1>4, <1>5 DEF Quiet
<1>7. Scoped'
  BY <1>4, <1>5, <1>6, QuietKeepsScoped DEF NewRecord, Unmarked, IsolationInv, StaleButOwn
<1>8. \A q \in Run : todo'[q] \subseteq todo[q] /\ doomed'[q] \subseteq doomed[q]
  BY <1>1, <1>2 DEF IsolationInv, TypeOK
<1>9. \A q \in Run : PlanIsOwn(q)'
  BY <1>6, <1>8, QuietKeepsPlans DEF IsolationInv, StaleButOwn
<1>10. /\ cur'[p] = [uid |-> u, ref |-> c.ref] /\ pc'[p] = "mark"
       /\ \A q \in Run : q # p => cur'[q] = cur[q] /\ pc'[q] = pc[q]
       /\ \A q \in Run : cur[q].uid # u
  BY <1>1, <1>2, <1>5 DEF IsolationInv, TypeOK
<1>11. MarkIsOwn(p)'
  <2>1. c.ref \in RefsOf(ManifestOf[p]) /\ c.title \in TitlesOf(ManifestOf[p])
    BY <1>3, NullsAreNew DEF IsolationInv, StaleButOwn, PlanIsOwn, Creates
  <2>2. rec'[u].marker = Unmarked /\ rec'[u].title = c.title
    BY <1>4 DEF NewRecord
  <2> QED BY <1>10, <2>1, <2>2 DEF MarkIsOwn
<1>12. ASSUME NEW q \in Run, q # p PROVE MarkIsOwn(q)'
  BY <1>6, <1>10, <1>12, QuietKeepsMarks DEF IsolationInv, StaleButOwn
<1>13. \A q \in Run : SnapIsOwn(q)'
  BY <1>2, <1>6, QuietKeepsSnaps DEF IsolationInv, StaleButOwn
<1> QED BY <1>7, <1>9, <1>11, <1>12, <1>13 DEF StaleButOwn

LEMMA IsolationCreateLost ==
  ASSUME DisjointScopes, IsolationInv, TypeOK', NEW p \in Run, CreateLost(p)
  PROVE  StaleButOwn'
<1>1. PICK c \in todo[p], u \in Uid \ used :
        /\ c.kind = "create"
        /\ rec' = With(rec, u, NewRecord(c))
        /\ used' = used \union {u}
  BY DEF CreateLost
<1>2. pc[p] = "apply" /\ pc' = [pc EXCEPT ![p] = "retry"] /\ UNCHANGED <<snap, todo, doomed, cur>>
  BY DEF CreateLost, Found
<1>3. /\ DOMAIN rec' = DOMAIN rec \union {u}
      /\ rec'[u] = NewRecord(c)
      /\ \A v \in DOMAIN rec : v # u => rec'[v] = rec[v]
  <2>1. rec' = With(rec, u, NewRecord(c))
    BY <1>1
  <2> QED BY <2>1 DEF With
<1>4. u \notin used /\ DOMAIN rec \subseteq used
  BY DEF IsolationInv, TypeOK
<1>5. Quiet
  BY <1>1, <1>3, <1>4 DEF Quiet
<1>6. Scoped'
  BY <1>3, <1>4, <1>5, QuietKeepsScoped DEF NewRecord, Unmarked, IsolationInv, StaleButOwn
<1>7. \A q \in Run : PlanIsOwn(q)'
  BY <1>2, <1>5, QuietKeepsPlans DEF IsolationInv, StaleButOwn
<1>8. \A q \in Run : pc'[q] = "mark" <=> pc[q] = "mark"
  BY <1>2 DEF IsolationInv, TypeOK
<1>9. MarkIsOwn(p)'
  BY <1>2, <1>8 DEF MarkIsOwn
<1>10. ASSUME NEW q \in Run, q # p PROVE MarkIsOwn(q)'
  <2>1. pc'[q] = pc[q] /\ cur'[q] = cur[q]
    BY <1>2, <1>10 DEF IsolationInv, TypeOK
  <2> QED BY <1>2, <1>5, <1>8, <2>1, QuietKeepsMarks DEF IsolationInv, StaleButOwn
<1>11. \A q \in Run : SnapIsOwn(q)'
  BY <1>2, <1>5, QuietKeepsSnaps DEF IsolationInv, StaleButOwn
<1> QED BY <1>6, <1>7, <1>9, <1>10, <1>11 DEF StaleButOwn

LEMMA IsolationUpdateBody ==
  ASSUME DisjointScopes, IsolationInv, TypeOK', NEW p \in Run, UpdateBody(p)
  PROVE  StaleButOwn'
<1> DEFINE m == ManifestOf[p]
<1>1. PICK c \in todo[p] :
        /\ c.kind = "update"
        /\ c.uid \in Live(rec)
        /\ rec' = With(rec, c.uid, Patch(rec[c.uid], c))
        /\ todo' = [todo EXCEPT ![p] = @ \ {c}]
        /\ cur' = [cur EXCEPT ![p] = [uid |-> c.uid, ref |-> c.ref]]
  BY DEF UpdateBody
<1>2. pc' = [pc EXCEPT ![p] = "mark"] /\ UNCHANGED <<snap, used, doomed>>
  BY DEF UpdateBody, Found
<1>3. c \in Edits /\ c.uid \in DOMAIN rec /\ c.uid \in Uid
  BY <1>1 DEF IsolationInv, TypeOK, Calls, Creates, Edits, Live
<1>4. /\ Patch(rec[c.uid], c) \in Records
      /\ Patch(rec[c.uid], c).marker = rec[c.uid].marker
  BY <1>3, WrittenType DEF IsolationInv, TypeOK
<1>5. /\ DOMAIN rec' = DOMAIN rec
      /\ rec'[c.uid] = Patch(rec[c.uid], c)
      /\ \A v \in DOMAIN rec : v # c.uid => rec'[v] = rec[v]
  BY <1>1, <1>3, WithIs
<1>6. /\ Own(c.uid, m) /\ m \in ManifestName
      /\ c.ref \in RefsOf(m) /\ c.title \in TitlesOf(m) \union {Keep}
  BY <1>1, VaultAssumption DEF IsolationInv, StaleButOwn, PlanIsOwn
<1>7. rec'[c.uid].title = rec[c.uid].title \/ rec'[c.uid].title \in TitlesOf(m)
  BY <1>3, <1>5, <1>6 DEF Patch, IsolationInv, TypeOK, Records
<1>8. Quiet
  BY <1>2, <1>4, <1>5, <1>6, <1>7 DEF Quiet
<1>9. Scoped'
  BY <1>5, <1>8, QuietKeepsScoped DEF IsolationInv, StaleButOwn, TypeOK
<1>10. \A q \in Run : PlanIsOwn(q)'
  <2>1. \A q \in Run : todo'[q] \subseteq todo[q] /\ doomed'[q] \subseteq doomed[q]
    BY <1>1, <1>2 DEF IsolationInv, TypeOK
  <2> QED BY <1>8, <2>1, QuietKeepsPlans DEF IsolationInv, StaleButOwn
<1>11. /\ cur'[p] = [uid |-> c.uid, ref |-> c.ref] /\ pc'[p] = "mark"
       /\ \A q \in Run : q # p => cur'[q] = cur[q] /\ pc'[q] = pc[q]
  BY <1>1, <1>2 DEF IsolationInv, TypeOK
<1>12. MarkIsOwn(p)'
  <2>1. Own(c.uid, m)'
    BY <1>4, <1>5, <1>6 DEF Own
  <2> QED BY <1>6, <1>11, <2>1 DEF MarkIsOwn, Own
<1>13. ASSUME NEW q \in Run, q # p PROVE MarkIsOwn(q)'
  <2>1. rec[c.uid].marker # Unmarked
    BY <1>6 DEF Own, Unmarked
  <2> QED BY <1>8, <1>11, <1>13, <2>1, QuietKeepsMarks DEF IsolationInv, StaleButOwn
<1>14. \A q \in Run : SnapIsOwn(q)'
  BY <1>2, <1>8, QuietKeepsSnaps DEF IsolationInv, StaleButOwn
<1> QED BY <1>9, <1>10, <1>12, <1>13, <1>14 DEF StaleButOwn

\* The one step that changes a marker: the record was the manifest's already,
\* or nobody else has a plan for it.
LEMMA IsolationMark ==
  ASSUME DisjointScopes, IsolationInv, TypeOK', NEW p \in Run, Mark(p)
  PROVE  StaleButOwn'
<1> DEFINE u == cur[p].uid
           m == ManifestOf[p]
<1>1. /\ u \in Live(rec) /\ pc[p] = "mark" /\ pc' = [pc EXCEPT ![p] = "apply"]
      /\ rec' = With(rec, u, [rec[u] EXCEPT !.marker = EncodeMarker(cur[p].ref, m)])
      /\ cur' = [cur EXCEPT ![p] = NoCur]
      /\ UNCHANGED <<snap, used, todo, doomed>>
  BY DEF Mark, Found
<1>2. /\ DOMAIN rec' = DOMAIN rec
      /\ rec'[u] = [rec[u] EXCEPT !.marker = EncodeMarker(cur[p].ref, m)]
      /\ \A v \in DOMAIN rec : v # u => rec'[v] = rec[v]
  BY <1>1 DEF With, Live
<1>3. /\ m \in ManifestName /\ cur[p].ref \in RefsOf(m)
      /\ \/ Own(u, m)
         \/ /\ rec[u].marker = Unmarked
            /\ rec[u].title \in TitlesOf(m) \union RenameTitle
            /\ \A q \in Run : pc[q] = "mark" /\ cur[q].uid = u => q = p
  BY <1>1, VaultAssumption DEF IsolationInv, StaleButOwn, MarkIsOwn
<1>4. /\ rec[u] \in Records
      /\ rec'[u].marker = EncodeMarker(cur[p].ref, m)
      /\ rec'[u].title = rec[u].title
  BY <1>1, <1>2 DEF Records, IsolationInv, TypeOK, Live
<1>5. /\ rec'[u].marker.manager = "sdk" /\ rec'[u].marker.manifest = m
      /\ rec'[u].marker.ref = cur[p].ref
  BY <1>4 DEF EncodeMarker
<1>6. rec[u].title \in TitlesOf(m) \union RenameTitle
  BY <1>1, <1>3 DEF Own, IsolationInv, StaleButOwn, Scoped, InScope
<1>7. Scoped'
  <2> SUFFICES ASSUME NEW v \in DOMAIN rec
               PROVE /\ rec'[v].marker.manager # "blank"
                     /\ rec'[v].marker.manager = "sdk" =>
                          /\ rec'[v].marker.manifest \in ManifestName
                          /\ rec'[v].marker.ref \in RefsOf(rec'[v].marker.manifest)
                          /\ rec'[v].title \in TitlesOf(rec'[v].marker.manifest) \union RenameTitle
    BY <1>2 DEF Scoped, InScope, Live
  <2>1. CASE v = u
    BY <2>1, <1>3, <1>4, <1>5, <1>6
  <2>2. CASE v # u
    BY <2>2, <1>2 DEF IsolationInv, StaleButOwn, Scoped, InScope, Live
  <2> QED BY <2>1, <2>2
\* whoever had u in a plan applies the same manifest
<1>8. \A v \in Live(rec), n \in ManifestName : Own(v, n) => Own(v, n)'
  <2> SUFFICES ASSUME NEW v \in Live(rec), NEW n \in ManifestName, Own(v, n) PROVE Own(v, n)'
    OBVIOUS
  <2>1. CASE v = u
    <3>1. Own(u, m)
      BY <1>3, <2>1 DEF Own, Unmarked
    <3> QED BY <2>1, <3>1, <1>5 DEF Own
  <2>2. CASE v # u
    BY <2>2, <1>2 DEF Own, Live
  <2> QED BY <2>1, <2>2
<1>9. \A q \in Run : PlanIsOwn(q)'
  <2> SUFFICES ASSUME NEW q \in Run PROVE PlanIsOwn(q)'
    OBVIOUS
  <2>1. ManifestOf[q] \in ManifestName /\ PlanIsOwn(q)
    BY VaultAssumption DEF IsolationInv, StaleButOwn
  <2> QED BY <2>1, <1>1, <1>2, <1>8 DEF PlanIsOwn, Live
<1>10. pc'[p] = "apply" /\ \A q \in Run : q # p => pc'[q] = pc[q] /\ cur'[q] = cur[q]
  BY <1>1 DEF IsolationInv, TypeOK
<1>11. ASSUME NEW q \in Run, q # p, pc[q] = "mark" PROVE MarkIsOwn(q)'
  <2>1. ManifestOf[q] \in ManifestName /\ MarkIsOwn(q)
    BY VaultAssumption DEF IsolationInv, StaleButOwn
  <2> SUFFICES ASSUME cur[q].uid \in Live(rec)
               PROVE  \/ Own(cur[q].uid, ManifestOf[q])'
                      \/ /\ rec'[cur[q].uid].marker = Unmarked
                         /\ rec'[cur[q].uid].title \in TitlesOf(ManifestOf[q]) \union RenameTitle
                         /\ \A r \in Run : pc'[r] = "mark" /\ cur'[r].uid = cur[q].uid => r = q
    BY <1>2, <1>10, <1>11, <2>1 DEF MarkIsOwn, Live, Own
  <2>2. CASE Own(cur[q].uid, ManifestOf[q])
    BY <1>8, <1>10, <1>11, <2>1, <2>2 DEF Own
  <2>3. CASE ~Own(cur[q].uid, ManifestOf[q])
    <3>1. /\ rec[cur[q].uid].marker = Unmarked
          /\ rec[cur[q].uid].title \in TitlesOf(ManifestOf[q]) \union RenameTitle
          /\ \A r \in Run : pc[r] = "mark" /\ cur[r].uid = cur[q].uid => r = q
      BY <1>11, <2>1, <2>3 DEF MarkIsOwn
    <3>2. cur[q].uid # u
      BY <1>1, <1>11, <3>1
    <3>3. rec'[cur[q].uid] = rec[cur[q].uid]
      BY <1>2, <3>2 DEF Live
    <3> QED BY <3>1, <3>3, <1>10
  <2> QED BY <2>2, <2>3
<1>12. \A q \in Run : MarkIsOwn(q)'
  BY <1>10, <1>11 DEF MarkIsOwn
<1>13. ASSUME NEW q \in Run PROVE SnapIsOwn(q)'
  <2> SUFFICES ASSUME NEW v \in Live(snap[q])
               PROVE  /\ InScope(snap[q][v])
                      /\ snap[q][v].marker.manager = "sdk" /\ v \in Live(rec) =>
                           Own(v, snap[q][v].marker.manifest)'
    BY <1>1, <1>2 DEF SnapIsOwn, InScope, Live, Own
  <2>1. /\ InScope(snap[q][v])
        /\ snap[q][v].marker.manager = "sdk" /\ v \in Live(rec) =>
             Own(v, snap[q][v].marker.manifest)
    BY DEF IsolationInv, StaleButOwn, SnapIsOwn
  <2>2. snap[q][v].marker.manager = "sdk" => snap[q][v].marker.manifest \in ManifestName
    BY <2>1 DEF InScope
  <2>3. ASSUME snap[q][v].marker.manager = "sdk", v \in Live(rec)
        PROVE  /\ rec'[v].marker.manager = "sdk"
               /\ rec'[v].marker.manifest = snap[q][v].marker.manifest
    BY <2>1, <2>2, <2>3, <1>8 DEF Own
  <2> QED BY <1>1, <2>1, <2>3 DEF Own
<1> QED BY <1>7, <1>9, <1>12, <1>13 DEF StaleButOwn

LEMMA IsolationDelete ==
  ASSUME DisjointScopes, IsolationInv, TypeOK', NEW p \in Run, Delete(p)
  PROVE  StaleButOwn'
<1>1. PICK u \in doomed[p] : rec' = Without(u) /\ doomed' = [doomed EXCEPT ![p] = @ \ {u}]
  BY DEF Delete
<1>2. UNCHANGED <<snap, used, pc, todo, cur>>
  BY DEF Delete, Found
<1>3. DOMAIN rec' = DOMAIN rec \ {u} /\ \A v \in DOMAIN rec \ {u} : rec'[v] = rec[v]
  BY <1>1 DEF Without
<1>4. Quiet
  BY <1>2, <1>3 DEF Quiet
<1>5. Scoped'
  BY <1>3, <1>4, QuietKeepsScoped DEF IsolationInv, StaleButOwn, TypeOK
<1>6. \A q \in Run : todo'[q] \subseteq todo[q] /\ doomed'[q] \subseteq doomed[q]
  BY <1>1, <1>2 DEF IsolationInv, TypeOK
<1>7. \A q \in Run : PlanIsOwn(q)'
  BY <1>4, <1>6, QuietKeepsPlans DEF IsolationInv, StaleButOwn
<1>8. \A q \in Run : MarkIsOwn(q)'
  BY <1>2, <1>4, QuietKeepsMarks DEF IsolationInv, StaleButOwn
<1>9. \A q \in Run : SnapIsOwn(q)'
  BY <1>2, <1>4, QuietKeepsSnaps DEF IsolationInv, StaleButOwn
<1> QED BY <1>5, <1>7, <1>8, <1>9 DEF StaleButOwn

LEMMA IsolationEnd ==
  ASSUME DisjointScopes, IsolationInv, TypeOK', NEW p \in Run, End(p)
  PROVE  StaleButOwn'
<1>1. /\ UNCHANGED <<rec, used>>
      /\ pc' = [pc EXCEPT ![p] = "idle"] /\ cur' = [cur EXCEPT ![p] = NoCur]
      /\ todo' = [todo EXCEPT ![p] = {}] /\ doomed' = [doomed EXCEPT ![p] = {}]
      /\ snap' = [snap EXCEPT ![p] = Empty]
  BY DEF End
<1>2. Quiet
  BY <1>1 DEF Quiet, IsolationInv, TypeOK
<1>3. Scoped'
  BY <1>1 DEF IsolationInv, StaleButOwn, Scoped, InScope, Live
<1>4. \A q \in Run : todo'[q] \subseteq todo[q] /\ doomed'[q] \subseteq doomed[q]
  BY <1>1 DEF IsolationInv, TypeOK
<1>5. \A q \in Run : PlanIsOwn(q)'
  BY <1>2, <1>4, QuietKeepsPlans DEF IsolationInv, StaleButOwn
<1>6. pc'[p] = "idle" /\ \A q \in Run : q # p => pc'[q] = pc[q] /\ cur'[q] = cur[q]
  BY <1>1 DEF IsolationInv, TypeOK
<1>7. MarkIsOwn(p)'
  BY <1>6 DEF MarkIsOwn
<1>8. ASSUME NEW q \in Run, q # p PROVE MarkIsOwn(q)'
  BY <1>2, <1>6, <1>8, QuietKeepsMarks DEF IsolationInv, StaleButOwn
<1>9. \A q \in Run : SnapIsOwn(q)'
  <2>1. \A q \in Run : snap'[q] \in {snap[q], Empty}
    BY <1>1 DEF IsolationInv, TypeOK
  <2> QED BY <1>2, <2>1, QuietKeepsSnaps DEF IsolationInv, StaleButOwn
<1> QED BY <1>3, <1>5, <1>7, <1>8, <1>9 DEF StaleButOwn

LEMMA IsolationOutside ==
  ASSUME DisjointScopes, IsolationInv, TypeOK',
         OutsideCreate \/ OutsideEdit \/ OutsideRename \/ OutsideDelete
  PROVE  StaleButOwn'
<1>1. UNCHANGED <<snap, pc, todo, doomed, cur>>
  BY DEF OutsideCreate, OutsideEdit, OutsideRename, OutsideDelete, OutsideStep, Found
<1>2. Quiet /\ \A u \in DOMAIN rec' \ used : rec'[u].marker.manager \in {"none", "foreign"}
  <2>1. CASE OutsideCreate
    <3>1. PICK u \in Uid \ used, t \in OutsideTitle, b \in OutsideBody, k \in OutsideMarkers :
            rec' = With(rec, u, [title |-> t, body |-> b, marker |-> k]) /\ used' = used \union {u}
      BY <2>1 DEF OutsideCreate
    <3>2. /\ DOMAIN rec' = DOMAIN rec \union {u}
          /\ rec'[u].marker = k
          /\ \A v \in DOMAIN rec : v # u => rec'[v] = rec[v]
      BY <3>1 DEF With
    <3>3. u \notin used /\ DOMAIN rec \subseteq used
      BY DEF IsolationInv, TypeOK
    <3>4. k.manager \in {"none", "foreign"}
      BY DEF DisjointScopes
    <3> QED BY <3>1, <3>2, <3>3, <3>4 DEF Quiet
  <2>2. CASE OutsideEdit
    <3>1. PICK u \in Live(rec), b \in OutsideBody : rec' = With(rec, u, [rec[u] EXCEPT !.body = b])
      BY <2>2 DEF OutsideEdit
    <3>2. /\ DOMAIN rec' = DOMAIN rec
          /\ rec'[u] = [rec[u] EXCEPT !.body = b]
          /\ \A v \in DOMAIN rec : v # u => rec'[v] = rec[v]
      BY <3>1 DEF With, Live
    <3>3. rec'[u].marker = rec[u].marker /\ rec'[u].title = rec[u].title
      BY <3>1, <3>2 DEF IsolationInv, TypeOK, Records, Live
    <3>4. UNCHANGED used /\ DOMAIN rec \subseteq used
      BY <2>2 DEF OutsideEdit, IsolationInv, TypeOK
    <3> QED BY <3>2, <3>3, <3>4 DEF Quiet
  <2>3. CASE OutsideRename
    <3>1. PICK u \in Live(rec), t \in RenameTitle : rec' = With(rec, u, [rec[u] EXCEPT !.title = t])
      BY <2>3 DEF OutsideRename
    <3>2. /\ DOMAIN rec' = DOMAIN rec
          /\ rec'[u] = [rec[u] EXCEPT !.title = t]
          /\ \A v \in DOMAIN rec : v # u => rec'[v] = rec[v]
      BY <3>1 DEF With, Live
    <3>3. rec'[u].marker = rec[u].marker /\ rec'[u].title \in RenameTitle
      BY <3>1, <3>2 DEF IsolationInv, TypeOK, Records, Live
    <3>4. UNCHANGED used /\ DOMAIN rec \subseteq used
      BY <2>3 DEF OutsideRename, IsolationInv, TypeOK
    <3> QED BY <3>2, <3>3, <3>4 DEF Quiet
  <2>4. CASE OutsideDelete
    <3>1. PICK u \in Live(rec) : rec' = Without(u)
      BY <2>4 DEF OutsideDelete
    <3>2. DOMAIN rec' = DOMAIN rec \ {u} /\ \A v \in DOMAIN rec \ {u} : rec'[v] = rec[v]
      BY <3>1 DEF Without
    <3>3. UNCHANGED used /\ DOMAIN rec \subseteq used
      BY <2>4 DEF OutsideDelete, IsolationInv, TypeOK
    <3> QED BY <3>2, <3>3 DEF Quiet
  <2> QED BY <2>1, <2>2, <2>3, <2>4
<1>3. Scoped'
  BY <1>2, QuietKeepsScoped DEF IsolationInv, StaleButOwn
<1>4. \A q \in Run : PlanIsOwn(q)'
  BY <1>1, <1>2, QuietKeepsPlans DEF IsolationInv, StaleButOwn
<1>5. \A q \in Run : MarkIsOwn(q)'
  BY <1>1, <1>2, QuietKeepsMarks DEF IsolationInv, StaleButOwn
<1>6. \A q \in Run : SnapIsOwn(q)'
  BY <1>1, <1>2, QuietKeepsSnaps DEF IsolationInv, StaleButOwn
<1> QED BY <1>3, <1>4, <1>5, <1>6 DEF StaleButOwn

LEMMA IsolationInit == Init => IsolationInv
<1> SUFFICES ASSUME Init PROVE StaleButOwn
  BY TypeInit DEF IsolationInv
<1>1. Scoped
  BY DEF Init, Scoped, Live, Empty
<1>2. \A p \in Run : SnapIsOwn(p) /\ PlanIsOwn(p) /\ MarkIsOwn(p)
  BY DEF Init, SnapIsOwn, PlanIsOwn, MarkIsOwn, Empty, Live
<1> QED BY <1>1, <1>2 DEF StaleButOwn

LEMMA IsolationNext ==
  ASSUME DisjointScopes, IsolationInv, [Next]_vars
  PROVE  IsolationInv'
<1>1. TypeOK'
  BY TypeNext DEF IsolationInv
<1>2. ASSUME NEW p \in Run, RunStep(p) PROVE StaleButOwn'
  BY <1>1, <1>2, IsolationList, IsolationRead, IsolationPlan, IsolationCreate, IsolationCreateLost, IsolationUpdateBody,
     IsolationMark, IsolationDelete, IsolationEnd
     DEF RunStep, Finish, Fail
<1>3. ASSUME OutsideCreate \/ OutsideEdit \/ OutsideRename \/ OutsideDelete PROVE StaleButOwn'
  BY <1>1, <1>3, IsolationOutside
<1>4. ASSUME UNCHANGED vars PROVE StaleButOwn'
  <2>1. UNCHANGED <<rec, used, pc, snap, todo, doomed, cur>> /\ StaleButOwn
    BY <1>4 DEF vars, IsolationInv
  <2>2. Scoped'
    BY <2>1 DEF StaleButOwn, Scoped, InScope, Live
  <2>3. \A p \in Run : PlanIsOwn(p)'
    BY <2>1 DEF StaleButOwn, PlanIsOwn, Own, Live
  <2>4. \A p \in Run : MarkIsOwn(p)'
    BY <2>1 DEF StaleButOwn, MarkIsOwn, Own, Live
  <2>5. \A p \in Run : SnapIsOwn(p)'
    BY <2>1 DEF StaleButOwn, SnapIsOwn, InScope, Own, Live
  <2> QED BY <2>2, <2>3, <2>4, <2>5 DEF StaleButOwn
<1>5. StaleButOwn'
  <2>1. CASE \E p \in Run : RunStep(p)
    BY <2>1, <1>2
  <2>2. CASE ~\E p \in Run : RunStep(p)
    BY <2>2, <1>3, <1>4 DEF Next
  <2> QED BY <2>1, <2>2
<1> QED BY <1>1, <1>5 DEF IsolationInv

\* Manifests with disjoint scopes: in every reachable state, whatever is left
\* of anybody's plan is about records that are gone or its manifest's own.
THEOREM PlansStayOwn == ASSUME DisjointScopes PROVE Spec => []StaleButOwn
<1>1. Init => IsolationInv
  BY IsolationInit
<1>2. IsolationInv /\ [Next]_vars => IsolationInv'
  BY IsolationNext
<1>3. IsolationInv => StaleButOwn
  BY DEF IsolationInv
<1> QED BY <1>1, <1>2, <1>3, PTL DEF Spec

------------------------------------------------------------------------------
(* Every call of an apply is within its own scope *)

LEMMA HeldCustody ==
  ASSUME TypeOK, NEW u \in Live(rec), NEW m, Own(u, m)
  PROVE  CustodyOf(u) = Holding("held", m)
BY DEF CustodyOf, Own, Live, TypeOK

LEMMA FreshCustody ==
  ASSUME IsolationInv, NEW p \in Run, pc[p] = "mark", cur[p].uid \in Live(rec),
         ~Own(cur[p].uid, ManifestOf[p])
  PROVE  CustodyOf(cur[p].uid) = Holding("fresh", ManifestOf[p])
<1> DEFINE u == cur[p].uid
<1>1. /\ rec[u].marker = Unmarked
      /\ \A q \in Run : pc[q] = "mark" /\ cur[q].uid = u => q = p
  BY DEF IsolationInv, StaleButOwn, MarkIsOwn
<1>2. Writers(u) = {p}
  BY <1>1 DEF Writers
<1>3. rec[u].marker.manager # "sdk" /\ u \in used
  BY <1>1 DEF Unmarked, IsolationInv, TypeOK, Live
<1>4. (CHOOSE q \in {p} : TRUE) = p
  OBVIOUS
<1> QED BY <1>2, <1>3, <1>4 DEF CustodyOf

\* The records a step of p may touch
Reach(p, u) ==
  CustodyOf(u) \in {Holding("unborn", NoName), Holding("fresh", ManifestOf[p]),
                    Holding("held", ManifestOf[p])}

LEMMA StepReach ==
  ASSUME IsolationInv, NEW p \in Run, RunStep(p), NEW u \in Uid, Touched(u)
  PROVE  Reach(p, u)
<1>1. CASE List(p) \/ Read(p) \/ Plan(p) \/ Finish(p) \/ Fail(p)
  BY <1>1 DEF List, Read, Plan, Finish, Fail, End, Touched, Live
<1>2. CASE Create(p) \/ CreateLost(p)
  <2>1. PICK c \in todo[p], w \in Uid \ used : rec' = With(rec, w, NewRecord(c))
    BY <1>2 DEF Create, CreateLost
  <2>2. \A v \in Uid : v # w => ~Touched(v)
    BY <2>1 DEF With, Touched, Live
  <2> QED BY <2>2 DEF CustodyOf, Reach
<1>3. CASE UpdateBody(p)
  <2>1. PICK c \in todo[p] : /\ c.kind = "update" /\ c.uid \in Live(rec)
                             /\ rec' = With(rec, c.uid, Patch(rec[c.uid], c))
    BY <1>3 DEF UpdateBody
  <2>2. \A v \in Uid : v # c.uid => ~Touched(v)
    BY <2>1 DEF With, Touched, Live
  <2>3. Own(c.uid, ManifestOf[p])
    BY <2>1 DEF IsolationInv, StaleButOwn, PlanIsOwn
  <2> QED BY <2>1, <2>2, <2>3, HeldCustody DEF Reach, IsolationInv
<1>4. CASE Mark(p)
  <2>1. /\ pc[p] = "mark" /\ cur[p].uid \in Live(rec)
        /\ rec' = With(rec, cur[p].uid, [rec[cur[p].uid] EXCEPT !.marker =
                                       EncodeMarker(cur[p].ref, ManifestOf[p])])
    BY <1>4 DEF Mark
  <2>2. \A v \in Uid : v # cur[p].uid => ~Touched(v)
    BY <2>1 DEF With, Touched, Live
  <2> QED BY <2>1, <2>2, HeldCustody, FreshCustody DEF Reach, IsolationInv
<1>5. CASE Delete(p)
  <2>1. PICK w \in doomed[p] : rec' = Without(w)
    BY <1>5 DEF Delete
  <2>2. \A v \in Uid : v # w => ~Touched(v)
    BY <2>1 DEF Without, Touched, Live
  <2>3. w \notin Live(rec) => ~Touched(w)
    BY <2>1 DEF Without, Touched, Live
  <2>4. w \in Live(rec) => Own(w, ManifestOf[p])
    BY DEF IsolationInv, StaleButOwn, PlanIsOwn
  <2> QED BY <2>2, <2>3, <2>4, HeldCustody DEF Reach, IsolationInv
<1> QED BY <1>1, <1>2, <1>3, <1>4, <1>5 DEF RunStep

\* A step changes the control state of one process at most.
LEMMA OneActor ==
  ASSUME TypeOK, NEW p \in Run, NEW q \in Run, RunStep(q), Acts(p)
  PROVE  p = q
<1> SUFFICES ASSUME p # q PROVE FALSE
  OBVIOUS
<1>1. pc'[p] = pc[p] /\ ahead'[p] = ahead[p] /\ todo'[p] = todo[p] /\ doomed'[p] = doomed[p]
  BY DEF RunStep, List, Read, Plan, Create, CreateLost, UpdateBody, Mark, Delete, Finish, Fail,
         End, Found, TypeOK
<1> QED BY <1>1 DEF Acts, Control

LEMMA OwnScopeStep ==
  ASSUME IsolationInv, [Next]_vars
  PROVE  \A p \in Run : Acts(p) => \A u \in Uid : Touched(u) => Reach(p, u)
<1> SUFFICES ASSUME NEW p \in Run, Acts(p), NEW u \in Uid, Touched(u) PROVE Reach(p, u)
  OBVIOUS
<1>1. ASSUME NEW q \in Run, RunStep(q) PROVE Reach(p, u)
  <2>1. RunStep(p)
    BY <1>1, OneActor DEF IsolationInv
  <2> QED BY <2>1, StepReach
<1>2. CASE OutsideCreate \/ OutsideEdit \/ OutsideRename \/ OutsideDelete
  BY <1>2 DEF OutsideCreate, OutsideEdit, OutsideRename, OutsideDelete, OutsideStep, Found, Acts, Control
<1>3. CASE UNCHANGED vars
  BY <1>3 DEF vars, Acts, Control
<1> QED BY <1>1, <1>2, <1>3 DEF Next

\* Manifests with disjoint scopes never write to or remove each other's
\* records, nor anybody else's, whatever the interleaving of their applies.
THEOREM ScopesAreIsolated == ASSUME DisjointScopes PROVE Spec => OwnScopeOnly
<1>1. Init => IsolationInv
  BY IsolationInit
<1>2. IsolationInv /\ [Next]_vars => IsolationInv'
  BY IsolationNext
<1>3. IsolationInv /\ [Next]_vars =>
        [\A p \in Run : Acts(p) => \A u \in Uid : Touched(u) =>
           CustodyOf(u) \in {Holding("unborn", NoName), Holding("fresh", ManifestOf[p]),
                             Holding("held", ManifestOf[p])}]_vars
  BY OwnScopeStep DEF Reach
<1> QED BY <1>1, <1>2, <1>3, PTL DEF Spec, OwnScopeOnly

------------------------------------------------------------------------------
(* VaultApply implements Custody *)

Custodians == [u \in Uid |-> CustodyOf(u)]

LEMMA SameCustody ==
  ASSUME NEW v, v \in used' <=> v \in used, v \in Live(rec') <=> v \in Live(rec),
         v \in Live(rec) => rec'[v].marker = rec[v].marker,
         v \in Live(rec) => rec[v].marker.manager = "sdk" \/ Writers(v)' = Writers(v)
  PROVE  CustodyOf(v)' = CustodyOf(v)
<1>1. CASE v \notin used \/ v \notin Live(rec)
  BY <1>1 DEF CustodyOf, Live
<1>2. CASE v \in used /\ v \in Live(rec) /\ rec[v].marker.manager = "sdk"
  BY <1>2 DEF CustodyOf, Live
<1>3. CASE v \in used /\ v \in Live(rec) /\ rec[v].marker.manager # "sdk"
  <2>1. Writers(v)' = Writers(v) /\ rec'[v].marker.manager # "sdk"
        /\ v \in used' /\ v \in Live(rec')
    BY <1>3
  <2>2. CASE Writers(v) = {}
    BY <1>3, <2>1, <2>2 DEF CustodyOf, Live
  <2>3. CASE Writers(v) # {}
    <3>1. CustodyOf(v) = Holding("fresh", ManifestOf[CHOOSE p \in Writers(v) : TRUE])
      BY <1>3, <2>3 DEF CustodyOf, Live
    <3>2. CustodyOf(v)' = Holding("fresh", ManifestOf[CHOOSE p \in Writers(v)' : TRUE])
      BY <2>1, <2>3 DEF CustodyOf, Live
    <3> QED BY <3>1, <3>2, <2>1
  <2> QED BY <2>2, <2>3
<1> QED BY <1>1, <1>2, <1>3

LEMMA NobodyMoves ==
  ASSUME \A v \in Uid : CustodyOf(v)' = CustodyOf(v)
  PROVE  Custodians' = Custodians
BY DEF Custodians

LEMMA OneMoves ==
  ASSUME NEW u \in Uid, NEW to, CustodyOf(u)' = to,
         \A v \in Uid : v # u => CustodyOf(v)' = CustodyOf(v)
  PROVE  Custodians' = [Custodians EXCEPT ![u] = to]
BY DEF Custodians

\* Moves of the abstract specification, by their ends
LEMMA AbstractMove ==
  ASSUME NEW u \in Uid, NEW m \in ManifestName, NEW from, NEW to,
         CustodyOf(u) = from, CustodyOf(u)' = to,
         \A v \in Uid : v # u => CustodyOf(v)' = CustodyOf(v),
         <<from, to>> \in {<<Holding("unborn", NoName), Holding("outside", NoName)>>,
                           <<Holding("unborn", NoName), Holding("fresh", m)>>,
                           <<Holding("fresh", m), Holding("held", m)>>,
                           <<Holding("fresh", m), Holding("outside", NoName)>>}
  PROVE  Abstract!CustodyNext
<1>1. Custodians' = [Custodians EXCEPT ![u] = to] /\ Custodians[u] = from
  BY OneMoves DEF Custodians
<1>2. Abstract!Arrive(u) \/ Abstract!Begin(u, m) \/ Abstract!Take(u, m) \/ Abstract!Abandon(u, m)
  BY <1>1 DEF Abstract!Arrive, Abstract!Begin, Abstract!Take, Abstract!Abandon, Abstract!Move,
              Abstract!In, Abstract!FreshOf, Abstract!HeldBy, Holding, Custodians
<1> QED BY <1>2 DEF Abstract!CustodyNext

LEMMA AbstractVanish ==
  ASSUME NEW u \in Uid, u \in Live(rec), u \in used, u \in used', u \notin Live(rec'),
         \A v \in Uid : v # u => CustodyOf(v)' = CustodyOf(v)
  PROVE  Abstract!CustodyNext
<1>1. CustodyOf(u)' = Holding("gone", NoName)
  BY DEF CustodyOf, Live
<1>2. CustodyOf(u).stage \notin {"unborn", "gone"}
  BY DEF CustodyOf, Holding
<1>3. Custodians' = [Custodians EXCEPT ![u] = Holding("gone", NoName)] /\ Custodians[u] = CustodyOf(u)
  BY <1>1, OneMoves DEF Custodians
<1>4. Abstract!Vanish(u)
  BY <1>2, <1>3 DEF Abstract!Vanish, Abstract!In, Holding, Custodians
<1> QED BY <1>4 DEF Abstract!CustodyNext

\* Nobody is about to mark a record whose uid is not handed out yet.
LEMMA NoWriters ==
  ASSUME TypeOK, NEW u \in Uid \ used
  PROVE  \A q \in Run : cur[q].uid # u
BY NullsAreNew DEF TypeOK

LEMMA SimulatePlan ==
  ASSUME IsolationInv, NEW p \in Run, List(p) \/ Read(p) \/ Plan(p)
  PROVE  UNCHANGED Custodians
<1>1. /\ UNCHANGED <<rec, used, cur>>
      /\ \A q \in Run : pc'[q] = "mark" <=> pc[q] = "mark"
  BY DEF List, Read, Plan, IsolationInv, TypeOK
<1>2. \A v \in Uid : Writers(v)' = Writers(v)
  BY <1>1 DEF Writers
<1> QED BY <1>1, <1>2, SameCustody, NobodyMoves

LEMMA SimulateCreate ==
  ASSUME IsolationInv, NEW p \in Run, Create(p)
  PROVE  Abstract!CustodyNext
<1>1. PICK c \in todo[p], u \in Uid \ used :
        /\ rec' = With(rec, u, NewRecord(c))
        /\ used' = used \union {u}
        /\ cur' = [cur EXCEPT ![p] = [uid |-> u, ref |-> c.ref]]
  BY DEF Create
<1>2. pc[p] # "mark" /\ pc' = [pc EXCEPT ![p] = "mark"]
  BY DEF Create
<1>3. /\ cur'[p].uid = u /\ pc'[p] = "mark"
      /\ \A q \in Run : q # p => cur'[q] = cur[q] /\ pc'[q] = pc[q]
  BY <1>1, <1>2 DEF IsolationInv, TypeOK
<1>4. /\ DOMAIN rec' = DOMAIN rec \union {u}
      /\ rec'[u].marker = Unmarked
      /\ \A v \in DOMAIN rec : v # u => rec'[v] = rec[v]
  <2>1. rec' = With(rec, u, NewRecord(c))
    BY <1>1
  <2> QED BY <2>1 DEF With, NewRecord
<1>5. Writers(u)' = {p} /\ \A v \in Uid : v # u => Writers(v)' = Writers(v)
  BY <1>2, <1>3, NoWriters DEF Writers, IsolationInv
<1>6. \A v \in Uid : v # u => CustodyOf(v)' = CustodyOf(v)
  BY <1>1, <1>4, <1>5, SameCustody DEF Live
<1>7. CustodyOf(u) = Holding("unborn", NoName)
  BY DEF CustodyOf
<1>8. CustodyOf(u)' = Holding("fresh", ManifestOf[p])
  <2>1. /\ u \in used' /\ u \in Live(rec') /\ rec'[u].marker.manager # "sdk"
        /\ (CHOOSE q \in Writers(u)' : TRUE) = p
    BY <1>1, <1>4, <1>5 DEF Live, Unmarked
  <2> QED BY <2>1, <1>5 DEF CustodyOf, Live
<1> QED BY <1>6, <1>7, <1>8, AbstractMove, VaultAssumption

LEMMA SimulateCreateLost ==
  ASSUME IsolationInv, NEW p \in Run, CreateLost(p)
  PROVE  Abstract!CustodyNext
<1>1. PICK c \in todo[p], u \in Uid \ used :
        rec' = With(rec, u, NewRecord(c)) /\ used' = used \union {u}
  BY DEF CreateLost
<1>2. /\ UNCHANGED cur
      /\ \A q \in Run : pc'[q] = "mark" <=> pc[q] = "mark"
  BY DEF CreateLost, IsolationInv, TypeOK
<1>3. /\ DOMAIN rec' = DOMAIN rec \union {u}
      /\ rec'[u].marker = Unmarked
      /\ \A v \in DOMAIN rec : v # u => rec'[v] = rec[v]
  <2>1. rec' = With(rec, u, NewRecord(c))
    BY <1>1
  <2> QED BY <2>1 DEF With, NewRecord
<1>4. Writers(u)' = {} /\ \A v \in Uid : Writers(v)' = Writers(v)
  BY <1>2, NoWriters DEF Writers, IsolationInv
<1>5. \A v \in Uid : v # u => CustodyOf(v)' = CustodyOf(v)
  BY <1>1, <1>3, <1>4, SameCustody DEF Live
<1>6. CustodyOf(u) = Holding("unborn", NoName) /\ CustodyOf(u)' = Holding("outside", NoName)
  BY <1>1, <1>3, <1>4 DEF CustodyOf, Live, Unmarked
<1> QED BY <1>5, <1>6, AbstractMove, VaultAssumption

LEMMA SimulateUpdateBody ==
  ASSUME IsolationInv, NEW p \in Run, UpdateBody(p)
  PROVE  UNCHANGED Custodians
<1>1. PICK c \in todo[p] :
        /\ c.kind = "update" /\ c.uid \in Live(rec)
        /\ rec' = With(rec, c.uid, Patch(rec[c.uid], c))
        /\ cur' = [cur EXCEPT ![p] = [uid |-> c.uid, ref |-> c.ref]]
  BY DEF UpdateBody
<1>2. pc[p] # "mark" /\ pc' = [pc EXCEPT ![p] = "mark"] /\ UNCHANGED used
  BY DEF UpdateBody
<1>3. c \in Edits /\ rec[c.uid] \in Records
  BY <1>1 DEF IsolationInv, TypeOK, Calls, Creates, Edits, Live
<1>4. /\ DOMAIN rec' = DOMAIN rec
      /\ rec'[c.uid] = Patch(rec[c.uid], c)
      /\ \A v \in DOMAIN rec : v # c.uid => rec'[v] = rec[v]
  <2>1. rec' = With(rec, c.uid, Patch(rec[c.uid], c))
    BY <1>1
  <2> QED BY <1>1, <2>1 DEF With, Live
<1>5. rec'[c.uid].marker = rec[c.uid].marker
  BY <1>3, <1>4, WrittenType
<1>6. rec[c.uid].marker.manager = "sdk"
  BY <1>1 DEF IsolationInv, StaleButOwn, PlanIsOwn, Own
<1>7. \A v \in Uid : v # c.uid => Writers(v)' = Writers(v)
  BY <1>1, <1>2 DEF Writers, IsolationInv, TypeOK
<1>8. \A v \in Uid : CustodyOf(v)' = CustodyOf(v)
  BY <1>2, <1>4, <1>5, <1>6, <1>7, SameCustody DEF Live
<1> QED BY <1>8, NobodyMoves

LEMMA SimulateMark ==
  ASSUME IsolationInv, NEW p \in Run, Mark(p)
  PROVE  Abstract!CustodyNext \/ UNCHANGED Custodians
<1> DEFINE m == ManifestOf[p]
<1>0. PICK u : u = cur[p].uid
  OBVIOUS
<1>1. /\ u \in Live(rec) /\ pc[p] = "mark" /\ pc' = [pc EXCEPT ![p] = "apply"]
      /\ rec' = With(rec, u, [rec[u] EXCEPT !.marker = EncodeMarker(cur[p].ref, m)])
      /\ cur' = [cur EXCEPT ![p] = NoCur]
      /\ UNCHANGED used
  BY <1>0 DEF Mark
<1>2. /\ DOMAIN rec' = DOMAIN rec
      /\ rec'[u] = [rec[u] EXCEPT !.marker = EncodeMarker(cur[p].ref, m)]
      /\ \A v \in DOMAIN rec : v # u => rec'[v] = rec[v]
  BY <1>1 DEF With, Live
<1>3. u \in Uid /\ u \in used /\ rec[u] \in Records /\ m \in ManifestName
  BY <1>0, <1>1, VaultAssumption DEF IsolationInv, TypeOK, Live
<1>4. rec'[u].marker.manager = "sdk" /\ rec'[u].marker.manifest = m
  BY <1>2, <1>3 DEF EncodeMarker, Records
<1>5. CustodyOf(u)' = Holding("held", m)
  <2>1. u \in used' /\ u \in Live(rec')
    BY <1>1, <1>2, <1>3 DEF Live
  <2> QED BY <2>1, <1>2, <1>4 DEF CustodyOf, Live
<1>6. \A v \in Uid : v # u => Writers(v)' = Writers(v)
  BY <1>0, <1>1 DEF Writers, IsolationInv, TypeOK
<1>7. \A v \in Uid : v # u => CustodyOf(v)' = CustodyOf(v)
  BY <1>1, <1>2, <1>6, SameCustody DEF Live
<1>8. CASE Own(u, m)
  <2>1. CustodyOf(u) = Holding("held", m)
    BY <1>1, <1>8, HeldCustody DEF IsolationInv
  <2> QED BY <1>5, <1>7, <2>1, NobodyMoves
<1>9. CASE ~Own(u, m)
  <2>1. CustodyOf(u) = Holding("fresh", m)
    BY <1>0, <1>1, <1>9, FreshCustody
  <2> QED BY <1>3, <1>5, <1>7, <2>1, AbstractMove
<1> QED BY <1>8, <1>9

LEMMA SimulateDelete ==
  ASSUME IsolationInv, NEW p \in Run, Delete(p)
  PROVE  Abstract!CustodyNext \/ UNCHANGED Custodians
<1>1. PICK u \in doomed[p] : rec' = Without(u)
  BY DEF Delete
<1>2. UNCHANGED <<used, pc, cur>>
  BY DEF Delete
<1>3. u \in used /\ u \in Uid
  BY DEF IsolationInv, TypeOK
<1>4. DOMAIN rec' = DOMAIN rec \ {u} /\ \A v \in DOMAIN rec \ {u} : rec'[v] = rec[v]
  BY <1>1 DEF Without
<1>5. \A v : Writers(v)' = Writers(v)
  BY <1>2 DEF Writers
<1>6. \A v \in Uid : v # u => CustodyOf(v)' = CustodyOf(v)
  BY <1>2, <1>4, <1>5, SameCustody DEF Live
<1>7. CASE u \in Live(rec)
  BY <1>2, <1>3, <1>4, <1>6, <1>7, AbstractVanish DEF Live
<1>8. CASE u \notin Live(rec)
  <2>1. CustodyOf(u)' = CustodyOf(u)
    BY <1>2, <1>4, <1>8, SameCustody DEF Live
  <2> QED BY <1>6, <2>1, NobodyMoves
<1> QED BY <1>7, <1>8

LEMMA SimulateEnd ==
  ASSUME IsolationInv, NEW p \in Run, End(p)
  PROVE  Abstract!CustodyNext \/ UNCHANGED Custodians
<1> DEFINE m == ManifestOf[p]
<1>0. PICK u : u = cur[p].uid
  OBVIOUS
<1>1. /\ UNCHANGED <<rec, used>>
      /\ pc' = [pc EXCEPT ![p] = "idle"] /\ cur' = [cur EXCEPT ![p] = NoCur]
  BY DEF End
<1>2. /\ pc'[p] = "idle"
      /\ \A q \in Run : q # p => pc'[q] = pc[q] /\ cur'[q] = cur[q]
  BY <1>1 DEF IsolationInv, TypeOK
<1>3. \A v : v # u \/ pc[p] # "mark" => Writers(v)' = Writers(v)
  BY <1>0, <1>2 DEF Writers
<1>4. \A v : v # u \/ pc[p] # "mark" => CustodyOf(v)' = CustodyOf(v)
  BY <1>1, <1>3, SameCustody
<1>5. CASE pc[p] = "mark" /\ u \in Live(rec) /\ ~Own(u, m)
  <2>1. CustodyOf(u) = Holding("fresh", m)
    BY <1>0, <1>5, FreshCustody
  <2>2. /\ rec[u].marker = Unmarked /\ u \in used /\ u \in Uid
        /\ \A q \in Run : pc[q] = "mark" /\ cur[q].uid = u => q = p
    BY <1>0, <1>5 DEF IsolationInv, StaleButOwn, MarkIsOwn, TypeOK, Live
  <2>3. Writers(u)' = {}
    BY <1>2, <2>2 DEF Writers
  <2>4. CustodyOf(u)' = Holding("outside", NoName)
    BY <1>1, <1>5, <2>2, <2>3 DEF CustodyOf, Live, Unmarked
  <2> QED BY <1>4, <2>1, <2>2, <2>4, AbstractMove, VaultAssumption
<1>6. CASE ~(pc[p] = "mark" /\ u \in Live(rec) /\ ~Own(u, m))
  <2>1. pc[p] = "mark" => (u \in Live(rec) => rec[u].marker.manager = "sdk")
    BY <1>6 DEF Own
  <2>2. pc[p] = "mark" => CustodyOf(u)' = CustodyOf(u)
    BY <1>1, <2>1, SameCustody
  <2> QED BY <1>4, <2>2, NobodyMoves
<1> QED BY <1>5, <1>6

LEMMA SimulateOutside ==
  ASSUME DisjointScopes, IsolationInv, OutsideCreate \/ OutsideEdit \/ OutsideRename \/ OutsideDelete
  PROVE  Abstract!CustodyNext \/ UNCHANGED Custodians
<1>1. \A v : Writers(v)' = Writers(v)
  BY DEF OutsideCreate, OutsideEdit, OutsideRename, OutsideDelete, OutsideStep, Writers
<1>2. DOMAIN rec \subseteq used /\ used \subseteq Uid
  BY DEF IsolationInv, TypeOK
<1>3. CASE OutsideCreate
  <2>1. PICK u \in Uid \ used, t \in OutsideTitle, b \in OutsideBody, k \in OutsideMarkers :
          rec' = With(rec, u, [title |-> t, body |-> b, marker |-> k]) /\ used' = used \union {u}
    BY <1>3 DEF OutsideCreate
  <2>2. /\ DOMAIN rec' = DOMAIN rec \union {u}
        /\ rec'[u].marker = k
        /\ \A v \in DOMAIN rec : v # u => rec'[v] = rec[v]
    BY <2>1 DEF With
  <2>3. \A v \in Uid : v # u => CustodyOf(v)' = CustodyOf(v)
    BY <1>1, <2>1, <2>2, SameCustody DEF Live
  <2>4. Writers(u)' = {}
    BY <1>1, NoWriters DEF Writers, IsolationInv
  <2>5. CustodyOf(u) = Holding("unborn", NoName) /\ CustodyOf(u)' = Holding("outside", NoName)
    BY <2>1, <2>2, <2>4 DEF CustodyOf, Live, DisjointScopes
  <2>6. CASE ManifestName # {}
    BY <2>3, <2>5, <2>6, AbstractMove
  <2>7. CASE ManifestName = {}
    <3>1. Custodians' = [Custodians EXCEPT ![u] = Holding("outside", NoName)]
          /\ Custodians[u] = Holding("unborn", NoName)
      BY <2>3, <2>5, OneMoves DEF Custodians
    <3>2. Abstract!Arrive(u)
      BY <3>1 DEF Abstract!Arrive, Abstract!Move, Abstract!In, Holding, Custodians
    <3> QED BY <3>2 DEF Abstract!CustodyNext
  <2> QED BY <2>6, <2>7
<1>4. CASE OutsideEdit
  <2>1. PICK u \in Live(rec), b \in OutsideBody : rec' = With(rec, u, [rec[u] EXCEPT !.body = b])
    BY <1>4 DEF OutsideEdit
  <2>2. /\ DOMAIN rec' = DOMAIN rec /\ UNCHANGED used
        /\ \A v \in DOMAIN rec : rec'[v].marker = rec[v].marker
    BY <1>4, <2>1 DEF With, Live, OutsideEdit, IsolationInv, TypeOK, Records
  <2>3. \A v \in Uid : CustodyOf(v)' = CustodyOf(v)
    BY <1>1, <2>2, SameCustody DEF Live
  <2> QED BY <2>3, NobodyMoves
<1>5. CASE OutsideRename
  <2>1. PICK u \in Live(rec), t \in RenameTitle : rec' = With(rec, u, [rec[u] EXCEPT !.title = t])
    BY <1>5 DEF OutsideRename
  <2>2. /\ DOMAIN rec' = DOMAIN rec /\ UNCHANGED used
        /\ \A v \in DOMAIN rec : rec'[v].marker = rec[v].marker
    BY <1>5, <2>1 DEF With, Live, OutsideRename, IsolationInv, TypeOK, Records
  <2>3. \A v \in Uid : CustodyOf(v)' = CustodyOf(v)
    BY <1>1, <2>2, SameCustody DEF Live
  <2> QED BY <2>3, NobodyMoves
<1>6. CASE OutsideDelete
  <2>1. PICK u \in Live(rec) : rec' = Without(u)
    BY <1>6 DEF OutsideDelete
  <2>2. /\ UNCHANGED used /\ DOMAIN rec' = DOMAIN rec \ {u}
        /\ \A v \in DOMAIN rec \ {u} : rec'[v] = rec[v]
    BY <1>6, <2>1 DEF Without, OutsideDelete
  <2>3. \A v \in Uid : v # u => CustodyOf(v)' = CustodyOf(v)
    BY <1>1, <2>2, SameCustody DEF Live
  <2> QED BY <1>2, <2>1, <2>2, <2>3, AbstractVanish DEF Live
<1> QED BY <1>3, <1>4, <1>5, <1>6

LEMMA CustodyStep ==
  ASSUME DisjointScopes, IsolationInv, [Next]_vars
  PROVE  [Abstract!CustodyNext]_Custodians
<1>1. ASSUME NEW p \in Run, RunStep(p)
      PROVE  Abstract!CustodyNext \/ UNCHANGED Custodians
  BY <1>1, SimulatePlan, SimulateCreate, SimulateCreateLost, SimulateUpdateBody, SimulateMark,
     SimulateDelete, SimulateEnd
     DEF RunStep, Finish, Fail
<1>2. CASE UNCHANGED vars
  <2>1. UNCHANGED <<rec, used, pc, cur>>
    BY <1>2 DEF vars
  <2>2. \A v : Writers(v)' = Writers(v)
    BY <2>1 DEF Writers
  <2> QED BY <2>1, <2>2, SameCustody, NobodyMoves DEF Live
<1>3. Abstract!CustodyNext \/ UNCHANGED Custodians
  <2>1. CASE \E p \in Run : RunStep(p)
    BY <1>1, <2>1
  <2>2. CASE ~\E p \in Run : RunStep(p)
    BY <1>2, <2>2, SimulateOutside DEF Next
  <2> QED BY <2>1, <2>2
<1> QED BY <1>3

LEMMA CustodyStart == Init => Abstract!CustodyInit
BY DEF Init, Abstract!CustodyInit, Abstract!In, CustodyOf, Holding, Empty

\* VaultApply implements Custody under disjoint scopes: a manifest comes to
\* hold a record only by creating and then marking it.
THEOREM CustodyImplemented == ASSUME DisjointScopes PROVE Spec => CustodyRefined
<1>1. Init => IsolationInv
  BY IsolationInit
<1>2. IsolationInv /\ [Next]_vars => IsolationInv'
  BY IsolationNext
<1>3. Init => Abstract!CustodyInit
  BY CustodyStart
<1>4. IsolationInv /\ [Next]_vars => [Abstract!CustodyNext]_Custodians
  BY CustodyStep
<1> QED BY <1>1, <1>2, <1>3, <1>4, PTL DEF Spec, CustodyRefined, Abstract!CustodySpec, Custodians

------------------------------------------------------------------------------
(* One owner per uid_ref, and whose records a plan deletes *)

Wants(p, r) == \E row \in want[p] : row.ref = r

\* The records of p's manifest are still to be read, or have kept the marker they were
\* read with
SeenOwn(p) ==
  pc[p] = "discover" =>
    \A u \in Live(rec) : Own(u, ManifestOf[p]) =>
       u \in ahead[p] \/ (u \in Live(snap[p]) /\ snap[p][u].marker = rec[u].marker)

\* Nothing but the record to be updated has the uid_ref of a change
TodoClaims(p) ==
  /\ \A c \in todo[p] :
       /\ Wants(p, c.ref)
       /\ c.kind = "update" => c.uid \notin doomed[p]
       /\ \A u \in Live(rec) :
            Own(u, ManifestOf[p]) /\ rec[u].marker.ref = c.ref => c.kind = "update" /\ u = c.uid
  /\ \A c, d \in todo[p] : c.ref = d.ref => c = d

CurClaims(p) ==
  pc[p] = "mark" =>
    /\ Wants(p, cur[p].ref)
    /\ \A c \in todo[p] : c.ref # cur[p].ref
    /\ cur[p].uid \notin doomed[p]
    /\ \A u \in Live(rec) : Own(u, ManifestOf[p]) /\ rec[u].marker.ref = cur[p].ref => u = cur[p].uid

DoomedClaims(p) ==
  \A u \in doomed[p] : u \in Live(rec) /\ Own(u, ManifestOf[p]) => ~Wants(p, rec[u].marker.ref)

OneEach(p) ==
  \A u, v \in Live(rec) :
     Own(u, ManifestOf[p]) /\ Own(v, ManifestOf[p]) /\ rec[u].marker.ref = rec[v].marker.ref => u = v

Claims(p) == SeenOwn(p) /\ TodoClaims(p) /\ CurClaims(p) /\ DoomedClaims(p) /\ OneEach(p)

\* A step after which m holds no record that it did not hold before, under that marker
NoneGained(m) ==
  \A u \in Live(rec') : Own(u, m)' => u \in Live(rec) /\ Own(u, m) /\ rec'[u].marker = rec[u].marker

LocalOf(p) == <<pc[p], ahead[p], snap[p], todo[p], doomed[p], cur[p], want[p]>>

LEMMA NoneGainedOne ==
  ASSUME NEW u, NEW r, NEW m, rec' = With(rec, u, r),
         (u \in DOMAIN rec /\ r.marker = rec[u].marker) \/ r.marker.manager # "sdk" \/ r.marker.manifest # m
  PROVE  NoneGained(m)
<1>1. /\ DOMAIN rec' = DOMAIN rec \union {u} /\ rec'[u] = r
      /\ \A v \in DOMAIN rec : v # u => rec'[v] = rec[v]
  BY DEF With
<1> SUFFICES ASSUME NEW v \in Live(rec'), Own(v, m)'
             PROVE  v \in Live(rec) /\ Own(v, m) /\ rec'[v].marker = rec[v].marker
  BY DEF NoneGained
<1>2. CASE v = u
  BY <1>1, <1>2 DEF Own, Live
<1>3. CASE v # u
  BY <1>1, <1>3 DEF Own, Live
<1> QED BY <1>2, <1>3

LEMMA NoneGainedLess ==
  ASSUME NEW u, NEW m, rec' = Without(u)
  PROVE  NoneGained(m)
BY DEF Without, NoneGained, Own, Live

\* A manifest comes to hold a record by its own process's marking it, and not otherwise
LEMMA OnlyMarkGains ==
  ASSUME DisjointScopes, TypeOK, Next, NEW m, \A p \in Run : Mark(p) => ManifestOf[p] # m
  PROVE  NoneGained(m)
<1>1. CASE UNCHANGED rec
  BY <1>1 DEF NoneGained, Own, Live
<1>2. ASSUME NEW q \in Run, Create(q) \/ CreateLost(q) PROVE NoneGained(m)
  <2>1. PICK c \in todo[q], u \in Uid \ used : rec' = With(rec, u, NewRecord(c))
    BY <1>2 DEF Create, CreateLost
  <2>2. NewRecord(c).marker.manager = "none"
    BY DEF NewRecord, Unmarked
  <2> QED BY <2>1, <2>2, NoneGainedOne
<1>3. ASSUME NEW q \in Run, UpdateBody(q) PROVE NoneGained(m)
  <2>1. PICK c \in todo[q] : c.kind = "update" /\ c.uid \in Live(rec) /\ rec' = With(rec, c.uid, Patch(rec[c.uid], c))
    BY <1>3 DEF UpdateBody
  <2>2. c \in Edits /\ rec[c.uid] \in Records
    BY <2>1 DEF TypeOK, Calls, Creates, Edits, Live
  <2>3. Patch(rec[c.uid], c).marker = rec[c.uid].marker
    BY <2>2, WrittenType
  <2> QED BY <2>1, <2>3, NoneGainedOne DEF Live
<1>4. ASSUME NEW q \in Run, Mark(q) PROVE NoneGained(m)
  <2>1. ManifestOf[q] # m
    BY <1>4
  <2>2. PICK u : u = cur[q].uid
    OBVIOUS
  <2>3. u \in Live(rec) /\ rec' = With(rec, u, [rec[u] EXCEPT !.marker = EncodeMarker(cur[q].ref, ManifestOf[q])])
    BY <1>4, <2>2 DEF Mark
  <2>4. rec[u] \in Records
    BY <2>3 DEF TypeOK, Live
  <2>5. [rec[u] EXCEPT !.marker = EncodeMarker(cur[q].ref, ManifestOf[q])].marker.manifest # m
    BY <2>1, <2>4 DEF Records, EncodeMarker
  <2> QED BY <2>3, <2>5, NoneGainedOne
<1>5. ASSUME NEW q \in Run, Delete(q) PROVE NoneGained(m)
  BY <1>5, NoneGainedLess DEF Delete
<1>6. ASSUME NEW q \in Run, List(q) \/ Read(q) \/ Plan(q) \/ Finish(q) \/ Fail(q) PROVE UNCHANGED rec
  BY <1>6 DEF List, Read, Plan, Finish, Fail, End
<1>7. ASSUME OutsideCreate PROVE NoneGained(m)
  <2>1. PICK u \in Uid \ used, t \in OutsideTitle, b \in OutsideBody, k \in OutsideMarkers :
          rec' = With(rec, u, [title |-> t, body |-> b, marker |-> k])
    BY <1>7 DEF OutsideCreate
  <2>2. k.manager # "sdk"
    BY DEF DisjointScopes
  <2> QED BY <2>1, <2>2, NoneGainedOne
<1>8. ASSUME OutsideEdit \/ OutsideRename PROVE NoneGained(m)
  <2>1. PICK u \in Live(rec) : \/ \E b \in OutsideBody : rec' = With(rec, u, [rec[u] EXCEPT !.body = b])
                               \/ \E t \in RenameTitle : rec' = With(rec, u, [rec[u] EXCEPT !.title = t])
    BY <1>8 DEF OutsideEdit, OutsideRename
  <2>2. rec[u] \in Records
    BY <2>1 DEF TypeOK, Live
  <2>3. \A b, t : /\ [rec[u] EXCEPT !.body = b].marker = rec[u].marker
                  /\ [rec[u] EXCEPT !.title = t].marker = rec[u].marker
    BY <2>2 DEF Records
  <2> QED BY <2>1, <2>3, NoneGainedOne DEF Live
<1>9. ASSUME OutsideDelete PROVE NoneGained(m)
  BY <1>9, NoneGainedLess DEF OutsideDelete
<1> QED BY <1>1, <1>2, <1>3, <1>4, <1>5, <1>6, <1>7, <1>8, <1>9 DEF Next, RunStep

\* So a process loses no claim while others act
LEMMA ClaimsStay ==
  ASSUME NEW p \in Run, Claims(p), NoneGained(ManifestOf[p]), UNCHANGED LocalOf(p)
  PROVE  Claims(p)'
<1> DEFINE m == ManifestOf[p]
<1>1. \A u \in Live(rec') : Own(u, m)' => u \in Live(rec) /\ Own(u, m) /\ rec'[u].marker = rec[u].marker
  BY DEF NoneGained
<1>2. /\ pc'[p] = pc[p] /\ ahead'[p] = ahead[p] /\ snap'[p] = snap[p] /\ todo'[p] = todo[p]
      /\ doomed'[p] = doomed[p] /\ cur'[p] = cur[p] /\ want'[p] = want[p]
  BY DEF LocalOf
<1>3. \A r : Wants(p, r)' <=> Wants(p, r)
  BY <1>2 DEF Wants
<1>4. SeenOwn(p)'
  BY <1>1, <1>2 DEF Claims, SeenOwn, Live
<1>5. TodoClaims(p)'
  BY <1>1, <1>2, <1>3 DEF Claims, TodoClaims
<1>6. CurClaims(p)'
  BY <1>1, <1>2, <1>3 DEF Claims, CurClaims
<1>7. DoomedClaims(p)'
  BY <1>1, <1>2, <1>3 DEF Claims, DoomedClaims
<1>8. OneEach(p)'
  BY <1>1 DEF Claims, OneEach
<1> QED BY <1>4, <1>5, <1>6, <1>7, <1>8 DEF Claims

\* A record that claims a row is the one that the row is matched to.
LEMMA ClaimedMatch ==
  ASSUME NEW s, NEW f, NEW row \in Rows, NEW u \in Live(s), s[u].marker.ref = row.ref,
         \A v, w \in Live(s) : s[v].marker.ref = s[w].marker.ref /\ s[v].marker.ref # NoRef => v = w
  PROVE  Match(s, f, row) = u
<1>1. row.ref \in Ref /\ row.ref # NoRef
  BY NullsAreNew DEF Rows
<1>2. Claimants(s, row.ref) # {}
  BY DEF Claimants
<1>3. Match(s, f, row) \in Claimants(s, row.ref)
  BY <1>2 DEF Match
<1> QED BY <1>1, <1>3 DEF Claimants

LEMMA NoCollisionRefs ==
  ASSUME NEW s, ~Collision(s)
  PROVE  \A v, w \in Live(s) : s[v].marker.ref = s[w].marker.ref /\ s[v].marker.ref # NoRef => v = w
BY DEF Collision

\* A row that is created claims nothing and has no namesake.
LEMMA CreatedIsNew ==
  ASSUME NEW s, Snapshot(s), NEW f \in TitleIndexes(s), NEW row \in Rows, Match(s, f, row) = NoUid
  PROVE  \A u \in Live(s) : s[u].marker.ref # row.ref /\ s[u].title # row.title
<1>1. Claimants(s, row.ref) = {}
  <2> SUFFICES ASSUME Claimants(s, row.ref) # {} PROVE FALSE
    OBVIOUS
  <2>1. Match(s, f, row) \in Claimants(s, row.ref)
    BY DEF Match
  <2> QED BY <2>1, NullsAreNew DEF Claimants, Live, Snapshot
<1>2. f[row.title] = NoUid /\ row.title \in Title
  BY <1>1 DEF Match, Rows
<1>3. Titled(s, row.title) = {}
  BY <1>2, NullsAreNew DEF TitleIndexes, Titled, Live, Snapshot
<1> QED BY <1>1, <1>3 DEF Claimants, Titled

\* What a plan writes, row by row
WriteOf(s, f, rows, c, row) ==
  \/ row \in ToCreate(s, f, rows) /\ c = CreateOf(row)
  \/ row \in ToUpdate(s, f, rows) /\ c = EditOf(s, f, row)

LEMMA PlannedAreOfRows ==
  ASSUME NEW s, NEW f, NEW rows
  PROVE  \A c \in Planned(s, f, rows) : \E row \in rows : WriteOf(s, f, rows, c, row)
BY DEF Planned, WriteOf, ToCreate, ToUpdate, Matching

\* A change is of its row, of the one record that claims the row, and of no orphan
Claimed(s, f, rows, c, row) ==
  /\ c.ref = row.ref
  /\ \A u \in Live(s) : s[u].marker.ref = row.ref => c.kind = "update" /\ u = c.uid
  /\ c.kind = "update" => /\ c.uid = Match(s, f, row) /\ c.uid \in Live(s)
                          /\ \A m : c.uid \notin Orphans(s, f, rows, FALSE, m)

LEMMA WriteClaims ==
  ASSUME NEW s, Snapshot(s), ~Collision(s), NEW f \in TitleIndexes(s), NEW rows \in SUBSET Rows,
         NEW row \in rows, NEW c, WriteOf(s, f, rows, c, row)
  PROVE  Claimed(s, f, rows, c, row)
<1>1. CASE row \in ToCreate(s, f, rows) /\ c = CreateOf(row)
  <2>1. c.ref = row.ref /\ c.kind = "create" /\ Match(s, f, row) = NoUid
    BY <1>1 DEF CreateOf, ToCreate
  <2>2. \A u \in Live(s) : s[u].marker.ref # row.ref
    BY <2>1, CreatedIsNew
  <2> QED BY <2>1, <2>2 DEF Claimed
<1>2. CASE row \in ToUpdate(s, f, rows) /\ c = EditOf(s, f, row)
  <2>1. c.ref = row.ref /\ c.kind = "update" /\ c.uid = Match(s, f, row)
    BY <1>2, EditIs
  <2>2. row \in Matching(s, f, rows, {"sdk", "blank"})
    BY <1>2 DEF ToUpdate
  <2>3. Match(s, f, row) # NoUid
    BY <2>2 DEF Matching
  <2>4. c.uid \in Live(s)
    BY <2>1, <2>3, MatchIsLive
  <2>5. \A u \in Live(s) : s[u].marker.ref = row.ref => u = c.uid
    BY <2>1, ClaimedMatch, NoCollisionRefs
  <2>6. c.uid \in Matched(s, f, rows, FALSE)
    BY <2>1, <2>2 DEF Matched
  <2> QED BY <2>1, <2>4, <2>5, <2>6 DEF Orphans, Claimed
<1> QED BY <1>1, <1>2 DEF WriteOf

LEMMA ClaimsPlan ==
  ASSUME DisjointScopes, RefsAreKeys, IsolationInv, NEW p \in Run, Claims(p), Plan(p)
  PROVE  Claims(p)'
<1> DEFINE s == snap[p]
           m == ManifestOf[p]
<1>1. PICK rows \in Versions[m], allow \in BOOLEAN, f \in TitleIndexes(s) :
        /\ todo' = [todo EXCEPT ![p] = Planned(s, f, rows)]
        /\ doomed' = [doomed EXCEPT ![p] = Deletes(s, f, rows, FALSE, m, allow)]
        /\ want' = [want EXCEPT ![p] = rows]
  BY DEF Plan
<1>2. /\ pc[p] = "discover" /\ ahead[p] = {} /\ ~Collision(s) /\ pc' = [pc EXCEPT ![p] = "apply"]
      /\ UNCHANGED rec
  BY DEF Plan
<1>3. Snapshot(s) /\ m \in ManifestName /\ rows \in SUBSET Rows
  BY VaultAssumption DEF IsolationInv, TypeOK, Snapshot
<1>4. /\ pc'[p] = "apply" /\ want'[p] = rows
      /\ todo'[p] = Planned(s, f, rows) /\ doomed'[p] = Deletes(s, f, rows, FALSE, m, allow)
  BY <1>1, <1>2 DEF IsolationInv, TypeOK
<1>5. \A u \in Live(rec) : Own(u, m) => u \in Live(s) /\ s[u].marker = rec[u].marker
  BY <1>2 DEF Claims, SeenOwn
<1>6. \A r : Wants(p, r)' <=> \E row \in rows : row.ref = r
  BY <1>4 DEF Wants
<1>7. \A u \in Live(s) : InScope(s[u])
  BY DEF IsolationInv, StaleButOwn, SnapIsOwn
<1> HIDE DEF s, m
<1>8. ASSUME NEW c \in todo'[p]
      PROVE  /\ Wants(p, c.ref)'
             /\ c.kind = "update" => c.uid \notin doomed'[p]
             /\ \A u \in Live(rec) : Own(u, m) /\ rec[u].marker.ref = c.ref => c.kind = "update" /\ u = c.uid
  <2>1. PICK row \in rows : WriteOf(s, f, rows, c, row)
    BY <1>4, PlannedAreOfRows
  <2>2. /\ c.ref = row.ref
        /\ \A u \in Live(s) : s[u].marker.ref = row.ref => c.kind = "update" /\ u = c.uid
        /\ c.kind = "update" => c.uid \notin Orphans(s, f, rows, FALSE, m)
    <3>1. Claimed(s, f, rows, c, row)
      BY <1>2, <1>3, <2>1, WriteClaims
    <3> QED BY <3>1 DEF Claimed
  <2>3. c.kind = "update" => c.uid \notin doomed'[p]
    BY <1>4, <2>2 DEF Deletes
  <2> QED BY <1>5, <1>6, <2>2, <2>3
<1>9. ASSUME NEW c \in todo'[p], NEW d \in todo'[p], c.ref = d.ref PROVE c = d
  <2>1. PICK row \in rows : WriteOf(s, f, rows, c, row)
    BY <1>4, PlannedAreOfRows
  <2>2. PICK row2 \in rows : WriteOf(s, f, rows, d, row2)
    BY <1>4, PlannedAreOfRows
  <2>3. c.ref = row.ref /\ d.ref = row2.ref
    <3>1. Claimed(s, f, rows, c, row) /\ Claimed(s, f, rows, d, row2)
      BY <1>2, <1>3, <2>1, <2>2, WriteClaims
    <3> QED BY <3>1 DEF Claimed
  <2>4. row = row2
    BY <1>3, <1>9, <2>3 DEF RefsAreKeys
  <2> QED BY <2>1, <2>2, <2>4 DEF WriteOf, ToCreate, ToUpdate, Matching
<1>10. ASSUME NEW u \in doomed'[p], u \in Live(rec), Own(u, m) PROVE ~Wants(p, rec[u].marker.ref)'
  <2>1. u \in Orphans(s, f, rows, FALSE, m) /\ u \in Live(s) /\ s[u].marker = rec[u].marker
    BY <1>4, <1>5, <1>10 DEF Deletes
  <2>2. SUFFICES ASSUME NEW row \in rows, row.ref = s[u].marker.ref PROVE FALSE
    BY <1>2, <1>6, <2>1
  <2>3. Match(s, f, row) = u /\ u # NoUid /\ s[u].marker.manager = "sdk"
    BY <1>2, <1>3, <2>1, <2>2, ClaimedMatch, NoCollisionRefs, NullsAreNew DEF Orphans, Live, Snapshot
  <2>4. u \in Matched(s, f, rows, FALSE)
    BY <2>3 DEF Matched, Matching
  <2> QED BY <2>1, <2>4 DEF Orphans
<1>11. \A u : Own(u, m)' <=> Own(u, m)
  BY <1>2 DEF Own
<1>12. SeenOwn(p)' /\ CurClaims(p)'
  BY <1>4 DEF SeenOwn, CurClaims
<1>13. TodoClaims(p)'
  BY <1>2, <1>8, <1>9, <1>11 DEF TodoClaims, m
<1>14. DoomedClaims(p)'
  BY <1>2, <1>10, <1>11 DEF DoomedClaims, m
<1>15. OneEach(p)'
  BY <1>2 DEF Claims, OneEach, Own
<1> QED BY <1>12, <1>13, <1>14, <1>15 DEF Claims

\* A plan that gets shorter keeps its claims.
LEMMA ClaimsShrink ==
  ASSUME NEW p \in Run, Claims(p), NoneGained(ManifestOf[p]), pc'[p] # "discover",
         want'[p] = want[p], todo'[p] \subseteq todo[p], doomed'[p] \subseteq doomed[p], CurClaims(p)'
  PROVE  Claims(p)'
<1> DEFINE m == ManifestOf[p]
<1>1. \A u \in Live(rec') : Own(u, m)' => u \in Live(rec) /\ Own(u, m) /\ rec'[u].marker = rec[u].marker
  BY DEF NoneGained
<1>2. \A r : Wants(p, r)' <=> Wants(p, r)
  BY DEF Wants
<1>3. SeenOwn(p)'
  BY DEF SeenOwn
<1>4. TodoClaims(p)'
  BY <1>1, <1>2 DEF Claims, TodoClaims
<1>5. DoomedClaims(p)'
  BY <1>1, <1>2 DEF Claims, DoomedClaims
<1>6. OneEach(p)'
  BY <1>1 DEF Claims, OneEach
<1> QED BY <1>3, <1>4, <1>5, <1>6 DEF Claims

LEMMA ClaimsList ==
  ASSUME TypeOK, NEW p \in Run, Claims(p), List(p)
  PROVE  Claims(p)'
<1>1. /\ pc[p] = "idle" /\ pc'[p] = "discover" /\ ahead'[p] = Live(rec) /\ UNCHANGED <<rec, todo, doomed, want>>
  BY DEF List, TypeOK
<1>2. todo'[p] = {} /\ doomed'[p] = {}
  BY <1>1 DEF TypeOK
<1> QED BY <1>1, <1>2 DEF Claims, SeenOwn, TodoClaims, CurClaims, DoomedClaims, OneEach, Own, Live

LEMMA ClaimsRead ==
  ASSUME TypeOK, NEW p \in Run, Claims(p), Read(p)
  PROVE  Claims(p)'
<1>1. PICK u \in ahead[p] \intersect Live(rec) :
        /\ ahead' = [ahead EXCEPT ![p] = @ \ {u}]
        /\ snap' = [snap EXCEPT ![p] = With(snap[p], u, rec[u])]
  BY DEF Read
<1>2. pc[p] = "discover" /\ UNCHANGED <<rec, pc, todo, doomed, cur, want>>
  BY DEF Read
<1>3. ahead'[p] = ahead[p] \ {u} /\ snap'[p] = With(snap[p], u, rec[u])
  BY <1>1 DEF TypeOK
<1>4. /\ DOMAIN snap'[p] = DOMAIN snap[p] \union {u} /\ snap'[p][u] = rec[u]
      /\ \A v \in DOMAIN snap[p] : v # u => snap'[p][v] = snap[p][v]
  BY <1>3 DEF With
<1>5. SeenOwn(p)'
  <2>1. SUFFICES ASSUME NEW v \in Live(rec), Own(v, ManifestOf[p])
                 PROVE  v \in ahead'[p] \/ (v \in Live(snap'[p]) /\ snap'[p][v].marker = rec[v].marker)
    BY <1>2 DEF SeenOwn, Own
  <2>2. v \in ahead[p] \/ (v \in Live(snap[p]) /\ snap[p][v].marker = rec[v].marker)
    BY <1>2, <2>1 DEF Claims, SeenOwn
  <2>3. CASE v = u
    BY <1>4, <2>3 DEF Live
  <2>4. CASE v # u
    BY <1>3, <1>4, <2>2, <2>4 DEF Live
  <2> QED BY <2>3, <2>4
<1>6. (TodoClaims(p) /\ CurClaims(p) /\ DoomedClaims(p) /\ OneEach(p))'
  BY <1>2 DEF Claims, TodoClaims, CurClaims, DoomedClaims, OneEach, Own, Wants
<1> QED BY <1>5, <1>6 DEF Claims

LEMMA ClaimsCreate ==
  ASSUME TypeOK, NEW p \in Run, Claims(p), NoneGained(ManifestOf[p]), Create(p)
  PROVE  Claims(p)'
<1>1. PICK c \in todo[p], u \in Uid \ used :
        /\ c.kind = "create"
        /\ rec' = With(rec, u, NewRecord(c))
        /\ todo' = [todo EXCEPT ![p] = @ \ {c}]
        /\ cur' = [cur EXCEPT ![p] = [uid |-> u, ref |-> c.ref]]
  BY DEF Create
<1>2. /\ todo'[p] = todo[p] \ {c} /\ cur'[p].uid = u /\ cur'[p].ref = c.ref
      /\ pc'[p] = "mark" /\ doomed'[p] = doomed[p] /\ want'[p] = want[p]
  BY <1>1 DEF Create, TypeOK
<1>3. u \notin doomed'[p]
  BY <1>2 DEF TypeOK
<1>4. /\ Wants(p, c.ref)
      /\ \A v \in Live(rec) : Own(v, ManifestOf[p]) => rec[v].marker.ref # c.ref
      /\ \A d \in todo[p] : d.ref = c.ref => d = c
  BY <1>1 DEF Claims, TodoClaims
<1>5. \A v \in Live(rec') : Own(v, ManifestOf[p])' => rec'[v].marker.ref # c.ref
  BY <1>4 DEF NoneGained
<1>6. CurClaims(p)'
  BY <1>2, <1>3, <1>4, <1>5 DEF CurClaims, Wants
<1> QED BY <1>2, <1>6, ClaimsShrink

LEMMA ClaimsUpdateBody ==
  ASSUME TypeOK, NEW p \in Run, Claims(p), NoneGained(ManifestOf[p]), UpdateBody(p)
  PROVE  Claims(p)'
<1>1. PICK c \in todo[p] :
        /\ c.kind = "update"
        /\ todo' = [todo EXCEPT ![p] = @ \ {c}]
        /\ cur' = [cur EXCEPT ![p] = [uid |-> c.uid, ref |-> c.ref]]
  BY DEF UpdateBody
<1>2. /\ todo'[p] = todo[p] \ {c} /\ cur'[p].uid = c.uid /\ cur'[p].ref = c.ref
      /\ pc'[p] = "mark" /\ doomed'[p] = doomed[p] /\ want'[p] = want[p]
  BY <1>1 DEF UpdateBody, TypeOK
<1>3. /\ Wants(p, c.ref) /\ c.uid \notin doomed[p]
      /\ \A v \in Live(rec) : Own(v, ManifestOf[p]) /\ rec[v].marker.ref = c.ref => v = c.uid
      /\ \A d \in todo[p] : d.ref = c.ref => d = c
  BY <1>1 DEF Claims, TodoClaims
<1>4. \A v \in Live(rec') : Own(v, ManifestOf[p])' /\ rec'[v].marker.ref = c.ref => v = c.uid
  BY <1>3 DEF NoneGained
<1>5. CurClaims(p)'
  BY <1>2, <1>3, <1>4 DEF CurClaims, Wants
<1> QED BY <1>2, <1>5, ClaimsShrink

\* The marker makes the record the only one with its uid_ref.
LEMMA ClaimsMark ==
  ASSUME TypeOK, NEW p \in Run, Claims(p), Mark(p)
  PROVE  Claims(p)'
<1> DEFINE m == ManifestOf[p]
<1>0. PICK u : u = cur[p].uid
  OBVIOUS
<1>1. PICK r : r = cur[p].ref
  OBVIOUS
<1>2. /\ pc[p] = "mark" /\ u \in Live(rec)
      /\ rec' = With(rec, u, [rec[u] EXCEPT !.marker = EncodeMarker(r, m)])
      /\ pc'[p] = "apply" /\ UNCHANGED <<todo, doomed, want>>
  BY <1>0, <1>1 DEF Mark, TypeOK
<1>3. rec[u] \in Records
  BY <1>2 DEF TypeOK, Live
<1>4. [rec[u] EXCEPT !.marker = EncodeMarker(r, m)].marker = EncodeMarker(r, m)
  BY <1>3 DEF Records
<1>5. /\ DOMAIN rec' = DOMAIN rec /\ rec'[u].marker = EncodeMarker(r, m)
      /\ \A v \in DOMAIN rec : v # u => rec'[v] = rec[v]
  BY <1>2, <1>4 DEF With, Live
<1>6. rec'[u].marker.ref = r
  BY <1>5 DEF EncodeMarker
<1>7. \A v \in Live(rec) : v # u => (Own(v, m)' <=> Own(v, m)) /\ rec'[v].marker = rec[v].marker
  BY <1>5 DEF Own, Live
<1>8. /\ Wants(p, r) /\ u \notin doomed[p]
      /\ \A c \in todo[p] : c.ref # r
      /\ \A v \in Live(rec) : Own(v, m) /\ rec[v].marker.ref = r => v = u
  BY <1>0, <1>1, <1>2 DEF Claims, CurClaims
<1>9. \A x : Wants(p, x)' <=> Wants(p, x)
  BY <1>2 DEF Wants
<1>10. Live(rec') = Live(rec)
  BY <1>5 DEF Live
<1>11. SeenOwn(p)' /\ CurClaims(p)'
  BY <1>2 DEF SeenOwn, CurClaims
<1>12. TodoClaims(p)'
  <2>1. ASSUME NEW c \in todo[p], NEW v \in Live(rec), Own(v, m)', rec'[v].marker.ref = c.ref
        PROVE  c.kind = "update" /\ v = c.uid
    <3>1. v # u
      BY <1>6, <1>8, <2>1
    <3> QED BY <1>7, <2>1, <3>1 DEF Claims, TodoClaims
  <2> QED BY <1>2, <1>9, <1>10, <2>1 DEF Claims, TodoClaims
<1>13. DoomedClaims(p)'
  <2>1. SUFFICES ASSUME NEW v \in doomed[p], v \in Live(rec), Own(v, m)'
                 PROVE  ~Wants(p, rec'[v].marker.ref)
    BY <1>2, <1>9, <1>10 DEF DoomedClaims
  <2>2. v # u
    BY <1>8
  <2> QED BY <1>7, <2>1, <2>2 DEF Claims, DoomedClaims
<1>14. OneEach(p)'
  <2>1. SUFFICES ASSUME NEW v \in Live(rec), NEW w \in Live(rec), Own(v, m)', Own(w, m)',
                        rec'[v].marker.ref = rec'[w].marker.ref, v # w
                 PROVE  FALSE
    BY <1>10 DEF OneEach
  <2>2. CASE v # u /\ w # u
    BY <1>7, <2>1, <2>2 DEF Claims, OneEach
  <2>3. CASE v = u
    BY <1>6, <1>7, <1>8, <2>1, <2>3
  <2>4. CASE w = u
    BY <1>6, <1>7, <1>8, <2>1, <2>4
  <2> QED BY <2>2, <2>3, <2>4
<1> QED BY <1>11, <1>12, <1>13, <1>14 DEF Claims

NobodyHolds(m) == \A u \in Live(rec) : ~Own(u, m)

AllClaims ==
  /\ \A p \in Run : Claims(p)
  /\ \A m \in ManifestName : (\A p \in Run : ManifestOf[p] # m) => NobodyHolds(m)

LEMMA ClaimsInit == Init => AllClaims
BY VaultAssumption DEF Init, AllClaims, Claims, SeenOwn, TodoClaims, CurClaims, DoomedClaims, OneEach, NobodyHolds, Empty, Live

\* The others' steps leave a process's own variables alone.
LEMMA OthersAreApart ==
  ASSUME TypeOK, NEW p \in Run, NEW q \in Run, RunStep(q), p # q
  PROVE  UNCHANGED LocalOf(p)
BY DEF TypeOK, LocalOf, RunStep, List, Read, Plan, Create, CreateLost, UpdateBody, Mark, Delete,
   Finish, Fail, End, Found

LEMMA ClaimsNext ==
  ASSUME DisjointScopes, OneRunPerManifest, RefsAreKeys, IsolationInv, AllClaims, [Next]_vars
  PROVE  AllClaims'
<1>a. ASSUME NEW m \in ManifestName, \A p \in Run : ManifestOf[p] # m PROVE NobodyHolds(m)'
  <2>1. NobodyHolds(m)
    BY <1>a DEF AllClaims
  <2>2. CASE UNCHANGED vars
    BY <2>1, <2>2 DEF vars, NobodyHolds, Own
  <2>3. CASE Next
    BY <1>a, <2>1, <2>3, OnlyMarkGains DEF NoneGained, NobodyHolds, IsolationInv
  <2> QED BY <2>2, <2>3
<1> SUFFICES ASSUME NEW p \in Run PROVE Claims(p)'
  BY <1>a DEF AllClaims
<1>0. TypeOK /\ Claims(p)
  BY DEF IsolationInv, AllClaims
<1>1. CASE UNCHANGED vars
  BY <1>0, <1>1 DEF vars, Claims, SeenOwn, TodoClaims, CurClaims, DoomedClaims, OneEach, Own, Wants
<1>2. CASE Next /\ ~Mark(p)
  <2>1. NoneGained(ManifestOf[p])
    BY <1>0, <1>2, OnlyMarkGains DEF OneRunPerManifest
  <2>2. CASE RunStep(p)
    <3>1. CASE CreateLost(p) \/ Delete(p) \/ End(p)
      <4>1. /\ pc'[p] \in {"retry", "apply", "idle"} /\ todo'[p] \subseteq todo[p]
            /\ doomed'[p] \subseteq doomed[p]
            /\ want'[p] = want[p] \/ (todo'[p] = {} /\ doomed'[p] = {})
        BY <1>0, <3>1 DEF CreateLost, Delete, End, TypeOK
      <4>2. CurClaims(p)'
        BY <4>1 DEF CurClaims
      <4>3. CASE todo'[p] = {} /\ doomed'[p] = {}
        <5>1. OneEach(p)'
          BY <1>0, <2>1 DEF Claims, OneEach, NoneGained
        <5> QED BY <4>1, <4>2, <4>3, <5>1 DEF Claims, SeenOwn, TodoClaims, DoomedClaims
      <4> QED BY <1>0, <2>1, <4>1, <4>2, <4>3, ClaimsShrink
    <3> QED BY <1>0, <1>2, <2>1, <2>2, <3>1, ClaimsList, ClaimsRead, ClaimsPlan, ClaimsCreate, ClaimsUpdateBody
            DEF RunStep, Finish, Fail
  <2>3. CASE \E q \in Run : q # p /\ RunStep(q)
    BY <1>0, <2>1, <2>3, OthersAreApart, ClaimsStay
  <2>4. CASE OutsideCreate \/ OutsideEdit \/ OutsideRename \/ OutsideDelete
    <3>1. UNCHANGED LocalOf(p)
      BY <2>4 DEF OutsideCreate, OutsideEdit, OutsideRename, OutsideDelete, OutsideStep, LocalOf, Found
    <3> QED BY <1>0, <2>1, <3>1, ClaimsStay
  <2> QED BY <1>2, <2>2, <2>3, <2>4 DEF Next
<1> QED BY <1>0, <1>1, <1>2, ClaimsMark

LEMMA ClaimsAlways ==
  ASSUME DisjointScopes, OneRunPerManifest, RefsAreKeys
  PROVE  Spec => [](IsolationInv /\ AllClaims)
<1>1. Init => IsolationInv /\ AllClaims
  BY IsolationInit, ClaimsInit
<1>2. IsolationInv /\ AllClaims /\ [Next]_vars => (IsolationInv /\ AllClaims)'
  BY IsolationNext, ClaimsNext
<1> QED BY <1>1, <1>2, PTL DEF Spec

\* A row's uid_ref is given to a record only if no other has it: the plan saw to that,
\* the marker is written later, and in between nobody else gives out that uid_ref.
THEOREM OneOwner ==
  ASSUME DisjointScopes, OneRunPerManifest, RefsAreKeys PROVE Spec => []OneOwnerPerRef
<1>1. ASSUME IsolationInv, AllClaims PROVE OneOwnerPerRef
  <2>1. SUFFICES ASSUME NEW u \in SdkRecords, NEW v \in SdkRecords,
                        rec[u].marker.ref = rec[v].marker.ref
                 PROVE  u = v
    BY DEF OneOwnerPerRef
  <2>2. /\ u \in Live(rec) /\ v \in Live(rec)
        /\ Own(u, rec[u].marker.manifest) /\ Own(v, rec[v].marker.manifest)
        /\ InScope(rec[u]) /\ InScope(rec[v])
    BY <1>1 DEF IsolationInv, StaleButOwn, Scoped, SdkRecords, Own
  <2>3. rec[u].marker.manifest \in ManifestName /\ rec[v].marker.manifest = rec[u].marker.manifest
    BY <2>1, <2>2 DEF InScope, Own, DisjointScopes
  <2>4. PICK p \in Run : ManifestOf[p] = rec[u].marker.manifest
    BY <1>1, <2>2, <2>3 DEF AllClaims, NobodyHolds
  <2> QED BY <1>1, <2>1, <2>2, <2>3, <2>4 DEF AllClaims, Claims, OneEach
<1> QED BY <1>1, ClaimsAlways, PTL

\* Deletes come last and go by the uids of the plan: none of them has been marked for
\* a row in the meantime.
THEOREM DeletesAreUnwanted ==
  ASSUME DisjointScopes, OneRunPerManifest, RefsAreKeys PROVE Spec => DeletesOnlyUnwanted
<1>1. ASSUME IsolationInv, AllClaims, NEW p \in Run, Delete(p), NEW u \in Live(rec) \ Live(rec')
      PROVE  \A row \in want[p] : row.ref # rec[u].marker.ref
  <2>1. PICK v \in doomed[p] : rec' = Without(v)
    BY <1>1 DEF Delete
  <2>2. u = v
    BY <1>1, <2>1 DEF Without, Live
  <2>3. Own(u, ManifestOf[p])
    BY <1>1, <2>1, <2>2 DEF IsolationInv, StaleButOwn, PlanIsOwn
  <2> QED BY <1>1, <2>1, <2>2, <2>3 DEF AllClaims, Claims, DoomedClaims, Wants
<1>2. IsolationInv /\ AllClaims =>
        [\A p \in Run : Delete(p) =>
            \A u \in Live(rec) \ Live(rec') : \A row \in want[p] : row.ref # rec[u].marker.ref]_vars
  BY <1>1
<1> QED BY <1>2, ClaimsAlways, PTL DEF DeletesOnlyUnwanted

------------------------------------------------------------------------------
(* A title tells the uid_ref, where titles keep their uid_refs *)

TitleFits(m, t, r) == t \in RenameTitle \/ \E row \in UNION Versions[m] : row.title = t /\ row.ref = r

\* What p's manifest holds bears a title of its row, and so does what p is about to mark
TitlesFit(p) ==
  /\ \A u \in Live(rec) :
       Own(u, ManifestOf[p]) => TitleFits(ManifestOf[p], rec[u].title, rec[u].marker.ref)
  /\ \A u \in Live(snap[p]) :
       snap[p][u].marker.manager = "sdk" /\ snap[p][u].marker.manifest = ManifestOf[p] =>
          TitleFits(ManifestOf[p], snap[p][u].title, snap[p][u].marker.ref)
  /\ pc[p] = "mark" /\ cur[p].uid \in Live(rec) =>
       /\ TitleFits(ManifestOf[p], rec[cur[p].uid].title, cur[p].ref)
       /\ Own(cur[p].uid, ManifestOf[p]) => rec[cur[p].uid].marker.ref = cur[p].ref

\* The change gives the record what the row says
Asks(c, row) ==
  /\ c.ref = row.ref
  /\ c.title = row.title \/ (c.title = Keep /\ c.kind = "update")
  /\ c.kind = "create" => c.body = row.body
  /\ c.kind = "update" => \E now \in Body : c.body = DriftOf(now, row.body)

TodoAsks(p) ==
  /\ want[p] # {} => want[p] \in Versions[ManifestOf[p]]
  /\ pc[p] # "discover" => snap[p] = Empty
  /\ \A c \in todo[p] :
       /\ \E row \in want[p] : Asks(c, row)
       /\ c.kind = "update" /\ c.uid \in Live(rec) => rec[c.uid].marker.ref = c.ref

AllTitles == \A p \in Run : TitlesFit(p) /\ TodoAsks(p)

\* A row that is matched to a record of ours is the row in the record's marker.
LEMMA MatchClaims ==
  ASSUME DisjointScopes, TitlesKeepTheirRefs,
         NEW s, Snapshot(s), \A u \in Live(s) : InScope(s[u]),
         NEW f \in TitleIndexes(s), NEW p \in Run,
         \A u \in Live(s) : s[u].marker.manager = "sdk" /\ s[u].marker.manifest = ManifestOf[p] =>
                              TitleFits(ManifestOf[p], s[u].title, s[u].marker.ref),
         NEW rows \in Versions[ManifestOf[p]], NEW row \in rows,
         Match(s, f, row) # NoUid,
         s[Match(s, f, row)].marker.manager = "sdk"
  PROVE  s[Match(s, f, row)].marker.ref = row.ref
<1> DEFINE u == Match(s, f, row)
           m == ManifestOf[p]
<1>1. m \in ManifestName /\ rows \subseteq Rows
  BY VaultAssumption
<1>2. /\ u \in Live(s)
      /\ s[u].marker.ref = row.ref \/ s[u].title = row.title
  BY <1>1, MatchIsLive
<1>3. s[u].marker.manifest = m
  BY MatchIsOwn
<1>4. TitleFits(m, s[u].title, s[u].marker.ref)
  BY <1>2, <1>3
<1>5. row \in UNION Versions[m] /\ row.title \in TitlesOf(m)
  BY DEF TitlesOf
<1> HIDE DEF u, m
<1>6. ASSUME s[u].title = row.title PROVE s[u].marker.ref = row.ref
  <2>1. row.title \notin RenameTitle
    BY <1>1, <1>5 DEF DisjointScopes
  <2>2. PICK z \in UNION Versions[m] : z.title = row.title /\ z.ref = s[u].marker.ref
    BY <1>4, <1>6, <2>1 DEF TitleFits
  <2> QED BY <1>1, <1>5, <2>2 DEF TitlesKeepTheirRefs
<1>7. s[u].marker.ref = row.ref
  BY <1>2, <1>6
<1> QED BY <1>7 DEF u

LEMMA WriteAsks ==
  ASSUME NEW s, Snapshot(s), NEW f \in TitleIndexes(s), NEW rows \in SUBSET Rows, NEW row, NEW c,
         WriteOf(s, f, rows, c, row)
  PROVE  /\ Asks(c, row)
         /\ c.kind = "update" =>
              /\ c.uid = Match(s, f, row) /\ row \in ToUpdate(s, f, rows)
              /\ c.title = Keep => c.title = row.title \/ s[c.uid].title = row.title
              /\ c.body = DriftOf(s[c.uid].body, row.body)
         /\ c.kind # "update" =>
              row \in ToCreate(s, f, rows) /\ c.kind = "create" /\ c.title = row.title /\ c.body = row.body
<1>1. CASE row \in ToCreate(s, f, rows) /\ c = CreateOf(row)
  BY <1>1 DEF CreateOf, Asks
<1>2. CASE row \in ToUpdate(s, f, rows) /\ c = EditOf(s, f, row)
  <2>1. PICK u : u = Match(s, f, row)
    OBVIOUS
  <2>2. /\ c.kind = "update" /\ c.ref = row.ref /\ c.uid = u
        /\ c.title = IF s[u].title # row.title THEN row.title ELSE Keep
        /\ c.body = DriftOf(s[u].body, row.body)
    BY <1>2, <2>1, EditIs
  <2>3. row \in rows /\ u # NoUid
    BY <1>2, <2>1 DEF ToUpdate, Matching
  <2>4. s[u].body \in Body
    BY <2>1, <2>3, MatchIsLive DEF Snapshot, Live, Records
  <2> QED BY <1>2, <2>1, <2>2, <2>4 DEF Asks
<1> QED BY <1>1, <1>2 DEF WriteOf

\* An update brings a body what it lacks of the row's, and takes nothing of it away.
LEMMA HoldsSame == ASSUME NEW body \in Body PROVE Holds(body, body)
BY DEF Holds

LEMMA HoldsAfter ==
  ASSUME NEW now \in Body, NEW body \in Body
  PROVE  Holds(PatchBody(now, DriftOf(now, body)), body)
<1>1. PICK d : d = DriftOf(now, body)
  OBVIOUS
<1>2. PICK b : b = PatchBody(now, d)
  OBVIOUS
<1>3. /\ d \in [content : Content \union {Keep}, custom : Customs]
      /\ d.content = IF now.content = body.content THEN Keep ELSE body.content
      /\ d.custom = IF now.custom = body.custom THEN Empty ELSE body.custom
      /\ body.content # Keep
  BY <1>1, DriftIs
<1>4. /\ b.content = IF d.content = Keep THEN now.content ELSE d.content
      /\ b.custom = MergeCustom(now.custom, d.custom)
  BY <1>2, <1>3, PatchBodyType
<1>5. b.content = body.content
  BY <1>3, <1>4
<1>6. ASSUME NEW l \in DOMAIN body.custom \ Keyed
      PROVE  l \in DOMAIN b.custom /\ b.custom[l] = body.custom[l]
  <2>1. CASE now.custom = body.custom
    BY <1>3, <1>4, <2>1, EmptyType DEF MergeCustom
  <2>2. CASE now.custom # body.custom
    BY <1>3, <1>4, <2>2 DEF MergeCustom
  <2> QED BY <2>1, <2>2
<1> QED BY <1>1, <1>2, <1>5, <1>6 DEF Holds

LEMMA HoldsStill ==
  ASSUME NEW now \in Body, NEW old \in Body, NEW body \in Body, Holds(now, body)
  PROVE  Holds(PatchBody(now, DriftOf(old, body)), body)
<1>1. PICK d : d = DriftOf(old, body)
  OBVIOUS
<1>2. PICK b : b = PatchBody(now, d)
  OBVIOUS
<1>3. /\ d \in [content : Content \union {Keep}, custom : Customs]
      /\ d.content = IF old.content = body.content THEN Keep ELSE body.content
      /\ d.custom = IF old.custom = body.custom THEN Empty ELSE body.custom
  BY <1>1, DriftIs
<1>4. /\ b.content = IF d.content = Keep THEN now.content ELSE d.content
      /\ b.custom = MergeCustom(now.custom, d.custom)
  BY <1>2, <1>3, PatchBodyType
<1>5. b.content = body.content
  BY <1>3, <1>4 DEF Holds
<1>6. ASSUME NEW l \in DOMAIN body.custom \ Keyed
      PROVE  l \in DOMAIN b.custom /\ b.custom[l] = body.custom[l]
  <2>1. l \in DOMAIN now.custom /\ now.custom[l] = body.custom[l]
    BY DEF Holds
  <2>2. CASE old.custom = body.custom
    BY <1>3, <1>4, <2>1, <2>2, EmptyType DEF MergeCustom
  <2>3. CASE old.custom # body.custom
    BY <1>3, <1>4, <2>3 DEF MergeCustom
  <2> QED BY <2>2, <2>3
<1> QED BY <1>1, <1>2, <1>5, <1>6 DEF Holds

\* A step that leaves p's records, and the one it is about to mark, to p
LeavesTo(p) ==
  \A u \in Live(rec') :
     Own(u, ManifestOf[p])' \/ (pc[p] = "mark" /\ u = cur[p].uid) =>
       /\ u \in Live(rec) /\ rec'[u].marker = rec[u].marker
       /\ rec'[u].title = rec[u].title \/ rec'[u].title \in RenameTitle

LEMMA LeavesNew ==
  ASSUME TypeOK, NEW p \in Run, NEW u \in Uid \ used, NEW r, rec' = With(rec, u, r),
         r.marker.manager # "sdk"
  PROVE  LeavesTo(p)
<1>1. /\ DOMAIN rec' = DOMAIN rec \union {u} /\ rec'[u] = r
      /\ \A v \in DOMAIN rec : v # u => rec'[v] = rec[v]
  BY DEF With
<1>2. cur[p].uid # u
  BY NullsAreNew DEF TypeOK
<1> SUFFICES ASSUME NEW v \in Live(rec'), Own(v, ManifestOf[p])' \/ v = cur[p].uid
             PROVE  v \in Live(rec) /\ rec'[v] = rec[v]
  BY DEF LeavesTo
<1>3. v # u
  BY <1>1, <1>2 DEF Own
<1> QED BY <1>1, <1>3 DEF Live

LEMMA LeavesOne ==
  ASSUME NEW p \in Run, NEW u \in Live(rec), NEW r, rec' = With(rec, u, r),
         \/ r.marker = rec[u].marker /\ (r.title = rec[u].title \/ r.title \in RenameTitle)
         \/ /\ r.marker.manager # "sdk" \/ r.marker.manifest # ManifestOf[p]
            /\ pc[p] = "mark" => u # cur[p].uid
  PROVE  LeavesTo(p)
<1>1. /\ DOMAIN rec' = DOMAIN rec /\ rec'[u] = r
      /\ \A v \in DOMAIN rec : v # u => rec'[v] = rec[v]
  BY DEF With, Live
<1> SUFFICES ASSUME NEW v \in Live(rec'), Own(v, ManifestOf[p])' \/ (pc[p] = "mark" /\ v = cur[p].uid)
             PROVE  /\ v \in Live(rec) /\ rec'[v].marker = rec[v].marker
                    /\ rec'[v].title = rec[v].title \/ rec'[v].title \in RenameTitle
  BY DEF LeavesTo
<1>2. CASE v = u
  BY <1>1, <1>2 DEF Own, Live
<1>3. CASE v # u
  BY <1>1, <1>3 DEF Live
<1> QED BY <1>2, <1>3

LEMMA LeavesLess ==
  ASSUME NEW p \in Run, NEW u, rec' = Without(u)
  PROVE  LeavesTo(p)
BY DEF Without, LeavesTo, Live

LEMMA OthersLeave ==
  ASSUME DisjointScopes, OneRunPerManifest, IsolationInv, NEW p \in Run, NEW q \in Run, q # p, RunStep(q)
  PROVE  LeavesTo(p)
<1>0. TypeOK /\ ManifestOf[q] # ManifestOf[p]
  BY DEF IsolationInv, OneRunPerManifest
<1>1. CASE UNCHANGED rec
  BY <1>1 DEF LeavesTo, Live
<1>2. CASE Create(q) \/ CreateLost(q)
  <2>1. PICK c \in todo[q], u \in Uid \ used : rec' = With(rec, u, NewRecord(c))
    BY <1>2 DEF Create, CreateLost
  <2>2. NewRecord(c).marker.manager = "none"
    BY DEF NewRecord, Unmarked
  <2> QED BY <1>0, <2>1, <2>2, LeavesNew
<1>3. CASE UpdateBody(q)
  <2>1. PICK c \in todo[q] : c.kind = "update" /\ c.uid \in Live(rec) /\ rec' = With(rec, c.uid, Patch(rec[c.uid], c))
    BY <1>3 DEF UpdateBody
  <2>2. c \in Edits /\ rec[c.uid] \in Records
    BY <1>0, <2>1 DEF TypeOK, Calls, Creates, Edits, Live
  <2>3. Patch(rec[c.uid], c).marker = rec[c.uid].marker
    BY <2>2, WrittenType
  <2>4. Own(c.uid, ManifestOf[q])
    BY <2>1 DEF IsolationInv, StaleButOwn, PlanIsOwn
  <2>5. pc[p] = "mark" => c.uid # cur[p].uid
    BY <1>0, <2>1, <2>4 DEF IsolationInv, StaleButOwn, MarkIsOwn, Own, Unmarked
  <2> QED BY <1>0, <2>1, <2>3, <2>4, <2>5, LeavesOne DEF Own
<1>4. CASE Mark(q)
  <2>1. PICK u : u = cur[q].uid
    OBVIOUS
  <2>2. /\ pc[q] = "mark" /\ u \in Live(rec)
        /\ rec' = With(rec, u, [rec[u] EXCEPT !.marker = EncodeMarker(cur[q].ref, ManifestOf[q])])
    BY <1>4, <2>1 DEF Mark
  <2>3. rec[u] \in Records
    BY <1>0, <2>2 DEF TypeOK, Live
  <2>4. [rec[u] EXCEPT !.marker = EncodeMarker(cur[q].ref, ManifestOf[q])].marker.manifest # ManifestOf[p]
    BY <1>0, <2>3 DEF Records, EncodeMarker
  <2>5. pc[p] = "mark" => u # cur[p].uid
    BY <1>0, <2>1, <2>2 DEF IsolationInv, StaleButOwn, MarkIsOwn, Own, Unmarked
  <2> QED BY <2>2, <2>4, <2>5, LeavesOne
<1>5. CASE Delete(q)
  BY <1>5, LeavesLess DEF Delete
<1> QED BY <1>1, <1>2, <1>3, <1>4, <1>5 DEF RunStep, List, Read, Plan, Finish, Fail, End

LEMMA OutsidersLeave ==
  ASSUME DisjointScopes, TypeOK, NEW p \in Run, OutsideCreate \/ OutsideEdit \/ OutsideRename \/ OutsideDelete
  PROVE  LeavesTo(p)
<1>1. CASE OutsideCreate
  <2>1. PICK u \in Uid \ used, t \in OutsideTitle, b \in OutsideBody, k \in OutsideMarkers :
          rec' = With(rec, u, [title |-> t, body |-> b, marker |-> k])
    BY <1>1 DEF OutsideCreate
  <2>2. k.manager # "sdk"
    BY DEF DisjointScopes
  <2> QED BY <2>1, <2>2, LeavesNew
<1>2. CASE OutsideEdit \/ OutsideRename
  <2>1. PICK u \in Live(rec) : \/ \E b \in OutsideBody : rec' = With(rec, u, [rec[u] EXCEPT !.body = b])
                               \/ \E t \in RenameTitle : rec' = With(rec, u, [rec[u] EXCEPT !.title = t])
    BY <1>2 DEF OutsideEdit, OutsideRename
  <2>2. rec[u] \in Records
    BY <2>1 DEF TypeOK, Live
  <2>3. \A b, t : /\ [rec[u] EXCEPT !.body = b].marker = rec[u].marker
                  /\ [rec[u] EXCEPT !.body = b].title = rec[u].title
                  /\ [rec[u] EXCEPT !.title = t].marker = rec[u].marker
                  /\ [rec[u] EXCEPT !.title = t].title = t
    BY <2>2 DEF Records
  <2> QED BY <2>1, <2>3, LeavesOne
<1>3. CASE OutsideDelete
  BY <1>3, LeavesLess DEF OutsideDelete
<1> QED BY <1>1, <1>2, <1>3

\* Titles fit, and a plan asks for what its rows say, while others act; and while the
\* plan gets shorter.
LEMMA TitlesStay ==
  ASSUME NEW p \in Run, IsolationInv', TitlesFit(p), TodoAsks(p), LeavesTo(p),
         \/ UNCHANGED LocalOf(p)
         \/ /\ pc'[p] \notin {"discover", "mark"} /\ snap'[p] = Empty /\ todo'[p] \subseteq todo[p]
            /\ want'[p] = want[p] \/ (want'[p] = {} /\ todo'[p] = {})
  PROVE  TitlesFit(p)' /\ TodoAsks(p)'
<1> DEFINE m == ManifestOf[p]
<1>1. \A u \in Live(rec') :
         Own(u, m)' \/ (pc[p] = "mark" /\ u = cur[p].uid) =>
           /\ u \in Live(rec) /\ rec'[u].marker = rec[u].marker
           /\ rec'[u].title = rec[u].title \/ rec'[u].title \in RenameTitle
  BY DEF LeavesTo
<1>2. \A c \in todo'[p] : c.kind = "update" /\ c.uid \in Live(rec') => Own(c.uid, m)'
  BY DEF IsolationInv, StaleButOwn, PlanIsOwn
<1>3. snap'[p] \in {snap[p], Empty} /\ todo'[p] \subseteq todo[p]
      /\ (want'[p] = want[p] \/ (want'[p] = {} /\ todo'[p] = {}))
      /\ (pc'[p] = "mark" => pc[p] = "mark" /\ cur'[p] = cur[p])
      /\ (pc'[p] # "discover" => snap'[p] = Empty)
  BY DEF LocalOf, TodoAsks
<1>4. \A u \in Live(rec') : Own(u, m)' => TitleFits(m, rec'[u].title, rec'[u].marker.ref)
  BY <1>1 DEF TitlesFit, TitleFits, Own
<1>5. \A u \in Live(snap'[p]) :
         snap'[p][u].marker.manager = "sdk" /\ snap'[p][u].marker.manifest = m =>
            TitleFits(m, snap'[p][u].title, snap'[p][u].marker.ref)
  BY <1>3 DEF TitlesFit, Empty, Live
<1>6. ASSUME pc'[p] = "mark", cur'[p].uid \in Live(rec')
      PROVE  /\ TitleFits(m, rec'[cur'[p].uid].title, cur'[p].ref)
             /\ Own(cur[p].uid, m)' => rec'[cur'[p].uid].marker.ref = cur'[p].ref
  <2>1. PICK u : u = cur[p].uid
    OBVIOUS
  <2>2. cur'[p] = cur[p] /\ pc[p] = "mark" /\ u \in Live(rec')
    BY <1>3, <1>6, <2>1
  <2>3. /\ u \in Live(rec) /\ rec'[u].marker = rec[u].marker
        /\ rec'[u].title = rec[u].title \/ rec'[u].title \in RenameTitle
    BY <1>1, <2>1, <2>2
  <2>4. /\ TitleFits(m, rec[u].title, cur[p].ref)
        /\ Own(u, m) => rec[u].marker.ref = cur[p].ref
    BY <2>1, <2>2, <2>3 DEF TitlesFit
  <2>5. TitleFits(m, rec'[u].title, cur[p].ref)
    BY <2>3, <2>4 DEF TitleFits
  <2>6. Own(u, m)' => Own(u, m)
    BY <2>3 DEF Own
  <2> QED BY <2>1, <2>2, <2>3, <2>4, <2>5, <2>6 DEF Own
<1>7. TitlesFit(p)'
  BY <1>4, <1>5, <1>6 DEF TitlesFit, Own
<1>8. \A c \in todo'[p] : c.kind = "update" /\ c.uid \in Live(rec') => rec'[c.uid].marker.ref = c.ref
  BY <1>1, <1>2, <1>3 DEF TodoAsks
<1>9. TodoAsks(p)'
  BY <1>3, <1>8 DEF TodoAsks
<1> QED BY <1>7, <1>9

LEMMA TitlesRead ==
  ASSUME TypeOK, NEW p \in Run, TitlesFit(p), TodoAsks(p), List(p) \/ Read(p)
  PROVE  TitlesFit(p)' /\ TodoAsks(p)'
<1>1. UNCHANGED <<rec, todo, want, cur>> /\ pc'[p] = "discover"
  BY DEF List, Read, TypeOK
<1>2. CASE List(p)
  BY <1>1, <1>2 DEF List, TitlesFit, TodoAsks, Own
<1>3. CASE Read(p)
  <2>1. PICK u \in ahead[p] \intersect Live(rec) : snap' = [snap EXCEPT ![p] = With(snap[p], u, rec[u])]
    BY <1>3 DEF Read
  <2>2. snap'[p] = With(snap[p], u, rec[u])
    BY <2>1 DEF TypeOK
  <2>3. /\ DOMAIN snap'[p] = DOMAIN snap[p] \union {u} /\ snap'[p][u] = rec[u]
        /\ \A v \in DOMAIN snap[p] : v # u => snap'[p][v] = snap[p][v]
    BY <2>2 DEF With
  <2>4. TodoAsks(p)'
    BY <1>1 DEF TodoAsks
  <2>5. SUFFICES ASSUME NEW v \in Live(snap'[p]),
                        snap'[p][v].marker.manager = "sdk", snap'[p][v].marker.manifest = ManifestOf[p]
                 PROVE  TitleFits(ManifestOf[p], snap'[p][v].title, snap'[p][v].marker.ref)
    BY <1>1, <2>4 DEF TitlesFit, Own
  <2>6. CASE v = u
    BY <2>1, <2>3, <2>5, <2>6 DEF TitlesFit, Own
  <2>7. CASE v # u
    BY <2>3, <2>5, <2>7 DEF TitlesFit, Live
  <2> QED BY <2>6, <2>7
<1> QED BY <1>2, <1>3

LEMMA TitlesPlan ==
  ASSUME DisjointScopes, TitlesKeepTheirRefs, IsolationInv, NEW p \in Run,
         Claims(p), TitlesFit(p), TodoAsks(p), Plan(p)
  PROVE  TitlesFit(p)' /\ TodoAsks(p)'
<1> DEFINE s == snap[p]
           m == ManifestOf[p]
<1>1. PICK rows \in Versions[m], f \in TitleIndexes(s) :
        /\ todo' = [todo EXCEPT ![p] = Planned(s, f, rows)]
        /\ want' = [want EXCEPT ![p] = rows]
  BY DEF Plan
<1>2. /\ pc[p] = "discover" /\ ahead[p] = {} /\ UNCHANGED rec
      /\ pc' = [pc EXCEPT ![p] = "apply"] /\ snap' = [snap EXCEPT ![p] = Empty]
  BY DEF Plan
<1>3. Snapshot(s) /\ m \in ManifestName /\ rows \in SUBSET Rows
  BY VaultAssumption DEF IsolationInv, TypeOK, Snapshot
<1>4. /\ pc'[p] = "apply" /\ want'[p] = rows /\ snap'[p] = Empty
      /\ todo'[p] = Planned(s, f, rows)
  BY <1>1, <1>2 DEF IsolationInv, TypeOK
<1>5. \A u \in Live(rec) : Own(u, m) => u \in Live(s) /\ s[u].marker = rec[u].marker
  BY <1>2 DEF Claims, SeenOwn
<1>6. \A u \in Live(s) :
         /\ InScope(s[u])
         /\ s[u].marker.manager = "sdk" /\ u \in Live(rec) => Own(u, s[u].marker.manifest)
  BY DEF IsolationInv, StaleButOwn, SnapIsOwn
<1>7. \A u \in Live(s) : s[u].marker.manager = "sdk" /\ s[u].marker.manifest = m =>
                            TitleFits(m, s[u].title, s[u].marker.ref)
  BY DEF TitlesFit
<1>8. TitlesFit(p)'
  BY <1>2, <1>4 DEF TitlesFit, Own, Empty, Live
<1> HIDE DEF s, m
<1>9. ASSUME NEW c \in todo'[p]
      PROVE  /\ \E row \in rows : Asks(c, row)
             /\ c.kind = "update" /\ c.uid \in Live(rec) => rec[c.uid].marker.ref = c.ref
  <2>1. PICK row \in rows : WriteOf(s, f, rows, c, row)
    BY <1>4, PlannedAreOfRows
  <2>2. /\ Asks(c, row) /\ c.ref = row.ref
        /\ c.kind = "update" => c.uid = Match(s, f, row) /\ row \in ToUpdate(s, f, rows)
    BY <1>3, <2>1, WriteAsks DEF Asks
  <2>3. ASSUME c.kind = "update", c.uid \in Live(rec) PROVE rec[c.uid].marker.ref = c.ref
    <3>1. Match(s, f, row) # NoUid /\ s[Match(s, f, row)].marker.manager \in {"sdk", "blank"}
      BY <2>2, <2>3 DEF ToUpdate, Matching
    <3>2. c.uid = Match(s, f, row) /\ c.uid \in Live(s)
      BY <1>3, <2>2, <2>3, <3>1, MatchIsLive
    <3>3. s[c.uid].marker.manager = "sdk"
      BY <1>6, <3>1, <3>2 DEF InScope
    <3>4. s[c.uid].marker.manifest = m
      BY <1>3, <1>6, <3>1, <3>2, <3>3, MatchIsOwn DEF m
    <3>5. s[c.uid].marker.ref = row.ref
      BY <1>3, <1>6, <1>7, <3>1, <3>2, <3>3, MatchClaims DEF m
    <3>6. Own(c.uid, m)
      BY <1>6, <2>3, <3>2, <3>3, <3>4
    <3> QED BY <1>5, <2>2, <2>3, <3>5, <3>6
  <2> QED BY <2>2, <2>3
<1>10. TodoAsks(p)'
  BY <1>2, <1>4, <1>9 DEF TodoAsks, m
<1> QED BY <1>8, <1>10

LEMMA TitlesCreate ==
  ASSUME IsolationInv, IsolationInv', NEW p \in Run, Claims(p), TitlesFit(p), TodoAsks(p), Create(p)
  PROVE  TitlesFit(p)' /\ TodoAsks(p)'
<1> DEFINE m == ManifestOf[p]
<1>0. TypeOK
  BY DEF IsolationInv
<1>1. PICK c \in todo[p], u \in Uid \ used :
        /\ c.kind = "create"
        /\ rec' = With(rec, u, NewRecord(c))
        /\ todo' = [todo EXCEPT ![p] = @ \ {c}]
        /\ cur' = [cur EXCEPT ![p] = [uid |-> u, ref |-> c.ref]]
  BY DEF Create
<1>2. /\ todo'[p] = todo[p] \ {c} /\ cur'[p].uid = u /\ cur'[p].ref = c.ref
      /\ pc'[p] = "mark" /\ pc[p] \in {"apply", "retry"} /\ snap'[p] = snap[p] /\ want'[p] = want[p]
  BY <1>0, <1>1 DEF Create, TypeOK, Found
<1>3. NewRecord(c).title = c.title /\ NewRecord(c).marker = Unmarked
  BY DEF NewRecord
<1>4. /\ DOMAIN rec' = DOMAIN rec \union {u} /\ rec'[u] = NewRecord(c)
      /\ \A v \in DOMAIN rec : v # u => rec'[v] = rec[v]
  BY <1>1 DEF With
<1>5. u \notin DOMAIN rec
  BY <1>0 DEF TypeOK
<1>6. PICK row \in want[p] : Asks(c, row)
  BY DEF TodoAsks
<1>7. TitleFits(m, c.title, c.ref)
  BY <1>1, <1>6 DEF TodoAsks, TitleFits, Asks
<1>8. \A v \in Live(rec') : Own(v, m)' => v \in Live(rec) /\ rec'[v] = rec[v] /\ Own(v, m)
  BY <1>3, <1>4 DEF Own, Live, Unmarked
<1>9. ~Own(u, m)'
  BY <1>3, <1>4 DEF Own, Unmarked
<1>10. TitlesFit(p)'
  BY <1>2, <1>3, <1>4, <1>7, <1>8, <1>9 DEF TitlesFit, Own
<1>11. \A d \in todo'[p] : d.kind = "update" /\ d.uid \in Live(rec') => Own(d.uid, m)'
  BY DEF IsolationInv, StaleButOwn, PlanIsOwn
<1>12. TodoAsks(p)'
  BY <1>2, <1>8, <1>11 DEF TodoAsks
<1> QED BY <1>10, <1>12

LEMMA PatchGives ==
  ASSUME NEW r \in Records, NEW c \in Edits
  PROVE  /\ Patch(r, c).title = IF c.title = Keep THEN r.title ELSE c.title
         /\ Patch(r, c).body = PatchBody(r.body, c.body)
         /\ Patch(r, c).marker = r.marker
BY DEF Patch, Records

LEMMA TitlesUpdateBody ==
  ASSUME IsolationInv, IsolationInv', NEW p \in Run, Claims(p), TitlesFit(p), TodoAsks(p), UpdateBody(p)
  PROVE  TitlesFit(p)' /\ TodoAsks(p)'
<1> DEFINE m == ManifestOf[p]
<1>0. TypeOK
  BY DEF IsolationInv
<1>1. PICK c \in todo[p] :
        /\ c.kind = "update"
        /\ c.uid \in Live(rec)
        /\ rec' = With(rec, c.uid, Patch(rec[c.uid], c))
        /\ todo' = [todo EXCEPT ![p] = @ \ {c}]
        /\ cur' = [cur EXCEPT ![p] = [uid |-> c.uid, ref |-> c.ref]]
  BY DEF UpdateBody
<1>2. PICK u : u = c.uid
  OBVIOUS
<1>3. /\ todo'[p] = todo[p] \ {c} /\ cur'[p].uid = u /\ cur'[p].ref = c.ref
      /\ pc'[p] = "mark" /\ pc[p] = "apply" /\ snap'[p] = snap[p] /\ want'[p] = want[p]
  BY <1>0, <1>1, <1>2 DEF UpdateBody, TypeOK, Found
<1>4. c \in Edits /\ rec[u] \in Records
  BY <1>0, <1>1, <1>2 DEF TypeOK, Calls, Creates, Edits, Live
<1>5. /\ DOMAIN rec' = DOMAIN rec /\ rec'[u] = Patch(rec[u], c)
      /\ \A v \in DOMAIN rec : v # u => rec'[v] = rec[v]
  BY <1>1, <1>2 DEF With, Live
<1>6. Own(u, m) /\ rec[u].marker.ref = c.ref
  BY <1>1, <1>2 DEF IsolationInv, StaleButOwn, PlanIsOwn, TodoAsks
<1>7. rec'[u].marker = rec[u].marker
      /\ rec'[u].title = IF c.title = Keep THEN rec[u].title ELSE c.title
  BY <1>4, <1>5, PatchGives
<1>8. TitleFits(m, rec'[u].title, c.ref)
  <2>1. PICK row \in want[p] : Asks(c, row)
    BY DEF TodoAsks
  <2>2. TitleFits(m, row.title, c.ref)
    BY <2>1 DEF TodoAsks, TitleFits, Asks
  <2>3. TitleFits(m, rec[u].title, c.ref)
    BY <1>1, <1>2, <1>6 DEF TitlesFit
  <2>4. c.title = Keep \/ c.title = row.title
    BY <2>1 DEF Asks
  <2> QED BY <1>7, <2>2, <2>3, <2>4
<1>9. \A v \in Live(rec') : v \in Live(rec) /\ rec'[v].marker = rec[v].marker /\ (Own(v, m)' => Own(v, m))
  BY <1>5, <1>7 DEF Own, Live
<1>10. ASSUME NEW v \in Live(rec'), Own(v, m)' PROVE TitleFits(m, rec'[v].title, rec'[v].marker.ref)
  <2>1. CASE v = u
    BY <1>6, <1>7, <1>8, <2>1
  <2>2. CASE v # u
    BY <1>5, <1>9, <1>10, <2>2 DEF TitlesFit, Live
  <2> QED BY <2>1, <2>2
<1>11. rec'[u].marker.ref = c.ref
  BY <1>6, <1>7
<1>12. TitlesFit(p)'
  BY <1>3, <1>8, <1>10, <1>11 DEF TitlesFit, Own
<1>13. TodoAsks(p)'
  BY <1>3, <1>9 DEF TodoAsks
<1> QED BY <1>12, <1>13

LEMMA TitlesMark ==
  ASSUME IsolationInv, IsolationInv', NEW p \in Run, Claims(p), TitlesFit(p), TodoAsks(p), Mark(p)
  PROVE  TitlesFit(p)' /\ TodoAsks(p)'
<1> DEFINE m == ManifestOf[p]
<1>0. PICK u : u = cur[p].uid
  OBVIOUS
<1>1. PICK r : r = cur[p].ref
  OBVIOUS
<1>2. /\ pc[p] = "mark" /\ u \in Live(rec)
      /\ rec' = With(rec, u, [rec[u] EXCEPT !.marker = EncodeMarker(r, m)])
      /\ pc'[p] = "apply" /\ UNCHANGED <<snap, todo, want>>
  BY <1>0, <1>1 DEF Mark, IsolationInv, TypeOK, Found
<1>3. rec[u] \in Records
  BY <1>2 DEF IsolationInv, TypeOK, Live
<1>4. /\ [rec[u] EXCEPT !.marker = EncodeMarker(r, m)].marker = EncodeMarker(r, m)
      /\ [rec[u] EXCEPT !.marker = EncodeMarker(r, m)].title = rec[u].title
  BY <1>3 DEF Records
<1>5. /\ DOMAIN rec' = DOMAIN rec /\ rec'[u].marker = EncodeMarker(r, m) /\ rec'[u].title = rec[u].title
      /\ \A v \in DOMAIN rec : v # u => rec'[v] = rec[v]
  BY <1>2, <1>4 DEF With, Live
<1>6. rec'[u].marker.ref = r
  BY <1>5 DEF EncodeMarker
<1>7. TitleFits(m, rec[u].title, r) /\ (Own(u, m) => rec[u].marker.ref = r)
  BY <1>0, <1>1, <1>2 DEF TitlesFit
<1>8. ASSUME NEW v \in Live(rec'), Own(v, m)' PROVE TitleFits(m, rec'[v].title, rec'[v].marker.ref)
  <2>1. CASE v = u
    BY <1>5, <1>6, <1>7, <2>1
  <2>2. CASE v # u
    BY <1>5, <1>8, <2>2 DEF TitlesFit, Own, Live
  <2> QED BY <2>1, <2>2
<1>9. TitlesFit(p)'
  BY <1>2, <1>8 DEF TitlesFit, Own
<1>10. ASSUME NEW c \in todo[p], c.kind = "update", c.uid \in Live(rec') PROVE rec'[c.uid].marker.ref = c.ref
  <2>1. c.uid \in Live(rec)
    BY <1>5, <1>10 DEF Live
  <2>2. Own(c.uid, m) /\ rec[c.uid].marker.ref = c.ref
    BY <1>10, <2>1 DEF IsolationInv, StaleButOwn, PlanIsOwn, TodoAsks
  <2>3. c.ref # r
    BY <1>1, <1>2 DEF Claims, CurClaims
  <2>4. c.uid # u
    BY <1>7, <2>2, <2>3
  <2> QED BY <1>5, <2>1, <2>2, <2>4 DEF Live
<1>11. TodoAsks(p)'
  BY <1>2, <1>10 DEF TodoAsks
<1> QED BY <1>9, <1>11

LEMMA TitlesInit == Init => AllTitles
BY VaultAssumption DEF Init, AllTitles, TitlesFit, TodoAsks, Empty, Live

LEMMA TitlesNext ==
  ASSUME DisjointScopes, OneRunPerManifest, RefsAreKeys, TitlesKeepTheirRefs,
         IsolationInv, AllClaims, AllTitles, [Next]_vars
  PROVE  AllTitles'
<1> SUFFICES ASSUME NEW p \in Run PROVE TitlesFit(p)' /\ TodoAsks(p)'
  BY DEF AllTitles
<1>0. TypeOK /\ Claims(p) /\ TitlesFit(p) /\ TodoAsks(p) /\ IsolationInv'
  BY IsolationNext DEF IsolationInv, AllClaims, AllTitles
<1>1. CASE UNCHANGED vars
  BY <1>0, <1>1 DEF vars, TitlesFit, TodoAsks, Own
<1>2. CASE RunStep(p)
  <2>1. CASE CreateLost(p)
    <3>1. PICK c \in todo[p], u \in Uid \ used : rec' = With(rec, u, NewRecord(c))
      BY <2>1 DEF CreateLost
    <3>2. NewRecord(c).marker.manager = "none"
      BY DEF NewRecord, Unmarked
    <3>3. LeavesTo(p)
      BY <1>0, <3>1, <3>2, LeavesNew
    <3>4. pc[p] = "apply" /\ pc'[p] = "retry" /\ snap'[p] = snap[p] /\ todo'[p] = todo[p] /\ want'[p] = want[p]
      BY <1>0, <2>1 DEF CreateLost, TypeOK, Found
    <3>5. snap'[p] = Empty
      BY <1>0, <3>4 DEF TodoAsks
    <3> QED BY <1>0, <3>3, <3>4, <3>5, TitlesStay
  <2>2. CASE Delete(p)
    <3>1. LeavesTo(p)
      BY <2>2, LeavesLess DEF Delete
    <3>2. pc[p] = "apply" /\ pc'[p] = "apply" /\ snap'[p] = snap[p] /\ todo'[p] = todo[p] /\ want'[p] = want[p]
      BY <2>2 DEF Delete, Found
    <3>3. snap'[p] = Empty
      BY <1>0, <3>2 DEF TodoAsks
    <3> QED BY <1>0, <3>1, <3>2, <3>3, TitlesStay
  <2>3. CASE End(p)
    <3>1. LeavesTo(p)
      BY <2>3 DEF End, LeavesTo, Live
    <3>2. pc'[p] = "idle" /\ snap'[p] = Empty /\ todo'[p] = {} /\ want'[p] = {}
      BY <1>0, <2>3 DEF End, TypeOK
    <3> QED BY <1>0, <3>1, <3>2, TitlesStay
  <2> QED BY <1>0, <1>2, <2>1, <2>2, <2>3, TitlesRead, TitlesPlan, TitlesCreate, TitlesUpdateBody, TitlesMark
          DEF RunStep, Finish, Fail
<1>3. CASE \E q \in Run : q # p /\ RunStep(q)
  BY <1>0, <1>3, OthersAreApart, OthersLeave, TitlesStay
<1>4. CASE OutsideCreate \/ OutsideEdit \/ OutsideRename \/ OutsideDelete
  <2>1. UNCHANGED LocalOf(p)
    BY <1>4 DEF OutsideCreate, OutsideEdit, OutsideRename, OutsideDelete, OutsideStep, LocalOf, Found
  <2> QED BY <1>0, <1>4, <2>1, OutsidersLeave, TitlesStay
<1> QED BY <1>1, <1>2, <1>3, <1>4 DEF Next

------------------------------------------------------------------------------
(* Convergence of a process that nobody disturbs *)

\* What it has read is what there is
ReadAll(p) ==
  pc[p] = "discover" =>
    /\ Live(rec) = ahead[p] \union Live(snap[p])
    /\ \A u \in Live(snap[p]) : snap[p][u] = rec[u]

NoRivals ==
  \A u, v \in Live(rec) : rec[u].marker.ref = rec[v].marker.ref /\ rec[u].marker.ref # NoRef => u = v

\* Where two records share a title and one of them has no uid_ref, that one is
\* somebody else's, and bears the title of a row
Namesakes(p) ==
  \A u, v \in Live(rec) : u # v /\ rec[u].title = rec[v].title /\ rec[u].marker.ref = NoRef =>
     /\ rec[u].marker.manager # "sdk"
     /\ u # cur[p].uid
     /\ \E row \in want[p] : row.title = rec[u].title

\* Nobody else's record claims what p is to write either
Sole(p) ==
  /\ \A c \in todo[p] :
       /\ \A u \in Live(rec) : rec[u].marker.ref = c.ref => c.kind = "update" /\ u = c.uid
       /\ c.kind = "create" => \A u \in Live(rec) : rec[u].title # c.title
       /\ c.kind = "update" => c.uid \in Live(rec)
  /\ pc[p] = "mark" => \A u \in Live(rec) : rec[u].marker.ref = cur[p].ref => u = cur[p].uid

\* A row's record is in place, or is to be written, or waits for its marker, or is
\* somebody else's
Placed(p, row) ==
  \E u \in Live(rec) :
     Own(u, ManifestOf[p]) /\ rec[u].marker.ref = row.ref /\ rec[u].title = row.title /\ Holds(rec[u].body, row.body)

Pending(p, row) ==
  \E c \in todo[p] :
     /\ Asks(c, row)
     /\ c.kind = "update" => /\ c.title = Keep => rec[c.uid].title = row.title
                             /\ Holds(PatchBody(rec[c.uid].body, c.body), row.body)

Written(p, row) ==
  /\ pc[p] = "mark" /\ cur[p].ref = row.ref /\ cur[p].uid \in Live(rec)
  /\ rec[cur[p].uid].title = row.title /\ Holds(rec[cur[p].uid].body, row.body)

Taken(p, row) ==
  \E u \in Live(rec) :
     /\ u # cur[p].uid /\ rec[u].marker.manager # "sdk"
     /\ rec[u].marker.ref = row.ref \/ rec[u].title = row.title

Accounted(p) == \A row \in want[p] : Placed(p, row) \/ Pending(p, row) \/ Written(p, row) \/ Taken(p, row)

OrphansDoomed(p) ==
  \A u \in Live(rec) : Own(u, ManifestOf[p]) => Wants(p, rec[u].marker.ref) \/ u \in doomed[p]

OnCourse(p) == NoRivals /\ Namesakes(p) /\ Sole(p) /\ Accounted(p) /\ OrphansDoomed(p)

Undisturbed(p) == pc[p] # "retry" /\ ReadAll(p) /\ (pc[p] \in {"apply", "mark"} => OnCourse(p))

AllUndisturbed == \A p \in calm : Undisturbed(p)

Base == IsolationInv /\ AllClaims /\ AllTitles

\* Hypotheses of this section, together
Discipline == DisjointScopes /\ OneRunPerManifest /\ RefsAreKeys /\ TitlesKeepTheirRefs

LEMMA UndisturbedStays ==
  ASSUME NEW p \in Run, Undisturbed(p), UNCHANGED LocalOf(p), UNCHANGED rec
  PROVE  Undisturbed(p)'
<1>1. /\ pc'[p] = pc[p] /\ ahead'[p] = ahead[p] /\ snap'[p] = snap[p] /\ todo'[p] = todo[p]
      /\ doomed'[p] = doomed[p] /\ cur'[p] = cur[p] /\ want'[p] = want[p] /\ rec' = rec
  BY DEF LocalOf
<1>2. ReadAll(p)'
  BY <1>1 DEF Undisturbed, ReadAll
<1>3. NoRivals' <=> NoRivals
  BY <1>1 DEF NoRivals
<1>4. Namesakes(p)' <=> Namesakes(p)
  BY <1>1 DEF Namesakes
<1>5. Sole(p)' <=> Sole(p)
  BY <1>1 DEF Sole
<1>6. \A row : /\ Placed(p, row)' <=> Placed(p, row)
               /\ Pending(p, row)' <=> Pending(p, row)
               /\ Written(p, row)' <=> Written(p, row)
               /\ Taken(p, row)' <=> Taken(p, row)
  BY <1>1 DEF Placed, Pending, Written, Taken, Own
<1>7. Accounted(p)' <=> Accounted(p)
  BY <1>1, <1>6 DEF Accounted
<1>8. OrphansDoomed(p)' <=> OrphansDoomed(p)
  BY <1>1 DEF OrphansDoomed, Wants, Own
<1> QED BY <1>1, <1>2, <1>3, <1>4, <1>5, <1>7, <1>8 DEF Undisturbed, OnCourse

LEMMA UndisturbedRead ==
  ASSUME Base, NEW p \in Run, p \in calm => Undisturbed(p), List(p) \/ (Read(p) /\ p \in calm)
  PROVE  Undisturbed(p)'
<1>0. TypeOK /\ TodoAsks(p)
  BY DEF Base, IsolationInv, AllTitles
<1>1. CASE List(p)
  <2>1. pc'[p] = "discover" /\ ahead'[p] = Live(rec) /\ snap'[p] = Empty /\ UNCHANGED rec
    BY <1>0, <1>1 DEF List, TypeOK, TodoAsks
  <2> QED BY <2>1 DEF Undisturbed, ReadAll, Empty, Live
<1>2. CASE Read(p) /\ p \in calm
  <2>1. PICK u \in ahead[p] \intersect Live(rec) :
          /\ ahead' = [ahead EXCEPT ![p] = @ \ {u}]
          /\ snap' = [snap EXCEPT ![p] = With(snap[p], u, rec[u])]
    BY <1>2 DEF Read
  <2>2. pc[p] = "discover" /\ pc'[p] = "discover" /\ UNCHANGED rec
    BY <1>2 DEF Read
  <2>3. ahead'[p] = ahead[p] \ {u} /\ snap'[p] = With(snap[p], u, rec[u])
    BY <1>0, <2>1 DEF TypeOK
  <2>4. /\ DOMAIN snap'[p] = DOMAIN snap[p] \union {u} /\ snap'[p][u] = rec[u]
        /\ \A v \in DOMAIN snap[p] : v # u => snap'[p][v] = snap[p][v]
    BY <2>3 DEF With
  <2>5. /\ Live(rec) = ahead[p] \union Live(snap[p])
        /\ \A v \in Live(snap[p]) : snap[p][v] = rec[v]
    BY <1>2, <2>2 DEF Undisturbed, ReadAll
  <2>6. Live(rec) = ahead'[p] \union Live(snap'[p])
    BY <2>1, <2>3, <2>4, <2>5 DEF Live
  <2>7. \A v \in Live(snap'[p]) : snap'[p][v] = rec[v]
    BY <2>4, <2>5 DEF Live
  <2> QED BY <2>2, <2>6, <2>7 DEF Undisturbed, ReadAll
<1> QED BY <1>1, <1>2

\* The plan of a process that has read everything accounts for every row.
LEMMA UndisturbedPlan ==
  ASSUME Discipline, Base, NEW p \in Run, Undisturbed(p), Plan(p)
  PROVE  Undisturbed(p)'
<1> DEFINE s == snap[p]
           m == ManifestOf[p]
<1>0. /\ TypeOK /\ IsolationInv /\ TitlesFit(p) /\ TodoAsks(p)
      /\ DisjointScopes /\ RefsAreKeys /\ TitlesKeepTheirRefs
  BY DEF Base, IsolationInv, AllTitles, Discipline
<1>1. PICK rows \in Versions[m], allow \in BOOLEAN, f \in TitleIndexes(s) :
        /\ HasConflict(s, f, rows, FALSE, m, allow) => allow
        /\ todo' = [todo EXCEPT ![p] = Planned(s, f, rows)]
        /\ doomed' = [doomed EXCEPT ![p] = Deletes(s, f, rows, FALSE, m, allow)]
        /\ want' = [want EXCEPT ![p] = rows]
  BY DEF Plan
<1>2. /\ pc[p] = "discover" /\ ahead[p] = {} /\ ~Collision(s) /\ UNCHANGED <<rec, cur>>
      /\ pc' = [pc EXCEPT ![p] = "apply"]
  BY DEF Plan
<1>3. Snapshot(s) /\ m \in ManifestName /\ rows \in SUBSET Rows
  BY <1>0, VaultAssumption DEF TypeOK, Snapshot
<1>4. /\ pc'[p] = "apply" /\ want'[p] = rows /\ todo'[p] = Planned(s, f, rows)
      /\ doomed'[p] = Deletes(s, f, rows, FALSE, m, allow)
  BY <1>0, <1>1, <1>2 DEF TypeOK
<1>5. Live(s) = Live(rec) /\ \A u \in Live(rec) : s[u] = rec[u]
  BY <1>2 DEF Undisturbed, ReadAll
<1>6. \A u \in Live(s) : InScope(s[u])
  BY <1>0 DEF IsolationInv, StaleButOwn, SnapIsOwn
<1>7. \A u \in Live(s) : s[u].marker.manager = "sdk" /\ s[u].marker.manifest = m =>
                            TitleFits(m, s[u].title, s[u].marker.ref)
  BY <1>0 DEF TitlesFit
<1>8. cur'[p] = NoCur /\ cur'[p].uid \notin Live(rec)
  BY <1>0, <1>2, NullsAreNew DEF TypeOK, NoCur, Live
<1> HIDE DEF s, m
<1>9. NoRivals'
  BY <1>2, <1>5, NoCollisionRefs DEF NoRivals
<1>10. Namesakes(p)'
  BY <1>2, <1>5 DEF Namesakes, Collision, Titled
<1>11. Sole(p)'
  <2>1. ASSUME NEW c \in todo'[p]
        PROVE  /\ \A u \in Live(rec) : rec[u].marker.ref = c.ref => c.kind = "update" /\ u = c.uid
               /\ c.kind = "create" => \A u \in Live(rec) : rec[u].title # c.title
               /\ c.kind = "update" => c.uid \in Live(rec)
    <3>1. PICK row \in rows : WriteOf(s, f, rows, c, row)
      BY <1>4, PlannedAreOfRows
    <3>2. Claimed(s, f, rows, c, row)
      BY <1>2, <1>3, <3>1, WriteClaims
    <3>3. c.kind = "create" => row \in ToCreate(s, f, rows) /\ c.title = row.title
      BY <1>3, <3>1, WriteAsks
    <3>4. c.kind = "create" => \A u \in Live(s) : s[u].title # c.title
      <4>1. SUFFICES ASSUME c.kind = "create" PROVE \A u \in Live(s) : s[u].title # row.title
        BY <3>3
      <4>2. Match(s, f, row) = NoUid /\ row \in Rows
        BY <1>3, <3>3, <4>1 DEF ToCreate
      <4> QED BY <1>3, <4>2, CreatedIsNew
    <3> QED BY <1>5, <3>2, <3>4 DEF Claimed
  <2> QED BY <1>2, <1>4, <2>1 DEF Sole
<1>12. ASSUME NEW row \in rows PROVE Placed(p, row)' \/ Pending(p, row)' \/ Taken(p, row)'
  <2>1. CASE Match(s, f, row) = NoUid
    <3>1. CreateOf(row) \in todo'[p]
      BY <1>4, <2>1 DEF Planned, ToCreate
    <3>2. Asks(CreateOf(row), row) /\ CreateOf(row).kind = "create"
      BY DEF Asks, CreateOf
    <3>3. Pending(p, row)'
      BY <3>1, <3>2 DEF Pending
    <3> QED BY <3>3
  <2>2. CASE Match(s, f, row) # NoUid
    <3>1. PICK u : u = Match(s, f, row)
      OBVIOUS
    <3>2. /\ u \in Live(s) /\ u \in Live(rec) /\ s[u] = rec[u]
          /\ s[u].marker.ref = row.ref \/ s[u].title = row.title
      BY <1>3, <1>5, <2>2, <3>1, MatchIsLive
    <3>3. s[u].marker.manager # "blank"
      BY <1>6, <3>2 DEF InScope
    <3>4. CASE s[u].marker.manager # "sdk"
      <4>1. Taken(p, row)'
        BY <1>2, <1>8, <3>2, <3>4 DEF Taken
      <4> QED BY <4>1
    <3>5. CASE s[u].marker.manager = "sdk"
      <4>1. row \in Matching(s, f, rows, {"sdk", "blank"})
        BY <2>2, <3>1, <3>5 DEF Matching
      <4>2. CASE Differs(s, u, row)
        <5>1. row \in ToUpdate(s, f, rows)
          BY <3>1, <4>1, <4>2 DEF ToUpdate, InSync
        <5>2. PICK c : c = EditOf(s, f, row)
          OBVIOUS
        <5>3. c \in todo'[p] /\ WriteOf(s, f, rows, c, row)
          BY <1>4, <5>1, <5>2 DEF Planned, WriteOf
        <5>4. /\ Asks(c, row) /\ c.kind = "update" /\ c.uid = u
              /\ c.title = Keep => c.title = row.title \/ s[u].title = row.title
              /\ c.body = DriftOf(s[u].body, row.body)
          BY <1>3, <3>1, <5>2, <5>3, WriteAsks, EditIs
        <5>5. row.title # Keep /\ Holds(PatchBody(s[u].body, c.body), row.body)
          <6>1. row.title # Keep /\ row.body \in Body /\ s[u].body \in Body
            BY <1>3, <3>2, NullsAreNew DEF Rows, Snapshot, Live, Records
          <6> QED BY <5>4, <6>1, HoldsAfter
        <5>6. Pending(p, row)'
          BY <1>2, <3>2, <5>3, <5>4, <5>5 DEF Pending
        <5> QED BY <5>6
      <4>3. CASE ~Differs(s, u, row)
        <5>1. s[u].title = row.title /\ Holds(s[u].body, row.body)
          <6>1. row.body \in Body
            BY <1>3 DEF Rows
          <6> QED BY <4>3, <6>1, HoldsSame DEF Differs
        <5>2. s[u].marker.manifest = m
          BY <1>0, <1>3, <1>6, <2>2, <3>1, <3>5, MatchIsOwn DEF m
        <5>3. s[u].marker.ref = row.ref
          BY <1>0, <1>3, <1>6, <1>7, <2>2, <3>1, <3>5, MatchClaims DEF m
        <5>4. Own(u, m)'
          BY <1>2, <3>2, <3>5, <5>2 DEF Own
        <5>5. Placed(p, row)'
          BY <1>2, <3>2, <5>1, <5>3, <5>4 DEF Placed, m
        <5> QED BY <5>5
      <4> QED BY <4>2, <4>3
    <3> QED BY <3>4, <3>5
  <2> QED BY <2>1, <2>2
<1>13. Accounted(p)'
  BY <1>4, <1>12 DEF Accounted
<1>14. OrphansDoomed(p)'
  <2>1. SUFFICES ASSUME NEW u \in Live(rec), Own(u, m), ~\E row \in rows : row.ref = rec[u].marker.ref
                 PROVE  u \in doomed'[p]
    BY <1>2, <1>4 DEF OrphansDoomed, Wants, Own, m
  <2>2. u \in Live(s) /\ s[u] = rec[u] /\ s[u].marker.manager = "sdk" /\ s[u].marker.manifest = m
    BY <1>5, <2>1 DEF Own
  <2>3. u \notin Matched(s, f, rows, FALSE)
    <3>1. SUFFICES ASSUME NEW row \in Matching(s, f, rows, {"sdk", "blank"}), u = Match(s, f, row) PROVE FALSE
      BY DEF Matched, ToAdopt
    <3>2. row \in rows /\ Match(s, f, row) # NoUid
      BY DEF Matching
    <3>3. s[u].marker.ref = row.ref
      BY <1>0, <1>3, <1>6, <1>7, <2>2, <3>1, <3>2, MatchClaims DEF m
    <3> QED BY <2>1, <2>2, <3>2, <3>3
  <2>4. u \in Orphans(s, f, rows, FALSE, m)
    BY <2>2, <2>3 DEF Orphans
  <2>5. allow
    BY <1>1, <2>4 DEF HasConflict
  <2> QED BY <1>4, <2>4, <2>5 DEF Deletes
<1>15. ReadAll(p)'
  BY <1>4 DEF ReadAll
<1> QED BY <1>4, <1>9, <1>10, <1>11, <1>13, <1>14, <1>15 DEF Undisturbed, OnCourse

\* Calls for different uid_refs give different titles.
LEMMA TitlesDiffer ==
  ASSUME Discipline, Base, NEW p \in Run, NEW c \in todo[p], NEW d \in todo[p], c # d, d.title = c.title
  PROVE  c.title = Keep
<1>1. /\ TodoAsks(p) /\ TodoClaims(p) /\ TitlesKeepTheirRefs /\ ManifestOf[p] \in ManifestName
  BY VaultAssumption DEF Base, AllTitles, AllClaims, Claims, Discipline
<1>2. PICK x \in want[p] : Asks(c, x)
  BY <1>1 DEF TodoAsks
<1>3. PICK y \in want[p] : Asks(d, y)
  BY <1>1 DEF TodoAsks
<1>4. x \in UNION Versions[ManifestOf[p]] /\ y \in UNION Versions[ManifestOf[p]]
  BY <1>1 DEF TodoAsks
<1>5. SUFFICES ASSUME c.title # Keep PROVE FALSE
  OBVIOUS
<1>6. x.title = y.title
  BY <1>2, <1>3, <1>5 DEF Asks
<1>7. c.ref = d.ref
  BY <1>1, <1>2, <1>3, <1>4, <1>6 DEF Asks, TitlesKeepTheirRefs
<1> QED BY <1>1, <1>7 DEF TodoClaims

LEMMA ChangesAreTyped ==
  ASSUME TypeOK, NEW p \in Run, NEW c \in todo[p]
  PROVE  /\ c.ref \in Ref /\ c.ref # NoRef
         /\ c.kind = "create" => c.title # Keep /\ c.body \in Body
         /\ c.kind = "update" => c \in Edits
         /\ c.kind \in {"create", "update"}
BY NullsAreNew DEF TypeOK, Calls, Creates, Edits

\* What is created has no rival and no namesake.
LEMMA UndisturbedCreate ==
  ASSUME Discipline, Base, NEW p \in Run, Undisturbed(p), Create(p)
  PROVE  Undisturbed(p)'
<1> DEFINE m == ManifestOf[p]
<1>0. /\ TypeOK /\ IsolationInv /\ TodoAsks(p) /\ TodoClaims(p)
  BY DEF Base, IsolationInv, AllTitles, AllClaims, Claims
<1>1. PICK c \in todo[p], u \in Uid \ used :
        /\ c.kind = "create"
        /\ rec' = With(rec, u, NewRecord(c))
        /\ todo' = [todo EXCEPT ![p] = @ \ {c}]
        /\ cur' = [cur EXCEPT ![p] = [uid |-> u, ref |-> c.ref]]
  BY DEF Create
<1>2. /\ todo'[p] = todo[p] \ {c} /\ cur'[p].uid = u /\ cur'[p].ref = c.ref
      /\ pc'[p] = "mark" /\ pc[p] = "apply" /\ doomed'[p] = doomed[p] /\ want'[p] = want[p]
  BY <1>0, <1>1 DEF Create, TypeOK, Undisturbed
<1>3. /\ NewRecord(c).title = c.title /\ NewRecord(c).body = c.body
      /\ NewRecord(c).marker.manager = "none" /\ NewRecord(c).marker.ref = NoRef
  BY DEF NewRecord, Unmarked
<1>4. /\ Live(rec') = Live(rec) \union {u} /\ rec'[u] = NewRecord(c)
      /\ \A v \in Live(rec) : v # u => rec'[v] = rec[v]
  BY <1>1 DEF With, Live
<1>5. u \notin Live(rec) /\ \A v \in Live(rec) : rec'[v] = rec[v]
  BY <1>0, <1>4 DEF TypeOK, Live
<1>6. NoRivals /\ Namesakes(p) /\ Sole(p) /\ Accounted(p) /\ OrphansDoomed(p)
  BY <1>2 DEF Undisturbed, OnCourse
<1>7. c.ref # NoRef /\ c.title # Keep
  BY <1>0, <1>1, ChangesAreTyped
<1>8. \A v \in Live(rec) : rec[v].marker.ref # c.ref /\ rec[v].title # c.title
  BY <1>1, <1>6 DEF Sole
<1>9. NoRivals'
  BY <1>3, <1>4, <1>5, <1>6 DEF NoRivals
<1>10. Namesakes(p)'
  BY <1>2, <1>3, <1>4, <1>5, <1>6, <1>8 DEF Namesakes
<1>11. Sole(p)'
  <2>1. ASSUME NEW d \in todo[p], d # c
        PROVE  /\ \A v \in Live(rec') : rec'[v].marker.ref = d.ref => d.kind = "update" /\ v = d.uid
               /\ d.kind = "create" => \A v \in Live(rec') : rec'[v].title # d.title
               /\ d.kind = "update" => d.uid \in Live(rec')
    <3>1. d.ref # NoRef
      BY <1>0, ChangesAreTyped
    <3>2. d.title # c.title
      BY <1>7, <2>1, TitlesDiffer
    <3> QED BY <1>3, <1>4, <1>5, <1>6, <3>1, <3>2 DEF Sole
  <2>2. \A v \in Live(rec') : rec'[v].marker.ref = c.ref => v = u
    BY <1>4, <1>5, <1>8
  <2> QED BY <1>2, <2>1, <2>2 DEF Sole
<1>12. ASSUME NEW row \in want[p]
       PROVE  Placed(p, row)' \/ Pending(p, row)' \/ Written(p, row)' \/ Taken(p, row)'
  <2>1. CASE Placed(p, row)
    <3>1. Placed(p, row)'
      BY <1>4, <1>5, <2>1 DEF Placed, Own
    <3> QED BY <3>1
  <2>2. CASE Pending(p, row)
    <3>1. PICK d \in todo[p] :
            /\ Asks(d, row)
            /\ d.kind = "update" => /\ d.title = Keep => rec[d.uid].title = row.title
                                    /\ Holds(PatchBody(rec[d.uid].body, d.body), row.body)
      BY <2>2 DEF Pending
    <3>2. CASE d = c
      <4>1. c.ref = row.ref /\ c.title = row.title /\ c.body = row.body
        BY <1>1, <3>1, <3>2 DEF Asks
      <4>2. Holds(c.body, row.body)
        BY <1>0, <1>1, <4>1, ChangesAreTyped, HoldsSame
      <4>3. Written(p, row)'
        BY <1>2, <1>3, <1>4, <4>1, <4>2 DEF Written
      <4> QED BY <4>3
    <3>3. CASE d # c
      <4>1. d.kind = "update" => d.uid \in Live(rec)
        BY <1>6 DEF Sole
      <4>2. Pending(p, row)'
        BY <1>2, <1>5, <3>1, <3>3, <4>1 DEF Pending
      <4> QED BY <4>2
    <3> QED BY <3>2, <3>3
  <2>3. CASE Taken(p, row)
    <3>1. Taken(p, row)'
      BY <1>2, <1>4, <1>5, <2>3 DEF Taken
    <3> QED BY <3>1
  <2>4. ~Written(p, row)
    BY <1>2 DEF Written
  <2> QED BY <1>6, <2>1, <2>2, <2>3, <2>4 DEF Accounted
<1>13. Accounted(p)'
  BY <1>2, <1>12 DEF Accounted
<1>14. OrphansDoomed(p)'
  BY <1>2, <1>3, <1>4, <1>5, <1>6 DEF OrphansDoomed, Own, Wants
<1> QED BY <1>2, <1>9, <1>10, <1>11, <1>13, <1>14 DEF Undisturbed, OnCourse, ReadAll

LEMMA UndisturbedDelete ==
  ASSUME Base, NEW p \in Run, Undisturbed(p), Delete(p)
  PROVE  Undisturbed(p)'
<1> DEFINE m == ManifestOf[p]
<1>0. /\ TypeOK /\ IsolationInv /\ DoomedClaims(p)
  BY DEF Base, IsolationInv, AllClaims, Claims
<1>1. PICK d \in doomed[p] : rec' = Without(d) /\ doomed' = [doomed EXCEPT ![p] = @ \ {d}]
  BY DEF Delete
<1>2. /\ pc[p] = "apply" /\ todo[p] = {}
      /\ pc'[p] = "apply" /\ todo'[p] = {} /\ cur'[p] = cur[p] /\ want'[p] = want[p]
      /\ doomed'[p] = doomed[p] \ {d}
  BY <1>0, <1>1 DEF Delete, TypeOK
<1>3. Live(rec') = Live(rec) \ {d} /\ \A v \in Live(rec') : rec'[v] = rec[v]
  BY <1>1 DEF Without, Live
<1>4. NoRivals /\ Namesakes(p) /\ Sole(p) /\ Accounted(p) /\ OrphansDoomed(p)
  BY <1>2 DEF Undisturbed, OnCourse
<1>5. d \in Live(rec) => Own(d, m) /\ ~Wants(p, rec[d].marker.ref)
  BY <1>0 DEF IsolationInv, StaleButOwn, PlanIsOwn, DoomedClaims
<1>6. NoRivals'
  BY <1>3, <1>4 DEF NoRivals
<1>7. Namesakes(p)'
  BY <1>2, <1>3, <1>4 DEF Namesakes
<1>8. Sole(p)'
  BY <1>2 DEF Sole
<1>9. ASSUME NEW row \in want[p] PROVE Placed(p, row)' \/ Taken(p, row)'
  <2>1. CASE Placed(p, row)
    <3>1. PICK v \in Live(rec) :
            Own(v, m) /\ rec[v].marker.ref = row.ref /\ rec[v].title = row.title /\ Holds(rec[v].body, row.body)
      BY <2>1 DEF Placed
    <3>2. v # d
      BY <1>5, <3>1 DEF Wants
    <3>3. Placed(p, row)'
      BY <1>3, <3>1, <3>2 DEF Placed, Own
    <3> QED BY <3>3
  <2>2. CASE Taken(p, row)
    <3>1. Taken(p, row)'
      BY <1>2, <1>3, <1>5, <2>2 DEF Taken, Own
    <3> QED BY <3>1
  <2>3. ~Pending(p, row) /\ ~Written(p, row)
    BY <1>2 DEF Pending, Written
  <2> QED BY <1>4, <2>1, <2>2, <2>3 DEF Accounted
<1>10. Accounted(p)'
  BY <1>2, <1>9 DEF Accounted
<1>11. OrphansDoomed(p)'
  BY <1>2, <1>3, <1>4 DEF OrphansDoomed, Own, Wants
<1> QED BY <1>2, <1>6, <1>7, <1>8, <1>10, <1>11 DEF Undisturbed, OnCourse, ReadAll

\* A patch gives the record what the rows say, and the marker it already has will stay.
LEMMA UndisturbedUpdateBody ==
  ASSUME Discipline, Base, NEW p \in Run, Undisturbed(p), UpdateBody(p)
  PROVE  Undisturbed(p)'
<1> DEFINE m == ManifestOf[p]
<1>0. /\ TypeOK /\ IsolationInv /\ TodoAsks(p) /\ TodoClaims(p) /\ RefsAreKeys /\ m \in ManifestName
  BY VaultAssumption DEF Base, IsolationInv, AllTitles, AllClaims, Claims, Discipline
<1>1. PICK c \in todo[p] :
        /\ c.kind = "update"
        /\ c.uid \in Live(rec)
        /\ rec' = With(rec, c.uid, Patch(rec[c.uid], c))
        /\ todo' = [todo EXCEPT ![p] = @ \ {c}]
        /\ cur' = [cur EXCEPT ![p] = [uid |-> c.uid, ref |-> c.ref]]
  BY DEF UpdateBody
<1>2. PICK u : u = c.uid
  OBVIOUS
<1>3. /\ todo'[p] = todo[p] \ {c} /\ cur'[p].uid = u /\ cur'[p].ref = c.ref
      /\ pc'[p] = "mark" /\ pc[p] = "apply" /\ doomed'[p] = doomed[p] /\ want'[p] = want[p]
  BY <1>0, <1>1, <1>2 DEF UpdateBody, TypeOK
<1>4. c \in Edits /\ rec[u] \in Records
  BY <1>0, <1>1, <1>2 DEF TypeOK, Calls, Creates, Edits, Live
<1>5. /\ Live(rec') = Live(rec) /\ u \in Live(rec) /\ rec'[u] = Patch(rec[u], c)
      /\ \A v \in Live(rec) : v # u => rec'[v] = rec[v]
  BY <1>1, <1>2 DEF With, Live
<1>6. Own(u, m) /\ rec[u].marker.ref = c.ref
  BY <1>0, <1>1, <1>2 DEF IsolationInv, StaleButOwn, PlanIsOwn, TodoAsks
<1>7. /\ rec'[u].title = IF c.title = Keep THEN rec[u].title ELSE c.title
      /\ rec'[u].body = PatchBody(rec[u].body, c.body)
      /\ rec'[u].marker = rec[u].marker
  BY <1>4, <1>5, PatchGives
<1>8. \A v \in Live(rec) : rec'[v].marker = rec[v].marker
  BY <1>5, <1>7
<1>9. NoRivals /\ Namesakes(p) /\ Sole(p) /\ Accounted(p) /\ OrphansDoomed(p)
  BY <1>3 DEF Undisturbed, OnCourse
<1>10. c.ref # NoRef
  BY <1>0, ChangesAreTyped
<1>11. NoRivals'
  BY <1>5, <1>8, <1>9 DEF NoRivals
<1>12. ASSUME NEW x \in Live(rec), NEW y \in Live(rec), x # y, rec'[x].title = rec'[y].title,
              rec[x].marker.ref = NoRef
       PROVE  /\ rec[x].marker.manager # "sdk" /\ x # u
              /\ \E row \in want[p] : row.title = rec'[x].title
  <2>1. x # u /\ rec'[x] = rec[x]
    BY <1>5, <1>6, <1>10, <1>12
  <2>2. CASE rec[x].title = rec[y].title
    BY <1>9, <1>12, <2>1, <2>2 DEF Namesakes
  <2>3. CASE rec[x].title # rec[y].title
    <3>1. y = u /\ rec'[u].title = c.title /\ c.title # Keep
      BY <1>5, <1>7, <1>12, <2>1, <2>3
    <3>2. PICK row \in want[p] : Asks(c, row)
      BY <1>0 DEF TodoAsks
    <3>3. row.title = rec'[x].title
      BY <1>12, <3>1, <3>2 DEF Asks
    <3>4. InScope(rec[x])
      BY <1>0, <1>12 DEF IsolationInv, StaleButOwn, Scoped
    <3>5. NoRef \notin RefsOf(rec[x].marker.manifest) \/ rec[x].marker.manifest \notin ManifestName
      BY VaultAssumption, NullsAreNew DEF RefsOf, Rows
    <3>6. rec[x].marker.manager # "sdk"
      BY <1>12, <3>4, <3>5 DEF InScope
    <3> QED BY <2>1, <3>3, <3>6
  <2> QED BY <2>2, <2>3
<1>13. Namesakes(p)'
  BY <1>3, <1>5, <1>8, <1>12 DEF Namesakes
<1>14. Sole(p)'
  <2>1. ASSUME NEW d \in todo[p], d # c
        PROVE  /\ \A v \in Live(rec') : rec'[v].marker.ref = d.ref => d.kind = "update" /\ v = d.uid
               /\ d.kind = "create" => \A v \in Live(rec') : rec'[v].title # d.title
               /\ d.kind = "update" => d.uid \in Live(rec')
    <3>1. c.title # Keep => d.title # c.title
      BY <2>1, TitlesDiffer
    <3>2. d.kind = "create" => \A v \in Live(rec) : rec'[v].title # d.title
      BY <1>5, <1>7, <1>9, <3>1 DEF Sole
    <3> QED BY <1>5, <1>8, <1>9, <3>2 DEF Sole
  <2>2. \A v \in Live(rec') : rec'[v].marker.ref = c.ref => v = u
    BY <1>1, <1>2, <1>5, <1>8, <1>9 DEF Sole
  <2> QED BY <1>3, <2>1, <2>2 DEF Sole
<1>15. ASSUME NEW row \in want[p]
       PROVE  Placed(p, row)' \/ Pending(p, row)' \/ Written(p, row)' \/ Taken(p, row)'
  <2>1. CASE Placed(p, row)
    <3>1. PICK v \in Live(rec) :
            Own(v, m) /\ rec[v].marker.ref = row.ref /\ rec[v].title = row.title /\ Holds(rec[v].body, row.body)
      BY <2>1 DEF Placed
    <3>2. CASE v = u
      <4>1. PICK other \in want[p] : Asks(c, other)
        BY <1>0 DEF TodoAsks
      <4>2. other = row
        BY <1>0, <1>6, <3>1, <3>2, <4>1 DEF Asks, RefsAreKeys, TodoAsks
      <4>3. rec'[u].title = row.title /\ Holds(rec'[u].body, row.body) /\ c.ref = row.ref
        <5>1. PICK old \in Body : c.body = DriftOf(old, row.body)
          BY <1>1, <4>1, <4>2 DEF Asks
        <5>2. rec[u].body \in Body /\ row.body \in Body
          BY <1>0, <1>4 DEF Records, Rows, TypeOK
        <5>3. Holds(rec'[u].body, row.body)
          BY <1>7, <3>1, <3>2, <5>1, <5>2, HoldsStill
        <5> QED BY <1>7, <3>1, <3>2, <4>1, <4>2, <5>3 DEF Asks
      <4>4. Written(p, row)'
        BY <1>3, <1>5, <4>3 DEF Written
      <4> QED BY <4>4
    <3>3. CASE v # u
      <4>1. Placed(p, row)'
        BY <1>5, <3>1, <3>3 DEF Placed, Own
      <4> QED BY <4>1
    <3> QED BY <3>2, <3>3
  <2>2. CASE Pending(p, row)
    <3>1. PICK d \in todo[p] :
            /\ Asks(d, row)
            /\ d.kind = "update" => /\ d.title = Keep => rec[d.uid].title = row.title
                                    /\ Holds(PatchBody(rec[d.uid].body, d.body), row.body)
      BY <2>2 DEF Pending
    <3>2. CASE d = c
      <4>1. rec'[u].title = row.title /\ Holds(rec'[u].body, row.body) /\ c.ref = row.ref
        BY <1>1, <1>2, <1>7, <3>1, <3>2 DEF Asks
      <4>2. Written(p, row)'
        BY <1>3, <1>5, <4>1 DEF Written
      <4> QED BY <4>2
    <3>3. CASE d # c
      <4>1. d.kind = "update" => d.uid \in Live(rec) /\ rec[d.uid].marker.ref = d.ref
        BY <1>0, <1>9 DEF Sole, TodoAsks
      <4>2. d.ref # c.ref
        BY <1>0, <3>3 DEF TodoClaims
      <4>3. d.kind = "update" => rec'[d.uid] = rec[d.uid]
        BY <1>5, <1>6, <4>1, <4>2
      <4>4. Pending(p, row)'
        BY <1>3, <3>1, <3>3, <4>3 DEF Pending
      <4> QED BY <4>4
    <3> QED BY <3>2, <3>3
  <2>3. CASE Taken(p, row)
    <3>1. PICK x \in Live(rec) :
            rec[x].marker.manager # "sdk" /\ (rec[x].marker.ref = row.ref \/ rec[x].title = row.title)
      BY <2>3 DEF Taken
    <3>2. x # u
      BY <1>6, <3>1 DEF Own
    <3>3. Taken(p, row)'
      BY <1>3, <1>5, <3>1, <3>2 DEF Taken
    <3> QED BY <3>3
  <2>4. ~Written(p, row)
    BY <1>3 DEF Written
  <2> QED BY <1>9, <2>1, <2>2, <2>3, <2>4 DEF Accounted
<1>16. Accounted(p)'
  BY <1>3, <1>15 DEF Accounted
<1>17. OrphansDoomed(p)'
  BY <1>3, <1>5, <1>8, <1>9 DEF OrphansDoomed, Own, Wants
<1> QED BY <1>3, <1>11, <1>13, <1>14, <1>16, <1>17 DEF Undisturbed, OnCourse, ReadAll

\* The marker puts the record it is written to in its place.
LEMMA UndisturbedMark ==
  ASSUME Base, NEW p \in Run, Undisturbed(p), Mark(p)
  PROVE  Undisturbed(p)'
<1> DEFINE m == ManifestOf[p]
<1>0. /\ TypeOK /\ IsolationInv /\ CurClaims(p) /\ TitlesFit(p) /\ m \in ManifestName
  BY VaultAssumption DEF Base, IsolationInv, AllTitles, AllClaims, Claims
<1>1. PICK u : u = cur[p].uid
  OBVIOUS
<1>2. PICK r : r = cur[p].ref
  OBVIOUS
<1>3. /\ pc[p] = "mark" /\ u \in Live(rec)
      /\ rec' = With(rec, u, [rec[u] EXCEPT !.marker = EncodeMarker(r, m)])
      /\ pc'[p] = "apply" /\ cur'[p] = NoCur /\ todo' = todo /\ doomed' = doomed /\ want' = want
  BY <1>0, <1>1, <1>2 DEF Mark, TypeOK
<1>4. rec[u] \in Records
  BY <1>0, <1>3 DEF TypeOK, Live
<1>5. /\ Live(rec') = Live(rec)
      /\ \A v \in Live(rec) : v # u => rec'[v] = rec[v]
      /\ rec'[u].title = rec[u].title /\ rec'[u].body = rec[u].body
      /\ rec'[u].marker = EncodeMarker(r, m)
  BY <1>3, <1>4 DEF With, Live, Records
<1>6. rec'[u].marker.ref = r /\ Own(u, m)'
  BY <1>5 DEF EncodeMarker, Own
<1>7. \A v \in Live(rec) : rec'[v].title = rec[v].title /\ rec'[v].body = rec[v].body
  BY <1>5
<1>8. r \in RefsOf(m) /\ r # NoRef
  <2>1. r \in RefsOf(m)
    BY <1>0, <1>2, <1>3 DEF IsolationInv, StaleButOwn, MarkIsOwn
  <2> QED BY <1>0, <2>1, VaultAssumption, NullsAreNew DEF RefsOf, Rows
<1>9. NoRivals /\ Namesakes(p) /\ Sole(p) /\ Accounted(p) /\ OrphansDoomed(p)
  BY <1>3 DEF Undisturbed, OnCourse
<1>10. \A v \in Live(rec) : rec[v].marker.ref = r => v = u
  BY <1>1, <1>2, <1>3, <1>9 DEF Sole
<1>11. cur'[p].uid \notin Live(rec)
  BY <1>0, <1>3, NullsAreNew DEF NoCur, TypeOK, Live
<1>12. NoRivals'
  BY <1>5, <1>6, <1>9, <1>10 DEF NoRivals
<1>13. Namesakes(p)'
  BY <1>3, <1>5, <1>6, <1>7, <1>8, <1>9, <1>11 DEF Namesakes
<1>14. Sole(p)'
  <2>1. \A c \in todo[p] : c.ref # r
    BY <1>0, <1>2, <1>3 DEF CurClaims
  <2> QED BY <1>3, <1>5, <1>6, <1>7, <1>9, <2>1 DEF Sole
<1>15. ASSUME NEW row \in want[p] PROVE Placed(p, row)' \/ Pending(p, row)' \/ Taken(p, row)'
  <2>1. CASE Placed(p, row)
    <3>1. PICK v \in Live(rec) :
            Own(v, m) /\ rec[v].marker.ref = row.ref /\ rec[v].title = row.title /\ Holds(rec[v].body, row.body)
      BY <2>1 DEF Placed
    <3>2. v = u => rec[v].marker.ref = r
      BY <1>0, <1>1, <1>2, <1>3, <3>1 DEF TitlesFit
    <3>3. Own(v, m)' /\ rec'[v].marker.ref = row.ref
      BY <1>5, <1>6, <3>1, <3>2 DEF Own
    <3>4. Placed(p, row)'
      BY <1>5, <1>7, <3>1, <3>3 DEF Placed
    <3> QED BY <3>4
  <2>2. CASE Pending(p, row)
    <3>1. \A d \in todo[p] : d.kind = "update" => d.uid \in Live(rec)
      BY <1>9 DEF Sole
    <3>2. Pending(p, row)'
      BY <1>3, <1>7, <2>2, <3>1 DEF Pending
    <3> QED BY <3>2
  <2>3. CASE Written(p, row)
    <3>1. rec[u].title = row.title /\ Holds(rec[u].body, row.body) /\ r = row.ref
      BY <1>1, <1>2, <2>3 DEF Written
    <3>2. /\ u \in Live(rec') /\ rec'[u].title = row.title /\ Holds(rec'[u].body, row.body)
          /\ rec'[u].marker.ref = row.ref
      BY <1>3, <1>5, <1>6, <3>1
    <3>3. Placed(p, row)'
      BY <1>6, <3>2 DEF Placed
    <3> QED BY <3>3
  <2>4. CASE Taken(p, row)
    <3>1. PICK x \in Live(rec) :
            /\ x # u /\ rec[x].marker.manager # "sdk"
            /\ rec[x].marker.ref = row.ref \/ rec[x].title = row.title
      BY <1>1, <2>4 DEF Taken
    <3>2. x \in Live(rec') /\ x # cur'[p].uid /\ rec'[x] = rec[x]
      BY <1>5, <1>11, <3>1
    <3>3. Taken(p, row)'
      BY <3>1, <3>2 DEF Taken
    <3> QED BY <3>3
  <2> QED BY <1>9, <2>1, <2>2, <2>3, <2>4 DEF Accounted
<1>16. Accounted(p)'
  BY <1>3, <1>15 DEF Accounted
<1>17. OrphansDoomed(p)'
  <2>1. Wants(p, r)
    BY <1>0, <1>2, <1>3 DEF CurClaims
  <2> QED BY <1>3, <1>5, <1>6, <1>9, <2>1 DEF OrphansDoomed, Own, Wants
<1> QED BY <1>3, <1>12, <1>13, <1>14, <1>16, <1>17 DEF Undisturbed, OnCourse, ReadAll

LEMMA UndisturbedInit == Init => AllUndisturbed
BY DEF Init, AllUndisturbed

\* Whoever else changes the folder ends everybody's calm but his own.
LEMMA UndisturbedNext ==
  ASSUME Discipline, Base, AllUndisturbed, [Next]_vars
  PROVE  AllUndisturbed'
<1>0. /\ TypeOK /\ TypeOK'
      /\ DisjointScopes /\ OneRunPerManifest /\ RefsAreKeys
  BY IsolationNext DEF Base, IsolationInv, Discipline
<1> SUFFICES ASSUME NEW p \in calm' PROVE Undisturbed(p)'
  BY DEF AllUndisturbed
<1>1. p \in Run /\ (p \in calm => Undisturbed(p))
  BY <1>0 DEF TypeOK, AllUndisturbed
<1>2. CASE UNCHANGED vars
  BY <1>1, <1>2, UndisturbedStays DEF vars, LocalOf
<1>3. CASE RunStep(p)
  <2>1. CASE List(p)
    BY <1>1, <2>1, UndisturbedRead
  <2>2. CASE CreateLost(p) \/ End(p)
    BY <2>2 DEF CreateLost, End
  <2>3. CASE Read(p) \/ Plan(p) \/ Create(p) \/ UpdateBody(p) \/ Mark(p) \/ Delete(p)
    <3>1. p \in calm
      BY <2>3 DEF Read, Plan, Create, UpdateBody, Mark, Delete, Disturb
    <3> QED BY <1>1, <2>3, <3>1, UndisturbedRead, UndisturbedPlan, UndisturbedCreate, UndisturbedUpdateBody,
               UndisturbedMark, UndisturbedDelete
  <2> QED BY <1>3, <2>1, <2>2, <2>3 DEF RunStep, Finish, Fail
<1>4. CASE \E q \in Run : q # p /\ RunStep(q)
  <2>1. PICK q \in Run : q # p /\ RunStep(q)
    BY <1>4
  <2>2. UNCHANGED LocalOf(p)
    BY <1>0, <1>1, <2>1, OthersAreApart
  <2>3. CASE List(q) \/ Read(q) \/ Plan(q) \/ End(q)
    <3>1. p \in calm /\ UNCHANGED rec
      BY <2>1, <2>3 DEF List, Read, Plan, End
    <3> QED BY <1>1, <2>2, <3>1, UndisturbedStays
  <2>4. CASE Create(q) \/ CreateLost(q) \/ UpdateBody(q) \/ Mark(q) \/ Delete(q)
    BY <2>1, <2>4 DEF Create, CreateLost, UpdateBody, Mark, Delete, Disturb
  <2> QED BY <2>1, <2>3, <2>4 DEF RunStep, Finish, Fail
<1>5. CASE OutsideCreate \/ OutsideEdit \/ OutsideRename \/ OutsideDelete
  BY <1>5 DEF OutsideCreate, OutsideEdit, OutsideRename, OutsideDelete, OutsideStep
<1> QED BY <1>2, <1>3, <1>4, <1>5 DEF Next

\* What a process that nobody disturbed leaves behind when it has nothing left to do
LEMMA NothingIsLeft ==
  ASSUME Discipline, Base, NEW p \in Run, Undisturbed(p), Finish(p), ~Homonym(want[p])
  PROVE  /\ ~Collision(rec)
         /\ \A f \in TitleIndexes(rec) :
              /\ ToCreate(rec, f, want[p]) = {}
              /\ Orphans(rec, f, want[p], FALSE, ManifestOf[p]) = {}
              /\ \A row \in want[p] \ Refused(rec, f, want[p], FALSE) :
                    Carries(rec[Match(rec, f, row)], row)
<1> DEFINE m == ManifestOf[p]
<1>0. /\ TypeOK /\ IsolationInv /\ m \in ManifestName
  BY VaultAssumption DEF Base, IsolationInv
<1>1. pc[p] = "apply" /\ todo[p] = {} /\ doomed[p] = {}
  BY DEF Finish
<1>2. NoRivals /\ Namesakes(p) /\ Accounted(p) /\ OrphansDoomed(p)
  BY <1>1 DEF Undisturbed, OnCourse
<1>3. Snapshot(rec) /\ want[p] \subseteq Rows
  BY <1>0 DEF TypeOK, Snapshot
<1>4. \A u \in Live(rec) : InScope(rec[u])
  BY <1>0 DEF IsolationInv, StaleButOwn, Scoped
<1>5. ~Collision(rec)
  <2>1. SUFFICES ASSUME NEW u \in Live(rec), NEW v \in Live(rec), u # v, rec[u].title = rec[v].title,
                        NEW w \in Titled(rec, rec[u].title), rec[w].marker.ref = NoRef
                 PROVE  FALSE
    BY <1>2 DEF Collision, NoRivals
  <2>2. w \in Live(rec) /\ \E x \in Live(rec) : w # x /\ rec[w].title = rec[x].title
    BY <2>1 DEF Titled
  <2>3. w \in Live(rec) \ SdkRecords /\ \E row \in want[p] : rec[w].title = row.title
    BY <1>2, <2>1, <2>2 DEF Namesakes, SdkRecords
  <2> QED BY <2>3 DEF Homonym
<1>6. ASSUME NEW f \in TitleIndexes(rec), NEW row \in want[p], NEW u \in Live(rec), rec[u].marker.ref = row.ref
      PROVE  Match(rec, f, row) = u /\ u # NoUid
  BY <1>0, <1>2, <1>3, <1>6, ClaimedMatch, NullsAreNew DEF NoRivals, TypeOK, Live
<1>7. ASSUME NEW row \in want[p]
      PROVE  \E u \in Live(rec) :
                /\ rec[u].marker.ref = row.ref
                /\ \/ rec[u].title = row.title /\ Holds(rec[u].body, row.body)
                   \/ rec[u].marker.manager \notin {"sdk", "blank"}
  <2>1. ~Pending(p, row) /\ ~Written(p, row)
    BY <1>1 DEF Pending, Written
  <2>2. CASE Placed(p, row)
    BY <2>2 DEF Placed
  <2>3. CASE Taken(p, row)
    <3>1. PICK u \in Live(rec) :
            /\ rec[u].marker.manager # "sdk"
            /\ rec[u].marker.ref = row.ref \/ rec[u].title = row.title
      BY <2>3 DEF Taken
    <3>2. rec[u].title # row.title
      BY <3>1 DEF Homonym, SdkRecords
    <3>3. rec[u].marker.manager # "blank"
      BY <1>4 DEF InScope
    <3> QED BY <3>1, <3>2, <3>3
  <2> QED BY <1>2, <2>1, <2>2, <2>3 DEF Accounted
<1>8. ASSUME NEW f \in TitleIndexes(rec), NEW row \in want[p]
      PROVE  /\ row \notin ToCreate(rec, f, want[p])
             /\ row \notin Refused(rec, f, want[p], FALSE) => Carries(rec[Match(rec, f, row)], row)
  <2>1. PICK u \in Live(rec) :
          /\ rec[u].marker.ref = row.ref
          /\ \/ rec[u].title = row.title /\ Holds(rec[u].body, row.body)
             \/ rec[u].marker.manager \notin {"sdk", "blank"}
    BY <1>7
  <2>2. Match(rec, f, row) = u /\ u # NoUid
    BY <1>6, <2>1
  <2>3. row \notin ToCreate(rec, f, want[p])
    BY <2>2 DEF ToCreate
  <2>4. CASE rec[u].marker.manager \notin {"sdk", "blank"}
    <3>1. rec[u].marker.manager \in {"foreign", "none"}
      BY <1>0, <2>4 DEF TypeOK, Live, Records, Markers, Managers
    <3>2. row \in Matching(rec, f, want[p], {"foreign"}) \/ row \in Matching(rec, f, want[p], {"none"})
      BY <2>2, <3>1 DEF Matching
    <3>3. row \in Refused(rec, f, want[p], FALSE)
      BY <3>2 DEF Refused, ToAdopt
    <3> QED BY <2>3, <3>3
  <2>5. CASE rec[u].title = row.title /\ Holds(rec[u].body, row.body)
    BY <2>2, <2>3, <2>5 DEF Carries
  <2> QED BY <2>1, <2>4, <2>5
<1>9. ASSUME NEW f \in TitleIndexes(rec) PROVE Orphans(rec, f, want[p], FALSE, m) = {}
  <2>1. SUFFICES ASSUME NEW u \in Live(rec), u \notin Matched(rec, f, want[p], FALSE),
                        rec[u].marker.manager = "sdk", rec[u].marker.manifest \in {NoName, m}
                 PROVE  FALSE
    BY DEF Orphans
  <2>2. Own(u, m)
    BY <1>4, <2>1, NullsAreNew DEF InScope, Own
  <2>3. PICK row \in want[p] : row.ref = rec[u].marker.ref
    BY <1>1, <1>2, <2>2 DEF OrphansDoomed, Wants
  <2>4. Match(rec, f, row) = u /\ u # NoUid
    BY <1>6, <2>3
  <2>5. row \in Matching(rec, f, want[p], {"sdk", "blank"})
    BY <2>1, <2>4 DEF Matching
  <2> QED BY <2>1, <2>4, <2>5 DEF Matched
<1>10. ASSUME NEW f \in TitleIndexes(rec) PROVE ToCreate(rec, f, want[p]) = {}
  BY <1>8 DEF ToCreate
<1> QED BY <1>5, <1>8, <1>9, <1>10

\* What a process has read stays true, and every row stays accounted for, as long as
\* nobody disturbs it; at the end nothing is pending, so every record in place carries
\* its row, and a second plan has nothing to create or delete.
THEOREM RerunIsIdle ==
  ASSUME DisjointScopes, OneRunPerManifest, RefsAreKeys, TitlesKeepTheirRefs PROVE Spec => IdempotentRerun
<1>0. Discipline
  BY DEF Discipline
<1>1. Init => Base /\ AllUndisturbed
  BY IsolationInit, ClaimsInit, TitlesInit, UndisturbedInit DEF Base
<1>2. Base /\ AllUndisturbed /\ [Next]_vars => (Base /\ AllUndisturbed)'
  <2>1. SUFFICES ASSUME Base, AllUndisturbed, [Next]_vars PROVE (Base /\ AllUndisturbed)'
    OBVIOUS
  <2>2. IsolationInv' /\ AllClaims' /\ AllTitles'
    BY <2>1, IsolationNext, ClaimsNext, TitlesNext DEF Base
  <2>3. AllUndisturbed'
    BY <1>0, <2>1, UndisturbedNext
  <2> QED BY <2>2, <2>3 DEF Base
<1>3. Base /\ AllUndisturbed =>
        [\A p \in calm : Finish(p) /\ ~Homonym(want[p]) =>
           /\ ~Collision(rec)
           /\ \A f \in TitleIndexes(rec) :
                /\ ToCreate(rec, f, want[p]) = {}
                /\ Orphans(rec, f, want[p], FALSE, ManifestOf[p]) = {}
                /\ \A row \in want[p] \ Refused(rec, f, want[p], FALSE) :
                      Carries(rec[Match(rec, f, row)], row)]_vars
  <2>1. SUFFICES ASSUME Base, AllUndisturbed, NEW p \in calm, Finish(p), ~Homonym(want[p])
                 PROVE  /\ ~Collision(rec)
                        /\ \A f \in TitleIndexes(rec) :
                             /\ ToCreate(rec, f, want[p]) = {}
                             /\ Orphans(rec, f, want[p], FALSE, ManifestOf[p]) = {}
                             /\ \A row \in want[p] \ Refused(rec, f, want[p], FALSE) :
                                   Carries(rec[Match(rec, f, row)], row)
    OBVIOUS
  <2>2. p \in Run /\ Undisturbed(p)
    BY <2>1 DEF Base, IsolationInv, TypeOK, AllUndisturbed
  <2> QED BY <1>0, <2>1, <2>2, NothingIsLeft
<1> QED BY <1>1, <1>2, <1>3, PTL DEF Spec, IdempotentRerun

\* The updates that a second plan may still have change nothing: an edit planned for a
\* record that carries its row leaves the record as it is
\* (_vault_apply_login_body_update then finds merged == existing and makes no call).
THEOREM SecondUpdateIsVoid ==
  ASSUME NEW s, Snapshot(s), NEW f \in TitleIndexes(s), NEW row \in Rows, Match(s, f, row) # NoUid,
         Carries(s[Match(s, f, row)], row)
  PROVE  Patch(s[Match(s, f, row)], EditOf(s, f, row)) = s[Match(s, f, row)]
<1>1. PICK r : r = s[Match(s, f, row)]
  OBVIOUS
<1>2. r \in Records /\ r.body \in Body /\ row.body \in Body
  BY <1>1, MatchIsLive DEF Snapshot, Live, Records, Rows
<1>3. PICK c : c = EditOf(s, f, row)
  OBVIOUS
<1>4. r.title = row.title /\ Holds(r.body, row.body)
  BY <1>1 DEF Carries
<1>5. c.title = Keep /\ c.body = DriftOf(r.body, row.body)
  BY <1>1, <1>3, <1>4, EditIs
<1>6. /\ c.body \in [content : Content \union {Keep}, custom : Customs]
      /\ c.body.content = Keep
      /\ c.body.custom = Empty \/ c.body.custom = row.body.custom
  BY <1>2, <1>4, <1>5, DriftIs DEF Holds
<1>7. MergeCustom(r.body.custom, c.body.custom) = r.body.custom
  <2>1. PICK L \in SUBSET Label : r.body.custom \in [L -> Setting]
    BY <1>2, BodyAssumption DEF Customs
  <2>2. \A l \in DOMAIN c.body.custom \ Keyed :
           l \in DOMAIN r.body.custom /\ c.body.custom[l] = r.body.custom[l]
    BY <1>4, <1>6, EmptyType DEF Holds
  <2> QED BY <2>1, <2>2 DEF MergeCustom
<1>8. PatchBody(r.body, c.body) = r.body
  BY <1>2, <1>6, <1>7, BodyAssumption DEF PatchBody
<1>9. Patch(r, c) = r
  BY <1>2, <1>5, <1>8 DEF Patch, Records
<1> QED BY <1>1, <1>3, <1>9

\* Without custom fields a record that carries its row does not differ from it, so
\* that the second plan is clean.
THEOREM CleanWithoutCustomFields ==
  ASSUME Label = {}, NEW r \in Records, NEW row \in Rows, Carries(r, row)
  PROVE  r.title = row.title /\ r.body = row.body
<1>1. r.body \in Body /\ row.body \in Body
  BY DEF Records, Rows
<1>2. \A x \in Customs, y \in Customs : x = y
  BY DEF Customs
<1>3. r.body.content = row.body.content /\ r.body.custom = row.body.custom
  BY <1>1, <1>2, BodyAssumption DEF Carries, Holds
<1> QED BY <1>1, <1>3, BodyAssumption DEF Carries
==============================================================================
