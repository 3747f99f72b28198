------------------------------ MODULE PamProofs ------------------------------
(***************************************************************************)
(* Theorems about PamApply, for all manifests and folders: types, one      *)
(* owner per uid_ref, whose markers are written and whose records are      *)
(* removed, what a clean plan means, that an interrupted apply can be      *)
(* taken up again, and what an undisturbed one leaves of each row.         *)
(***************************************************************************)
EXTENDS PamApply, FiniteSetTheorems, WellFoundedInduction, TLAPS

------------------------------------------------------------------------------
(* Counting: the last record of a listing, and the next uids to hand out *)

LEMMA Least ==
  ASSUME NEW S, S \subseteq Nat, S # {}
  PROVE  \E u \in S : \A v \in S : u <= v
<1>1. PICK u \in S : \A v \in S : ~(<<v, u>> \in OpToRel(<, Nat))
  BY WFMin, NatLessThanWellFounded
<1>2. \A v \in S : ~(v < u)
  <2> SUFFICES ASSUME NEW v \in S, v < u PROVE FALSE
    OBVIOUS
  <2>1. <<v, u>> \in OpToRel(<, Nat)
    BY DEF OpToRel
  <2> QED BY <1>1, <2>1
<1> QED BY <1>2

Below(A, v) == {w \in A : w < v}

Lowest(A, n) == {v \in A : Cardinality(Below(A, v)) < n}

LEMMA BelowIsFinite ==
  ASSUME NEW A, IsFiniteSet(A), NEW v
  PROVE  IsFiniteSet(Below(A, v)) /\ Cardinality(Below(A, v)) \in Nat
BY FS_Subset, FS_CardinalityType DEF Below

\* As many as there are
LEMMA LowestCount ==
  ASSUME NEW A, A \subseteq Nat, IsFiniteSet(A), NEW n \in Nat, n <= Cardinality(A)
  PROVE  IsFiniteSet(Lowest(A, n)) /\ Cardinality(Lowest(A, n)) = n
<1>1. \A k : IsFiniteSet(Lowest(A, k)) /\ Lowest(A, k) \subseteq A
  <2>1. \A k : Lowest(A, k) \subseteq A
    BY DEF Lowest
  <2> QED BY <2>1, FS_Subset
<1> DEFINE Bad == {k \in Nat : k <= Cardinality(A) /\ Cardinality(Lowest(A, k)) # k}
<1> SUFFICES ASSUME Bad # {} PROVE FALSE
  BY <1>1
<1>2. PICK k \in Bad : \A j \in Bad : k <= j
  BY Least
<1>3. k \in Nat /\ Cardinality(A) \in Nat /\ k <= Cardinality(A) /\ Cardinality(Lowest(A, k)) # k
  BY FS_CardinalityType
<1>4. CASE k = 0
  <2>1. Lowest(A, 0) = {}
    BY BelowIsFinite DEF Lowest
  <2> QED BY <1>3, <1>4, <2>1, FS_EmptySet
<1>5. CASE k # 0
  <2> PICK m \in Nat : m + 1 = k
    BY <1>3, <1>5
  <2>1. m \in Nat /\ m < k /\ m < Cardinality(A) /\ m + 1 = k
    BY <1>3
  <2>2. m \notin Bad
    BY <1>2, <1>3, <2>1
  <2>3. Cardinality(Lowest(A, m)) = m
    BY <1>3, <2>1, <2>2
  <2>4. A \ Lowest(A, m) # {}
    <3>1. Lowest(A, m) # A
      BY <2>1, <2>3
    <3> QED BY <1>1, <3>1
  <2>5. PICK x \in A \ Lowest(A, m) : \A v \in A \ Lowest(A, m) : x <= v
    BY <2>4, Least
  <2>6. \A v \in A : v \in Nat /\ x \in Nat
    OBVIOUS
  <2>7. ASSUME NEW v \in A, x < v
        PROVE  Cardinality(Below(A, v)) >= Cardinality(Below(A, x)) + 1
    <3>1. Below(A, x) \union {x} \subseteq Below(A, v) /\ x \notin Below(A, x)
      <4>1. \A w \in A : w < x => w < v
        BY <2>6, <2>7
      <4>2. x \in A /\ ~(x < x)
        BY <2>5, <2>6
      <4> QED BY <2>7, <4>1, <4>2 DEF Below
    <3>2. Cardinality(Below(A, x) \union {x}) = Cardinality(Below(A, x)) + 1
      BY <3>1, BelowIsFinite, FS_AddElement
    <3> QED BY <3>1, <3>2, BelowIsFinite, FS_Subset
  <2>8. Lowest(A, m) = Below(A, x)
    <3>1. ASSUME NEW v \in Below(A, x) PROVE v \in Lowest(A, m)
      BY <2>5, <2>6 DEF Below
    <3>2. ASSUME NEW v \in Lowest(A, m) PROVE v \in Below(A, x)
      <4>1. v \in A /\ Cardinality(Below(A, v)) < m /\ ~(Cardinality(Below(A, x)) < m) /\ v # x
        BY <2>5 DEF Lowest
      <4>2. ~(x < v)
        BY <2>1, <2>7, <4>1, BelowIsFinite
      <4> QED BY <2>6, <4>1, <4>2 DEF Below
    <3> QED BY <3>1, <3>2
  <2>9. Cardinality(Below(A, x)) = m
    BY <2>3, <2>8
  <2>10. Lowest(A, k) = Lowest(A, m) \union {x}
    <3>1. x \in Lowest(A, k)
      BY <2>1, <2>9 DEF Lowest
    <3>2. ASSUME NEW v \in Lowest(A, m) PROVE v \in Lowest(A, k)
      BY <1>3, <2>1, <3>2, BelowIsFinite DEF Lowest
    <3>3. ASSUME NEW v \in Lowest(A, k), v \notin Lowest(A, m), v # x PROVE FALSE
      <4>1. v \in A /\ x < v
        BY <2>5, <2>6, <3>3 DEF Lowest
      <4>2. Cardinality(Below(A, v)) >= k
        BY <2>1, <2>7, <2>9, <4>1
      <4> QED BY <1>3, <3>3, <4>1, <4>2, BelowIsFinite DEF Lowest
    <3> QED BY <3>1, <3>2, <3>3
  <2>11. Cardinality(Lowest(A, k)) = m + 1
    <3>1. IsFiniteSet(Lowest(A, m)) /\ x \notin Lowest(A, m)
      BY <1>1, <2>5
    <3> QED BY <2>3, <2>10, <3>1, FS_AddElement
  <2> QED BY <1>3, <2>1, <2>11
<1> QED BY <1>4, <1>5

\* A listing has a last record
LEMMA LastIs ==
  ASSUME NEW S, S \subseteq Nat, IsFiniteSet(S), S # {}
  PROVE  LastListed(S) \in S /\ \A v \in S : v <= LastListed(S)
<1>0. Cardinality(S) \in Nat /\ Cardinality(S) # 0
  BY FS_EmptySet, FS_CardinalityType
<1> PICK n \in Nat : Cardinality(S) = n + 1
  BY <1>0
<1>1. n < Cardinality(S) /\ Cardinality(S) = n + 1
  OBVIOUS
<1>2. Lowest(S, n) # S
  <2>1. n <= Cardinality(S) /\ n # Cardinality(S)
    BY <1>1
  <2>2. Cardinality(Lowest(S, n)) = n
    BY <2>1, LowestCount
  <2> QED BY <2>1, <2>2
<1>3. PICK x \in S : x \notin Lowest(S, n)
  BY <1>2 DEF Lowest
<1>4. Cardinality(Below(S, x)) >= n
  BY <1>1, <1>3, BelowIsFinite DEF Lowest
<1>5. ASSUME NEW v \in S, x < v PROVE FALSE
  <2> DEFINE T == Below(S, x) \union {x}
  <2>1. x \notin Below(S, x) /\ v \notin T /\ T \union {v} \subseteq S
    BY <1>5 DEF Below
  <2>2. IsFiniteSet(T) /\ Cardinality(T) = Cardinality(Below(S, x)) + 1
    BY <2>1, BelowIsFinite, FS_AddElement
  <2>3. Cardinality(T \union {v}) = Cardinality(Below(S, x)) + 2
    <3>1. Cardinality(T \union {v}) = Cardinality(T) + 1
      BY <2>1, <2>2, FS_AddElement
    <3> QED BY <2>2, <3>1, BelowIsFinite
  <2>4. Cardinality(T \union {v}) <= Cardinality(S)
    BY <2>1, FS_Subset
  <2> QED BY <1>1, <1>4, <2>3, <2>4, BelowIsFinite
<1>6. \A v \in S : v <= x
  BY <1>5
<1> QED BY <1>6 DEF LastListed

------------------------------------------------------------------------------
(* The uids that the server hands out *)

\* There is one for each row, and no two rows share one
LEMMA HandedOut ==
  ASSUME used \subseteq Uid, NEW S, IsFiniteSet(S), Cardinality(S) <= Cardinality(Uid \ used),
         NEW U, U = FreshUids(Cardinality(S))
  PROVE  /\ U \subseteq Uid \ used
         /\ \E at \in [U -> S] :
              /\ \A row \in S : \E u \in U : at[u] = row
              /\ \A u, v \in U : at[u] = at[v] => u = v
              /\ Added(S, U) = [u \in U |-> Imported(at[u])]
<1> DEFINE A == Uid \ used
<1>1. A \subseteq Nat /\ IsFiniteSet(A) /\ Cardinality(S) \in Nat
  BY PamApplyAssumption, FS_Subset, FS_CardinalityType
<1>2. U = Lowest(A, Cardinality(S))
  BY DEF FreshUids, Lowest, Below
<1>3. IsFiniteSet(U) /\ Cardinality(U) = Cardinality(S)
  BY <1>1, <1>2, LowestCount
<1>4. U \subseteq Uid \ used
  BY <1>2 DEF Lowest
<1> DEFINE Covers(f) == \A row \in S : \E u \in U : f[u] = row
<1> DEFINE at == CHOOSE f \in [U -> S] : Covers(f)
<1>5. \E f \in [U -> S] : Covers(f)
  <2>1. ExistsBijection(U, S)
    BY <1>3, FS_SameCardinalityBij
  <2> QED BY <2>1 DEF ExistsBijection, Bijection, Injection, Surjection
<1>6. at \in [U -> S] /\ Covers(at)
  BY <1>5
<1>7. \A u, v \in U : at[u] = at[v] => u = v
  <2>1. at \in Surjection(U, S)
    BY <1>6 DEF Surjection
  <2>2. at \in Injection(U, S)
    BY <1>3, <2>1, FS_SurjSameCardinalityImpliesInj
  <2> QED BY <2>2 DEF Injection, IsInjective
<1>8. Added(S, U) = [u \in U |-> Imported(at[u])]
  BY DEF Added
<1> HIDE DEF at
<1> QED BY <1>4, <1>6, <1>7, <1>8

LEMMA OneFresh ==
  ASSUME used \subseteq Uid, NEW u \in FreshUids(1)
  PROVE  u \in Uid \ used
BY DEF FreshUids

------------------------------------------------------------------------------
(* Records and the lookup of rows *)

TakesRotation(x, y) ==
  [title |-> x.title, body |-> x.body, rotation |-> y, scripts |-> x.scripts,
   settings |-> x.settings, marker |-> x.marker]

TakesScripts(x, y) ==
  [title |-> x.title, body |-> x.body, rotation |-> x.rotation, scripts |-> y,
   settings |-> x.settings, marker |-> x.marker]

TakesSettings(x, y) ==
  [title |-> x.title, body |-> x.body, rotation |-> x.rotation, scripts |-> x.scripts,
   settings |-> y, marker |-> x.marker]

TakesMarker(x, y) ==
  [title |-> x.title, body |-> x.body, rotation |-> x.rotation, scripts |-> x.scripts,
   settings |-> x.settings, marker |-> y]

LEMMA SetFields ==
  ASSUME NEW x, IsRecord(x), NEW y
  PROVE  /\ [x EXCEPT !.rotation = y] = TakesRotation(x, y)
         /\ [x EXCEPT !.scripts = y] = TakesScripts(x, y)
         /\ [x EXCEPT !.settings = y] = TakesSettings(x, y)
         /\ [x EXCEPT !.marker = y] = TakesMarker(x, y)
         /\ [x EXCEPT !.body = y] =
              [title |-> x.title, body |-> y, rotation |-> x.rotation, scripts |-> x.scripts,
               settings |-> x.settings, marker |-> x.marker]
<1> PICK t, b, r, c, g, m : x = [title |-> t, body |-> b, rotation |-> r, scripts |-> c,
                                 settings |-> g, marker |-> m]
  BY DEF IsRecord
<1> QED BY DEF TakesRotation, TakesScripts, TakesSettings, TakesMarker

Folder(s) == DOMAIN s \subseteq Uid /\ \A u \in DOMAIN s : IsRecord(s[u])

\* A row is found by its uid_ref, or else by its title
LEMMA FoundIs ==
  ASSUME NEW s, Folder(s), NEW row, IsRow(row)
  PROVE  /\ Found(s, row) \in DOMAIN s \union {NoUid}
         /\ Found(s, row) = NoUid => Claimants(s, row.ref) = {} /\ Titled(s, row.title) = {}
         /\ Found(s, row) # NoUid =>
              \/ Found(s, row) \in Claimants(s, row.ref)
              \/ Claimants(s, row.ref) = {} /\ Found(s, row) \in Titled(s, row.title)
         /\ NoUid \notin DOMAIN s
<1>0. NoUid \notin DOMAIN s /\ row.title \in Title
  BY NullsAreNew DEF Folder, IsRow
<1>1. CASE Claimants(s, row.ref) # {}
  <2>1. Found(s, row) \in Claimants(s, row.ref)
    BY <1>1 DEF Found, Match
  <2> QED BY <1>0, <1>1, <2>1 DEF Claimants, Live
<1>2. CASE Claimants(s, row.ref) = {}
  <2>1. Found(s, row) = ByTitle(s)[row.title]
    BY <1>2 DEF Found, Match
  <2>2. Found(s, row) = IF Titled(s, row.title) = {} THEN NoUid ELSE LastListed(Titled(s, row.title))
    BY <1>0, <2>1 DEF ByTitle
  <2>3. Titled(s, row.title) \subseteq DOMAIN s
    BY DEF Titled, Live
  <2>4. Titled(s, row.title) \subseteq Nat /\ IsFiniteSet(Titled(s, row.title))
    BY <2>3, PamApplyAssumption, FS_Subset DEF Folder
  <2>5. Titled(s, row.title) # {} => LastListed(Titled(s, row.title)) \in Titled(s, row.title)
    BY <2>4, LastIs
  <2> QED BY <1>0, <1>2, <2>2, <2>3, <2>5
<1> QED BY <1>1, <1>2

LEMMA VersionRows ==
  ASSUME NEW v \in Versions
  PROVE  /\ IsFiniteSet(v.rows) /\ v.rows \subseteq AllRows
         /\ \A row \in v.rows : IsRow(row)
         /\ \A x, y \in v.rows : x.ref = y.ref => x = y
         /\ v.gateways \subseteq Gateway
<1>1. Loads(v.rows) /\ v.rows \subseteq AllRows
  BY PamApplyAssumption DEF AllRows
<1>2. \A x, y \in v.rows : x.ref = y.ref => x = y
  BY <1>1, Zenon DEF Loads
<1> QED BY <1>1, <1>2, PamApplyAssumption

------------------------------------------------------------------------------
(* Types *)

TypeInv ==
  /\ TypeOK
  /\ rec = [u \in DOMAIN rec |-> rec[u]] /\ \A u \in DOMAIN rec : IsRecord(rec[u])
  /\ want \in Versions \union {NoVersion}
  /\ fails \in Nat /\ lapses \in Nat /\ outside \in Nat /\ twice \in BOOLEAN
  /\ cur.ref \in Ref \union {NoRef}

LEMMA WantedRows ==
  ASSUME want \in Versions \union {NoVersion}
  PROVE  /\ IsFiniteSet(Wanted) /\ Wanted \subseteq AllRows
         /\ \A row \in Wanted : IsRow(row)
         /\ \A x, y \in Wanted : x.ref = y.ref => x = y
<1>1. CASE want \in Versions
  BY <1>1, VersionRows DEF Wanted
<1>2. CASE want = NoVersion
  BY <1>2, FS_EmptySet DEF Wanted, NoVersion
<1> QED BY <1>1, <1>2

\* A record each for the rows in adds: all of them again, or those without one
Adds(adds, U, at) ==
  /\ \A row \in adds : \E u \in U : at[u] = row
  /\ \A u, v \in U : at[u] = at[v] => u = v
  /\ rec' = [u \in DOMAIN rec \union U |->
               IF u \in DOMAIN rec THEN Overwritten(rec[u]) ELSE Imported(at[u])]
  /\ used' = used \union U
  /\ \/ adds = Wanted /\ twice' = TRUE /\ ~extend /\ lapses' = lapses
     \/ /\ twice' = twice
        /\ \A row \in adds : Titled(rec, row.title) = {}
        /\ \/ lapses' = lapses /\ \A row \in Wanted \ adds : Titled(rec, row.title) # {}
           \/ lapses' = lapses + 1 /\ Trouble < MaxTrouble

LEMMA BulkIs ==
  ASSUME TypeInv, Bulk
  PROVE  \E adds \in SUBSET Wanted, U \in SUBSET (Uid \ used) : \E at \in [U -> adds] :
           Adds(adds, U, at)
<1> DEFINE new == {row \in Wanted : Titled(rec, row.title) = {}}
<1>1. IsFiniteSet(Wanted) /\ DOMAIN rec \subseteq used /\ used \subseteq Uid
  BY WantedRows DEF TypeInv, TypeOK
<1>2. ASSUME NEW S \in SUBSET Wanted, Cardinality(S) <= Cardinality(Uid \ used),
             NEW U, U = FreshUids(Cardinality(S))
      PROVE  /\ U \subseteq Uid \ used
             /\ \E at \in [U -> S] :
                  /\ \A row \in S : \E u \in U : at[u] = row
                  /\ \A u, v \in U : at[u] = at[v] => u = v
                  /\ Added(S, U) = [u \in U |-> Imported(at[u])]
  <2>1. IsFiniteSet(S)
    BY <1>1, FS_Subset
  <2> QED BY <1>1, <1>2, <2>1, HandedOut
<1> DEFINE adds(again, gone) == IF again THEN Wanted ELSE new \ gone
<1>3. PICK again \in BOOLEAN, gone \in SUBSET new :
       /\ again => ~extend /\ new # Wanted /\ gone = {} /\ ~twice
       /\ gone # {} => Trouble < MaxTrouble /\ Cardinality(gone) = 1
       /\ Cardinality(adds(again, gone)) <= Cardinality(Uid \ used)
       /\ rec' = [u \in DOMAIN rec \union FreshUids(Cardinality(adds(again, gone))) |->
                    IF u \in DOMAIN rec THEN Overwritten(rec[u])
                    ELSE Added(adds(again, gone), FreshUids(Cardinality(adds(again, gone))))[u]]
       /\ used' = used \union FreshUids(Cardinality(adds(again, gone)))
       /\ twice' = (twice \/ again)
       /\ lapses' = lapses + Cardinality(gone)
  BY DEF Bulk
<1>4. PICK S : S = adds(again, gone)
  OBVIOUS
<1>5. PICK U : U = FreshUids(Cardinality(S))
  OBVIOUS
<1>6. S \in SUBSET Wanted /\ Cardinality(S) <= Cardinality(Uid \ used)
  BY <1>3, <1>4
<1>7. U \subseteq Uid \ used
  BY <1>2, <1>5, <1>6
<1>8. PICK at \in [U -> S] :
        /\ \A row \in S : \E u \in U : at[u] = row
        /\ \A u, v \in U : at[u] = at[v] => u = v
        /\ Added(S, U) = [u \in U |-> Imported(at[u])]
  BY <1>2, <1>5, <1>6
<1>9. rec' = [u \in DOMAIN rec \union U |->
                IF u \in DOMAIN rec THEN Overwritten(rec[u]) ELSE Imported(at[u])]
  <2>1. rec' = [u \in DOMAIN rec \union U |->
                  IF u \in DOMAIN rec THEN Overwritten(rec[u]) ELSE Added(S, U)[u]]
    BY <1>3, <1>4, <1>5
  <2>2. \A u \in U : Added(S, U)[u] = Imported(at[u])
    BY <1>8
  <2> QED BY <2>1, <2>2
<1>10. used' = used \union U
  BY <1>3, <1>4, <1>5
<1>11. \/ S = Wanted /\ twice' = TRUE /\ ~extend /\ lapses' = lapses
       \/ /\ twice' = twice
          /\ \A row \in S : Titled(rec, row.title) = {}
          /\ \/ lapses' = lapses /\ \A row \in Wanted \ S : Titled(rec, row.title) # {}
             \/ lapses' = lapses + 1 /\ Trouble < MaxTrouble
  <2>1. lapses \in Nat /\ twice \in BOOLEAN
    BY DEF TypeInv
  <2>2. gone = {} => lapses' = lapses
    BY <1>3, <2>1, FS_EmptySet
  <2>3. gone # {} => lapses' = lapses + 1 /\ Trouble < MaxTrouble
    BY <1>3, <2>1
  <2>4. again => S = Wanted /\ twice' = TRUE /\ ~extend /\ gone = {}
    BY <1>3, <1>4
  <2>5. ~again => S = new \ gone /\ twice' = twice
    BY <1>3, <1>4, <2>1
  <2>6. \A row \in new \ gone : Titled(rec, row.title) = {}
    OBVIOUS
  <2>7. gone = {} => \A row \in Wanted \ (new \ gone) : Titled(rec, row.title) # {}
    OBVIOUS
  <2> HIDE DEF new, adds
  <2>8. CASE again
    BY <2>4, <2>8, <2>2
  <2>9. CASE ~again
    <3>1. CASE gone = {}
      BY <2>2, <2>5, <2>6, <2>7, <2>9, <3>1
    <3>2. CASE gone # {}
      BY <2>3, <2>5, <2>6, <2>9, <3>2
    <3> QED BY <3>1, <3>2
  <2> QED BY <2>8, <2>9
<1> HIDE DEF adds, new
<1>12. Adds(S, U, at)
  BY <1>8, <1>9, <1>10, <1>11 DEF Adds
<1> QED BY <1>6, <1>7, <1>8, <1>12

LEMMA OverwrittenIs ==
  ASSUME want \in Versions \union {NoVersion}, NEW x, IsRecord(x)
  PROVE  /\ IsRecord(Overwritten(x))
         /\ Overwritten(x) = [title |-> x.title, body |-> Overwritten(x).body, rotation |-> x.rotation,
                              scripts |-> x.scripts, settings |-> x.settings, marker |-> x.marker]
         /\ ~extend => Overwritten(x) = x
         /\ extend => \A row \in Wanted : row.title = x.title =>
              \E y \in Wanted : y.title = x.title /\ Overwritten(x).body = y.body
<1>0. \A row \in Wanted : row.body \in Body
  BY WantedRows DEF IsRow
<1>1. CASE extend /\ \E row \in Wanted : row.title = x.title
  <2> PICK y : y = CHOOSE row \in Wanted : row.title = x.title
    OBVIOUS
  <2>1. y \in Wanted /\ y.title = x.title
    BY <1>1
  <2>2. Overwritten(x) = [x EXCEPT !.body = y.body]
    BY <1>1 DEF Overwritten
  <2>3. Overwritten(x) = [title |-> x.title, body |-> y.body, rotation |-> x.rotation,
                          scripts |-> x.scripts, settings |-> x.settings, marker |-> x.marker]
    BY <2>2, SetFields
  <2> PICK z : z = Overwritten(x)
    OBVIOUS
  <2>4. /\ z.title = x.title /\ z.body = y.body /\ z.rotation = x.rotation /\ z.scripts = x.scripts
        /\ z.settings = x.settings /\ z.marker = x.marker
    BY <2>3
  <2>5. IsRecord(z)
    BY <1>0, <2>1, <2>3, <2>4 DEF IsRecord
  <2> QED BY <1>1, <2>1, <2>3, <2>4, <2>5
<1>2. CASE ~(extend /\ \E row \in Wanted : row.title = x.title)
  <2>1. Overwritten(x) = x
    BY <1>2 DEF Overwritten
  <2> QED BY <1>2, <2>1 DEF IsRecord
<1> QED BY <1>1, <1>2

LEMMA ImportedIs ==
  ASSUME NEW row, IsRow(row)
  PROVE  /\ IsRecord(Imported(row))
         /\ Imported(row).title = row.title /\ Imported(row).body = row.body
         /\ Imported(row).rotation = Off /\ Imported(row).marker = Unmarked
<1>1. Unmarked \in Markers
  BY DEF Unmarked, Markers, Managers
<1> QED BY <1>1 DEF Imported, IsRecord, IsRow

LEMMA TypeInit == Init => TypeInv
<1> SUFFICES ASSUME Init PROVE TypeInv
  OBVIOUS
<1> USE DEF Init
<1>1. DOMAIN rec = {} /\ DOMAIN seen = {}
  BY DEF Empty
<1>2. known \in [Ref -> Uid \union {NoUid}]
  BY DEF NotKnown
<1>3. Trouble \in 0..MaxTrouble
  BY PamApplyAssumption DEF Trouble
<1>4. rec = [u \in DOMAIN rec |-> rec[u]]
  BY DEF Empty
<1>5. TypeOK
  BY <1>1, <1>2, <1>3 DEF TypeOK, Wanted, NoVersion
<1> QED BY <1>1, <1>4, <1>5 DEF TypeInv, NoCur

LEMMA TypePlan == ASSUME TypeInv, PlanApply \/ PlanImport PROVE TypeInv'
<1> PICK v, rows, gws, dead :
      /\ v \in Versions /\ rows \subseteq v.rows /\ gws \subseteq v.gateways /\ dead \subseteq DOMAIN rec
      /\ Start(v, rows, gws, dead)
  <2>1. CASE PlanApply
    <3>1. PICK v \in Versions, allow \in BOOLEAN :
            Start(v, Additions(rec, v.rows) \union Drifted(rec, v.rows), v.gateways,
                  Removals(rec, v.rows, Ours, allow))
      BY <2>1 DEF PlanApply
    <3>2. Additions(rec, v.rows) \union Drifted(rec, v.rows) \subseteq v.rows
      BY DEF Additions, Drifted, ToCreate, Matching
    <3>3. Removals(rec, v.rows, Ours, allow) \subseteq DOMAIN rec
      BY DEF Removals, Deletes, Orphans, Live
    <3> QED BY <3>1, <3>2, <3>3
  <2>2. CASE PlanImport
    <3>1. PICK v \in Versions : Start(v, Adoptions(rec, v.rows), {}, {})
      BY <2>2 DEF PlanImport
    <3>2. Adoptions(rec, v.rows) \subseteq v.rows
      BY DEF Adoptions, ToAdopt, Matching
    <3> QED BY <3>1, <3>2
  <2> QED BY <2>1, <2>2
<1>0. pc = "idle"
  BY DEF PlanApply, PlanImport
<1> USE DEF Start
<1>1. known' \in [Ref -> Uid \union {NoUid}]
  <2>1. Folder(rec)
    BY DEF TypeInv, TypeOK, Folder
  <2>2. ASSUME NEW r \in Ref PROVE KnownIn(v.rows, dead)[r] \in Uid \union {NoUid}
    <3>1. CASE \E row \in v.rows : row.ref = r
      <4> PICK x : x = CHOOSE row \in v.rows : row.ref = r
        OBVIOUS
      <4>1. x \in v.rows
        BY <3>1
      <4>2. Found(rec, x) \in Uid \union {NoUid}
        BY <2>1, <4>1, FoundIs, VersionRows DEF Folder
      <4> QED BY <2>2, <3>1, <4>2 DEF KnownIn
    <3>2. CASE ~\E row \in v.rows : row.ref = r
      BY <2>1, <2>2, <3>2 DEF KnownIn, Folder
    <3> QED BY <3>1, <3>2
  <2>3. DOMAIN KnownIn(v.rows, dead) = Ref /\ known' = KnownIn(v.rows, dead)
    BY DEF KnownIn
  <2>4. KnownIn(v.rows, dead) = [r \in Ref |-> KnownIn(v.rows, dead)[r]]
    BY DEF KnownIn
  <2> HIDE DEF Start
  <2> QED BY <2>2, <2>3, <2>4
<1>2. pc' = "gateway" /\ want' = v /\ todo' = rows /\ doomed' = dead /\ gates' = gws
  OBVIOUS
<1>3. UNCHANGED <<rec, used, seen, cur, fails, lapses, outside, twice>>
  BY DEF bounds
<1>4. cur' = NoCur /\ Trouble' = Trouble
  BY <1>0, <1>3 DEF TypeInv, TypeOK, Trouble
<1> HIDE DEF Start
<1>5. TypeOK'
  BY <1>1, <1>2, <1>3, <1>4 DEF TypeInv, TypeOK, Wanted
<1> QED BY <1>2, <1>3, <1>5 DEF TypeInv

LEMMA TypeBulk == ASSUME TypeInv, Bulk PROVE TypeInv'
<1>0. Folder(rec) /\ DOMAIN rec \subseteq used /\ used \subseteq Uid /\ lapses \in Nat
  BY DEF TypeInv, TypeOK, Folder
<1>1. PICK adds \in SUBSET Wanted, U \in SUBSET (Uid \ used) : \E at \in [U -> adds] : Adds(adds, U, at)
  BY BulkIs
<1>2. PICK at \in [U -> adds] : Adds(adds, U, at)
  BY <1>1
<1>3. DOMAIN rec' = DOMAIN rec \union U /\ used' = used \union U
  BY <1>2 DEF Adds
<1>4. \A u \in DOMAIN rec' : IsRecord(rec'[u])
  <2>1. \A row \in Wanted : IsRow(row)
    BY WantedRows DEF TypeInv
  <2>2. \A u \in DOMAIN rec : rec'[u] = Overwritten(rec[u])
    BY <1>2 DEF Adds
  <2>3. \A u \in U : rec'[u] = Imported(at[u])
    BY <1>0, <1>2 DEF Adds
  <2>4. \A u \in DOMAIN rec : IsRecord(Overwritten(rec[u]))
    BY OverwrittenIs DEF TypeInv
  <2>5. \A u \in U : IsRecord(Imported(at[u]))
    BY <2>1, ImportedIs
  <2> QED BY <1>3, <2>2, <2>3, <2>4, <2>5
<1>5. rec' = [u \in DOMAIN rec' |-> rec'[u]]
  BY <1>2, <1>3 DEF Adds
<1>6. pc = "bulk" /\ pc' = "look" /\ UNCHANGED <<gates, want, todo, doomed, known, seen, cur, fails, outside>>
  BY DEF Bulk, plan
<1>7. lapses' \in Nat /\ Trouble' \in 0..MaxTrouble /\ twice' \in BOOLEAN
  <2>1. /\ twice' \in {twice, TRUE} /\ UNCHANGED <<fails, outside>>
        /\ lapses' = lapses \/ (lapses' = lapses + 1 /\ Trouble < MaxTrouble)
    BY <1>2, <1>6 DEF Adds
  <2>2. twice \in BOOLEAN /\ fails \in Nat /\ outside \in Nat /\ Trouble \in 0..MaxTrouble
    BY DEF TypeInv, TypeOK
  <2>3. lapses' \in Nat
    BY <1>0, <2>1
  <2>4. Trouble' \in 0..MaxTrouble
    BY <1>0, <2>1, <2>2, PamApplyAssumption DEF Trouble
  <2> QED BY <2>1, <2>2, <2>3, <2>4
<1>8. TypeOK'
  BY <1>0, <1>3, <1>4, <1>6, <1>7 DEF TypeInv, TypeOK, Wanted, IsRecord
<1> QED BY <1>4, <1>5, <1>6, <1>7, <1>8 DEF TypeInv

\* One record is changed, or none
Changes1(u, x) ==
  u \in DOMAIN rec /\ IsRecord(x) /\ rec' = [v \in DOMAIN rec |-> IF v = u THEN x ELSE rec[v]]

LEMMA TypeChange ==
  ASSUME TypeInv, NEW u, NEW x, Changes1(u, x)
  PROVE  /\ DOMAIN rec' = DOMAIN rec
         /\ rec' = [v \in DOMAIN rec' |-> rec'[v]]
         /\ \A v \in DOMAIN rec' : IsRecord(rec'[v])
         /\ rec'[u] = x /\ \A v \in DOMAIN rec : v # u => rec'[v] = rec[v]
BY DEF TypeInv, Changes1

LEMMA FieldSet ==
  ASSUME TypeInv, NEW u \in DOMAIN rec, NEW y
  PROVE  /\ rec' = [rec EXCEPT ![u].rotation = y] => Changes1(u, TakesRotation(rec[u], y))
         /\ rec' = [rec EXCEPT ![u].scripts = y] => Changes1(u, TakesScripts(rec[u], y))
         /\ rec' = [rec EXCEPT ![u].settings = y] => Changes1(u, TakesSettings(rec[u], y))
         /\ y \in Markers /\ rec' = [rec EXCEPT ![u].marker = y] =>
              Changes1(u, TakesMarker(rec[u], y))
<1> PICK x : x = rec[u] /\ IsRecord(x)
  BY DEF TypeInv
<1>1. IsRecord(TakesRotation(x, y))
  BY DEF IsRecord, TakesRotation
<1>2. IsRecord(TakesScripts(x, y))
  BY DEF IsRecord, TakesScripts
<1>3. IsRecord(TakesSettings(x, y))
  BY DEF IsRecord, TakesSettings
<1>4. y \in Markers => IsRecord(TakesMarker(x, y))
  BY DEF IsRecord, TakesMarker
<1>5. rec = [v \in DOMAIN rec |-> rec[v]]
  BY DEF TypeInv
<1>6. /\ [x EXCEPT !.rotation = y] = TakesRotation(x, y) /\ [x EXCEPT !.scripts = y] = TakesScripts(x, y)
      /\ [x EXCEPT !.settings = y] = TakesSettings(x, y) /\ [x EXCEPT !.marker = y] = TakesMarker(x, y)
  BY SetFields
<1>7. ASSUME rec' = [rec EXCEPT ![u].rotation = y] PROVE Changes1(u, TakesRotation(rec[u], y))
  <2>1. rec' = [v \in DOMAIN rec |-> IF v = u THEN [x EXCEPT !.rotation = y] ELSE rec[v]]
    BY <1>5, <1>7
  <2> PICK z : z = [x EXCEPT !.rotation = y]
    OBVIOUS
  <2>2. z = TakesRotation(x, y) /\ rec' = [v \in DOMAIN rec |-> IF v = u THEN z ELSE rec[v]]
    BY <1>6, <2>1
  <2> QED BY <1>1, <1>7, <2>2 DEF Changes1
<1>8. ASSUME rec' = [rec EXCEPT ![u].scripts = y] PROVE Changes1(u, TakesScripts(rec[u], y))
  <2>1. rec' = [v \in DOMAIN rec |-> IF v = u THEN [x EXCEPT !.scripts = y] ELSE rec[v]]
    BY <1>5, <1>8
  <2> PICK z : z = [x EXCEPT !.scripts = y]
    OBVIOUS
  <2>2. z = TakesScripts(x, y) /\ rec' = [v \in DOMAIN rec |-> IF v = u THEN z ELSE rec[v]]
    BY <1>6, <2>1
  <2> QED BY <1>2, <1>8, <2>2 DEF Changes1
<1>9. ASSUME rec' = [rec EXCEPT ![u].settings = y] PROVE Changes1(u, TakesSettings(rec[u], y))
  <2>1. rec' = [v \in DOMAIN rec |-> IF v = u THEN [x EXCEPT !.settings = y] ELSE rec[v]]
    BY <1>5, <1>9
  <2> PICK z : z = [x EXCEPT !.settings = y]
    OBVIOUS
  <2>2. z = TakesSettings(x, y) /\ rec' = [v \in DOMAIN rec |-> IF v = u THEN z ELSE rec[v]]
    BY <1>6, <2>1
  <2> QED BY <1>3, <1>9, <2>2 DEF Changes1
<1>10. ASSUME y \in Markers, rec' = [rec EXCEPT ![u].marker = y] PROVE Changes1(u, TakesMarker(rec[u], y))
  <2>1. rec' = [v \in DOMAIN rec |-> IF v = u THEN [x EXCEPT !.marker = y] ELSE rec[v]]
    BY <1>5, <1>10
  <2> PICK z : z = [x EXCEPT !.marker = y]
    OBVIOUS
  <2>2. z = TakesMarker(x, y) /\ rec' = [v \in DOMAIN rec |-> IF v = u THEN z ELSE rec[v]]
    BY <1>6, <2>1
  <2> QED BY <1>4, <1>10, <2>2 DEF Changes1
<1> QED BY <1>7, <1>8, <1>9, <1>10

LEMMA TypeTune == ASSUME TypeInv, Tune PROVE TypeInv'
<1>0. Folder(rec) /\ DOMAIN rec \subseteq used /\ used \subseteq Uid /\ DOMAIN seen \subseteq used
  BY DEF TypeInv, TypeOK, Folder
<1>1. PICK row \in todo : \E u \in ByIdentity(seen, row.title) :
             /\ cur' = [ref |-> row.ref, uid |-> u]
             /\ IF Tuned(row)
                THEN \E v \in Resolve(seen, known, row) \intersect DOMAIN rec :
                       rec' = [rec EXCEPT ![v].settings = With(@, row.settings)]
                ELSE UNCHANGED rec
  BY Zenon DEF Tune
<1>2. cur' # NoCur /\ cur'.ref \in Ref
  <2>1. row.ref \in Ref
    BY WantedRows DEF TypeInv, TypeOK, IsRow
  <2> QED BY <1>1, <2>1, NullsAreNew DEF NoCur
<1>3. rec' = rec \/ \E y : \E v \in DOMAIN rec : Changes1(v, TakesSettings(rec[v], y))
  <2>1. CASE Tuned(row)
    <3>1. PICK v \in DOMAIN rec : rec' = [rec EXCEPT ![v].settings = With(@, row.settings)]
      BY <1>1, <2>1
    <3>2. PICK y : rec' = [rec EXCEPT ![v].settings = y]
      BY <3>1
    <3>3. Changes1(v, TakesSettings(rec[v], y))
      BY <3>2, FieldSet
    <3> QED BY <3>3
  <2> QED BY <1>1, <2>1
<1>4. /\ DOMAIN rec' = DOMAIN rec /\ rec' = [v \in DOMAIN rec' |-> rec'[v]]
      /\ \A v \in DOMAIN rec' : IsRecord(rec'[v])
  <2>1. CASE rec' = rec
    BY <2>1 DEF TypeInv
  <2> QED BY <1>3, <2>1, TypeChange
<1>5. pc' = "tuned" /\ UNCHANGED <<used, gates, want, todo, doomed, known, seen, fails, lapses, outside, twice>>
  BY DEF Tune, plan, bounds
<1>6. TypeOK'
  BY <1>0, <1>2, <1>4, <1>5 DEF TypeInv, TypeOK, Wanted, IsRecord, Trouble
<1> QED BY <1>2, <1>4, <1>5, <1>6 DEF TypeInv

LEMMA TypeMark == ASSUME TypeInv, Mark PROVE TypeInv'
<1>0. Folder(rec) /\ DOMAIN rec \subseteq used /\ used \subseteq Uid
  BY DEF TypeInv, TypeOK, Folder
<1>1. cur.uid \in DOMAIN rec /\ rec' = [rec EXCEPT ![cur.uid].marker = EncodeMarker(cur.ref, Ours)]
  BY DEF Mark
<1>2. EncodeMarker(cur.ref, Ours) \in Markers
  BY NullsAreNew, PamApplyAssumption DEF TypeInv, EncodeMarker, Markers, Managers
<1>3. Changes1(cur.uid, TakesMarker(rec[cur.uid], EncodeMarker(cur.ref, Ours)))
  BY <1>1, <1>2, FieldSet
<1>4. /\ DOMAIN rec' = DOMAIN rec /\ rec' = [v \in DOMAIN rec' |-> rec'[v]]
      /\ \A v \in DOMAIN rec' : IsRecord(rec'[v])
  BY <1>3, TypeChange
<1>5. /\ pc = "tuned" /\ pc' = "mark" /\ cur' = NoCur /\ todo' \subseteq todo
      /\ UNCHANGED <<used, gates, want, doomed, known, seen, fails, lapses, outside, twice>>
  BY DEF Mark, plan, bounds
<1>6. TypeOK'
  BY <1>0, <1>4, <1>5 DEF TypeInv, TypeOK, Wanted, IsRecord, Trouble
<1> QED BY <1>4, <1>5, <1>6 DEF TypeInv, NoCur

LEMMA TypeRotate == ASSUME TypeInv, Rotate \/ Attach PROVE TypeInv'
<1>0. Folder(rec) /\ DOMAIN rec \subseteq used /\ used \subseteq Uid
  BY DEF TypeInv, TypeOK, Folder
<1>1. \E x : \E v \in DOMAIN rec : Changes1(v, x)
  <2>1. CASE Rotate
    <3>1. PICK y : \E v \in DOMAIN rec : rec' = [rec EXCEPT ![v].rotation = y]
      BY <2>1 DEF Rotate
    <3> QED BY <3>1, FieldSet
  <2>2. CASE Attach
    <3>1. PICK v \in DOMAIN rec : rec' = [rec EXCEPT ![v].scripts = TRUE]
      BY <2>2 DEF Attach
    <3> QED BY <3>1, FieldSet
  <2> QED BY <2>1, <2>2
<1>2. /\ DOMAIN rec' = DOMAIN rec /\ rec' = [v \in DOMAIN rec' |-> rec'[v]]
      /\ \A v \in DOMAIN rec' : IsRecord(rec'[v])
  BY <1>1, TypeChange
<1>3. /\ pc \in {"rotate", "attach"} /\ todo' \subseteq todo
      /\ UNCHANGED <<used, gates, pc, want, doomed, known, seen, cur, fails, lapses, outside, twice>>
  BY DEF Rotate, Attach, plan, bounds
<1>4. TypeOK'
  BY <1>0, <1>2, <1>3 DEF TypeInv, TypeOK, Wanted, IsRecord, Trouble
<1> QED BY <1>2, <1>3, <1>4 DEF TypeInv

\* Steps that leave the folders alone
LEMMA TypeLook == ASSUME TypeInv, Gateways \/ Look \/ Skip \/ Advance PROVE TypeInv'
<1>1. UNCHANGED <<rec, used, want, doomed, known, cur, twice, fails, lapses, outside>>
  BY DEF Gateways, Look, Skip, Advance, plan, bounds
<1>2. gates' \subseteq gates /\ pc # "idle" /\ pc' # "idle" /\ pc # "tuned" /\ pc' # "tuned"
  BY DEF Gateways, Look, Skip, Advance
<1>3. todo' \subseteq todo \union Wanted
  BY DEF Gateways, Look, Skip, Advance, Rotating, Scripted
<1>4. DOMAIN seen' \subseteq DOMAIN seen \union DOMAIN rec
  BY DEF Gateways, Look, Skip, Advance
<1>5. Trouble' = Trouble
  BY <1>1 DEF Trouble
<1>6. TypeOK'
  BY <1>1, <1>2, <1>3, <1>4, <1>5 DEF TypeInv, TypeOK, Wanted
<1> QED BY <1>1, <1>6 DEF TypeInv

LEMMA TypeDelete == ASSUME TypeInv, Delete PROVE TypeInv'
<1>1. PICK u \in doomed : rec' = [v \in DOMAIN rec \ {u} |-> rec[v]] /\ doomed' = doomed \ {u}
  BY DEF Delete
<1>2. /\ pc = "delete"
      /\ UNCHANGED <<used, gates, pc, want, known, todo, seen, cur, twice, fails, lapses, outside>>
  BY DEF Delete, bounds
<1>3. Trouble' = Trouble
  BY <1>2 DEF Trouble
<1>4. TypeOK'
  BY <1>1, <1>2, <1>3 DEF TypeInv, TypeOK, Wanted
<1> QED BY <1>1, <1>2, <1>4 DEF TypeInv

LEMMA TypeEnd == ASSUME TypeInv, Finish \/ Refuse \/ Fail PROVE TypeInv'
<1>1. End /\ (UNCHANGED fails \/ (Trouble < MaxTrouble /\ fails' = fails + 1))
  BY DEF Finish, Refuse, Fail
<1>2. fails' \in Nat /\ Trouble' \in 0..MaxTrouble
  BY <1>1, PamApplyAssumption DEF End, Trouble, TypeInv, TypeOK
<1>3. known' \in [Ref -> Uid \union {NoUid}] /\ DOMAIN seen' = {}
  BY <1>1 DEF End, NotKnown, Empty
<1>4. TypeOK'
  BY <1>1, <1>2, <1>3 DEF End, TypeInv, TypeOK, Wanted, NoVersion
<1> QED BY <1>1, <1>2, <1>4 DEF TypeInv, End, NoCur

LEMMA TypeOutside == ASSUME TypeInv, OutsideAdd \/ OutsideRemove PROVE TypeInv'
<1>1. /\ Trouble < MaxTrouble /\ outside' = outside + 1
      /\ UNCHANGED <<gates, pc, want, doomed, known, todo, seen, cur, twice, fails, lapses>>
  BY DEF OutsideAdd, OutsideRemove, OutsideStep, plan
<1>2. outside' \in Nat /\ Trouble' \in 0..MaxTrouble
  BY <1>1, PamApplyAssumption DEF Trouble, TypeInv, TypeOK
<1>3. /\ rec' = [u \in DOMAIN rec' |-> rec'[u]] /\ \A u \in DOMAIN rec' : IsRecord(rec'[u])
      /\ DOMAIN rec' \subseteq used' /\ used \subseteq used' /\ used' \subseteq Uid
  <2>1. CASE OutsideAdd
    <3>1. PICK x \in Strangers, u \in FreshUids(1) :
            /\ rec' = [v \in DOMAIN rec \union {u} |-> IF v = u THEN x ELSE rec[v]]
            /\ used' = used \union {u}
      BY <2>1 DEF OutsideAdd
    <3>2. u \in Uid \ used /\ IsRecord(x)
      BY OneFresh, PamApplyAssumption DEF TypeInv, TypeOK
    <3> QED BY <3>1, <3>2 DEF TypeInv, TypeOK
  <2>2. CASE OutsideRemove
    <3>1. PICK u \in DOMAIN rec : rec' = [v \in DOMAIN rec \ {u} |-> rec[v]] /\ used' = used
      BY <2>2 DEF OutsideRemove
    <3> QED BY <3>1 DEF TypeInv, TypeOK
  <2> QED BY <2>1, <2>2
<1>4. TypeOK'
  BY <1>1, <1>2, <1>3 DEF TypeInv, TypeOK, Wanted, IsRecord
<1> QED BY <1>1, <1>2, <1>3, <1>4 DEF TypeInv

LEMMA TypeNext == TypeInv /\ [Next]_vars => TypeInv'
<1> SUFFICES ASSUME TypeInv, [Next]_vars PROVE TypeInv'
  OBVIOUS
<1>1. CASE UNCHANGED vars
  BY <1>1 DEF TypeInv, TypeOK, vars, plan, bounds, Wanted, Trouble
<1> QED
  BY <1>1, TypePlan, TypeBulk, TypeTune, TypeMark, TypeRotate, TypeLook, TypeDelete, TypeEnd,
     TypeOutside DEF Next

LEMMA TypeAlways == Spec => []TypeInv
BY TypeInit, TypeNext, PTL DEF Spec

\* Every variable keeps its type, whatever fails and whoever else is at work in the
\* folders; no idle process has anything under way.
THEOREM TypeCorrect == Spec => []TypeOK
<1>1. TypeInv => TypeOK
  BY DEF TypeInv
<1> QED BY <1>1, TypeAlways, PTL

------------------------------------------------------------------------------
(* What a step does to a record *)

Stays(u) ==
  /\ u \in DOMAIN rec /\ rec'[u].title = rec[u].title /\ rec'[u].marker = rec[u].marker
  /\ rec'[u].rotation = rec[u].rotation \/ Rotate
  /\ rec'[u].body = rec[u].body \/ (Bulk /\ extend)
  /\ rec'[u].settings = rec[u].settings \/ Tune

IsMarked(u) ==
  /\ Mark /\ u = cur.uid /\ u \in DOMAIN rec /\ rec'[u].marker = EncodeMarker(cur.ref, Ours)
  /\ rec'[u].title = rec[u].title /\ rec'[u].rotation = rec[u].rotation
  /\ rec'[u].body = rec[u].body /\ rec'[u].settings = rec[u].settings

IsAdded(u) == Bulk /\ u \in Uid \ used /\ \E row \in Wanted : rec'[u] = Imported(row)

IsStrange(u) == OutsideAdd /\ u \in Uid \ used /\ rec'[u] \in Strangers

LEMMA SettingsStep ==
  ASSUME TypeInv, NEW row, NEW v \in DOMAIN rec, rec' = [rec EXCEPT ![v].settings = With(@, row.settings)]
  PROVE  Changes1(v, TakesSettings(rec[v], With(rec[v].settings, row.settings)))
<1> PICK y : y = With(rec[v].settings, row.settings)
  OBVIOUS
<1>1. rec' = [rec EXCEPT ![v].settings = y]
  OBVIOUS
<1> QED BY <1>1, FieldSet

LEMMA RecStep ==
  ASSUME TypeInv, [Next]_vars, NEW u \in DOMAIN rec'
  PROVE  Stays(u) \/ IsMarked(u) \/ IsAdded(u) \/ IsStrange(u)
<1>0. /\ rec = [v \in DOMAIN rec |-> rec[v]] /\ \A v \in DOMAIN rec : IsRecord(rec[v])
      /\ DOMAIN rec \subseteq used
  BY DEF TypeInv, TypeOK
<1>1. CASE UNCHANGED rec
  BY <1>1 DEF Stays
<1>2. CASE Bulk
  <2> PICK adds \in SUBSET Wanted, U \in SUBSET (Uid \ used) : \E at \in [U -> adds] : Adds(adds, U, at)
    BY <1>2, BulkIs
  <2> PICK at \in [U -> adds] : Adds(adds, U, at)
    OBVIOUS
  <2>1. CASE u \in DOMAIN rec
    <3>1. rec'[u] = Overwritten(rec[u])
      BY <2>1 DEF Adds
    <3>2. PICK b : rec'[u] = [title |-> rec[u].title, body |-> b, rotation |-> rec[u].rotation,
                              scripts |-> rec[u].scripts, settings |-> rec[u].settings,
                              marker |-> rec[u].marker]
      BY <1>0, <2>1, <3>1, OverwrittenIs DEF TypeInv
    <3>3. ~extend => rec'[u] = rec[u]
      BY <1>0, <2>1, <3>1, OverwrittenIs DEF TypeInv
    <3> QED BY <1>2, <2>1, <3>2, <3>3 DEF Stays
  <2>2. CASE u \notin DOMAIN rec
    <3>1. u \in U /\ rec'[u] = Imported(at[u])
      BY <2>2 DEF Adds
    <3> QED BY <1>2, <3>1 DEF IsAdded
  <2> QED BY <2>1, <2>2
<1>3. CASE Tune /\ rec' # rec
  <2>1. PICK row : \E v \in DOMAIN rec : rec' = [rec EXCEPT ![v].settings = With(@, row.settings)]
    BY <1>3, Zenon DEF Tune
  <2> PICK v \in DOMAIN rec : rec' = [rec EXCEPT ![v].settings = With(@, row.settings)]
    BY <2>1
  <2>2. Changes1(v, TakesSettings(rec[v], With(rec[v].settings, row.settings)))
    BY SettingsStep
  <2>3. u \in DOMAIN rec /\ (u # v => rec'[u] = rec[u])
        /\ (u = v => rec'[u] = TakesSettings(rec[v], With(rec[v].settings, row.settings)))
    BY <2>2, TypeChange
  <2> QED BY <1>0, <1>3, <2>3 DEF Stays, TakesSettings
<1>4. CASE Mark
  <2>1. cur.uid \in DOMAIN rec /\ rec' = [rec EXCEPT ![cur.uid].marker = EncodeMarker(cur.ref, Ours)]
    BY <1>4 DEF Mark
  <2>2. EncodeMarker(cur.ref, Ours) \in Markers
    BY PamApplyAssumption DEF TypeInv, EncodeMarker, Markers, Managers
  <2>3. Changes1(cur.uid, TakesMarker(rec[cur.uid], EncodeMarker(cur.ref, Ours)))
    BY <2>1, <2>2, FieldSet
  <2>4. u \in DOMAIN rec /\ (u # cur.uid => rec'[u] = rec[u])
        /\ (u = cur.uid => rec'[u] = TakesMarker(rec[u], EncodeMarker(cur.ref, Ours)))
    BY <2>3, TypeChange
  <2>5. CASE u # cur.uid
    BY <2>4, <2>5 DEF Stays
  <2>6. CASE u = cur.uid
    BY <1>4, <2>4, <2>6 DEF IsMarked, TakesMarker
  <2> QED BY <2>5, <2>6
<1>5. CASE Rotate
  <2>1. PICK y : \E v \in DOMAIN rec : rec' = [rec EXCEPT ![v].rotation = y]
    BY <1>5 DEF Rotate
  <2> PICK v \in DOMAIN rec : rec' = [rec EXCEPT ![v].rotation = y]
    BY <2>1
  <2>2. Changes1(v, TakesRotation(rec[v], y))
    BY FieldSet
  <2>3. u \in DOMAIN rec /\ (u # v => rec'[u] = rec[u])
        /\ (u = v => rec'[u] = TakesRotation(rec[v], y))
    BY <2>2, TypeChange
  <2> QED BY <1>0, <1>5, <2>3 DEF Stays, TakesRotation
<1>6. CASE Attach
  <2>1. PICK v \in DOMAIN rec : rec' = [rec EXCEPT ![v].scripts = TRUE]
    BY <1>6 DEF Attach
  <2>2. Changes1(v, TakesScripts(rec[v], TRUE))
    BY <2>1, FieldSet
  <2>3. u \in DOMAIN rec /\ (u # v => rec'[u] = rec[u])
        /\ (u = v => rec'[u] = TakesScripts(rec[v], TRUE))
    BY <2>2, TypeChange
  <2> QED BY <1>0, <2>3 DEF Stays, TakesScripts
<1>7. CASE Delete \/ OutsideRemove
  <2>1. PICK v : rec' = [w \in DOMAIN rec \ {v} |-> rec[w]]
    BY <1>7 DEF Delete, OutsideRemove
  <2> QED BY <2>1 DEF Stays
<1>8. CASE OutsideAdd
  <2>1. PICK x \in Strangers, v \in FreshUids(1) :
          rec' = [w \in DOMAIN rec \union {v} |-> IF w = v THEN x ELSE rec[w]]
    BY <1>8 DEF OutsideAdd
  <2>2. v \in Uid \ used
    BY OneFresh DEF TypeInv, TypeOK
  <2>3. CASE u = v
    BY <1>8, <2>1, <2>2, <2>3 DEF IsStrange
  <2>4. CASE u # v
    BY <2>1, <2>4 DEF Stays
  <2> QED BY <2>3, <2>4
<1>9. CASE PlanApply \/ PlanImport \/ Gateways \/ Look \/ Skip \/ Advance \/ Finish \/ Refuse \/ Fail
           \/ UNCHANGED vars
  <2>1. UNCHANGED rec
    BY <1>9 DEF PlanApply, PlanImport, Start, Gateways, Look, Skip, Advance, Finish, Refuse, Fail, End, vars
  <2> QED BY <1>1, <2>1
<1> QED BY <1>1, <1>2, <1>3, <1>4, <1>5, <1>6, <1>7, <1>8, <1>9 DEF Next

------------------------------------------------------------------------------
(* One owner per uid_ref *)

\* A marker is ours and has the uid_ref of a row of that title, or it names no
\* row at all
MarkedRight(x) ==
  \/ x.marker.manager \in {"none", "foreign"} /\ x.marker.ref \notin RefsOf(AllRows)
  \/ \E row \in AllRows : row.title = x.title /\ x.marker = EncodeMarker(row.ref, Ours)

Marks == \A u \in DOMAIN rec : MarkedRight(rec[u])

\* The second listing is out of date in what it shows, but titles last
SeenRight ==
  \A u \in DOMAIN seen :
     /\ seen[u].title \in Title
     /\ u \in DOMAIN rec => rec[u].title = seen[u].title
     /\ seen[u].ref \in RefsOf(AllRows) =>
          \E row \in AllRows : row.ref = seen[u].ref /\ row.title = seen[u].title

OwnAreSeen == pc \in {"mark", "tuned"} => \A u \in DOMAIN rec : Own(u) => u \in DOMAIN seen

CurIs == pc = "tuned" => \E row \in todo : row.ref = cur.ref /\ ByIdentity(seen, row.title) = {cur.uid}

Owners == Marks /\ SeenRight /\ OwnAreSeen /\ CurIs /\ OneOwnerPerRef

LEMMA RowsTyped == \A row \in AllRows : IsRow(row) /\ row.ref # NoRef
BY PamApplyAssumption, NullsAreNew DEF AllRows, IsRow

LEMMA MarkedRow ==
  ASSUME NEW x, MarkedRight(x),
         x.marker.manager \notin {"none", "foreign"} \/ x.marker.ref \in RefsOf(AllRows)
  PROVE  /\ x.marker.manager = "sdk" /\ x.marker.supported /\ x.marker.manifest = Ours
         /\ \E row \in AllRows : row.ref = x.marker.ref /\ row.title = x.title
<1>1. \E row \in AllRows : row.title = x.title /\ x.marker = EncodeMarker(row.ref, Ours)
  BY DEF MarkedRight
<1> PICK row \in AllRows : row.title = x.title /\ x.marker = EncodeMarker(row.ref, Ours)
  BY <1>1
<1> PICK k : k = x.marker
  OBVIOUS
<1>2. k = EncodeMarker(row.ref, Ours)
  OBVIOUS
<1>3. k.manager = "sdk" /\ k.supported = TRUE /\ k.manifest = Ours /\ k.ref = row.ref
  BY <1>2 DEF EncodeMarker
<1> QED BY <1>3

LEMMA IdentityIs ==
  ASSUME NamesTellTypes, SeenRight, NEW t \in Title
  PROVE  ByIdentity(seen, t) = {u \in DOMAIN seen : seen[u].title = t}
<1> DEFINE exact == {u \in DOMAIN seen : seen[u].title = t}
<1>1. {u \in DOMAIN seen : Name[seen[u].title] = Name[t]} \subseteq exact
  BY DEF NamesTellTypes, SeenRight
<1>2. CASE exact # {}
  BY <1>2 DEF ByIdentity
<1>3. CASE exact = {}
  BY <1>1, <1>3 DEF ByIdentity
<1> QED BY <1>2, <1>3

\* The record that is being marked has the row's title
LEMMA CurRow ==
  ASSUME TypeInv, NamesTellTypes, SeenRight, CurIs, pc = "tuned"
  PROVE  \E row \in todo :
           /\ row \in Wanted /\ row \in AllRows /\ row.ref = cur.ref
           /\ cur.uid \in DOMAIN seen /\ seen[cur.uid].title = row.title
           /\ cur.uid \in DOMAIN rec => rec[cur.uid].title = row.title
           /\ \A u \in DOMAIN seen : seen[u].title = row.title => u = cur.uid
<1>1. PICK row \in todo : row.ref = cur.ref /\ ByIdentity(seen, row.title) = {cur.uid}
  BY DEF CurIs
<1>2. row \in Wanted /\ row \in AllRows /\ row.title \in Title
  BY WantedRows, RowsTyped DEF TypeInv, TypeOK, IsRow
<1>3. {u \in DOMAIN seen : seen[u].title = row.title} = {cur.uid}
  BY <1>1, <1>2, IdentityIs
<1>4. cur.uid \in DOMAIN seen /\ seen[cur.uid].title = row.title
  BY <1>3
<1>5. cur.uid \in DOMAIN rec => rec[cur.uid].title = row.title
  BY <1>4 DEF SeenRight
<1>6. \A u \in DOMAIN seen : seen[u].title = row.title => u = cur.uid
  BY <1>3
<1> QED BY <1>1, <1>2, <1>4, <1>5, <1>6

LEMMA SeenStep == ASSUME [Next]_vars PROVE Look \/ (pc' = "idle" /\ seen' = Empty) \/ UNCHANGED seen
BY DEF Next, vars, PlanApply, PlanImport, Start, Gateways, Bulk, Look, Tune, Mark, Skip, Advance, Rotate,
       Attach, Delete, Finish, Refuse, Fail, End, OutsideAdd, OutsideRemove, OutsideStep

LEMMA TunedStep ==
  ASSUME TypeInv, [Next]_vars, pc' = "tuned"
  PROVE  Tune \/ (pc = "tuned" /\ UNCHANGED <<todo, seen, cur, want>>)
BY DEF Next, vars, plan, PlanApply, PlanImport, Start, Gateways, Bulk, Look, Tune, Mark, Skip, Advance, Rotate,
       Attach, Delete, Finish, Refuse, Fail, End, OutsideAdd, OutsideRemove, OutsideStep

LEMMA MarkingStep ==
  ASSUME TypeInv, [Next]_vars, pc' \in {"mark", "tuned"}
  PROVE  Look \/ (pc \in {"mark", "tuned"} /\ UNCHANGED <<seen, want, known, doomed>> /\ todo' \subseteq todo)
BY DEF Next, vars, plan, PlanApply, PlanImport, Start, Gateways, Bulk, Look, Tune, Mark, Skip, Advance, Rotate,
       Attach, Delete, Finish, Refuse, Fail, End, OutsideAdd, OutsideRemove, OutsideStep

LEMMA OwnersInit == Init => Owners
<1> SUFFICES ASSUME Init PROVE Owners
  OBVIOUS
<1>1. DOMAIN rec = {} /\ DOMAIN seen = {} /\ pc = "idle"
  BY DEF Init, Empty
<1> QED BY <1>1 DEF Owners, Marks, SeenRight, OwnAreSeen, CurIs, OneOwnerPerRef

LEMMA MarksNext ==
  ASSUME TypeInv, NamesTellTypes, StrangersStayApart, Owners, [Next]_vars
  PROVE  Marks'
<1> SUFFICES ASSUME NEW u \in DOMAIN rec' PROVE MarkedRight(rec'[u])
  BY DEF Marks, MarkedRight
<1>1. CASE Stays(u)
  BY <1>1 DEF Stays, Owners, Marks, MarkedRight
<1>2. CASE IsMarked(u)
  <2>1. pc = "tuned" /\ u = cur.uid /\ u \in DOMAIN rec
    BY <1>2 DEF IsMarked, Mark
  <2>2. PICK row \in todo : row \in AllRows /\ row.ref = cur.ref /\ rec[cur.uid].title = row.title
    BY <2>1, CurRow DEF Owners
  <2> QED BY <1>2, <2>1, <2>2 DEF IsMarked, MarkedRight
<1>3. CASE IsAdded(u)
  <2>1. PICK row \in Wanted : rec'[u] = Imported(row)
    BY <1>3 DEF IsAdded
  <2>2. rec'[u].marker = Unmarked
    BY <2>1, WantedRows, ImportedIs DEF TypeInv
  <2>3. NoRef \notin RefsOf(AllRows)
    BY RowsTyped DEF RefsOf
  <2> QED BY <2>2, <2>3 DEF MarkedRight, Unmarked
<1>4. CASE IsStrange(u)
  BY <1>4 DEF IsStrange, StrangersStayApart, MarkedRight
<1> QED BY <1>1, <1>2, <1>3, <1>4, RecStep

LEMMA SeenNext ==
  ASSUME TypeInv, Owners, [Next]_vars
  PROVE  SeenRight'
<1>1. CASE Look
  <2>1. seen' = [u \in DOMAIN rec |-> [title |-> rec[u].title, ref |-> rec[u].marker.ref]] /\ rec' = rec
    BY <1>1 DEF Look
  <2> SUFFICES ASSUME NEW u \in DOMAIN seen'
               PROVE  /\ seen'[u].title \in Title
                      /\ u \in DOMAIN rec' => rec'[u].title = seen'[u].title
                      /\ seen'[u].ref \in RefsOf(AllRows) =>
                           \E row \in AllRows : row.ref = seen'[u].ref /\ row.title = seen'[u].title
    BY DEF SeenRight
  <2>2. u \in DOMAIN rec /\ seen'[u].title = rec[u].title /\ seen'[u].ref = rec[u].marker.ref
    BY <2>1
  <2>3. rec[u].title \in Title /\ MarkedRight(rec[u])
    BY <2>2 DEF TypeInv, TypeOK, Owners, Marks
  <2>4. rec[u].marker.ref \in RefsOf(AllRows) =>
           \E row \in AllRows : row.ref = rec[u].marker.ref /\ row.title = rec[u].title
    BY <2>3, MarkedRow
  <2> QED BY <2>1, <2>2, <2>3, <2>4
<1>2. CASE seen' = Empty
  BY <1>2 DEF SeenRight, Empty
<1>3. CASE seen' = seen
  <2>1. \A u \in DOMAIN seen : u \in DOMAIN rec' => u \in DOMAIN rec /\ rec'[u].title = rec[u].title
    BY RecStep DEF Stays, IsMarked, IsAdded, IsStrange, TypeInv, TypeOK
  <2> QED BY <1>3, <2>1 DEF Owners, SeenRight
<1> QED BY <1>1, <1>2, <1>3, SeenStep

LEMMA OwnSeenNext ==
  ASSUME TypeInv, NamesTellTypes, StrangersStayApart, Owners, [Next]_vars
  PROVE  OwnAreSeen'
<1> SUFFICES ASSUME pc' \in {"mark", "tuned"}, NEW u \in DOMAIN rec', Own(u)' PROVE u \in DOMAIN seen'
  BY DEF OwnAreSeen
<1>1. CASE Look
  BY <1>1 DEF Look
<1>2. CASE pc \in {"mark", "tuned"} /\ seen' = seen
  <2>1. CASE Stays(u)
    BY <1>2, <2>1 DEF Stays, Own, Owners, OwnAreSeen
  <2>2. CASE IsMarked(u)
    <3>1. pc = "tuned"
      BY <2>2 DEF IsMarked, Mark
    <3> QED BY <1>2, <2>2, <3>1, CurRow DEF Owners, IsMarked
  <2>3. CASE IsAdded(u)
    BY <1>2, <2>3 DEF IsAdded, Bulk
  <2>4. CASE IsStrange(u)
    BY <2>4 DEF IsStrange, StrangersStayApart, Own
  <2> QED BY <2>1, <2>2, <2>3, <2>4, RecStep
<1> QED BY <1>1, <1>2, MarkingStep

LEMMA CurNext == ASSUME TypeInv, Owners, [Next]_vars PROVE CurIs'
<1> SUFFICES ASSUME pc' = "tuned"
             PROVE  \E row \in todo' : row.ref = cur'.ref /\ ByIdentity(seen', row.title) = {cur'.uid}
  BY DEF CurIs
<1>1. CASE Tune
  <2>1. todo' = todo /\ seen' = seen
    BY <1>1 DEF Tune
  <2>2. PICK row \in todo : \E u \in ByIdentity(seen, row.title) :
             /\ ByIdentity(seen, row.title) = {u}
             /\ cur' = [ref |-> row.ref, uid |-> u]
    BY <1>1, Zenon DEF Tune
  <2> QED BY <2>1, <2>2
<1>2. CASE pc = "tuned" /\ UNCHANGED <<todo, seen, cur, want>>
  BY <1>2 DEF Owners, CurIs
<1> QED BY <1>1, <1>2, TunedStep

LEMMA OneOwnerNext ==
  ASSUME TypeInv, NamesTellTypes, StrangersStayApart, Owners, [Next]_vars
  PROVE  OneOwnerPerRef'
<1> SUFFICES ASSUME NEW u \in DOMAIN rec', NEW v \in DOMAIN rec', Own(u)', Own(v)',
                    rec'[u].marker.ref = rec'[v].marker.ref, u # v
             PROVE  rec'[u].marker.ref \in Moved
  BY DEF OneOwnerPerRef
<1>1. ASSUME NEW w \in DOMAIN rec', Own(w)'
      PROVE  Stays(w) \/ IsMarked(w)
  <2>1. ~IsAdded(w)
    <3> SUFFICES ASSUME IsAdded(w) PROVE FALSE
      OBVIOUS
    <3>1. rec'[w].marker = Unmarked
      BY WantedRows, ImportedIs DEF TypeInv, IsAdded
    <3> QED BY <1>1, <3>1 DEF Own, Unmarked
  <2>2. ~IsStrange(w)
    BY <1>1 DEF IsStrange, StrangersStayApart, Own
  <2> QED BY <2>1, <2>2, RecStep
<1>2. CASE Stays(u) /\ Stays(v)
  BY <1>2 DEF Stays, Own, Owners, OneOwnerPerRef
<1>3. ASSUME NEW a \in DOMAIN rec', NEW b \in DOMAIN rec', IsMarked(a), Stays(b), Own(b)',
             rec'[a].marker.ref = rec'[b].marker.ref, a # b
      PROVE  rec'[a].marker.ref \in Moved
  <2>1. pc = "tuned" /\ a = cur.uid /\ a \in DOMAIN rec /\ rec'[a].marker = EncodeMarker(cur.ref, Ours)
    BY <1>3 DEF IsMarked, Mark
  <2>2. PICK row \in todo :
           /\ row \in AllRows /\ row.ref = cur.ref /\ rec[a].title = row.title
           /\ \A w \in DOMAIN seen : seen[w].title = row.title => w = a
    BY <2>1, CurRow DEF Owners
  <2>3. b \in DOMAIN rec /\ Own(b) /\ rec[b].marker.ref = row.ref
    BY <1>3, <2>1, <2>2 DEF Stays, Own, EncodeMarker
  <2>4. b \in DOMAIN seen /\ seen[b].title = rec[b].title
    BY <2>1, <2>3 DEF Owners, OwnAreSeen, SeenRight
  <2>5. rec[b].title # row.title
    BY <1>3, <2>2, <2>4
  <2>6. PICK other \in AllRows : other.title = rec[b].title /\ other.ref = row.ref
    BY <2>3, MarkedRow DEF Owners, Marks, Own
  <2>7. row.ref \in Moved
    BY <2>2, <2>5, <2>6 DEF Moved
  <2> QED BY <2>1, <2>2, <2>7 DEF EncodeMarker
<1>4. CASE IsMarked(u) /\ IsMarked(v)
  BY <1>4 DEF IsMarked
<1> QED BY <1>1, <1>2, <1>3, <1>4

LEMMA OwnersNext ==
  ASSUME NamesTellTypes, StrangersStayApart
  PROVE  TypeInv /\ Owners /\ [Next]_vars => Owners'
BY MarksNext, SeenNext, OwnSeenNext, CurNext, OneOwnerNext DEF Owners

LEMMA OwnersAlways ==
  ASSUME NamesTellTypes, StrangersStayApart
  PROVE  Spec => []Owners
<1>1. TypeInv /\ Owners /\ [Next]_vars => Owners'
  BY OwnersNext
<1> QED BY <1>1, OwnersInit, TypeAlways, PTL DEF Spec

\* Records are marked by their titles: no call that fails, import that is repeated or
\* record that others add makes two records claim one row, unless the row was
\* retitled or names do not tell types apart.
THEOREM OneOwner ==
  ASSUME NamesTellTypes, StrangersStayApart
  PROVE  Spec => []OneOwnerPerRef
<1>1. Owners => OneOwnerPerRef
  BY DEF Owners
<1> QED BY <1>1, OwnersAlways, PTL

------------------------------------------------------------------------------
(* What the plan settled, and what the marks and rotations leave *)

\* What is to be deleted is ours, and no row wants it
DoomedAreUnwanted ==
  \A u \in doomed \intersect DOMAIN rec :
     /\ Own(u) /\ rec[u].marker.ref \notin RefsOf(Wanted)
     /\ \A row \in Wanted : row.title # rec[u].title

TitleOf(t, r) == \E y \in AllRows : y.ref = r /\ y.title = t

\* The uids of the plan are those of records with a title of the row
KnownRight ==
  \A row \in Wanted : known[row.ref] # NoUid =>
     /\ known[row.ref] \in used
     /\ known[row.ref] \in DOMAIN rec => TitleOf(rec[known[row.ref]].title, row.ref)
     /\ known[row.ref] \in DOMAIN seen => TitleOf(seen[known[row.ref]].title, row.ref)

Early == {"gateway", "bulk", "look", "mark", "tuned"}

\* While nobody interferes, the listing shows the records that there are, and a row
\* to be marked does not have a record of another tool as its only one
NotTaken ==
  calm =>
    /\ pc \in {"mark", "tuned"} => DOMAIN seen = DOMAIN rec
    /\ pc \in Early =>
         \A row \in todo : row.ref \notin Moved =>
            \/ Titled(rec, row.title) = {}
            \/ \E u \in Titled(rec, row.title) : rec[u].marker.manager # "foreign"

Late == {"mark", "tuned", "rotate", "attach", "delete"}

\* What the process marked was the only record of its title
FreshAreAlone ==
  /\ pc \notin Late => fresh = {}
  /\ \A u \in fresh :
       /\ u \in DOMAIN seen
       /\ \A w \in DOMAIN seen : seen[w].title = seen[u].title => w = u
       /\ \E row \in Wanted :
            /\ row.title = seen[u].title
            /\ u \in DOMAIN rec => rec[u].marker = EncodeMarker(row.ref, Ours)

\* Every record of ours without a rotation was left so by a process, or this one
\* is to see to it
CutOrFresh == \A u \in DOMAIN rec : Own(u) /\ rec[u].rotation = Off => u \in cut \union fresh

RotationsToCome ==
  /\ pc = "rotate" => todo \subseteq Rotating
  /\ pc \in {"rotate", "attach", "delete"} =>
       \A u \in fresh \intersect DOMAIN rec, row \in Wanted :
          rec[u].rotation = Off /\ row.ref = rec[u].marker.ref =>
             row.rotation = Off \/ (pc = "rotate" /\ row \in todo)

Plans == DoomedAreUnwanted /\ KnownRight /\ NotTaken /\ FreshAreAlone

Settled == CutOrFresh /\ RotationsToCome

LEMMA NotMoved ==
  ASSUME NEW x \in AllRows, NEW y \in AllRows, x.ref = y.ref, x.ref \notin Moved
  PROVE  x.title = y.title
BY DEF Moved

LEMMA FolderNow == ASSUME TypeInv PROVE Folder(rec) /\ NoUid \notin DOMAIN rec
BY NullsAreNew DEF TypeInv, TypeOK, Folder

\* What the planner deletes is no row's, since it would have matched it
LEMMA RemovalsAreUnwanted ==
  ASSUME TypeInv, Owners, TitlesKeepTheirRefs, NEW v \in Versions, NEW allow,
         ~Raises(rec, v.rows), NEW u \in Removals(rec, v.rows, Ours, allow)
  PROVE  /\ u \in DOMAIN rec /\ Own(u) /\ rec[u].marker.ref \notin RefsOf(v.rows)
         /\ \A row \in v.rows : row.title # rec[u].title
<1>1. /\ u \in DOMAIN rec /\ rec[u].marker.manager = "sdk"
      /\ u \notin Matched(rec, ByTitle(rec), v.rows, FALSE)
  BY DEF Removals, Deletes, Orphans, Live
<1>2. /\ Own(u)
      /\ \E y \in AllRows : y.ref = rec[u].marker.ref /\ y.title = rec[u].title
  BY <1>1, MarkedRow DEF Owners, Marks, Own
<1>3. ASSUME NEW row \in v.rows, row.ref = rec[u].marker.ref PROVE FALSE
  <2>1. row \in AllRows /\ row.ref # NoRef
    BY VersionRows, RowsTyped
  <2>2. u \in Claimants(rec, row.ref)
    BY <1>1, <1>3 DEF Claimants, Live
  <2>3. \A w \in Claimants(rec, row.ref) : w = u
    BY <1>1, <1>3, <2>1 DEF Raises, Collision, Claimants, Live
  <2>4. Match(rec, ByTitle(rec), row) = u
    BY <2>2, <2>3 DEF Match
  <2>5. u # NoUid
    BY <1>1, FolderNow
  <2>6. row \in Matching(rec, ByTitle(rec), v.rows, {"sdk", "blank"})
    BY <1>1, <2>4, <2>5 DEF Matching
  <2> QED BY <1>1, <2>4, <2>6 DEF Matched
<1>4. ASSUME NEW row \in v.rows, row.title = rec[u].title PROVE FALSE
  <2>1. row.ref = rec[u].marker.ref
    BY <1>2, <1>4, VersionRows DEF TitlesKeepTheirRefs
  <2> QED BY <1>3, <2>1
<1> QED BY <1>1, <1>2, <1>3, <1>4 DEF RefsOf

\* A row's record has the title of a row with that uid_ref
LEMMA FoundTitle ==
  ASSUME TypeInv, Owners, NEW row \in AllRows, Found(rec, row) # NoUid
  PROVE  /\ Found(rec, row) \in DOMAIN rec
         /\ TitleOf(rec[Found(rec, row)].title, row.ref)
<1> PICK u : u = Found(rec, row)
  OBVIOUS
<1>1. u \in DOMAIN rec /\ (u \in Claimants(rec, row.ref) \/ u \in Titled(rec, row.title))
  BY FolderNow, RowsTyped, FoundIs
<1>2. CASE u \in Claimants(rec, row.ref)
  <2>1. rec[u].marker.ref = row.ref /\ row.ref \in RefsOf(AllRows)
    BY <1>2 DEF Claimants, RefsOf
  <2> QED BY <1>1, <2>1, MarkedRow DEF Owners, Marks, TitleOf
<1>3. CASE u \in Titled(rec, row.title)
  BY <1>1, <1>3 DEF Titled, TitleOf
<1> QED BY <1>1, <1>2, <1>3

LEMMA KnownAtPlan ==
  ASSUME NEW v \in Versions, NEW dead, NEW row \in v.rows
  PROVE  KnownIn(v.rows, dead)[row.ref] = Found(rec, row)
<1>1. row.ref \in Ref /\ \A x \in v.rows : x.ref = row.ref => x = row
  BY VersionRows DEF IsRow
<1>2. (CHOOSE x \in v.rows : x.ref = row.ref) = row
  BY <1>1
<1> QED BY <1>1, <1>2 DEF KnownIn

\* A row to be written has no record, or one of ours or of nobody's
LEMMA WritableAtPlan ==
  ASSUME TypeInv, Owners, NEW v \in Versions, NEW row \in v.rows, row.ref \notin Moved,
         \/ row \in ToCreate(rec, ByTitle(rec), v.rows)
         \/ row \in Matching(rec, ByTitle(rec), v.rows, {"sdk", "blank"})
         \/ row \in Matching(rec, ByTitle(rec), v.rows, {"none"})
  PROVE  \/ Titled(rec, row.title) = {}
         \/ \E u \in Titled(rec, row.title) : rec[u].marker.manager # "foreign"
<1>0. row \in AllRows /\ IsRow(row)
  BY VersionRows
<1>1. CASE Found(rec, row) = NoUid
  BY <1>0, <1>1, FolderNow, FoundIs
<1>2. CASE Found(rec, row) # NoUid
  <2> PICK u : u = Found(rec, row)
    OBVIOUS
  <2>1. u \in DOMAIN rec /\ TitleOf(rec[u].title, row.ref)
    BY <1>0, <1>2, FoundTitle
  <2>2. rec[u].title = row.title
    BY <1>0, <2>1, NotMoved DEF TitleOf
  <2>3. rec[u].marker.manager \in {"sdk", "blank", "none"}
    BY <1>2 DEF ToCreate, Matching, Found
  <2> QED BY <2>1, <2>2, <2>3 DEF Titled, Live
<1> QED BY <1>1, <1>2

LEMMA PlanStep ==
  ASSUME [Next]_vars
  PROVE  \/ PlanApply \/ PlanImport
         \/ want' = NoVersion /\ known' = NotKnown /\ doomed' = {} /\ pc' = "idle"
         \/ UNCHANGED <<want, known>> /\ doomed' \subseteq doomed
BY DEF Next, vars, plan, PlanApply, PlanImport, Gateways, Bulk, Look, Tune, Mark, Skip, Advance, Rotate,
       Attach, Delete, Finish, Refuse, Fail, End, OutsideAdd, OutsideRemove, OutsideStep

LEMMA DoomedNext ==
  ASSUME TypeInv, NamesTellTypes, StrangersStayApart, TitlesKeepTheirRefs, Owners, DoomedAreUnwanted, [Next]_vars
  PROVE  DoomedAreUnwanted'
<1>1. CASE PlanApply
  <2>1. PICK v \in Versions, allow \in BOOLEAN :
          /\ ~Raises(rec, v.rows)
          /\ want' = v /\ doomed' = Removals(rec, v.rows, Ours, allow) /\ rec' = rec
    BY <1>1 DEF PlanApply, Start
  <2>2. ASSUME NEW u \in doomed'
        PROVE  /\ Own(u) /\ rec[u].marker.ref \notin RefsOf(v.rows)
               /\ \A row \in v.rows : row.title # rec[u].title
    BY <2>1, RemovalsAreUnwanted
  <2> QED BY <2>1, <2>2 DEF DoomedAreUnwanted, Own, Wanted
<1>2. CASE doomed' = {}
  BY <1>2 DEF DoomedAreUnwanted
<1>3. CASE want' = want /\ doomed' \subseteq doomed
  <2> SUFFICES ASSUME NEW u \in doomed', u \in DOMAIN rec'
               PROVE  /\ Own(u)' /\ rec'[u].marker.ref \notin RefsOf(Wanted)
                      /\ \A row \in Wanted : row.title # rec'[u].title
    BY <1>3 DEF DoomedAreUnwanted, Wanted
  <2>1. u \in doomed /\ u \in used
    BY <1>3 DEF TypeInv, TypeOK
  <2>2. CASE Stays(u)
    BY <2>1, <2>2 DEF Stays, DoomedAreUnwanted, Own
  <2>3. CASE IsMarked(u)
    <3>1. pc = "tuned" /\ u = cur.uid /\ u \in DOMAIN rec
      BY <2>3 DEF IsMarked, Mark
    <3>2. \E row \in Wanted : row.title = rec[u].title
      BY <3>1, CurRow DEF Owners
    <3> QED BY <2>1, <3>1, <3>2 DEF DoomedAreUnwanted
  <2> QED BY <2>1, <2>2, <2>3, RecStep DEF IsAdded, IsStrange
<1>4. CASE PlanImport
  <2>1. doomed' = {}
    BY <1>4 DEF PlanImport, Start
  <2> QED BY <1>2, <2>1
<1> QED BY <1>1, <1>2, <1>3, <1>4, PlanStep

LEMMA KnownNext ==
  ASSUME TypeInv, Owners, KnownRight, [Next]_vars
  PROVE  KnownRight'
<1>1. CASE PlanApply \/ PlanImport
  <2>1. PICK v, dead : v \in Versions /\ want' = v /\ known' = KnownIn(v.rows, dead)
    BY <1>1, Zenon DEF PlanApply, PlanImport, Start
  <2>2. rec' = rec /\ used' = used /\ DOMAIN seen' = {}
    BY <1>1 DEF PlanApply, PlanImport, Start, TypeInv, TypeOK, Empty
  <2> SUFFICES ASSUME NEW row \in v.rows, known'[row.ref] # NoUid
               PROVE  known'[row.ref] \in DOMAIN rec /\ TitleOf(rec[known'[row.ref]].title, row.ref)
    BY <2>1, <2>2 DEF KnownRight, Wanted, TypeInv, TypeOK
  <2>3. known'[row.ref] = Found(rec, row)
    BY <2>1, KnownAtPlan
  <2> QED BY <2>1, <2>3, VersionRows, FoundTitle
<1>2. CASE want' = NoVersion
  BY <1>2 DEF KnownRight, Wanted, NoVersion
<1>3. CASE UNCHANGED <<want, known>>
  <2> SUFFICES ASSUME NEW row \in Wanted, NEW k, k = known[row.ref], k # NoUid
               PROVE  /\ k \in used'
                      /\ k \in DOMAIN rec' => TitleOf(rec'[k].title, row.ref)
                      /\ k \in DOMAIN seen' => TitleOf(seen'[k].title, row.ref)
    BY <1>3 DEF KnownRight, Wanted
  <2>1. /\ k \in used /\ (k \in DOMAIN rec => TitleOf(rec[k].title, row.ref))
        /\ (k \in DOMAIN seen => TitleOf(seen[k].title, row.ref))
    BY DEF KnownRight
  <2>2. used \subseteq used'
    BY DEF Next, vars, PlanApply, PlanImport, Start, Gateways, Bulk, Look, Tune, Mark, Skip, Advance, Rotate,
           Attach, Delete, Finish, Refuse, Fail, End, OutsideAdd, OutsideRemove, OutsideStep
  <2>3. k \in DOMAIN rec' => k \in DOMAIN rec /\ rec'[k].title = rec[k].title
    BY <2>1, RecStep DEF Stays, IsMarked, IsAdded, IsStrange
  <2>4. k \in DOMAIN seen' => TitleOf(seen'[k].title, row.ref)
    <3>1. CASE Look
      BY <2>1, <3>1 DEF Look
    <3>2. CASE seen' = Empty
      BY <3>2 DEF Empty
    <3>3. CASE seen' = seen
      BY <2>1, <3>3
    <3> QED BY <3>1, <3>2, <3>3, SeenStep
  <2> QED BY <2>1, <2>2, <2>3, <2>4
<1> QED BY <1>1, <1>2, <1>3, PlanStep

LEMMA RecordsLast ==
  ASSUME TypeInv, [Next]_vars, ~Delete, ~OutsideRemove
  PROVE  DOMAIN rec \subseteq DOMAIN rec'
<1>1. CASE Bulk
  <2>1. PICK adds \in SUBSET Wanted, U \in SUBSET (Uid \ used) : \E at \in [U -> adds] : Adds(adds, U, at)
    BY <1>1, BulkIs
  <2> QED BY <2>1 DEF Adds
<1>2. CASE Tune \/ Mark \/ Rotate \/ Attach
  <2>1. CASE Tune
    <3>1. rec' = rec \/ \E row, u : rec' = [rec EXCEPT ![u].settings = With(@, row.settings)]
      BY <2>1, Zenon DEF Tune
    <3> QED BY <3>1
  <2>2. CASE Mark
    BY <2>2 DEF Mark
  <2>3. CASE Rotate
    BY <2>3 DEF Rotate
  <2>4. CASE Attach
    BY <2>4 DEF Attach
  <2> QED BY <1>2, <2>1, <2>2, <2>3, <2>4
<1>3. CASE OutsideAdd
  BY <1>3 DEF OutsideAdd
<1>4. CASE UNCHANGED rec
  BY <1>4
<1> QED
  BY <1>1, <1>2, <1>3, <1>4 DEF Next, vars, PlanApply, PlanImport, Start, Gateways, Look, Skip, Advance,
     Finish, Refuse, Fail, End

LEMMA CalmStep ==
  ASSUME TypeInv, [Next]_vars, calm', ~PlanApply, ~PlanImport
  PROVE  /\ calm /\ ~OutsideAdd /\ ~OutsideRemove
         /\ pc' \in Early => pc \in Early /\ todo' \subseteq todo /\ UNCHANGED want /\ ~Delete
<1>1. calm /\ ~OutsideAdd /\ ~OutsideRemove
  BY DEF Next, vars, Gateways, Bulk, Look, Tune, Mark, Skip, Advance, Rotate,
         Attach, Delete, Finish, Refuse, Fail, End, OutsideAdd, OutsideRemove, OutsideStep
<1>2. pc' \in Early => pc \in Early /\ todo' \subseteq todo /\ UNCHANGED want /\ ~Delete
  BY <1>1 DEF Early, Next, vars, plan, Gateways, Bulk, Look, Tune, Mark, Skip, Advance, Rotate,
         Attach, Delete, Finish, Refuse, Fail, End
<1> QED BY <1>1, <1>2

LEMMA NotTakenNext ==
  ASSUME TypeInv, NamesTellTypes, StrangersStayApart, Owners, NotTaken, [Next]_vars
  PROVE  NotTaken'
<1>1. CASE PlanApply \/ PlanImport
  <2>1. PICK v \in Versions :
          /\ pc' = "gateway" /\ want' = v /\ rec' = rec
          /\ \A row \in todo' : /\ row \in v.rows
                                /\ \/ row \in ToCreate(rec, ByTitle(rec), v.rows)
                                   \/ row \in Matching(rec, ByTitle(rec), v.rows, {"sdk", "blank"})
                                   \/ row \in Matching(rec, ByTitle(rec), v.rows, {"none"})
    <3>1. CASE PlanApply
      BY <3>1 DEF PlanApply, Start, Additions, Drifted, ToCreate, Matching
    <3>2. CASE PlanImport
      BY <3>2 DEF PlanImport, Start, Adoptions, ToAdopt, Matching
    <3> QED BY <1>1, <3>1, <3>2
  <2>2. ASSUME NEW row \in todo', row.ref \notin Moved
        PROVE  \/ Titled(rec, row.title) = {}
               \/ \E u \in Titled(rec, row.title) : rec[u].marker.manager # "foreign"
    BY <2>1, <2>2, WritableAtPlan
  <2> QED BY <2>1, <2>2 DEF NotTaken
<1>2. CASE ~PlanApply /\ ~PlanImport
  <2> SUFFICES ASSUME calm'
               PROVE  /\ pc' \in {"mark", "tuned"} => DOMAIN seen' = DOMAIN rec'
                      /\ pc' \in Early =>
                           \A row \in todo' : row.ref \notin Moved =>
                              \/ Titled(rec', row.title) = {}
                              \/ \E u \in Titled(rec', row.title) : rec'[u].marker.manager # "foreign"
    BY DEF NotTaken
  <2>1. calm /\ ~OutsideAdd /\ ~OutsideRemove
    BY <1>2, CalmStep
  <2>2. pc' \in {"mark", "tuned"} => DOMAIN seen' = DOMAIN rec'
    <3> SUFFICES ASSUME pc' \in {"mark", "tuned"} PROVE DOMAIN seen' = DOMAIN rec'
      OBVIOUS
    <3>1. CASE Look
      BY <3>1 DEF Look
    <3>2. CASE pc \in {"mark", "tuned"} /\ seen' = seen
      <4>1. DOMAIN rec' \subseteq DOMAIN rec
        BY <2>1, <3>2, RecStep DEF Stays, IsMarked, IsAdded, IsStrange, Bulk
      <4>2. DOMAIN rec \subseteq DOMAIN rec'
        BY <2>1, <3>2, RecordsLast DEF Delete
      <4> QED BY <2>1, <3>2, <4>1, <4>2 DEF NotTaken
    <3> QED BY <3>1, <3>2, MarkingStep
  <2>3. ASSUME pc' \in Early, NEW row \in todo', row.ref \notin Moved
        PROVE  \/ Titled(rec', row.title) = {}
               \/ \E u \in Titled(rec', row.title) : rec'[u].marker.manager # "foreign"
    <3>1. pc \in Early /\ row \in todo /\ ~Delete
      BY <1>2, <2>3, CalmStep
    <3>2. CASE Titled(rec, row.title) = {}
      <4> SUFFICES ASSUME NEW u \in Titled(rec', row.title) PROVE rec'[u].marker.manager # "foreign"
        OBVIOUS
      <4>1. u \in DOMAIN rec' /\ ~Stays(u) /\ ~IsMarked(u)
        BY <3>2 DEF Titled, Live, Stays, IsMarked
      <4>2. IsAdded(u)
        BY <2>1, <4>1, RecStep DEF IsStrange
      <4>3. rec'[u].marker = Unmarked
        BY <4>2, WantedRows, ImportedIs DEF TypeInv, IsAdded
      <4> QED BY <4>3 DEF Unmarked
    <3>3. CASE \E u \in Titled(rec, row.title) : rec[u].marker.manager # "foreign"
      <4> PICK u \in Titled(rec, row.title) : rec[u].marker.manager # "foreign"
        BY <3>3
      <4>1. u \in DOMAIN rec /\ rec[u].title = row.title /\ u \in used
        BY DEF Titled, Live, TypeInv, TypeOK
      <4>2. u \in DOMAIN rec'
        BY <2>1, <3>1, <4>1, RecordsLast
      <4>3. Stays(u) \/ IsMarked(u)
        BY <4>1, <4>2, RecStep DEF IsAdded, IsStrange
      <4>4. rec'[u].title = row.title /\ rec'[u].marker.manager # "foreign"
        BY <4>1, <4>3 DEF Stays, IsMarked, EncodeMarker
      <4> QED BY <4>2, <4>4 DEF Titled, Live
    <3> QED BY <2>1, <3>1, <3>2, <3>3, <2>3 DEF NotTaken
  <2> QED BY <2>2, <2>3
<1> QED BY <1>1, <1>2

LEMMA FreshStep ==
  ASSUME TypeInv, [Next]_vars
  PROVE  \/ fresh' = {}
         \/ Mark
         \/ fresh' = fresh /\ UNCHANGED <<want, seen>>
         \/ fresh' = fresh /\ pc \notin Late
BY DEF Late, Next, vars, plan, PlanApply, PlanImport, Start, Gateways, Bulk, Look, Tune, Mark, Skip, Advance, Rotate,
       Attach, Delete, Finish, Refuse, Fail, End, OutsideAdd, OutsideRemove, OutsideStep

LEMMA EarlyOn ==
  ASSUME TypeInv, [Next]_vars, pc' \notin Late
  PROVE  fresh' = {} \/ (fresh' = fresh /\ pc \notin Late)
BY DEF Late, Next, vars, plan, PlanApply, PlanImport, Start, Gateways, Bulk, Look, Tune, Mark, Skip, Advance, Rotate,
       Attach, Delete, Finish, Refuse, Fail, End, OutsideAdd, OutsideRemove, OutsideStep

LEMMA FreshNext ==
  ASSUME TypeInv, NamesTellTypes, TitlesKeepTheirRefs, Owners, FreshAreAlone, [Next]_vars
  PROVE  FreshAreAlone'
<1>1. pc' \notin Late => fresh' = {}
  BY EarlyOn DEF FreshAreAlone
<1> SUFFICES ASSUME NEW u \in fresh'
             PROVE  /\ u \in DOMAIN seen'
                    /\ \A w \in DOMAIN seen' : seen'[w].title = seen'[u].title => w = u
                    /\ \E row \in want'.rows :
                         /\ row.title = seen'[u].title
                         /\ u \in DOMAIN rec' => rec'[u].marker = EncodeMarker(row.ref, Ours)
  BY <1>1 DEF FreshAreAlone, Wanted
<1>2. CASE Mark
  <2>1. pc = "tuned" /\ cur.uid \in DOMAIN rec /\ fresh' = fresh \union {cur.uid} /\ UNCHANGED <<seen, want>>
    BY <1>2 DEF Mark, plan
  <2>2. PICK row \in todo :
           /\ row \in Wanted /\ row \in AllRows /\ row.ref = cur.ref
           /\ cur.uid \in DOMAIN seen /\ seen[cur.uid].title = row.title
           /\ \A w \in DOMAIN seen : seen[w].title = row.title => w = cur.uid
    BY <2>1, CurRow DEF Owners
  <2>3. CASE u = cur.uid
    <3>1. u \in DOMAIN rec' => rec'[u].marker = EncodeMarker(row.ref, Ours)
      <4>1. u \in used
        BY <2>1, <2>3 DEF TypeInv, TypeOK
      <4>2. u \in DOMAIN rec /\ rec' = [rec EXCEPT ![u].marker = EncodeMarker(row.ref, Ours)]
        BY <1>2, <2>1, <2>2, <2>3 DEF Mark
      <4>3. EncodeMarker(row.ref, Ours) \in Markers
        BY <2>2, RowsTyped, PamApplyAssumption DEF EncodeMarker, Markers, Managers, IsRow
      <4>4. rec'[u] = TakesMarker(rec[u], EncodeMarker(row.ref, Ours))
        BY <4>2, <4>3, FieldSet, TypeChange
      <4> QED BY <4>4 DEF TakesMarker
    <3> QED BY <2>1, <2>2, <2>3, <3>1 DEF Wanted
  <2>4. CASE u # cur.uid
    <3>1. u \in fresh
      BY <2>1, <2>4
    <3>2. u \in DOMAIN rec' => u \in DOMAIN rec /\ rec'[u].marker = rec[u].marker
      <4>1. ~IsMarked(u) /\ ~IsAdded(u) /\ ~IsStrange(u)
        BY <1>2, <2>4 DEF IsMarked, IsAdded, IsStrange, Mark, Bulk, OutsideAdd, OutsideStep
      <4> QED BY <4>1, RecStep DEF Stays
    <3> QED BY <2>1, <3>1, <3>2 DEF FreshAreAlone, Wanted
  <2> QED BY <2>3, <2>4
<1>3. CASE ~Mark /\ fresh' = fresh /\ UNCHANGED <<want, seen>>
  <2>1. u \in fresh /\ u \in used
    BY <1>3 DEF FreshAreAlone, TypeInv, TypeOK
  <2>2. u \in DOMAIN rec' => u \in DOMAIN rec /\ rec'[u].marker = rec[u].marker
    BY <1>3, <2>1, RecStep DEF Stays, IsMarked, IsAdded, IsStrange
  <2> QED BY <1>3, <2>1, <2>2 DEF FreshAreAlone, Wanted
<1> QED BY <1>2, <1>3, FreshStep DEF FreshAreAlone

\* The one record of a title is what the row of that title resolves to
LEMMA ResolvesToIts ==
  ASSUME TypeInv, NamesTellTypes, Owners, KnownRight,
         NEW row \in Wanted, row.ref \notin Moved,
         NEW u \in DOMAIN seen, seen[u].title = row.title,
         \A w \in DOMAIN seen : seen[w].title = row.title => w = u,
         NEW x \in DOMAIN seen, x \in Resolve(seen, known, row)
  PROVE  x = u
<1>0. row \in AllRows /\ row.title \in Title /\ row.ref \in RefsOf(AllRows)
  BY WantedRows, RowsTyped DEF TypeInv, IsRow, RefsOf
<1>1. ASSUME TitleOf(seen[x].title, row.ref) PROVE x = u
  BY <1>0, <1>1, NotMoved DEF TitleOf
<1>2. CASE x \in ByMarker(seen, row.ref)
  <2>1. TitleOf(seen[x].title, row.ref)
    BY <1>0, <1>2 DEF ByMarker, Owners, SeenRight, TitleOf
  <2> QED BY <1>1, <2>1
<1>3. CASE known[row.ref] # NoUid /\ x = known[row.ref]
  BY <1>1, <1>3 DEF KnownRight
<1>4. CASE x \in ByIdentity(seen, row.title)
  BY <1>0, <1>4, IdentityIs DEF Owners
<1> QED BY <1>2, <1>3, <1>4 DEF Resolve

LEMMA RotateIs ==
  ASSUME TypeInv, NamesTellTypes, RotatingRowsStay, Owners, KnownRight, FreshAreAlone, RotationsToCome, Rotate
  PROVE  \E row \in todo, x \in DOMAIN rec :
           /\ todo' = todo \ {row} /\ row \in Wanted /\ row.rotation # Off
           /\ DOMAIN rec' = DOMAIN rec /\ rec'[x].rotation = row.rotation
           /\ \A u \in DOMAIN rec : u # x => rec'[u] = rec[u]
           /\ x \in DOMAIN seen /\ Resolve(seen, known, row) = {x}
           /\ \A u \in fresh \intersect DOMAIN rec : rec[u].marker.ref = row.ref => u = x
<1>1. PICK row \in todo : /\ \E x \in Resolve(seen, known, row) \intersect DOMAIN rec :
                               rec' = [rec EXCEPT ![x].rotation = row.rotation]
                          /\ todo' = todo \ {row}
  BY DEF Rotate
<1>2. PICK x \in Resolve(seen, known, row) \intersect DOMAIN rec :
        rec' = [rec EXCEPT ![x].rotation = row.rotation]
  BY <1>1
<1>3. pc = "rotate" /\ Rotatable
  BY DEF Rotate
<1>4. row \in Wanted /\ row.rotation # Off /\ row \in Rotating
  BY <1>3 DEF RotationsToCome, Rotating
<1>5. Changes1(x, TakesRotation(rec[x], row.rotation))
  BY <1>2, FieldSet
<1>6. /\ DOMAIN rec' = DOMAIN rec /\ rec'[x].rotation = row.rotation
      /\ \A u \in DOMAIN rec : u # x => rec'[u] = rec[u]
  BY <1>5, TypeChange DEF TakesRotation
<1>7. x \in DOMAIN seen /\ Resolve(seen, known, row) = {x}
  <2>1. row \in RotationTargets(row)
    BY <1>4 DEF RotationTargets
  <2>2. Resolves(seen, known, row)
    BY <1>3, <1>4, <2>1 DEF Rotatable
  <2> QED BY <2>2 DEF Resolves
<1>8. ASSUME NEW u \in fresh \intersect DOMAIN rec, rec[u].marker.ref = row.ref PROVE u = x
  <2>1. /\ u \in DOMAIN seen
        /\ \A w \in DOMAIN seen : seen[w].title = seen[u].title => w = u
    BY DEF FreshAreAlone
  <2>2. PICK other \in Wanted : other.title = seen[u].title /\ rec[u].marker = EncodeMarker(other.ref, Ours)
    BY DEF FreshAreAlone
  <2>3. other.ref = row.ref
    BY <1>8, <2>2 DEF EncodeMarker
  <2>4. other = row
    BY <1>4, <2>3, WantedRows DEF TypeInv
  <2>5. row.ref \notin Moved
    BY <1>4, WantedRows DEF TypeInv, RotatingRowsStay
  <2> QED BY <1>4, <1>7, <2>1, <2>2, <2>4, <2>5, ResolvesToIts
<1> QED BY <1>1, <1>4, <1>6, <1>7, <1>8

LEMMA FreshRow ==
  ASSUME TypeInv, FreshAreAlone, NEW u \in fresh \intersect DOMAIN rec
  PROVE  /\ RowOf(rec[u].marker.ref) \in Wanted
         /\ RowOf(rec[u].marker.ref).ref = rec[u].marker.ref
         /\ RowOf(rec[u].marker.ref).title = seen[u].title
<1>1. PICK row \in Wanted : row.title = seen[u].title /\ rec[u].marker = EncodeMarker(row.ref, Ours)
  BY DEF FreshAreAlone
<1>2. rec[u].marker.ref = row.ref
  BY <1>1 DEF EncodeMarker
<1>3. \A x \in Wanted : x.ref = row.ref => x = row
  BY WantedRows DEF TypeInv
<1> QED BY <1>1, <1>2, <1>3 DEF RowOf

LEMMA EndStep ==
  ASSUME [Next]_vars
  PROVE  End \/ Mark \/ (UNCHANGED <<fresh, cut>>)
BY DEF Next, vars, PlanApply, PlanImport, Start, Gateways, Bulk, Look, Tune, Mark, Skip, Advance, Rotate,
       Attach, Delete, Finish, Refuse, Fail, OutsideAdd, OutsideRemove, OutsideStep

LEMMA CutNext ==
  ASSUME TypeInv, NamesTellTypes, RotatingRowsStay, StrangersStayApart, Owners, KnownRight, FreshAreAlone,
         CutOrFresh, RotationsToCome, [Next]_vars
  PROVE  CutOrFresh'
<1> SUFFICES ASSUME NEW u \in DOMAIN rec', Own(u)', rec'[u].rotation = Off PROVE u \in cut' \union fresh'
  BY DEF CutOrFresh
<1>1. CASE Stays(u)
  <2>1. rec[u].rotation = Off
    <3>1. CASE Rotate
      BY <1>1, <3>1, RotateIs DEF Stays
    <3> QED BY <1>1, <3>1 DEF Stays
  <2>2. u \in cut \union fresh /\ u \in DOMAIN rec
    BY <1>1, <2>1 DEF Stays, Own, CutOrFresh
  <2>3. CASE End
    <3>1. ASSUME u \in fresh PROVE u \in Pending \/ u \in cut
      <4>1. CASE pc \in {"mark", "tuned", "rotate"}
        BY <2>2, <3>1, <4>1 DEF Pending
      <4>2. CASE pc \in {"attach", "delete"}
        <5>1. RowOf(rec[u].marker.ref).rotation = Off
          BY <2>1, <2>2, <3>1, <4>2, FreshRow DEF RotationsToCome
        <5> QED BY <2>2, <3>1, <5>1 DEF Pending
      <4>3. pc \in {"mark", "tuned", "rotate", "attach", "delete"}
        BY <3>1 DEF FreshAreAlone, Late
      <4> QED BY <4>1, <4>2, <4>3
    <3> QED BY <2>2, <2>3, <3>1 DEF End
  <2>4. CASE Mark
    BY <2>2, <2>4 DEF Mark
  <2> QED BY <2>2, <2>3, <2>4, EndStep
<1>2. CASE IsMarked(u)
  BY <1>2 DEF IsMarked, Mark
<1>3. CASE IsAdded(u)
  <2>1. rec'[u].marker = Unmarked
    BY <1>3, WantedRows, ImportedIs DEF TypeInv, IsAdded
  <2> QED BY <2>1 DEF Own, Unmarked
<1>4. CASE IsStrange(u)
  BY <1>4 DEF IsStrange, StrangersStayApart, Own
<1> QED BY <1>1, <1>2, <1>3, <1>4, RecStep

LEMMA RotatingStep ==
  ASSUME TypeInv, [Next]_vars, pc' \in {"rotate", "attach", "delete"}
  PROVE  \/ pc = "gateway" /\ pc' = "delete" /\ UNCHANGED fresh
         \/ Advance
         \/ Rotate
         \/ /\ ~Rotate /\ ~Mark /\ ~Bulk /\ pc \in {"rotate", "attach", "delete"}
            /\ UNCHANGED <<pc, want, fresh>> /\ (pc = "rotate" => UNCHANGED todo)
BY DEF Next, vars, plan, PlanApply, PlanImport, Start, Gateways, Bulk, Look, Tune, Mark, Skip, Advance, Rotate,
       Attach, Delete, Finish, Refuse, Fail, End, OutsideAdd, OutsideRemove, OutsideStep

LEMMA RotationsNext ==
  ASSUME TypeInv, NamesTellTypes, RotatingRowsStay, StrangersStayApart, Owners, KnownRight, FreshAreAlone,
         RotationsToCome, [Next]_vars
  PROVE  RotationsToCome'
<1> SUFFICES ASSUME pc' \in {"rotate", "attach", "delete"}
             PROVE  /\ pc' = "rotate" => todo' \subseteq {row \in want'.rows : row.rotation # Off}
                    /\ \A u \in fresh' \intersect DOMAIN rec', row \in want'.rows :
                         rec'[u].rotation = Off /\ row.ref = rec'[u].marker.ref =>
                            row.rotation = Off \/ (pc' = "rotate" /\ row \in todo')
  BY DEF RotationsToCome, Rotating, Wanted
<1>1. CASE pc = "gateway" /\ pc' = "delete" /\ UNCHANGED fresh
  BY <1>1 DEF FreshAreAlone, Late
<1>2. CASE Advance
  <2>1. UNCHANGED <<rec, want, fresh>> /\ todo = {} /\ todo' \subseteq Wanted
    BY <1>2 DEF Advance, plan, Rotating, Scripted
  <2>2. CASE pc = "mark"
    BY <1>2, <2>1, <2>2 DEF Advance, Rotating, Wanted
  <2>3. CASE pc # "mark"
    <3>1. pc \in {"rotate", "attach"} /\ pc' # "rotate"
      BY <1>2, <2>3 DEF Advance
    <3> QED BY <2>1, <3>1 DEF RotationsToCome, Wanted
  <2> QED BY <2>2, <2>3
<1>3. CASE Rotate
  <2>1. PICK row \in todo, x \in DOMAIN rec :
           /\ todo' = todo \ {row} /\ row.rotation # Off
           /\ DOMAIN rec' = DOMAIN rec /\ rec'[x].rotation = row.rotation
           /\ \A u \in DOMAIN rec : u # x => rec'[u] = rec[u]
           /\ \A u \in fresh \intersect DOMAIN rec : rec[u].marker.ref = row.ref => u = x
    BY <1>3, RotateIs
  <2>2. pc = "rotate" /\ UNCHANGED <<pc, want, fresh>>
    BY <1>3 DEF Rotate, plan
  <2>3. ASSUME NEW u \in fresh \intersect DOMAIN rec, NEW other \in Wanted,
               rec'[u].rotation = Off, other.ref = rec'[u].marker.ref
        PROVE  other.rotation = Off \/ other \in todo \ {row}
    <3>1. u # x /\ rec'[u] = rec[u]
      BY <2>1, <2>3
    <3>2. other.rotation = Off \/ other \in todo
      BY <2>2, <2>3, <3>1 DEF RotationsToCome
    <3>3. other # row
      BY <2>1, <2>3, <3>1
    <3> QED BY <3>2, <3>3
  <2> QED BY <2>1, <2>2, <2>3 DEF RotationsToCome, Rotating, Wanted
<1>4. CASE /\ ~Rotate /\ ~Mark /\ ~Bulk /\ pc \in {"rotate", "attach", "delete"}
           /\ UNCHANGED <<pc, want, fresh>> /\ (pc = "rotate" => UNCHANGED todo)
  <2>1. ASSUME NEW u \in fresh \intersect DOMAIN rec'
        PROVE  u \in DOMAIN rec /\ rec'[u].rotation = rec[u].rotation /\ rec'[u].marker = rec[u].marker
    <3>1. u \in used
      BY DEF FreshAreAlone, TypeInv, TypeOK
    <3> QED BY <1>4, <3>1, RecStep DEF Stays, IsMarked, IsAdded, IsStrange
  <2> QED BY <1>4, <2>1 DEF RotationsToCome, Rotating, Wanted
<1> QED BY <1>1, <1>2, <1>3, <1>4, RotatingStep

LEMMA PlansInit == Init => Plans /\ Settled
<1> SUFFICES ASSUME Init PROVE Plans /\ Settled
  OBVIOUS
<1>1. DOMAIN rec = {} /\ doomed = {} /\ fresh = {} /\ pc = "idle" /\ Wanted = {}
  BY DEF Init, Empty, Wanted, NoVersion
<1> QED BY <1>1 DEF Plans, Settled, DoomedAreUnwanted, KnownRight, NotTaken, FreshAreAlone, CutOrFresh,
           RotationsToCome, Early

LEMMA PlansAlways ==
  ASSUME NamesTellTypes, StrangersStayApart, TitlesKeepTheirRefs
  PROVE  Spec => []Plans
<1>1. TypeInv /\ Owners /\ Plans /\ [Next]_vars => Plans'
  BY DoomedNext, KnownNext, NotTakenNext, FreshNext DEF Plans
<1>2. Init => Plans
  BY PlansInit
<1> QED BY <1>1, <1>2, TypeAlways, OwnersAlways, PTL DEF Spec

LEMMA SettledAlways ==
  ASSUME NamesTellTypes, StrangersStayApart, TitlesKeepTheirRefs, RotatingRowsStay
  PROVE  Spec => []Settled
<1>1. TypeInv /\ Owners /\ Plans /\ Settled /\ [Next]_vars => Settled'
  BY CutNext, RotationsNext DEF Plans, Settled
<1>2. Init => Settled
  BY PlansInit
<1> QED BY <1>1, <1>2, TypeAlways, OwnersAlways, PlansAlways, PTL DEF Spec

\* Deletes run last, on uids from the plan: none of them is by then the record of a
\* row, since no row that is marked in between has a doomed record's title.
THEOREM DoomedStayUnwanted ==
  ASSUME NamesTellTypes, StrangersStayApart, TitlesKeepTheirRefs
  PROVE  Spec => DeletesOnlyUnwanted
<1>1. TypeInv /\ Owners /\ Plans =>
        [Delete /\ calm =>
           \A u \in DOMAIN rec \ DOMAIN rec' :
              /\ Own(u) \/ rec[u].marker.manifest = NoName
              /\ rec[u].marker.ref \notin RefsOf(Wanted) \ Moved]_vars
  BY DEF Delete, Plans, DoomedAreUnwanted
<1> QED BY <1>1, TypeAlways, OwnersAlways, PlansAlways, PTL DEF DeletesOnlyUnwanted

\* The marker is looked at in the plan only, and written records are found by title
\* after the import: all the same nobody else's marker is replaced, nor another row's.
THEOREM MarksStayOwn ==
  ASSUME NamesTellTypes, StrangersStayApart, TitlesKeepTheirRefs
  PROVE  Spec => MarksOnlyItsOwn
<1>1. ASSUME TypeInv, Owners, Plans, Mark, calm, cur.ref \notin Moved
      PROVE  \/ rec[cur.uid].marker.manager \in {"none", "blank"}
             \/ rec[cur.uid].marker.manager = "sdk" /\ rec[cur.uid].marker.ref = cur.ref
  <2>1. pc = "tuned" /\ cur.uid \in DOMAIN rec
    BY <1>1 DEF Mark
  <2>2. PICK row \in todo :
           /\ row \in AllRows /\ row.ref = cur.ref /\ rec[cur.uid].title = row.title
           /\ \A w \in DOMAIN seen : seen[w].title = row.title => w = cur.uid
    BY <1>1, <2>1, CurRow DEF Owners
  <2>3. \A u \in Titled(rec, row.title) : u = cur.uid
    BY <1>1, <2>1, <2>2 DEF Plans, NotTaken, Titled, Live, Owners, SeenRight
  <2>4. cur.uid \in Titled(rec, row.title)
    BY <2>1, <2>2 DEF Titled, Live
  <2>5. rec[cur.uid].marker.manager # "foreign"
    BY <1>1, <2>1, <2>2, <2>3, <2>4 DEF Plans, NotTaken, Early
  <2>6. MarkedRight(rec[cur.uid])
    BY <1>1, <2>1 DEF Owners, Marks
  <2>7. rec[cur.uid].marker.manager # "none" =>
          /\ rec[cur.uid].marker.manager = "sdk"
          /\ \E y \in AllRows : y.ref = rec[cur.uid].marker.ref /\ y.title = row.title
    BY <2>2, <2>5, <2>6, MarkedRow
  <2> QED BY <2>2, <2>7 DEF TitlesKeepTheirRefs
<1>2. TypeInv /\ Owners /\ Plans =>
        [Mark /\ calm /\ cur.ref \notin Moved =>
           LET k == rec[cur.uid].marker IN
           k.manager \in {"none", "blank"} \/ (k.manager = "sdk" /\ k.ref = cur.ref)]_vars
  BY <1>1
<1> QED BY <1>2, TypeAlways, OwnersAlways, PlansAlways, PTL DEF MarksOnlyItsOwn

\* A clean plan means that nothing is left to do, also for rotation, where the marker
\* is trusted: except for records that a process marked and then had no rotation for
\* or did not get to it.
THEOREM CleanIsDone ==
  ASSUME NamesTellTypes, StrangersStayApart, TitlesKeepTheirRefs, RotatingRowsStay
  PROVE  Spec => []CleanMeansDone
<1>1. ASSUME TypeInv, Owners, Plans, Settled, pc = "idle",
             NEW v \in Versions, Clean(rec, v.rows, Ours, FALSE), NEW row \in v.rows
      PROVE  Found(rec, row) \in cut \/ Done(row)
  <2> PICK u : u = Found(rec, row)
    OBVIOUS
  <2>0. row \in AllRows
    BY VersionRows
  <2>1. u # NoUid /\ u = Match(rec, ByTitle(rec), row)
    BY <1>1 DEF Clean, Additions, ToCreate, Found
  <2>2. u \in DOMAIN rec /\ TitleOf(rec[u].title, row.ref)
    BY <1>1, <2>0, <2>1, FoundTitle
  <2>3. row \notin Matching(rec, ByTitle(rec), v.rows, {"foreign"})
        /\ row \notin Matching(rec, ByTitle(rec), v.rows, {"none"})
    BY <1>1 DEF Clean, Conflicts, HasConflict, Refused, ToAdopt
  <2>4. rec[u].marker.manager \notin {"none", "foreign"}
    BY <2>1, <2>3 DEF Matching
  <2>5. /\ rec[u].marker.manager = "sdk" /\ rec[u].marker.manifest = Ours
        /\ \E y \in AllRows : y.ref = rec[u].marker.ref /\ y.title = rec[u].title
    BY <1>1, <2>2, <2>4, MarkedRow DEF Owners, Marks
  <2>6. row \in Matching(rec, ByTitle(rec), v.rows, {"sdk", "blank"})
    BY <2>1, <2>5 DEF Matching
  <2>7. ~FieldsDiffer(rec[u], row)
    BY <1>1, <2>6 DEF Clean, Drifted
  <2>8. rec[u].marker.ref = row.ref
    BY <2>0, <2>5, <2>7 DEF TitlesKeepTheirRefs, FieldsDiffer
  <2>9. CASE rec[u].rotation = Off
    <3>1. u \in cut
      BY <1>1, <2>2, <2>5, <2>9 DEF Settled, CutOrFresh, Own, Plans, FreshAreAlone, Late
    <3> QED BY <3>1
  <2>10. CASE rec[u].rotation # Off
    <3>1. row.rotation # Off => rec[u].rotation = row.rotation
      BY <2>7, <2>10 DEF FieldsDiffer, RotationMatches, TrustMissingRotation
    <3>2. Done(row)
      BY <2>2, <2>5, <2>7, <2>8, <3>1 DEF Done, Own, FieldsDiffer, SettingsMatch
    <3> QED BY <3>2
  <2> QED BY <2>9, <2>10
<1>2. TypeInv /\ Owners /\ Plans /\ Settled => CleanMeansDone
  BY <1>1 DEF CleanMeansDone
<1> QED BY <1>2, TypeAlways, OwnersAlways, PlansAlways, SettledAlways, PTL

------------------------------------------------------------------------------
(* What an interrupted apply leaves *)

\* Nobody else's records, and one of a title
Undisturbed ==
  outside = 0 =>
    /\ \A u \in DOMAIN rec : rec[u].marker = Unmarked \/ rec[u].marker.manager = "sdk"
    /\ ~twice => \A u, v \in DOMAIN rec : rec[u].title = rec[v].title => u = v

LEMMA UndisturbedNext ==
  ASSUME TypeInv, NamesTellTypes, TitlesKeepTheirRefs, Owners, Undisturbed, [Next]_vars
  PROVE  Undisturbed'
<1> SUFFICES ASSUME outside' = 0
             PROVE  /\ \A u \in DOMAIN rec' : rec'[u].marker = Unmarked \/ rec'[u].marker.manager = "sdk"
                    /\ ~twice' => \A u, v \in DOMAIN rec' : rec'[u].title = rec'[v].title => u = v
  BY DEF Undisturbed
<1>1. outside = 0 /\ ~OutsideAdd /\ (twice => twice')
  <2>1. outside \in Nat
    BY DEF TypeInv
  <2>2. ~OutsideAdd /\ ~OutsideRemove
    BY <2>1 DEF OutsideAdd, OutsideRemove, OutsideStep
  <2>3. CASE Bulk
    <3>1. twice' = twice \/ twice' = TRUE
      BY <2>3, BulkIs DEF Adds
    <3>2. outside' = outside
      BY <2>3 DEF Bulk
    <3> QED BY <2>2, <3>1, <3>2
  <2>4. CASE ~Bulk
    <3>1. UNCHANGED <<twice, outside>>
      BY <2>2, <2>4 DEF Next, vars, bounds, PlanApply, PlanImport, Start, Gateways, Look, Tune, Mark,
         Skip, Advance, Rotate, Attach, Delete, Finish, Refuse, Fail, End
    <3> QED BY <2>2, <3>1
  <2> QED BY <2>3, <2>4
<1>2. ASSUME NEW u \in DOMAIN rec' PROVE rec'[u].marker = Unmarked \/ rec'[u].marker.manager = "sdk"
  <2>1. CASE IsAdded(u)
    BY <2>1, WantedRows, ImportedIs DEF TypeInv, IsAdded
  <2> QED BY <1>1, <2>1, RecStep DEF Stays, IsMarked, IsStrange, EncodeMarker, Undisturbed
<1>3. ASSUME ~twice', NEW u \in DOMAIN rec', NEW v \in DOMAIN rec', rec'[u].title = rec'[v].title
      PROVE  u = v
  <2>1. \A x, y \in DOMAIN rec : rec[x].title = rec[y].title => x = y
    BY <1>1, <1>3 DEF Undisturbed
  <2>2. CASE Bulk
    <3> PICK adds \in SUBSET Wanted, U \in SUBSET (Uid \ used) : \E at \in [U -> adds] : Adds(adds, U, at)
      BY <2>2, BulkIs
    <3> PICK at \in [U -> adds] : Adds(adds, U, at)
      OBVIOUS
    <3>1. \A row \in adds : IsRow(row) /\ Titled(rec, row.title) = {}
      BY <1>3, WantedRows DEF Adds, TypeInv
    <3>2. \A x \in DOMAIN rec : rec'[x].title = rec[x].title
      <4>1. \A x \in DOMAIN rec : rec'[x] = Overwritten(rec[x]) /\ IsRecord(rec[x])
        BY DEF Adds, TypeInv
      <4>2. \A x \in DOMAIN rec : Overwritten(rec[x]).title = rec[x].title
        BY <4>1, OverwrittenIs DEF TypeInv
      <4> QED BY <4>1, <4>2
    <3>3. \A x \in DOMAIN rec' \ DOMAIN rec : x \in U /\ rec'[x].title = at[x].title
      BY <3>1, ImportedIs DEF Adds
    <3>4. \A x \in DOMAIN rec' \ DOMAIN rec, y \in DOMAIN rec : rec'[x].title # rec'[y].title
      BY <3>1, <3>2, <3>3 DEF Titled, Live
    <3>5. \A x, y \in DOMAIN rec' \ DOMAIN rec : rec'[x].title = rec'[y].title => x = y
      <4>1. \A a, b \in adds : a.title = b.title => a = b
        BY WantedRows DEF TypeInv, TitlesKeepTheirRefs
      <4>2. \A x, y \in U : at[x] = at[y] => x = y
        BY DEF Adds
      <4> QED BY <3>3, <4>1, <4>2
    <3> QED BY <1>3, <2>1, <3>2, <3>4, <3>5
  <2>3. CASE ~Bulk
    <3>1. \A x \in DOMAIN rec' : x \in DOMAIN rec /\ rec'[x].title = rec[x].title
      BY <1>1, <2>3, RecStep DEF Stays, IsMarked, IsAdded, IsStrange
    <3> QED BY <1>3, <2>1, <3>1
  <2> QED BY <2>2, <2>3
<1> QED BY <1>2, <1>3

LEMMA UndisturbedAlways ==
  ASSUME NamesTellTypes, StrangersStayApart, TitlesKeepTheirRefs
  PROVE  Spec => []Undisturbed
<1>1. TypeInv /\ Owners /\ Undisturbed /\ [Next]_vars => Undisturbed'
  BY UndisturbedNext
<1>2. Init => Undisturbed
  BY DEF Init, Empty, Undisturbed
<1> QED BY <1>1, <1>2, TypeAlways, OwnersAlways, PTL DEF Spec

\* An interrupted apply never leaves what `dsk import` followed by `dsk apply` could
\* not take up: no collision, no marker of another version, no claim by another row.
THEOREM AlwaysResumable ==
  ASSUME NamesTellTypes, StrangersStayApart, TitlesKeepTheirRefs
  PROVE  Spec => []NeverStuck
<1>1. ASSUME TypeInv, Owners, Undisturbed, outside = 0, ~twice,
             \A r \in Moved : Cardinality(Claimants(rec, r)) <= 1, NEW v \in Versions
      PROVE  ~Raises(rec, v.rows) /\ Refused(rec, ByTitle(rec), v.rows, TRUE) = {}
  <2>1. \A u \in DOMAIN rec : rec[u].marker = Unmarked \/ rec[u].marker.manager = "sdk"
    BY <1>1 DEF Undisturbed
  <2>2. ASSUME NEW u \in DOMAIN rec, NEW w \in DOMAIN rec, u # w,
               rec[u].marker.ref # NoRef, rec[u].marker.ref = rec[w].marker.ref
        PROVE  FALSE
    <3>1. ASSUME NEW x \in DOMAIN rec, rec[x].marker.ref # NoRef PROVE Own(x)
      <4>1. rec[x].marker.manager = "sdk"
        BY <2>1, <3>1 DEF Unmarked
      <4> QED BY <1>1, <3>1, <4>1, MarkedRow DEF Owners, Marks, Own
    <3>2. rec[u].marker.ref \in Moved
      BY <1>1, <2>2, <3>1 DEF Owners, OneOwnerPerRef
    <3> DEFINE S == Claimants(rec, rec[u].marker.ref)
    <3>3. IsFiniteSet(S) /\ {u, w} \subseteq S
      <4>1. S \subseteq Uid
        BY <1>1 DEF Claimants, Live, TypeInv, TypeOK
      <4> QED BY <2>2, <4>1, PamApplyAssumption, FS_Subset DEF Claimants, Live
    <3>4. Cardinality({u, w}) = 2
      <4>1. {u, w} = {u} \union {w} /\ w \notin {u}
        BY <2>2
      <4>2. IsFiniteSet({u}) /\ Cardinality({u}) = 1
        BY FS_Singleton
      <4> QED BY <4>1, <4>2, FS_AddElement
    <3>5. Cardinality({u, w}) <= Cardinality(S) /\ Cardinality(S) \in Nat
      BY <3>3, FS_Subset, FS_CardinalityType
    <3>6. Cardinality(S) <= 1
      BY <1>1, <3>2
    <3> HIDE DEF S
    <3> QED BY <3>4, <3>5, <3>6
  <2>3. ~Collision(rec)
    BY <1>1, <2>2 DEF Collision, Undisturbed, Live
  <2>4. ~Unsupported(rec, ByTitle(rec), v.rows)
    <3> SUFFICES ASSUME NEW row \in Matching(rec, ByTitle(rec), v.rows, {"sdk", "blank"})
                 PROVE  rec[Match(rec, ByTitle(rec), row)].marker.supported
      BY DEF Unsupported
    <3> PICK u : u = Found(rec, row)
      OBVIOUS
    <3>1. u = Match(rec, ByTitle(rec), row) /\ u # NoUid /\ row \in v.rows
          /\ rec[u].marker.manager \in {"sdk", "blank"}
      BY DEF Matching, Found
    <3>2. u \in DOMAIN rec
      BY <1>1, <3>1, VersionRows, FoundTitle
    <3> QED BY <1>1, <3>1, <3>2, MarkedRow DEF Owners, Marks
  <2>5. Refused(rec, ByTitle(rec), v.rows, TRUE) = {}
    <3>1. Refused(rec, ByTitle(rec), v.rows, TRUE) \subseteq
            Matching(rec, ByTitle(rec), v.rows, {"foreign"})
      BY DEF Refused, ToAdopt
    <3> SUFFICES ASSUME NEW row \in Matching(rec, ByTitle(rec), v.rows, {"foreign"}) PROVE FALSE
      BY <3>1
    <3> PICK u : u = Found(rec, row)
      OBVIOUS
    <3>2. u # NoUid /\ row \in v.rows /\ rec[u].marker.manager = "foreign"
      BY DEF Matching, Found
    <3>3. u \in DOMAIN rec
      BY <1>1, <3>2, VersionRows, FoundTitle
    <3> QED BY <2>1, <3>2, <3>3 DEF Unmarked
  <2> QED BY <2>3, <2>4, <2>5 DEF Raises
<1>2. TypeInv /\ Owners /\ Undisturbed => NeverStuck
  BY <1>1 DEF NeverStuck
<1> QED BY <1>2, TypeAlways, OwnersAlways, UndisturbedAlways, PTL

------------------------------------------------------------------------------
(* What an apply does to each row *)

\* Its record is ours and has the row's fields; its rotation is there or to come,
\* or a process left it out
InPlace(u, row) ==
  /\ u \in DOMAIN rec /\ Own(u) /\ rec[u].marker.ref = row.ref
  /\ rec[u].title = row.title /\ rec[u].body = row.body
  /\ OverlayMatches(rec[u].settings, row.settings)
  /\ \/ row.rotation = Off \/ rec[u].rotation = row.rotation \/ u \in cut
     \/ pc \in {"mark", "tuned"} \/ (pc = "rotate" /\ row \in todo)

Placed(row) == \E u \in DOMAIN rec : InPlace(u, row)

\* The row is to be marked, and what is found by its title has or will get its body
Waiting(row) ==
  /\ row \in todo /\ pc \in Early
  /\ pc \in {"gateway", "bulk"} /\ ~extend => Titled(rec, row.title) = {}
  /\ pc \in {"look", "mark", "tuned"} =>
       \A u \in Titled(rec, row.title) : rec[u].body = row.body

PassedOver(row) == lapses > 0 /\ Titled(rec, row.title) = {} /\ pc \notin {"gateway", "bulk"}

\* Somebody else's record has the title: the row was refused, and is again
Closed(row) ==
  Titled(rec, row.title) # {} /\ Claimants(rec, row.ref) = {} /\ (pc \in Early => row \notin todo)

EachRow ==
  calm /\ ~adopting /\ pc # "idle" =>
    \A row \in Wanted : row.ref \notin Moved =>
       Placed(row) \/ Waiting(row) \/ PassedOver(row) \/ Closed(row)

LapsesKnown ==
  calm /\ pc \in {"look", "mark", "tuned"} =>
    \A row \in Wanted : Titled(rec, row.title) = {} => lapses > 0

TunedRight ==
  pc = "tuned" /\ cur.ref \notin Moved =>
    \A row \in Wanted : row.ref = cur.ref /\ cur.uid \in DOMAIN rec =>
       OverlayMatches(rec[cur.uid].settings, row.settings)

\* The listing shows the markers but for those of this process
MarkersShow ==
  calm /\ pc \in {"mark", "tuned", "rotate"} =>
    \A u \in DOMAIN rec : u \in DOMAIN seen /\ (u \in fresh \/ seen[u].ref = rec[u].marker.ref)

Progress == EachRow /\ LapsesKnown /\ TunedRight /\ MarkersShow

LEMMA WithMatches == ASSUME NEW s, NEW w PROVE OverlayMatches(With(s, w), w)
BY DEF OverlayMatches, With

\* What a row resolves to has a title of the row
LEMMA ResolvesToTitle ==
  ASSUME TypeInv, NamesTellTypes, Owners, KnownRight, NEW row \in Wanted,
         NEW x \in DOMAIN seen, x \in Resolve(seen, known, row)
  PROVE  TitleOf(seen[x].title, row.ref)
<1>0. row \in AllRows /\ row.title \in Title /\ row.ref \in RefsOf(AllRows)
  BY WantedRows, RowsTyped DEF TypeInv, IsRow, RefsOf
<1>1. CASE x \in ByMarker(seen, row.ref)
  BY <1>0, <1>1 DEF ByMarker, Owners, SeenRight, TitleOf
<1>2. CASE known[row.ref] # NoUid /\ x = known[row.ref]
  BY <1>2 DEF KnownRight
<1>3. CASE x \in ByIdentity(seen, row.title)
  BY <1>0, <1>3, IdentityIs DEF Owners, TitleOf
<1> QED BY <1>1, <1>2, <1>3 DEF Resolve

\* Tuning and rotation write to no record in another row's place
LEMMA ResolvesElsewhere ==
  ASSUME TypeInv, NamesTellTypes, TitlesKeepTheirRefs, Owners, KnownRight,
         NEW row \in Wanted, NEW x \in DOMAIN seen, x \in DOMAIN rec, x \in Resolve(seen, known, row),
         NEW other \in Wanted, rec[x].title = other.title
  PROVE  other = row
<1>1. PICK y \in AllRows : y.ref = row.ref /\ y.title = seen[x].title
  BY ResolvesToTitle DEF TitleOf
<1>2. seen[x].title = other.title
  BY DEF Owners, SeenRight
<1>3. y.ref = other.ref
  BY <1>1, <1>2, WantedRows DEF TypeInv, TitlesKeepTheirRefs
<1> QED BY <1>1, <1>3, WantedRows DEF TypeInv

LEMMA TuneIs ==
  ASSUME TypeInv, Tune
  PROVE  \E row \in todo, u \in DOMAIN seen :
           /\ row \in Wanted /\ ByIdentity(seen, row.title) = {u} /\ cur' = [ref |-> row.ref, uid |-> u]
           /\ \/ ~Tuned(row) /\ UNCHANGED rec
              \/ /\ Tuned(row)
                 /\ \E x \in DOMAIN rec :
                      /\ x \in DOMAIN seen /\ Resolve(seen, known, row) = {x}
                      /\ rec'[x].settings = With(rec[x].settings, row.settings)
                      /\ \A v \in DOMAIN rec : v # x => rec'[v] = rec[v]
<1>1. PICK row \in todo :
             /\ Tunable(row)
             /\ \E u \in ByIdentity(seen, row.title) :
                  /\ ByIdentity(seen, row.title) = {u}
                  /\ cur' = [ref |-> row.ref, uid |-> u]
             /\ IF Tuned(row)
                THEN \E v \in Resolve(seen, known, row) \intersect DOMAIN rec :
                       rec' = [rec EXCEPT ![v].settings = With(@, row.settings)]
                ELSE UNCHANGED rec
  BY Zenon DEF Tune
<1>2. PICK u : ByIdentity(seen, row.title) = {u} /\ cur' = [ref |-> row.ref, uid |-> u]
  BY <1>1
<1>3. u \in DOMAIN seen
  BY <1>2 DEF ByIdentity
<1>4. row \in Wanted
  BY DEF TypeInv, TypeOK
<1>5. CASE ~Tuned(row)
  BY <1>1, <1>2, <1>3, <1>4, <1>5
<1>6. CASE Tuned(row)
  <2>1. PICK x \in Resolve(seen, known, row) \intersect DOMAIN rec :
          rec' = [rec EXCEPT ![x].settings = With(@, row.settings)]
    BY <1>1, <1>6
  <2>2. Changes1(x, TakesSettings(rec[x], With(rec[x].settings, row.settings)))
    BY <2>1, SettingsStep
  <2>3. /\ rec'[x].settings = With(rec[x].settings, row.settings)
        /\ \A v \in DOMAIN rec : v # x => rec'[v] = rec[v]
    BY <2>2, TypeChange DEF TakesSettings
  <2>4. Resolves(seen, known, row)
    BY <1>1, <1>6 DEF Tunable
  <2>5. Resolve(seen, known, row) = {x} /\ x \in DOMAIN seen
    BY <2>4 DEF Resolves
  <2> QED BY <1>2, <1>3, <1>4, <1>6, <2>3, <2>5
<1> QED BY <1>5, <1>6

LEMMA TunedRightNext ==
  ASSUME TypeInv, NamesTellTypes, SettingsAreTuned, Owners, KnownRight, TunedRight, [Next]_vars
  PROVE  TunedRight'
<1> SUFFICES ASSUME pc' = "tuned", cur'.ref \notin Moved, NEW row \in want'.rows, row.ref = cur'.ref,
                    cur'.uid \in DOMAIN rec'
             PROVE  OverlayMatches(rec'[cur'.uid].settings, row.settings)
  BY DEF TunedRight, Wanted
<1>1. CASE Tune
  <2>1. PICK x \in todo, u \in DOMAIN seen :
           /\ x \in Wanted /\ ByIdentity(seen, x.title) = {u} /\ cur' = [ref |-> x.ref, uid |-> u]
           /\ \/ ~Tuned(x) /\ UNCHANGED rec
              \/ /\ Tuned(x)
                 /\ \E v \in DOMAIN rec :
                      /\ v \in DOMAIN seen /\ Resolve(seen, known, x) = {v}
                      /\ rec'[v].settings = With(rec[v].settings, x.settings)
                      /\ \A w \in DOMAIN rec : w # v => rec'[w] = rec[w]
    BY <1>1, TuneIs
  <2>2. row \in Wanted
    BY <1>1 DEF Tune, plan, Wanted
  <2>3. x = row
    BY <2>1, <2>2, WantedRows DEF TypeInv
  <2>4. row \in AllRows /\ row.title \in Title
    BY <2>2, WantedRows DEF TypeInv, IsRow
  <2>5. {w \in DOMAIN seen : seen[w].title = row.title} = {u}
    BY <2>1, <2>3, <2>4, IdentityIs DEF Owners
  <2>6. CASE ~Tuned(row)
    BY <2>4, <2>6 DEF Tuned, SettingsAreTuned, OverlayMatches
  <2>7. CASE Tuned(row)
    <3>1. PICK v \in DOMAIN rec :
            /\ v \in DOMAIN seen /\ Resolve(seen, known, row) = {v}
            /\ rec'[v].settings = With(rec[v].settings, row.settings)
      BY <2>1, <2>3, <2>7
    <3>2. v = u
      BY <2>1, <2>2, <2>3, <2>5, <3>1, ResolvesToIts
    <3> QED BY <2>1, <3>1, <3>2, WithMatches
  <2> QED BY <2>6, <2>7
<1>2. CASE pc = "tuned" /\ UNCHANGED <<todo, seen, cur, want>>
  <2>1. cur.uid \in used /\ ~Bulk /\ ~Tune /\ ~Mark
    <3>1. cur.uid \in DOMAIN seen
      BY <1>2, CurRow DEF Owners
    <3> QED BY <1>2, <3>1 DEF TypeInv, TypeOK, Bulk, Tune, Mark
  <2>2. cur.uid \in DOMAIN rec /\ rec'[cur.uid].settings = rec[cur.uid].settings
    BY <1>2, <2>1, RecStep DEF Stays, IsMarked, IsAdded, IsStrange
  <2> QED BY <1>2, <2>2 DEF TunedRight, Wanted
<1> QED BY <1>1, <1>2, TunedStep

LEMMA CalmFolder ==
  ASSUME TypeInv, [Next]_vars, calm', ~PlanApply, ~PlanImport, pc \in {"mark", "tuned", "rotate"}, pc' # "idle"
  PROVE  DOMAIN rec' = DOMAIN rec
<1>1. ~OutsideAdd /\ ~OutsideRemove /\ ~Delete /\ ~Bulk
  BY CalmStep DEF Delete, Bulk
<1>2. DOMAIN rec \subseteq DOMAIN rec'
  BY <1>1, RecordsLast
<1>3. DOMAIN rec' \subseteq DOMAIN rec
  BY <1>1, RecStep DEF Stays, IsMarked, IsAdded, IsStrange
<1> QED BY <1>2, <1>3

LEMMA MarkersShowNext ==
  ASSUME TypeInv, MarkersShow, [Next]_vars
  PROVE  MarkersShow'
<1> SUFFICES ASSUME calm', pc' \in {"mark", "tuned", "rotate"}, NEW u \in DOMAIN rec'
             PROVE  u \in DOMAIN seen' /\ (u \in fresh' \/ seen'[u].ref = rec'[u].marker.ref)
  BY DEF MarkersShow
<1>1. CASE Look
  BY <1>1 DEF Look
<1>2. CASE ~Look
  <2>1. /\ pc \in {"mark", "tuned", "rotate"} /\ seen' = seen /\ fresh \subseteq fresh'
        /\ ~PlanApply /\ ~PlanImport
    BY <1>2 DEF Next, vars, PlanApply, PlanImport, Start, Gateways, Bulk, Look, Tune, Mark, Skip, Advance, Rotate,
         Attach, Delete, Finish, Refuse, Fail, End, OutsideAdd, OutsideRemove, OutsideStep
  <2>2. calm /\ u \in DOMAIN rec
    BY <2>1, CalmFolder, CalmStep
  <2>3. u \in DOMAIN seen /\ (u \in fresh \/ seen[u].ref = rec[u].marker.ref)
    BY <2>1, <2>2 DEF MarkersShow
  <2>4. CASE Stays(u)
    BY <2>1, <2>3, <2>4 DEF Stays
  <2>5. CASE IsMarked(u)
    BY <2>1, <2>3, <2>5 DEF IsMarked, Mark
  <2>6. ~IsAdded(u) /\ ~IsStrange(u)
    BY <2>2 DEF IsAdded, IsStrange, TypeInv, TypeOK
  <2> QED BY <2>4, <2>5, <2>6, RecStep
<1> QED BY <1>1, <1>2

\* The same process goes on
LEMMA LiveStep ==
  ASSUME TypeInv, [Next]_vars, calm', pc' # "idle", ~PlanApply, ~PlanImport
  PROVE  /\ calm /\ pc # "idle" /\ UNCHANGED <<want, adopting, extend, known, cut>> /\ Wanted' = Wanted
         /\ lapses' >= lapses /\ ~OutsideAdd /\ ~OutsideRemove
<1>1. calm /\ ~OutsideAdd /\ ~OutsideRemove
  BY CalmStep
<1>2. pc # "idle" /\ UNCHANGED <<want, adopting, extend, known, cut>>
  BY <1>1 DEF Next, vars, plan, Gateways, Bulk, Look, Tune, Mark, Skip, Advance, Rotate,
         Attach, Delete, Finish, Refuse, Fail, End
<1>3. lapses' >= lapses
  <2>1. CASE Bulk
    <3>1. lapses' = lapses \/ lapses' = lapses + 1
      BY <2>1, BulkIs DEF Adds
    <3> QED BY <3>1 DEF TypeInv
  <2>2. CASE ~Bulk
    <3>1. lapses' = lapses
      BY <1>1, <2>2 DEF Next, vars, bounds, Gateways, Look, Tune, Mark, Skip, Advance, Rotate,
         Attach, Delete, Finish, Refuse, Fail, End
    <3> QED BY <3>1 DEF TypeInv
  <2> QED BY <2>1, <2>2
<1> QED BY <1>1, <1>2, <1>3 DEF Wanted

\* A title that a row has stays with its records, and a row of the title is the row
LEMMA SameTitled ==
  ASSUME TypeInv, [Next]_vars, ~Bulk, ~OutsideAdd, NEW t
  PROVE  /\ Titled(rec', t) \subseteq Titled(rec, t)
         /\ ~Delete /\ ~OutsideRemove => Titled(rec', t) = Titled(rec, t)
<1>1. \A u \in DOMAIN rec' : u \in DOMAIN rec /\ rec'[u].title = rec[u].title
  BY RecStep DEF Stays, IsMarked, IsAdded, IsStrange
<1>2. ~Delete /\ ~OutsideRemove => DOMAIN rec \subseteq DOMAIN rec'
  BY RecordsLast
<1> QED BY <1>1, <1>2 DEF Titled, Live

LEMMA RowOfTitle ==
  ASSUME TypeInv, TitlesKeepTheirRefs, NEW x \in Wanted, NEW y \in Wanted, x.title = y.title
  PROVE  x = y
BY WantedRows DEF TypeInv, TitlesKeepTheirRefs

\* After the import a row has a record of its title, unless one did not appear
LEMMA BulkTitles ==
  ASSUME TypeInv, Bulk, NEW row \in Wanted, Titled(rec', row.title) = {}
  PROVE  lapses' > 0
<1>1. PICK adds \in SUBSET Wanted, U \in SUBSET (Uid \ used) : \E at \in [U -> adds] : Adds(adds, U, at)
  BY BulkIs
<1> PICK at \in [U -> adds] : Adds(adds, U, at)
  BY <1>1
<1>2. ASSUME row \in adds PROVE FALSE
  <2>1. PICK u \in U : at[u] = row
    BY <1>2 DEF Adds
  <2>2. u \notin DOMAIN rec
    BY DEF TypeInv, TypeOK
  <2>3. u \in DOMAIN rec' /\ rec'[u] = Imported(row)
    BY <2>1, <2>2 DEF Adds
  <2>4. rec'[u].title = row.title
    BY <2>3, WantedRows, ImportedIs DEF TypeInv
  <2> QED BY <2>3, <2>4 DEF Titled, Live
<1>3. ASSUME Titled(rec, row.title) # {} PROVE FALSE
  <2>1. PICK u \in DOMAIN rec : rec[u].title = row.title
    BY <1>3 DEF Titled, Live
  <2>2. u \in DOMAIN rec' /\ rec'[u] = Overwritten(rec[u])
    BY DEF Adds
  <2>3. rec'[u].title = rec[u].title
    BY <2>2, OverwrittenIs DEF TypeInv
  <2> QED BY <2>1, <2>2, <2>3 DEF Titled, Live
<1>4. lapses' = lapses + 1
  BY <1>2, <1>3 DEF Adds
<1> QED BY <1>4 DEF TypeInv

LEMMA LapsesKnownNext ==
  ASSUME TypeInv, LapsesKnown, [Next]_vars
  PROVE  LapsesKnown'
<1> SUFFICES ASSUME calm', pc' \in {"look", "mark", "tuned"}, NEW row \in want'.rows,
                    Titled(rec', row.title) = {}
             PROVE  lapses' > 0
  BY DEF LapsesKnown, Wanted
<1>1. ~PlanApply /\ ~PlanImport
  BY DEF PlanApply, PlanImport, Start
<1>2. calm /\ row \in Wanted /\ lapses' >= lapses /\ ~OutsideAdd /\ ~OutsideRemove
  BY <1>1, LiveStep DEF Wanted
<1>3. CASE Bulk
  BY <1>2, <1>3, BulkTitles
<1>4. CASE ~Bulk
  <2>1. pc \in {"look", "mark", "tuned"} /\ ~Delete
    BY <1>1, <1>2, <1>4 DEF Next, vars, Gateways, Look, Tune, Mark, Skip, Advance, Rotate,
       Attach, Delete, Finish, Refuse, Fail, End
  <2>2. Titled(rec, row.title) = {}
    BY <1>2, <1>4, <2>1, SameTitled
  <2>3. lapses > 0
    BY <1>2, <2>1, <2>2 DEF LapsesKnown
  <2>4. lapses' \in Nat /\ lapses \in Nat
    BY TypeNext DEF TypeInv
  <2> QED BY <1>2, <2>3, <2>4
<1> QED BY <1>3, <1>4

\* A refused row stays refused
LEMMA ClosedStays ==
  ASSUME TypeInv, Owners, DoomedAreUnwanted, [Next]_vars, calm', pc' # "idle", ~PlanApply, ~PlanImport,
         NEW row \in Wanted, Closed(row)
  PROVE  Closed(row)'
<1>1. calm /\ ~OutsideAdd /\ ~OutsideRemove
  BY LiveStep
<1>2. pc' \in Early => row \notin todo'
  BY CalmStep DEF Closed
<1>3. Titled(rec', row.title) # {}
  <2>1. PICK u \in DOMAIN rec : rec[u].title = row.title
    BY DEF Closed, Titled, Live
  <2>2. u \in DOMAIN rec'
    <3>1. CASE Delete
      <4>1. PICK v \in doomed : rec' = [w \in DOMAIN rec \ {v} |-> rec[w]]
        BY <3>1 DEF Delete
      <4> QED BY <2>1, <4>1 DEF DoomedAreUnwanted
    <3> QED BY <1>1, <2>1, <3>1, RecordsLast
  <2>3. rec'[u].title = rec[u].title
    BY <2>1, <2>2, RecStep DEF Stays, IsMarked, IsAdded, IsStrange, TypeInv, TypeOK
  <2> QED BY <2>1, <2>2, <2>3 DEF Titled, Live
<1>4. ASSUME NEW u \in DOMAIN rec', rec'[u].marker.ref = row.ref PROVE FALSE
  <2>0. row.ref # NoRef
    BY WantedRows, RowsTyped DEF TypeInv
  <2>1. CASE Stays(u)
    BY <1>4, <2>1 DEF Stays, Closed, Claimants, Live
  <2>2. CASE IsMarked(u)
    <3>1. pc = "tuned" /\ cur.ref = row.ref
      <4>1. rec'[u].marker = EncodeMarker(cur.ref, Ours) /\ pc = "tuned"
        BY <2>2 DEF IsMarked, Mark
      <4> QED BY <1>4, <4>1 DEF EncodeMarker
    <3>2. PICK x \in todo : x.ref = cur.ref
      BY <3>1 DEF Owners, CurIs
    <3>3. x = row
      BY <3>1, <3>2, WantedRows DEF TypeInv, TypeOK
    <3> QED BY <3>1, <3>2, <3>3 DEF Closed, Early
  <2>3. CASE IsAdded(u)
    <3>1. rec'[u].marker = Unmarked
      BY <2>3, WantedRows, ImportedIs DEF TypeInv, IsAdded
    <3> QED BY <1>4, <2>0, <3>1 DEF Unmarked
  <2> QED BY <1>1, <2>1, <2>2, <2>3, RecStep DEF IsStrange
<1>5. Claimants(rec', row.ref) = {}
  BY <1>4 DEF Claimants, Live
<1> QED BY <1>2, <1>3, <1>5 DEF Closed

\* A row without a record gets none after the import
LEMMA PassedStays ==
  ASSUME TypeInv, [Next]_vars, calm', pc' # "idle", ~PlanApply, ~PlanImport, NEW row, PassedOver(row)
  PROVE  PassedOver(row)'
<1>1. lapses' >= lapses /\ ~OutsideAdd /\ pc # "idle"
  BY LiveStep
<1>2. ~Bulk /\ pc' \notin {"gateway", "bulk"}
  BY <1>1 DEF PassedOver, Next, vars, OutsideRemove, OutsideStep, Gateways, Bulk, Look, Tune, Mark, Skip, Advance, Rotate,
     Attach, Delete, Finish, Refuse, Fail, End
<1>3. Titled(rec', row.title) = {}
  BY <1>1, <1>2, SameTitled DEF PassedOver
<1>4. lapses' \in Nat /\ lapses \in Nat
  BY TypeNext DEF TypeInv
<1>5. lapses' > 0
  BY <1>1, <1>4 DEF PassedOver
<1> QED BY <1>2, <1>3, <1>5 DEF PassedOver

\* What is in its place stays there: the import and the tuning write the same again,
\* and a rotation comes to the record that the marker is on
LEMMA PlacedStays ==
  ASSUME TypeInv, NamesTellTypes, TitlesKeepTheirRefs, RotatingRowsStay, Owners, Plans, RotationsToCome,
         MarkersShow, [Next]_vars,
         calm', pc' # "idle", ~PlanApply, ~PlanImport,
         NEW row \in Wanted, NEW u, InPlace(u, row)
  PROVE  InPlace(u, row)'
<1>0. u \in DOMAIN rec /\ Own(u) /\ rec[u].marker.ref = row.ref /\ rec[u].title = row.title
      /\ rec[u].body = row.body /\ OverlayMatches(rec[u].settings, row.settings) /\ u \in used
  BY DEF InPlace, TypeInv, TypeOK
<1>1. calm /\ ~OutsideAdd /\ ~OutsideRemove /\ UNCHANGED <<want, cut>>
  BY LiveStep
<1>2. u \in DOMAIN rec'
  <2>1. CASE Delete
    <3>1. PICK v \in doomed : rec' = [w \in DOMAIN rec \ {v} |-> rec[w]]
      BY <2>1 DEF Delete
    <3> QED BY <1>0, <3>1 DEF Plans, DoomedAreUnwanted
  <2> QED BY <1>0, <1>1, <2>1, RecordsLast
<1>3. Stays(u) \/ IsMarked(u)
  BY <1>0, <1>2, RecStep DEF IsAdded, IsStrange
<1>4. rec'[u].title = row.title
  BY <1>0, <1>3 DEF Stays, IsMarked
<1>5. Own(u)' /\ rec'[u].marker.ref = row.ref
  <2>1. CASE Stays(u)
    BY <1>0, <2>1 DEF Stays, Own
  <2>2. CASE IsMarked(u)
    <3>1. PICK x \in Wanted : x.ref = cur.ref /\ rec[cur.uid].title = x.title
      BY <2>2, CurRow DEF IsMarked, Mark, Owners
    <3>2. x = row
      BY <1>0, <2>2, <3>1, RowOfTitle DEF IsMarked
    <3>3. rec'[u].marker = EncodeMarker(row.ref, Ours)
      BY <2>2, <3>1, <3>2 DEF IsMarked
    <3> QED BY <3>3 DEF Own, EncodeMarker
  <2> QED BY <1>3, <2>1, <2>2
<1>6. rec'[u].body = row.body
  <2>1. CASE Bulk /\ extend
    <3>1. rec'[u] = Overwritten(rec[u])
      <4>1. \E adds \in SUBSET Wanted, U \in SUBSET (Uid \ used) : \E at \in [U -> adds] : Adds(adds, U, at)
        BY <2>1, BulkIs
      <4> QED BY <1>0, <4>1 DEF Adds
    <3>2. PICK y \in Wanted : y.title = rec[u].title /\ Overwritten(rec[u]).body = y.body
      BY <1>0, <2>1, OverwrittenIs DEF TypeInv
    <3> QED BY <1>0, <3>1, <3>2, RowOfTitle
  <2> QED BY <1>0, <1>3, <2>1 DEF Stays, IsMarked
<1>7. OverlayMatches(rec'[u].settings, row.settings)
  <2>1. CASE Tune
    <3>1. PICK x \in todo :
             /\ x \in Wanted
             /\ \/ UNCHANGED rec
                \/ \E v \in DOMAIN rec :
                     /\ v \in DOMAIN seen /\ Resolve(seen, known, x) = {v}
                     /\ rec'[v].settings = With(rec[v].settings, x.settings)
                     /\ \A w \in DOMAIN rec : w # v => rec'[w] = rec[w]
      BY <2>1, TuneIs
    <3>2. CASE UNCHANGED rec
      BY <1>0, <3>2
    <3>3. CASE ~UNCHANGED rec
      <4> PICK v \in DOMAIN rec :
             /\ v \in DOMAIN seen /\ Resolve(seen, known, x) = {v}
             /\ rec'[v].settings = With(rec[v].settings, x.settings)
             /\ \A w \in DOMAIN rec : w # v => rec'[w] = rec[w]
        BY <3>1, <3>3
      <4>1. CASE v = u
        <5>1. x = row
          BY <1>0, <3>1, <4>1, ResolvesElsewhere DEF Plans
        <5> QED BY <4>1, <5>1, WithMatches
      <4>2. CASE v # u
        BY <1>0, <4>2
      <4> QED BY <4>1, <4>2
    <3> QED BY <3>2, <3>3
  <2> QED BY <1>0, <1>3, <2>1 DEF Stays, IsMarked
<1>8. \/ row.rotation = Off \/ rec'[u].rotation = row.rotation \/ u \in cut'
      \/ pc' \in {"mark", "tuned"} \/ (pc' = "rotate" /\ row \in todo')
  <2> SUFFICES ASSUME row.rotation # Off, u \notin cut PROVE
         rec'[u].rotation = row.rotation \/ pc' \in {"mark", "tuned"} \/ (pc' = "rotate" /\ row \in todo')
    BY <1>1
  <2>1. CASE Rotate
    <3> PICK x \in todo, v \in DOMAIN rec :
           /\ todo' = todo \ {x} /\ x \in Wanted
           /\ rec'[v].rotation = x.rotation
           /\ \A w \in DOMAIN rec : w # v => rec'[w] = rec[w]
           /\ v \in DOMAIN seen /\ Resolve(seen, known, x) = {v}
      BY <2>1, RotateIs DEF Plans
    <3>1. pc = "rotate" /\ pc' = "rotate"
      BY <2>1 DEF Rotate
    <3>2. v = u => x = row
      BY <1>0, ResolvesElsewhere DEF Plans
    <3>3. x = row => v = u
      <4> SUFFICES ASSUME x = row PROVE v = u
        OBVIOUS
      <4>1. u \in DOMAIN seen /\ (u \in fresh \/ seen[u].ref = row.ref)
        BY <1>0, <1>1, <3>1 DEF MarkersShow
      <4>2. CASE seen[u].ref = row.ref
        BY <4>1, <4>2 DEF ByMarker, Resolve
      <4>3. CASE u \in fresh
        <5>1. /\ \A w \in DOMAIN seen : seen[w].title = seen[u].title => w = u
              /\ seen[u].title = row.title
          BY <1>0, <4>1, <4>3 DEF Plans, FreshAreAlone, Owners, SeenRight
        <5>2. row.ref \notin Moved
          BY WantedRows DEF TypeInv, RotatingRowsStay
        <5> QED BY <4>1, <5>1, <5>2, ResolvesToIts DEF Plans
      <4> QED BY <4>1, <4>2, <4>3
    <3>4. CASE v = u
      BY <3>2, <3>4
    <3>5. CASE v # u
      <4>1. rec'[u].rotation = rec[u].rotation /\ (row \in todo => row \in todo')
        BY <1>0, <3>3, <3>5
      <4> QED BY <3>1, <4>1 DEF InPlace
    <3> QED BY <3>4, <3>5
  <2>2. CASE ~Rotate
    <3>1. rec'[u].rotation = rec[u].rotation
      BY <1>3, <2>2 DEF Stays, IsMarked
    <3>2. pc \in {"mark", "tuned"} => pc' \in {"mark", "tuned"} \/ (pc' = "rotate" /\ row \in todo')
      BY <1>1, <2>2 DEF Rotating, Next, vars, Gateways, Bulk, Look, Tune, Mark, Skip, Advance,
         Attach, Delete, Finish, Refuse, Fail, End
    <3>3. pc = "rotate" /\ row \in todo => pc' = "rotate" /\ row \in todo'
      BY <1>1, <2>2 DEF Next, vars, Gateways, Bulk, Look, Tune, Mark, Skip, Advance,
         Attach, Delete, Finish, Refuse, Fail, End
    <3> QED BY <3>1, <3>2, <3>3 DEF InPlace
  <2> QED BY <2>1, <2>2
<1> QED BY <1>2, <1>4, <1>5, <1>6, <1>7, <1>8 DEF InPlace

\* A row that is to be marked gets its body, and then its marker and its settings, or
\* it has no record
LEMMA WaitingGoesOn ==
  ASSUME TypeInv, NamesTellTypes, TitlesKeepTheirRefs, Owners, Plans, LapsesKnown, TunedRight, [Next]_vars,
         calm', pc' # "idle", ~PlanApply, ~PlanImport, NEW row \in Wanted, row.ref \notin Moved, Waiting(row)
  PROVE  Placed(row)' \/ Waiting(row)' \/ PassedOver(row)'
<1>1. calm /\ UNCHANGED <<want, extend>> /\ ~OutsideAdd /\ ~OutsideRemove /\ lapses' >= lapses
  BY LiveStep
<1>2. row \in todo /\ pc \in Early
  BY DEF Waiting
<1>3. ASSUME ~Bulk, pc' \in Early, pc' \in {"gateway", "bulk"} => pc \in {"gateway", "bulk"}, row \in todo',
             pc' \in {"look", "mark", "tuned"} => pc \in {"look", "mark", "tuned"}
      PROVE  Waiting(row)'
  <2>1. Titled(rec', row.title) \subseteq Titled(rec, row.title)
    BY <1>1, <1>3, SameTitled
  <2>2. \A u \in Titled(rec', row.title) : rec'[u].body = rec[u].body
    BY <1>1, <1>3, RecStep DEF Titled, Live, Stays, IsMarked, IsAdded, IsStrange
  <2>3. pc' \in {"gateway", "bulk"} /\ ~extend' => Titled(rec', row.title) = {}
    BY <1>1, <1>3, <2>1 DEF Waiting
  <2>4. pc' \in {"look", "mark", "tuned"} => \A u \in Titled(rec', row.title) : rec'[u].body = row.body
    BY <1>3, <2>1, <2>2 DEF Waiting
  <2> QED BY <1>3, <2>3, <2>4 DEF Waiting
<1>4. CASE Bulk
  <2> PICK adds \in SUBSET Wanted, U \in SUBSET (Uid \ used) : \E at \in [U -> adds] : Adds(adds, U, at)
    BY <1>4, BulkIs
  <2> PICK at \in [U -> adds] : Adds(adds, U, at)
    OBVIOUS
  <2>1. pc = "bulk" /\ pc' = "look" /\ row \in todo'
    BY <1>2, <1>4 DEF Bulk
  <2>2. ASSUME NEW u \in Titled(rec', row.title) PROVE rec'[u].body = row.body
    <3>1. CASE u \in DOMAIN rec
      <4>1. rec'[u] = Overwritten(rec[u]) /\ IsRecord(rec[u])
        BY <3>1 DEF Adds, TypeInv
      <4>2. rec[u].title = row.title
        BY <3>1, <4>1, OverwrittenIs DEF TypeInv, Titled
      <4>3. extend
        BY <2>1, <3>1, <4>2 DEF Waiting, Titled, Live
      <4>4. PICK y \in Wanted : y.title = rec[u].title /\ Overwritten(rec[u]).body = y.body
        BY <4>1, <4>2, <4>3, OverwrittenIs DEF TypeInv
      <4> QED BY <4>1, <4>2, <4>4, RowOfTitle
    <3>2. CASE u \notin DOMAIN rec
      <4>1. u \in U /\ rec'[u] = Imported(at[u])
        BY <3>2 DEF Adds, Titled, Live
      <4>2. at[u] \in Wanted /\ rec'[u].title = at[u].title /\ rec'[u].body = at[u].body
        BY <4>1, WantedRows, ImportedIs DEF TypeInv
      <4> QED BY <4>2, RowOfTitle DEF Titled
    <3> QED BY <3>1, <3>2
  <2> QED BY <2>1, <2>2 DEF Waiting, Early
<1>5. CASE Mark
  <2> PICK x \in todo :
         /\ x \in Wanted /\ x.ref = cur.ref
         /\ cur.uid \in DOMAIN rec => rec[cur.uid].title = x.title
    BY <1>5, CurRow DEF Mark, Owners
  <2>1. /\ pc = "tuned" /\ pc' = "mark" /\ cur.uid \in DOMAIN rec
        /\ todo' = {y \in todo : y.ref # cur.ref}
    BY <1>5 DEF Mark
  <2>2. CASE row.ref # cur.ref
    BY <1>2, <1>3, <1>5, <2>1, <2>2 DEF Early, Bulk
  <2>3. CASE row.ref = cur.ref
    <3>1. x = row
      BY <2>3, WantedRows DEF TypeInv
    <3>2. cur.uid \in Titled(rec, row.title)
      BY <2>1, <3>1 DEF Titled, Live
    <3>3. rec[cur.uid].body = row.body /\ OverlayMatches(rec[cur.uid].settings, row.settings)
      BY <2>1, <2>3, <3>2 DEF Waiting, TunedRight
    <3>4. cur.uid \in DOMAIN rec'
      BY <1>1, <1>5, <2>1, RecordsLast DEF Delete, Mark
    <3>5. cur.uid \in used /\ EncodeMarker(cur.ref, Ours) \in Markers
      BY <2>1, <2>3, WantedRows, PamApplyAssumption DEF TypeInv, TypeOK, EncodeMarker, Markers, Managers, IsRow
    <3>6. rec'[cur.uid] = TakesMarker(rec[cur.uid], EncodeMarker(cur.ref, Ours))
      <4>1. rec' = [rec EXCEPT ![cur.uid].marker = EncodeMarker(cur.ref, Ours)]
        BY <1>5 DEF Mark
      <4> QED BY <2>1, <3>5, <4>1, FieldSet, TypeChange
    <3>7. /\ rec'[cur.uid].title = row.title /\ rec'[cur.uid].body = row.body
          /\ rec'[cur.uid].settings = rec[cur.uid].settings
          /\ rec'[cur.uid].marker = EncodeMarker(row.ref, Ours)
      BY <2>1, <2>3, <3>1, <3>3, <3>6 DEF TakesMarker
    <3> PICK u : u = cur.uid
      OBVIOUS
    <3>8. rec'[u].marker.manager = "sdk" /\ rec'[u].marker.manifest = Ours /\ rec'[u].marker.ref = row.ref
      BY <3>7 DEF EncodeMarker
    <3>9. InPlace(u, row)'
      BY <2>1, <3>3, <3>4, <3>7, <3>8 DEF InPlace, Own
    <3>10. Placed(row)'
      BY <3>4, <3>9 DEF Placed
    <3> QED BY <3>10
  <2> QED BY <2>2, <2>3
<1>6. CASE Skip
  <2>1. PICK x \in todo : ByIdentity(seen, x.title) = {} /\ todo' = todo \ {x}
    BY <1>6 DEF Skip
  <2>2. pc = "mark" /\ pc' = "mark" /\ rec' = rec /\ lapses' = lapses
    BY <1>6 DEF Skip, bounds
  <2>3. CASE x # row
    BY <1>2, <1>3, <1>6, <2>1, <2>2, <2>3 DEF Early, Bulk
  <2>4. CASE x = row
    <3>1. {u \in DOMAIN seen : seen[u].title = row.title} = {}
      BY <2>1, <2>4, WantedRows, IdentityIs DEF TypeInv, IsRow, Owners
    <3>2. Titled(rec, row.title) = {}
      BY <1>1, <2>2, <3>1 DEF Titled, Live, Plans, NotTaken, Owners, SeenRight
    <3>3. lapses > 0
      BY <1>1, <2>2, <3>2 DEF LapsesKnown
    <3> QED BY <2>2, <3>2, <3>3 DEF PassedOver
  <2> QED BY <2>3, <2>4
<1>7. CASE ~Bulk /\ ~Mark /\ ~Skip
  <2>1. /\ pc' \in Early /\ row \in todo'
        /\ pc' \in {"gateway", "bulk"} => pc \in {"gateway", "bulk"}
    BY <1>1, <1>2, <1>7 DEF Early, Next, vars, Gateways, Look, Tune, Advance, Rotate,
       Attach, Delete, Finish, Refuse, Fail, End
  <2>2. pc' \in {"look", "mark", "tuned"} => pc \in {"look", "mark", "tuned"}
    BY <1>1, <1>2, <1>7 DEF Early, Next, vars, Gateways, Look, Tune, Advance, Rotate,
       Attach, Delete, Finish, Refuse, Fail, End
  <2> QED BY <1>3, <1>7, <2>1, <2>2
<1> QED BY <1>4, <1>5, <1>6, <1>7

\* The plan is made for rows without a record or with one that differs; of the others
\* the records are as they should be, or are not ours
LEMMA PlannedRow ==
  ASSUME TypeInv, TitlesKeepTheirRefs, Owners, FreshAreAlone, CutOrFresh, pc = "idle",
         NEW v \in Versions, NEW row \in v.rows, row.ref \notin Moved
  PROVE  \/ row \in Additions(rec, v.rows) /\ Titled(rec, row.title) = {}
         \/ row \in Drifted(rec, v.rows)
         \/ /\ row \notin Additions(rec, v.rows) \union Drifted(rec, v.rows)
            /\ Titled(rec, row.title) # {} /\ Claimants(rec, row.ref) = {}
         \/ \E u \in DOMAIN rec : InPlace(u, row)
<1>0. row \in AllRows /\ IsRow(row)
  BY VersionRows
<1> PICK u : u = Found(rec, row)
  OBVIOUS
<1>1. CASE u = NoUid
  <2>1. row \in Additions(rec, v.rows)
    BY <1>1 DEF Additions, ToCreate, Found
  <2> QED BY <1>0, <1>1, <2>1, FolderNow, FoundIs
<1>2. CASE u # NoUid /\ rec[u].marker.manager \in {"sdk", "blank"}
  <2>1. u \in DOMAIN rec /\ TitleOf(rec[u].title, row.ref)
    BY <1>0, <1>2, FoundTitle
  <2>2. rec[u].title = row.title
    BY <1>0, <2>1, NotMoved DEF TitleOf
  <2>3. Own(u) /\ rec[u].marker.ref = row.ref
    <3>1. /\ rec[u].marker.manager = "sdk" /\ rec[u].marker.manifest = Ours
          /\ \E y \in AllRows : y.ref = rec[u].marker.ref /\ y.title = rec[u].title
      BY <1>2, <2>1, MarkedRow DEF Owners, Marks
    <3> QED BY <1>0, <2>2, <3>1 DEF Own, TitlesKeepTheirRefs
  <2>4. CASE FieldsDiffer(rec[u], row)
    BY <1>2, <2>4 DEF Drifted, Matching, Found
  <2>5. CASE ~FieldsDiffer(rec[u], row)
    <3>1. /\ rec[u].body = row.body /\ OverlayMatches(rec[u].settings, row.settings)
          /\ RotationMatches(rec[u], row)
      BY <2>5 DEF FieldsDiffer, SettingsMatch
    <3>2. row.rotation = Off \/ rec[u].rotation = row.rotation \/ u \in cut
      <4>1. TrustMissingRotation(rec[u], row) => u \in cut
        BY <2>1, <2>3 DEF TrustMissingRotation, CutOrFresh, FreshAreAlone, Late
      <4> QED BY <3>1, <4>1 DEF RotationMatches
    <3>3. InPlace(u, row)
      BY <2>1, <2>2, <2>3, <3>1, <3>2 DEF InPlace
    <3> QED BY <2>1, <3>3
  <2> QED BY <2>4, <2>5
<1>3. CASE u # NoUid /\ rec[u].marker.manager \notin {"sdk", "blank"}
  <2>1. u \in DOMAIN rec /\ rec[u].marker.manager # "sdk"
    BY <1>0, <1>2, <1>3, FoundTitle
  <2>2. u \notin Claimants(rec, row.ref)
    <3>1. rec[u].marker.ref = row.ref => rec[u].marker.ref \in RefsOf(AllRows)
      BY <1>0 DEF RefsOf
    <3> QED BY <2>1, <3>1, MarkedRow DEF Owners, Marks, Claimants
  <2>3. Claimants(rec, row.ref) = {} /\ u \in Titled(rec, row.title)
    BY <1>0, <1>3, <2>2, FolderNow, FoundIs
  <2>4. row \notin Additions(rec, v.rows) \union Drifted(rec, v.rows)
    BY <1>3 DEF Additions, ToCreate, Drifted, Matching, Found
  <2> QED BY <2>3, <2>4
<1> QED BY <1>1, <1>2, <1>3

LEMMA EachRowNext ==
  ASSUME TypeInv, NamesTellTypes, TitlesKeepTheirRefs, RotatingRowsStay, Owners, Plans, Settled, Progress,
         [Next]_vars
  PROVE  EachRow'
<1> SUFFICES ASSUME calm', ~adopting', pc' # "idle", NEW row \in want'.rows, row.ref \notin Moved
             PROVE  Placed(row)' \/ Waiting(row)' \/ PassedOver(row)' \/ Closed(row)'
  BY DEF EachRow, Wanted
<1>1. CASE PlanApply
  <2>1. PICK v \in Versions :
          /\ want' = v /\ rec' = rec /\ cut' = cut /\ pc = "idle" /\ pc' = "gateway"
          /\ todo' = Additions(rec, v.rows) \union Drifted(rec, v.rows)
          /\ extend' = (Drifted(rec, v.rows) # {})
    BY <1>1 DEF PlanApply, Start
  <2>2. \/ row \in Additions(rec, v.rows) /\ Titled(rec, row.title) = {}
        \/ row \in Drifted(rec, v.rows)
        \/ /\ row \notin Additions(rec, v.rows) \union Drifted(rec, v.rows)
           /\ Titled(rec, row.title) # {} /\ Claimants(rec, row.ref) = {}
        \/ \E u \in DOMAIN rec : InPlace(u, row)
    BY <2>1, PlannedRow DEF Plans, Settled
  <2>3. CASE row \in Additions(rec, v.rows) /\ Titled(rec, row.title) = {}
    BY <2>1, <2>3 DEF Waiting, Early
  <2>4. CASE row \in Drifted(rec, v.rows)
    BY <2>1, <2>4 DEF Waiting, Early
  <2>5. CASE /\ row \notin Additions(rec, v.rows) \union Drifted(rec, v.rows)
             /\ Titled(rec, row.title) # {} /\ Claimants(rec, row.ref) = {}
    BY <2>1, <2>5 DEF Closed
  <2>6. CASE \E u \in DOMAIN rec : InPlace(u, row)
    <3> PICK u \in DOMAIN rec : InPlace(u, row)
      BY <2>6
    <3>1. InPlace(u, row)'
      BY <2>1 DEF InPlace, Own
    <3> QED BY <2>1, <3>1 DEF Placed
  <2> QED BY <2>2, <2>3, <2>4, <2>5, <2>6
<1>2. CASE ~PlanApply
  <2>1. ~PlanImport
    BY DEF PlanImport
  <2>2. calm /\ ~adopting /\ pc # "idle" /\ row \in Wanted
    BY <1>2, <2>1, LiveStep DEF Wanted
  <2>3. CASE Placed(row)
    <3> PICK u : InPlace(u, row)
      BY <2>3 DEF Placed
    <3>1. InPlace(u, row)'
      BY <1>2, <2>1, <2>2, PlacedStays DEF Settled, Progress
    <3>2. u \in DOMAIN rec'
      BY <3>1 DEF InPlace
    <3> QED BY <3>1, <3>2 DEF Placed
  <2>4. CASE Waiting(row)
    BY <1>2, <2>1, <2>2, <2>4, WaitingGoesOn DEF Progress
  <2>5. CASE PassedOver(row)
    BY <1>2, <2>1, <2>5, PassedStays
  <2>6. CASE Closed(row)
    BY <1>2, <2>1, <2>2, <2>6, ClosedStays DEF Plans
  <2> QED BY <2>2, <2>3, <2>4, <2>5, <2>6 DEF Progress, EachRow
<1> QED BY <1>1, <1>2

LEMMA ProgressAlways ==
  ASSUME NamesTellTypes, StrangersStayApart, TitlesKeepTheirRefs, RotatingRowsStay, SettingsAreTuned
  PROVE  Spec => []Progress
<1>1. TypeInv /\ Owners /\ Plans /\ Settled /\ Progress /\ [Next]_vars => Progress'
  BY EachRowNext, LapsesKnownNext, TunedRightNext, MarkersShowNext DEF Progress, Plans
<1>2. Init => Progress
  BY DEF Init, Progress, EachRow, LapsesKnown, TunedRight, MarkersShow
<1> QED BY <1>1, <1>2, TypeAlways, OwnersAlways, PlansAlways, SettledAlways, PTL DEF Spec

\* Where somebody else's record has the title of a row, the row is refused
LEMMA ClosedIsRefused ==
  ASSUME TypeInv, TitlesKeepTheirRefs, Owners, NEW row \in Wanted,
         Titled(rec, row.title) # {}, Claimants(rec, row.ref) = {}
  PROVE  row \in Refused(rec, ByTitle(rec), Wanted, FALSE)
<1>0. row \in AllRows /\ IsRow(row)
  BY WantedRows DEF TypeInv
<1> PICK u : u = Found(rec, row)
  OBVIOUS
<1>1. u # NoUid
  BY <1>0, FolderNow, FoundIs
<1>2. u \in DOMAIN rec /\ rec[u].title = row.title /\ rec[u].marker.ref # row.ref
  <2>1. u \in Titled(rec, row.title) /\ u \notin Claimants(rec, row.ref)
    BY <1>0, <1>1, FolderNow, FoundIs
  <2> QED BY <2>1 DEF Titled, Claimants, Live
<1>3. rec[u].marker.manager \in {"none", "foreign"}
  BY <1>0, <1>2, MarkedRow DEF Owners, Marks, TitlesKeepTheirRefs
<1> QED BY <1>1, <1>3 DEF Refused, ToAdopt, Matching, Found

\* An undisturbed apply that ends with 0 has put every row in place, whichever process
\* began it: imported, tuned, marked and rotating.
THEOREM AppliedMeansDone ==
  ASSUME NamesTellTypes, StrangersStayApart, TitlesKeepTheirRefs, RotatingRowsStay, SettingsAreTuned
  PROVE  Spec => AppliedIsDone
<1>1. ASSUME TypeInv, Owners, Progress, Finish, calm, ~adopting, NEW row \in Wanted
      PROVE  \/ row.ref \in Moved
             \/ lapses > 0 /\ Titled(rec, row.title) = {}
             \/ row \in Refused(rec, ByTitle(rec), Wanted, FALSE)
             \/ Done(row)
             \/ \E u \in cut \intersect DOMAIN rec : rec[u].marker.ref = row.ref
  <2>1. pc = "delete"
    BY <1>1 DEF Finish
  <2>2. row.ref \notin Moved => Placed(row) \/ Waiting(row) \/ PassedOver(row) \/ Closed(row)
    BY <1>1, <2>1 DEF Progress, EachRow
  <2>3. CASE Placed(row)
    <3> PICK u \in DOMAIN rec : InPlace(u, row)
      BY <2>3 DEF Placed
    <3>1. u \in cut \/ Done(row)
      BY <2>1 DEF InPlace, Done
    <3> QED BY <3>1 DEF InPlace
  <2>4. ~Waiting(row)
    BY <2>1 DEF Waiting, Early
  <2>5. CASE PassedOver(row)
    BY <2>5 DEF PassedOver
  <2>6. CASE Closed(row)
    BY <1>1, <2>6, ClosedIsRefused DEF Closed
  <2> QED BY <2>2, <2>3, <2>4, <2>5, <2>6
<1>2. TypeInv /\ Owners /\ Progress =>
        [Finish /\ calm /\ ~adopting =>
           \A row \in Wanted :
              \/ row.ref \in Moved
              \/ lapses > 0 /\ Titled(rec, row.title) = {}
              \/ row \in Refused(rec, ByTitle(rec), Wanted, FALSE)
              \/ Done(row)
              \/ \E u \in cut \intersect DOMAIN rec : rec[u].marker.ref = row.ref]_vars
  BY <1>1
<1> QED BY <1>2, TypeAlways, OwnersAlways, ProgressAlways, PTL DEF AppliedIsDone
==============================================================================
