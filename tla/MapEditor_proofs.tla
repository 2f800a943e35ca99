--------------------------- MODULE MapEditor_proofs ---------------------------
(***************************************************************************)
(* The properties of MapEditor, for all files, points and numbers of edits *)
(* and failed writes.                                                      *)
(***************************************************************************)
EXTENDS MapEditor, FiniteSetTheorems, SequenceTheorems, WellFoundedInduction, TLAPS

-----------------------------------------------------------------------------
(* The largest id.                                                         *)

\* A set of numbers has a least element.
LEMMA Least ==
  ASSUME NEW T \in SUBSET Nat, T # {}
  PROVE  \E n \in T : \A m \in T : n <= m
<1>1. PICK n \in T : \A m \in T : ~ (<<m, n>> \in OpToRel(<, Nat))
  BY WFMin, NatLessThanWellFounded
<1>2. \A m \in T : ~ (m < n) BY <1>1 DEF OpToRel
<1> QED BY <1>2

IsBound(S, n) == \A s \in S : s <= n

\* By the least cardinality of a finite set without a bound.
LEMMA FiniteBounded ==
  ASSUME NEW S \in SUBSET Nat, IsFiniteSet(S)
  PROVE  \E n \in Nat : IsBound(S, n)
<1> DEFINE Bad == {X \in SUBSET Nat : IsFiniteSet(X) /\ ~ \E n \in Nat : IsBound(X, n)}
           Sizes == {Cardinality(X) : X \in Bad}
<1> SUFFICES ASSUME Bad # {} PROVE FALSE OBVIOUS
<1>1. Sizes \in SUBSET Nat /\ Sizes # {} BY FS_CardinalityType
<1>2. PICK k \in Sizes : \A m \in Sizes : k <= m
  <2> HIDE DEF Sizes
  <2> QED BY <1>1, Least
<1>3. PICK X \in Bad : k = Cardinality(X) OBVIOUS
<1>4. X # {} BY <1>3 DEF IsBound
<1>5. PICK x \in X : TRUE BY <1>4
<1>6. IsFiniteSet(X \ {x}) /\ Cardinality(X \ {x}) = k - 1 /\ k \in Nat
  BY <1>1, <1>3, <1>5, FS_RemoveElement
<1>7. X \ {x} \notin Bad BY <1>2, <1>6
<1>8. PICK n \in Nat : IsBound(X \ {x}, n) BY <1>6, <1>7
<1>9. x \in Nat BY <1>3, <1>5
<1>10. IsBound(X, IF x <= n THEN n ELSE x) BY <1>3, <1>8, <1>9 DEF IsBound
<1> QED BY <1>3, <1>8, <1>9, <1>10

LEMMA MaxOfSet ==
  ASSUME NEW S \in SUBSET Nat, IsFiniteSet(S)
  PROVE  MaxOf(S) \in Nat /\ \A s \in S : s <= MaxOf(S)
<1> DEFINE Bounds == {n \in Nat : IsBound(S, n)}
<1>1. PICK n \in Bounds : \A m \in Bounds : n <= m
  BY FiniteBounded, Least
<1>2. n \in S \cup {0}
  <2> SUFFICES ASSUME n \notin S, n # 0 PROVE FALSE OBVIOUS
  <2>1. n - 1 \in Nat /\ ~ (n <= n - 1) OBVIOUS
  <2>2. \A s \in S : s <= n /\ s # n /\ s \in Nat BY DEF IsBound
  <2>3. IsBound(S, n - 1) BY <2>1, <2>2 DEF IsBound
  <2> QED BY <1>1, <2>1, <2>3
<1>3. \E m \in S \cup {0} : \A s \in S : s <= m BY <1>2 DEF IsBound
<1> DEFINE IsMax(m) == m \in S \cup {0} /\ \A s \in S : s <= m
<1>4. IsMax(CHOOSE m : IsMax(m)) BY <1>3, Zenon
<1>5. MaxOf(S) = CHOOSE m : IsMax(m) BY DEF MaxOf
<1>6. IsMax(MaxOf(S))
  <2> HIDE DEF IsMax
  <2> QED BY <1>4, <1>5
<1>7. S \cup {0} \in SUBSET Nat OBVIOUS
<1> QED BY <1>6, <1>7

-----------------------------------------------------------------------------
(* Maps.                                                                   *)

MapOK(m) == m \in Map /\ IsFiniteSet(m.fhs)

\* What the editor's own fields are to a map with n portals' ids below it.
Below(m, n) == \A i \in DOMAIN m.portals : m.portals[i] < n
Behind(m, n) == \A f \in m.fhs : f.id < n

LEMMA IdsFinite ==
  ASSUME NEW m, MapOK(m)
  PROVE  /\ FootholdIds(m) \in SUBSET Nat /\ IsFiniteSet(FootholdIds(m))
         /\ PortalIds(m) \in SUBSET Nat /\ IsFiniteSet(PortalIds(m))
<1>1. m.fhs \in SUBSET Foothold /\ m.portals \in Seq(Nat) BY DEF MapOK, Map
<1>2. FootholdIds(m) \in SUBSET Nat BY <1>1 DEF FootholdIds, Foothold
<1>3. IsFiniteSet(FootholdIds(m))
  <2> DEFINE id == [f \in m.fhs |-> f.id]
  <2>1. id \in Surjection(m.fhs, FootholdIds(m)) BY DEF Surjection, FootholdIds
  <2> QED BY <2>1, FS_Surjection DEF MapOK
<1>4. DOMAIN m.portals = 1..Len(m.portals) /\ Len(m.portals) \in Nat BY <1>1
<1>5. PortalIds(m) \in SUBSET Nat BY <1>1, <1>4 DEF PortalIds
<1>6. IsFiniteSet(PortalIds(m))
  <2> DEFINE id == [i \in 1..Len(m.portals) |-> m.portals[i]]
  <2>1. id \in Surjection(1..Len(m.portals), PortalIds(m))
    BY <1>4 DEF Surjection, PortalIds
  <2> QED BY <1>4, <2>1, FS_Interval, FS_Surjection
<1> QED BY <1>2, <1>3, <1>5, <1>6

\* The counters after RefreshNextIds are ahead of the map.
LEMMA NextIds ==
  ASSUME NEW m, MapOK(m)
  PROVE  /\ MaxOf(FootholdIds(m)) + 1 \in Nat /\ Behind(m, MaxOf(FootholdIds(m)) + 1)
         /\ MaxOf(PortalIds(m)) + 1 \in Nat /\ Below(m, MaxOf(PortalIds(m)) + 1)
<1>1. \A n, k \in Nat : n <= k => n < k + 1 /\ k + 1 \in Nat OBVIOUS
<1>2. /\ MaxOf(FootholdIds(m)) \in Nat /\ FootholdIds(m) \in SUBSET Nat
      /\ \A s \in FootholdIds(m) : s <= MaxOf(FootholdIds(m))
  BY IdsFinite, MaxOfSet
<1>3. /\ MaxOf(PortalIds(m)) \in Nat /\ PortalIds(m) \in SUBSET Nat
      /\ \A s \in PortalIds(m) : s <= MaxOf(PortalIds(m))
  BY IdsFinite, MaxOfSet
<1>4. /\ MaxOf(FootholdIds(m)) + 1 \in Nat
      /\ \A s \in FootholdIds(m) : s < MaxOf(FootholdIds(m)) + 1
  BY <1>1, <1>2
<1>5. /\ MaxOf(PortalIds(m)) + 1 \in Nat
      /\ \A s \in PortalIds(m) : s < MaxOf(PortalIds(m)) + 1
  BY <1>1, <1>3
<1>6. \A f \in m.fhs : f.id \in FootholdIds(m) BY DEF FootholdIds
<1>7. \A i \in DOMAIN m.portals : m.portals[i] \in PortalIds(m) BY DEF PortalIds
<1> QED BY <1>4, <1>5, <1>6, <1>7 DEF Behind, Below

\* An edit that leaves footholds and portals alone.
LEMMA OtherEdit ==
  ASSUME NEW m, MapOK(m), NEW n, NEW r \in 0..1, NEW b \in {"token", "spaced"},
         n = [m EXCEPT !.rest = r] \/ n = [m EXCEPT !.bg = b, !.rest = r]
  PROVE  MapOK(n) /\ n.fhs = m.fhs /\ n.portals = m.portals
BY DEF MapOK, Map

LEMMA FootholdEdit ==
  ASSUME NEW m, MapOK(m), NEW S \in SUBSET Foothold, IsFiniteSet(S)
  PROVE  LET n == [m EXCEPT !.fhs = S]
         IN  MapOK(n) /\ n.fhs = S /\ n.portals = m.portals
BY DEF MapOK, Map

LEMMA PortalEdit ==
  ASSUME NEW m, MapOK(m), NEW s \in Seq(Nat)
  PROVE  LET n == [m EXCEPT !.portals = s]
         IN  MapOK(n) /\ n.fhs = m.fhs /\ n.portals = s
BY DEF MapOK, Map

LEMMA DefaultEdit ==
  ASSUME NEW m, MapOK(m), NEW n \in DefaultMaps(m)
  PROVE  MapOK(n) /\ n.portals = m.portals
<1>1. DefaultFootholds \in SUBSET Foothold
  BY EditorAssumption DEF EditorAssumption, DefaultFootholds, Foothold
<1>2. IsFiniteSet(DefaultFootholds)
  <2> DEFINE x == [id |-> 1, p1 |-> "a", p2 |-> "b"]
             y == [id |-> 2, p1 |-> "b", p2 |-> "c"]
             z == [id |-> 3, p1 |-> "d", p2 |-> "e"]
  <2> HIDE DEF x, y, z
  <2>1. IsFiniteSet(({x} \cup {y}) \cup {z})
    BY FS_Singleton, FS_Union
  <2>2. DefaultFootholds = ({x} \cup {y}) \cup {z} BY DEF DefaultFootholds, x, y, z
  <2> QED BY <2>1, <2>2
<1>3. m.rest \in 0..1 BY DEF MapOK, Map
<1>4. PICK r \in 0..m.rest : n = [m EXCEPT !.fhs = DefaultFootholds, !.rest = r]
  BY DEF DefaultMaps
<1>5. r \in 0..1 BY <1>3, <1>4
<1> QED BY <1>1, <1>2, <1>4, <1>5 DEF MapOK, Map

\* A shape that is too short for a foothold changes only the rest.
LEMMA ShapeEdit ==
  ASSUME NEW m, MapOK(m), NEW S \in SUBSET {<<"d", "e">>}
  PROVE  /\ MapOK(ApplyShape(m, S)) /\ ApplyShape(m, S).portals = m.portals
         /\ S = {} => ApplyShape(m, S).fhs = m.fhs
<1> DEFINE new == {[id |-> MaxOf(FootholdIds(m)) + 1, p1 |-> s[1], p2 |-> s[2]] : s \in S}
           f == [id |-> MaxOf(FootholdIds(m)) + 1, p1 |-> "d", p2 |-> "e"]
<1>1. MaxOf(FootholdIds(m)) + 1 \in Nat BY NextIds
<1>2. f \in Foothold BY <1>1, EditorAssumption DEF EditorAssumption, Foothold
<1>3. new = {} \/ new = {f} OBVIOUS
<1>4. new \in SUBSET Foothold /\ IsFiniteSet(new)
  <2> HIDE DEF new, f
  <2> QED BY <1>2, <1>3, FS_EmptySet, FS_Singleton
<1>5. m.fhs \in SUBSET Foothold /\ IsFiniteSet(m.fhs) BY DEF MapOK, Map
<1>6. m.fhs \cup new \in SUBSET Foothold /\ IsFiniteSet(m.fhs \cup new)
  <2> HIDE DEF new
  <2> QED BY <1>4, <1>5, FS_Union
<1>7. ApplyShape(m, S) = [m EXCEPT !.rest = 1, !.fhs = m.fhs \cup new]
  BY DEF ApplyShape, MapOK, Map
<1>8. S = {} => m.fhs \cup new = m.fhs OBVIOUS
<1> HIDE DEF new, f
<1>9. MapOK(ApplyShape(m, S))
  <2> DEFINE F == m.fhs \cup new
  <2> HIDE DEF F
  <2>1. F \in SUBSET Foothold /\ IsFiniteSet(F) BY <1>6 DEF F
  <2>2. 1 \in 0..1 OBVIOUS
  <2>3. ApplyShape(m, S) = [m EXCEPT !.rest = 1, !.fhs = F] BY <1>7 DEF F
  <2> QED BY <2>1, <2>2, <2>3 DEF MapOK, Map
<1>10. ApplyShape(m, S).portals = m.portals /\ ApplyShape(m, S).fhs = m.fhs \cup new
  BY <1>7 DEF MapOK, Map
<1> QED BY <1>8, <1>9, <1>10

\* A portal with an id beyond the others.
LEMMA PortalAdded ==
  ASSUME NEW m, MapOK(m), DistinctPortals(m), NEW n \in Nat, Below(m, n)
  PROVE  LET k == [m EXCEPT !.portals = Append(@, n)]
         IN  /\ MapOK(k) /\ k.fhs = m.fhs /\ DistinctPortals(k) /\ Below(k, n + 1)
             /\ Len(m.portals) + 1 \in DOMAIN k.portals /\ Len(m.portals) + 1 \in Nat \ {0}
             /\ k.portals[Len(m.portals) + 1] = n
<1> DEFINE s == Append(m.portals, n)
           l == Len(m.portals)
<1>1. m.portals \in Seq(Nat) /\ l \in Nat /\ DOMAIN m.portals = 1..l
  BY DEF MapOK, Map
<1>2. /\ s \in Seq(Nat) /\ Len(s) = l + 1 /\ DOMAIN s = 1..(l + 1)
      /\ s[l + 1] = n /\ \A i \in 1..l : s[i] = m.portals[i]
  BY <1>1, AppendProperties
<1>a. \A i \in 1..l : m.portals[i] \in Nat /\ m.portals[i] < n BY <1>1 DEF Below
<1>3. \A i \in 1..l : s[i] \in Nat /\ s[i] < n
  <2> HIDE DEF s, l
  <2> QED BY <1>a, <1>2
<1>4. \A i \in DOMAIN s : i \in 1..l \/ i = l + 1 BY <1>1, <1>2
<1>5. \A i \in DOMAIN s : s[i] < n + 1 BY <1>2, <1>3, <1>4
<1>6. \A i, j \in DOMAIN s : s[i] = s[j] => i = j
  <2> SUFFICES ASSUME NEW i \in DOMAIN s, NEW j \in DOMAIN s, s[i] = s[j] PROVE i = j
    OBVIOUS
  <2>1. CASE i \in 1..l /\ j \in 1..l BY <1>1, <1>2, <2>1 DEF DistinctPortals
  <2>2. CASE i = l + 1 \/ j = l + 1 BY <1>2, <1>3, <1>4, <2>2
  <2> QED BY <1>4, <2>1, <2>2
<1>7. LET k == [m EXCEPT !.portals = s] IN MapOK(k) /\ k.fhs = m.fhs /\ k.portals = s
  BY <1>2, PortalEdit
<1>8. l + 1 \in DOMAIN s /\ l + 1 \in Nat \ {0} BY <1>1, <1>2
<1>9. [m EXCEPT !.portals = Append(@, n)] = [m EXCEPT !.portals = s] OBVIOUS
<1> HIDE DEF s, l
<1> QED BY <1>2, <1>5, <1>6, <1>7, <1>8, <1>9 DEF DistinctPortals, Below, s, l

\* A portal is taken out: the others are where they were or one lower.
LEMMA PortalTaken ==
  ASSUME NEW m, MapOK(m), DistinctPortals(m), NEW i \in DOMAIN m.portals
  PROVE  LET k == [m EXCEPT !.portals = Without(@, i)]
         IN  /\ MapOK(k) /\ k.fhs = m.fhs /\ DistinctPortals(k)
             /\ \A j \in DOMAIN m.portals :
                  LET q == IF j > i THEN j - 1 ELSE j
                  IN  j # i => /\ q \in DOMAIN k.portals /\ q \in Nat \ {0}
                               /\ k.portals[q] = m.portals[j]
<1> DEFINE s == Without(m.portals, i)
           l == Len(m.portals)
<1>1. /\ m.portals \in Seq(Nat) /\ l \in Nat /\ DOMAIN m.portals = 1..l /\ i \in 1..l
      /\ \A j \in 1..l : m.portals[j] \in Nat
  BY DEF MapOK, Map
<1>2. /\ DOMAIN s = 1..(l - 1) /\ l - 1 \in Nat
      /\ \A j \in 1..(l - 1) : s[j] = IF j < i THEN m.portals[j] ELSE m.portals[j + 1]
  BY <1>1 DEF Without
<1>a. \A j \in 1..(l - 1) : j \in Nat \ {0} /\ j \in 1..l /\ j + 1 \in 1..l
  <2> HIDE DEF l
  <2> QED BY <1>1
<1>3. \A j \in 1..(l - 1) : s[j] \in Nat
  <2> HIDE DEF s, l
  <2> QED BY <1>1, <1>2, <1>a
<1>4. s = [j \in 1..(l - 1) |-> s[j]] BY DEF Without
<1>5. s \in Seq(Nat)
  <2> HIDE DEF s, l
  <2> QED BY <1>2, <1>3, <1>4, IsASeq
<1>6. \A j, q \in DOMAIN s : s[j] = s[q] => j = q
  <2> SUFFICES ASSUME NEW j \in DOMAIN s, NEW q \in DOMAIN s, s[j] = s[q] PROVE j = q
    OBVIOUS
  <2> DEFINE a == IF j < i THEN j ELSE j + 1
             b == IF q < i THEN q ELSE q + 1
  <2>a. /\ j \in Nat /\ j \in 1..l /\ j + 1 \in 1..l
        /\ q \in Nat /\ q \in 1..l /\ q + 1 \in 1..l
    BY <1>2, <1>a
  <2>b. a = b => j = q BY <1>1, <2>a
  <2>1. a \in 1..l /\ b \in 1..l /\ (a = b => j = q)
    <3> HIDE DEF l
    <3> QED BY <2>a, <2>b
  <2>2. s[j] = m.portals[a] /\ s[q] = m.portals[b] BY <1>2
  <2> HIDE DEF a, b, s
  <2> QED BY <1>1, <2>1, <2>2 DEF DistinctPortals
<1>7. ASSUME NEW j \in 1..l, j # i
      PROVE  LET q == IF j > i THEN j - 1 ELSE j
             IN  q \in 1..(l - 1) /\ s[q] = m.portals[j]
  <2>1. i \in Int /\ j \in Int /\ l \in Int /\ 1 <= i /\ i <= l /\ 1 <= j /\ j <= l
    BY <1>1
  <2> HIDE DEF l, s
  <2>2. CASE j > i
    <3>1. j - 1 \in 1..(l - 1) /\ ~(j - 1 < i) /\ (j - 1) + 1 = j BY <2>1, <2>2
    <3>2. s[j - 1] = m.portals[j] BY <1>2, <3>1
    <3> QED BY <2>2, <3>1, <3>2
  <2>3. CASE ~(j > i)
    <3>1. j < i /\ j \in 1..(l - 1) BY <1>7, <2>1, <2>3
    <3>2. s[j] = m.portals[j] BY <1>2, <3>1
    <3> QED BY <2>3, <3>1, <3>2
  <2> QED BY <2>2, <2>3
<1>8. LET k == [m EXCEPT !.portals = s] IN MapOK(k) /\ k.fhs = m.fhs /\ k.portals = s
  BY <1>5, PortalEdit
<1>9. [m EXCEPT !.portals = Without(@, i)] = [m EXCEPT !.portals = s] OBVIOUS
<1> HIDE DEF s, l
<1> QED BY <1>1, <1>2, <1>6, <1>7, <1>8, <1>9, <1>a DEF DistinctPortals

LEMMA EmptyOK == MapOK(EmptyMap) /\ EmptyMap.fhs = {} /\ EmptyMap.portals = <<>>
<1>1. <<>> \in Seq(Nat) /\ {} \in SUBSET Foothold /\ IsFiniteSet({}) BY FS_EmptySet
<1>2. 0 \in 0..1 OBVIOUS
<1> QED BY <1>1, <1>2 DEF MapOK, Map, EmptyMap

\* What is typed changes neither footholds nor portals.
LEMMA CommittedOK ==
  ASSUME MapOK(map), NEW m \in Committed
  PROVE  MapOK(m) /\ m.fhs = map.fhs /\ m.portals = map.portals
<1>1. CASE m = map BY <1>1
<1>2. CASE \E r \in 0..1 : m = [map EXCEPT !.rest = r] BY <1>2, OtherEdit
<1> QED BY <1>1, <1>2 DEF Committed

\* The edits that change neither.
Tame == Place \/ DragRect \/ CommitText \/ ChooseBackground

LEMMA TameEdit ==
  ASSUME MapOK(map), Tame
  PROVE  MapOK(map') /\ map'.fhs = map.fhs /\ map'.portals = map.portals
<1>1. CASE Place \/ DragRect
  <2>1. PICK r \in 0..1 : map' = [map EXCEPT !.rest = r]
    BY <1>1 DEF Place, DragRect, Edited
  <2> QED BY <2>1, OtherEdit
<1>3. CASE CommitText BY <1>3, CommittedOK DEF CommitText, Edited
<1>4. CASE ChooseBackground
  <2>1. PICK b \in {"token", "spaced"}, r \in 0..1 :
          map' = [map EXCEPT !.bg = b, !.rest = r]
    BY <1>4 DEF ChooseBackground, Edited
  <2> QED BY <2>1, OtherEdit
<1> QED BY <1>1, <1>3, <1>4 DEF Tame

LEMMA ShapeAdded ==
  ASSUME MapOK(map), AiAccept
  PROVE  /\ MapOK(map') /\ map'.portals = map.portals
         /\ ~behind' => ~behind /\ map'.fhs = map.fhs
<1>1. PICK S \in {{}, {<<"d", "e">>}}, m \in Committed :
        map' = ApplyShape(m, S) /\ behind' = (behind \/ S # {})
  BY DEF AiAccept, Edited
<1>2. MapOK(m) /\ m.fhs = map.fhs /\ m.portals = map.portals BY CommittedOK
<1>3. S \in SUBSET {<<"d", "e">>} OBVIOUS
<1> QED BY <1>1, <1>2, <1>3, ShapeEdit

LEMMA FootholdAdded ==
  ASSUME MapOK(map), nextFh \in Nat, pending \in Point \cup {NoPoint}, SecondPoint
  PROVE  /\ MapOK(map') /\ map'.portals = map.portals
         /\ Behind(map, nextFh) => Behind(map', nextFh')
<1>1. PICK p \in Clicked :
        map' = [map EXCEPT !.fhs = @ \cup {[id |-> nextFh, p1 |-> pending, p2 |-> p]}]
  BY DEF SecondPoint, Edited
<1> DEFINE f == [id |-> nextFh, p1 |-> pending, p2 |-> p]
<1>2. f \in Foothold /\ f.id = nextFh
  BY EditorAssumption DEF EditorAssumption, Foothold, SecondPoint
<1>3. map' = [map EXCEPT !.fhs = map.fhs \cup {f}] BY <1>1
<1> HIDE DEF f
<1>4. map.fhs \cup {f} \in SUBSET Foothold /\ IsFiniteSet(map.fhs \cup {f})
  BY <1>2, FS_AddElement DEF MapOK, Map
<1>5. MapOK(map') /\ map'.fhs = map.fhs \cup {f} /\ map'.portals = map.portals
  BY <1>3, <1>4, FootholdEdit
<1>6. nextFh' = nextFh + 1 BY DEF SecondPoint
<1>7. ASSUME Behind(map, nextFh), NEW g \in map'.fhs PROVE g.id < nextFh'
  <2>1. g \in map.fhs => g.id < nextFh BY <1>7 DEF Behind
  <2>2. g \in Foothold /\ g.id \in Nat BY <1>4, <1>5, <1>7 DEF Foothold
  <2> QED BY <1>2, <1>5, <1>6, <1>7, <2>1, <2>2
<1> QED BY <1>5, <1>7 DEF Behind

LEMMA ChainErased ==
  ASSUME MapOK(map), EraseChain
  PROVE  /\ MapOK(map') /\ map'.portals = map.portals
         /\ map'.fhs \in SUBSET map.fhs
<1>1. PICK f \in map.fhs : map' = [map EXCEPT !.fhs = @ \ Connected(@, f)]
  BY DEF EraseChain, Edited
<1> DEFINE S == map.fhs \ Connected(map.fhs, f)
<1>2. map' = [map EXCEPT !.fhs = S] BY <1>1
<1>3. S \in SUBSET map.fhs OBVIOUS
<1> HIDE DEF S
<1>4. S \in SUBSET Foothold /\ IsFiniteSet(S) BY <1>3, FS_Subset DEF MapOK, Map
<1> QED BY <1>2, <1>3, <1>4, FootholdEdit

-----------------------------------------------------------------------------
(* Files.                                                                  *)

FileOK(d) == d \notin {Absent, Broken} =>
  MapOK(d) /\ d \in Docs /\ DistinctPortals(d)
DiskOK == disk \in [Path -> Docs \cup {Absent, Broken}] /\ \A p \in Path : FileOK(disk[p])

\* What is written can be read again.
LEMMA WrittenOK ==
  ASSUME NEW m, MapOK(m), DistinctPortals(m)
  PROVE  Written(m) \in Docs /\ MapOK(Written(m)) /\ DistinctPortals(Written(m))
BY DEF MapOK, Map, Written, Docs, DistinctPortals

LEMMA CutOK ==
  ASSUME NEW m, MapOK(m), m \in Docs, NEW d \in CutFiles(m)
  PROVE  d \in Docs \cup {Broken} /\ FileOK(d)
<1>1. CASE d = Broken BY <1>1 DEF FileOK
<1>2. CASE d = [m EXCEPT !.portals = <<>>, !.rest = 0]
  <2>1. <<>> \in Seq(Nat) /\ DOMAIN <<>> = {} OBVIOUS
  <2>2. 0 \in 0..1 OBVIOUS
  <2>3. d \in Map /\ d.bg = m.bg /\ d.fhs = m.fhs /\ d.portals = <<>>
    BY <1>2, <2>1, <2>2 DEF MapOK, Map
  <2> QED BY <2>1, <2>3 DEF FileOK, MapOK, Docs, DistinctPortals
<1> QED BY <1>1, <1>2 DEF CutFiles

LEMMA WriteKept ==
  ASSUME NEW m, MapOK(m), DistinctPortals(m), DiskOK, damaged \in SUBSET Path,
         NEW p \in Path, NEW w \in Writes(p, m), WriteFile(p, m, w)
  PROVE  /\ DiskOK' /\ damaged' \in SUBSET Path
         /\ p \notin damaged' => disk'[p] = Written(m) /\ w.ok
         /\ \A q \in Path \ {p} : disk'[q] = disk[q] /\ (q \in damaged' <=> q \in damaged)
<1>1. Written(m) \in Docs /\ FileOK(Written(m)) BY WrittenOK DEF FileOK
<1>2. w.file \in Docs \cup {Absent, Broken} /\ FileOK(w.file)
  <2>1. CASE w = Whole(m) BY <1>1, <2>1 DEF Whole
  <2>2. CASE w = [ok |-> FALSE, file |-> disk[p]] BY <2>2 DEF DiskOK
  <2>3. CASE w.file \in CutFiles(Written(m)) BY <2>3, WrittenOK, CutOK
  <2> QED BY <2>1, <2>2, <2>3 DEF Writes
<1>3. disk' = [disk EXCEPT ![p] = w.file] BY DEF WriteFile
<1>4. DiskOK'
  <2>1. disk' \in [Path -> Docs \cup {Absent, Broken}] BY <1>2, <1>3 DEF DiskOK
  <2>2. \A q \in Path : FileOK(disk'[q]) BY <1>2, <1>3 DEF DiskOK
  <2>3. (\A q \in Path : FileOK(disk[q]))' BY <2>2 DEF FileOK, MapOK, DistinctPortals
  <2> QED BY <2>1, <2>3 DEF DiskOK
<1>5. disk'[p] = w.file /\ \A q \in Path \ {p} : disk'[q] = disk[q] BY <1>3 DEF DiskOK
<1>6. \/ w = Whole(m) /\ damaged' = damaged \ {p}
      \/ damaged' = damaged \cup {p}
  BY DEF WriteFile
<1>7. Whole(m).ok /\ Whole(m).file = Written(m) BY DEF Whole
<1> QED BY <1>4, <1>5, <1>6, <1>7

-----------------------------------------------------------------------------
(* The steps.                                                              *)

DocsOK ==
  /\ MapOK(map) /\ DistinctPortals(map) /\ DiskOK
  /\ damaged \in SUBSET Path /\ path \in Path \cup {NoPath}
Backed == path # NoPath /\ path \notin damaged => disk[path] = Written(clean)

\* A map that was just made or opened.
Fresh ==
  /\ MapOK(map) /\ DistinctPortals(map) /\ clean = map
  /\ nextFh \in Nat /\ Behind(map, nextFh) /\ nextPt \in Nat /\ Below(map, nextPt)
  /\ mode = "browse" /\ pending = NoPoint /\ sel = 0 /\ picked = 0 /\ behind = FALSE
  /\ path \in Path /\ Backed

LEMMA Created ==
  ASSUME DocsOK, NEW p \in Path, CreateDefault(p)
  PROVE  Fresh' /\ DiskOK' /\ damaged' \in SUBSET Path
<1>1. PICK m \in DefaultMaps(map) :
        /\ map' = m /\ clean' = m /\ path' = p
        /\ \E w \in Writes(p, m) : WriteFile(p, m, w)
        /\ mode' = "browse" /\ RefreshNextIds(m)
  BY DEF CreateDefault
<1>2. MapOK(m) /\ m.portals = map.portals BY DefaultEdit DEF DocsOK
<1>3. DistinctPortals(m) BY <1>2 DEF DocsOK, DistinctPortals
<1>4. DiskOK' /\ damaged' \in SUBSET Path /\ (p \notin damaged' => disk'[p] = Written(m))
  BY <1>1, <1>2, <1>3, WriteKept DEF DocsOK
<1>5. /\ nextFh' \in Nat /\ Behind(m, nextFh') /\ nextPt' \in Nat /\ Below(m, nextPt')
      /\ pending' = NoPoint /\ sel' = 0 /\ picked' = 0 /\ behind' = FALSE
  BY <1>1, <1>2, NextIds DEF RefreshNextIds
<1>6. Backed' BY <1>1, <1>4 DEF Backed, Written
<1>7. MapOK(map)' /\ DistinctPortals(map)' /\ Behind(map, nextFh)' /\ Below(map, nextPt)'
  BY <1>1, <1>2, <1>3, <1>5 DEF MapOK, DistinctPortals, Behind, Below
<1> QED BY <1>1, <1>4, <1>5, <1>6, <1>7 DEF Fresh

LEMMA Opened ==
  ASSUME DocsOK, NEW p \in Path, Readable(p), Load(p), disk' = disk
  PROVE  Fresh' /\ DiskOK' /\ damaged' \in SUBSET Path
<1>1. MapOK(disk[p]) /\ disk[p] \in Docs /\ DistinctPortals(disk[p])
  BY DEF DocsOK, DiskOK, FileOK, Readable
<1>2. /\ nextFh' \in Nat /\ Behind(disk[p], nextFh')
      /\ nextPt' \in Nat /\ Below(disk[p], nextPt')
      /\ pending' = NoPoint /\ sel' = 0 /\ picked' = 0 /\ behind' = FALSE
  BY <1>1, NextIds DEF Load, RefreshNextIds
<1>3. Written(disk[p]) = disk[p] BY <1>1 DEF Written, Docs, Map
<1>4. Backed' BY <1>3 DEF Load, Backed, Written
<1>5. MapOK(map)' /\ DistinctPortals(map)' /\ Behind(map, nextFh)' /\ Below(map, nextPt)'
  BY <1>1, <1>2 DEF Load, MapOK, DistinctPortals, Behind, Below
<1>6. DiskOK' BY DEF DocsOK, DiskOK, FileOK, MapOK, DistinctPortals
<1>7. damaged' \in SUBSET Path BY DEF DocsOK, Load
<1> QED BY <1>2, <1>4, <1>5, <1>6, <1>7 DEF Fresh, Load

LEMMA Saved ==
  ASSUME DocsOK, Backed, NEW p \in Path, SaveTo(p)
  PROVE  /\ DiskOK' /\ damaged' \in SUBSET Path /\ Backed'
         /\ path' \in Path \cup {NoPath} /\ clean' \in {clean, map}
<1>1. PICK w \in Writes(p, map) :
        /\ WriteFile(p, map, w)
        /\ IF w.ok THEN clean' = map /\ path' = p ELSE UNCHANGED <<clean, path>>
  BY DEF SaveTo
<1>2. /\ DiskOK' /\ damaged' \in SUBSET Path
      /\ p \notin damaged' => disk'[p] = Written(map) /\ w.ok
      /\ \A q \in Path \ {p} : disk'[q] = disk[q] /\ (q \in damaged' <=> q \in damaged)
  BY <1>1, WriteKept DEF DocsOK
<1>3. path' \in Path \cup {NoPath} /\ clean' \in {clean, map} BY <1>1 DEF DocsOK
<1>4. CASE clean' = map /\ path' = p BY <1>2, <1>4 DEF Backed, Written
<1>5. CASE clean' = clean /\ path' = path /\ ~ w.ok
  BY <1>2, <1>5 DEF Backed, Written, DocsOK
<1> QED BY <1>1, <1>2, <1>3, <1>4, <1>5

LEMMA SaveKept ==
  ASSUME DocsOK, Backed, NoPath \notin Path, Save
  PROVE  /\ DiskOK' /\ damaged' \in SUBSET Path /\ Backed'
         /\ path' \in Path \cup {NoPath} /\ clean' \in {clean, map}
<1>1. CASE \E p \in Path : SaveTo(p) BY <1>1, Saved
<1>2. CASE UNCHANGED <<clean, path, disk, damaged, events>>
  BY <1>2 DEF DocsOK, DiskOK, FileOK, MapOK, DistinctPortals, Backed, Written
<1> QED BY <1>1, <1>2 DEF Save, DocsOK

\* Leaving writes the file or not, and the next editor is a new one.
LEMMA Left ==
  ASSUME DocsOK, Leave
  PROVE  /\ DiskOK' /\ damaged' \in SUBSET Path /\ scene' # "editing"
         /\ ClosedEditor
<1>1. CASE UNCHANGED <<disk, damaged, events>>
  BY <1>1 DEF DocsOK, DiskOK, FileOK, MapOK, DistinctPortals, Leave
<1>2. ASSUME NEW p \in IF path = NoPath THEN Path ELSE {path},
             NEW w \in Writes(p, map), WriteFile(p, map, w)
      PROVE  DiskOK' /\ damaged' \in SUBSET Path
  <2>1. p \in Path BY DEF DocsOK
  <2> QED BY <1>2, <2>1, WriteKept DEF DocsOK
<1>3. scene' # "editing" /\ ClosedEditor BY DEF Leave
<1> QED BY <1>1, <1>2, <1>3 DEF Leave

\* AddPortal and DeletePortal, with the selection.
SelOK == sel \in Nat /\ picked \in Nat /\ SelectionTracks
PortalsOK == DistinctPortals(map) /\ nextPt \in Nat /\ Below(map, nextPt)

LEMMA AddedPortal ==
  ASSUME MapOK(map), PortalsOK, AddPortal
  PROVE  MapOK(map') /\ map'.fhs = map.fhs /\ PortalsOK' /\ SelOK'
<1>1. map' = [map EXCEPT !.portals = Append(@, nextPt)] /\ nextPt' = nextPt + 1
  BY Zenon DEF AddPortal, Edited
<1>2. sel' = Len(map.portals) + 1 /\ picked' = nextPt BY DEF AddPortal
<1>3. /\ MapOK(map') /\ map'.fhs = map.fhs /\ DistinctPortals(map') /\ Below(map', nextPt')
      /\ sel' \in DOMAIN map'.portals /\ sel' \in Nat \ {0} /\ map'.portals[sel'] = nextPt
  BY <1>1, <1>2, PortalAdded DEF PortalsOK
<1>4. nextPt' \in Nat BY <1>1 DEF PortalsOK
<1>5. PortalsOK' BY <1>3, <1>4 DEF PortalsOK, DistinctPortals, Below
<1> QED BY <1>2, <1>3, <1>5 DEF SelOK, SelectionTracks, PortalsOK

LEMMA DeletedPortal ==
  ASSUME MapOK(map), PortalsOK, SelOK, DeletePortal
  PROVE  MapOK(map') /\ map'.fhs = map.fhs /\ PortalsOK' /\ SelOK'
<1>1. PICK i \in DOMAIN map.portals :
        /\ map' = [map EXCEPT !.portals = Without(@, i)]
        /\ sel' = IF sel = i THEN 0 ELSE IF sel > i THEN sel - 1 ELSE sel
        /\ picked' = IF sel = i THEN 0 ELSE picked
        /\ nextPt' = MaxOf(PortalIds(map')) + 1
  BY Zenon DEF DeletePortal, Edited
<1>2. /\ MapOK(map') /\ map'.fhs = map.fhs /\ DistinctPortals(map')
      /\ \A j \in DOMAIN map.portals :
           LET q == IF j > i THEN j - 1 ELSE j
           IN  j # i => /\ q \in DOMAIN map'.portals /\ q \in Nat \ {0}
                        /\ map'.portals[q] = map.portals[j]
  BY <1>1, PortalTaken DEF PortalsOK
<1>3. nextPt' \in Nat /\ Below(map', nextPt') BY <1>1, <1>2, NextIds
<1>4. PortalsOK' BY <1>2, <1>3 DEF PortalsOK, DistinctPortals, Below
<1> SUFFICES SelOK' BY <1>2, <1>4
<1>5. CASE sel = i
  <2>1. sel' = 0 /\ picked' = 0 BY <1>1, <1>5
  <2>2. sel' \in Nat /\ picked' \in Nat BY <2>1
  <2> QED BY <2>1, <2>2 DEF SelOK, SelectionTracks
<1>6. CASE sel = 0 /\ sel # i
  <2>1. i \in Nat
    <3>1. DOMAIN map.portals = 1..Len(map.portals) BY DEF MapOK, Map
    <3> QED BY <3>1
  <2>2. sel' = 0 /\ picked' = picked BY <1>1, <1>6, <2>1
  <2>3. sel' \in Nat /\ picked' \in Nat BY <2>2 DEF SelOK
  <2> QED BY <2>2, <2>3 DEF SelOK, SelectionTracks
<1>7. CASE sel # 0 /\ sel # i
  <2> DEFINE q == IF sel > i THEN sel - 1 ELSE sel
  <2>1. sel \in DOMAIN map.portals /\ map.portals[sel] = picked /\ picked \in Nat
    BY <1>7 DEF SelOK, SelectionTracks
  <2>2. q \in DOMAIN map'.portals /\ q \in Nat \ {0} /\ map'.portals[q] = map.portals[sel]
    BY <1>2, <1>7, <2>1
  <2>3. sel' = q /\ picked' = picked BY <1>1, <1>7
  <2> HIDE DEF q
  <2>4. /\ sel' \in Nat /\ picked' \in Nat
        /\ sel' \in DOMAIN map'.portals /\ map'.portals[sel'] = picked'
    BY <2>1, <2>2, <2>3
  <2> QED BY <2>4 DEF SelOK, SelectionTracks
<1> QED BY <1>5, <1>6, <1>7

\* What IInv says of the documents, part by part.
FootholdsOK == nextFh \in Nat /\ (~behind => Behind(map, nextFh))
DiskSafe == DiskOK /\ damaged \in SUBSET Path /\ path \in Path \cup {NoPath}
MapSafe == MapOK(map) /\ clean \in Map \cup {NoMap}
Flags ==
  /\ scene \in {"launcher", "data", "empty", "editing", "gone"}
  /\ mode \in Mode /\ pending \in Point \cup {NoPoint}
  /\ text \in {"none", "resize", "target"}
  /\ ai \in BOOLEAN /\ rect \in BOOLEAN /\ preview \in BOOLEAN /\ behind \in BOOLEAN

LEMMA Parts ==
  IInv <=> /\ Flags /\ events \in 0..MaxEvents /\ MapSafe /\ DiskSafe
           /\ PortalsOK /\ FootholdsOK /\ SelOK /\ ModesAgree /\ AtRest /\ CleanIsSaved
<1>1. ASSUME NEW d PROVE d \in Docs => d \in Map /\ d \notin {Absent, Broken}
  BY EditorAssumption DEF EditorAssumption, Docs
<1>2. disk \in [Path -> Docs \cup {Absent, Broken}] => (DiskOK <=> FilesSound)
  BY <1>1 DEF DiskOK, FileOK, FilesSound, Readable, MapOK
<1>3. TypeOK /\ FilesSound <=>
        /\ Flags /\ events \in 0..MaxEvents /\ map \in Map /\ clean \in Map \cup {NoMap}
        /\ nextPt \in Nat /\ nextFh \in Nat /\ sel \in Nat /\ picked \in Nat
        /\ DiskSafe
  BY <1>2 DEF TypeOK, Flags, DiskSafe, DiskOK
<1>4. IdsAreFresh <=> /\ DistinctPortals(map) /\ Below(map, nextPt)
                      /\ ~behind => Behind(map, nextFh)
  BY DEF IdsAreFresh, Below, Behind
<1>5. IInv <=> /\ TypeOK /\ FilesSound /\ IsFiniteSet(map.fhs) /\ ModesAgree /\ AtRest
               /\ IdsAreFresh /\ SelectionTracks /\ CleanIsSaved
  BY DEF IInv
<1> QED BY <1>3, <1>4, <1>5 DEF MapSafe, MapOK, PortalsOK, FootholdsOK, SelOK

LEMMA DocsParts == DiskSafe /\ MapSafe /\ PortalsOK => DocsOK
BY DEF DiskSafe, MapSafe, PortalsOK, DocsOK

LEMMA BackedParts ==
  /\ Flags /\ CleanIsSaved /\ AtRest => Backed
  /\ Backed' => CleanIsSaved'
BY DEF CleanIsSaved, AtRest, Backed

\* The modes and flags.
LEMMA FlagsKept == IInv /\ [Next]_vars => Flags'
<1> SUFFICES ASSUME IInv, [Next]_vars PROVE Flags'
  OBVIOUS
<1> USE DEF EditOnly, TextOnly, ModeOnly, SetMode, SaveOnly, docs, tools, panel, history
<1>a. Flags BY Parts
<1>0. CASE UNCHANGED vars BY <1>a, <1>0 DEF Flags, vars
<1>1. CASE Place BY <1>a, <1>1 DEF Flags, Place
<1>2. CASE FirstPoint
  BY <1>a, <1>2, EditorAssumption DEF Flags, FirstPoint, EditorAssumption
<1>3. CASE CancelPoint BY <1>a, <1>3 DEF Flags, CancelPoint
<1>4. CASE SecondPoint BY <1>a, <1>4 DEF Flags, SecondPoint
<1>5. CASE EraseChain BY <1>a, <1>5 DEF Flags, EraseChain
<1>6. CASE PickPortal BY <1>a, <1>6 DEF Flags, PickPortal
<1>7. CASE AddPortal BY <1>a, <1>7 DEF Flags, AddPortal
<1>8. CASE DeletePortal BY <1>a, <1>8 DEF Flags, DeletePortal
<1>9. CASE DragRect BY <1>a, <1>9 DEF Flags, DragRect
<1>10. CASE AskSize BY <1>a, <1>10 DEF Flags, AskSize
<1>11. CASE AskTarget BY <1>a, <1>11 DEF Flags, AskTarget
<1>12. CASE CommitText BY <1>a, <1>12 DEF Flags, CommitText
<1>13. CASE CancelText BY <1>a, <1>13 DEF Flags, CancelText
<1>14. CASE AiFrame BY <1>a, <1>14 DEF Flags, AiFrame
<1>15. CASE AiAccept BY <1>a, <1>15 DEF Flags, AiAccept
<1>16. CASE AiRegenerate BY <1>a, <1>16 DEF Flags, AiRegenerate
<1>17. CASE ChooseMode BY <1>a, <1>17 DEF Flags, ChooseMode
<1>18. CASE ChooseRect BY <1>a, <1>18 DEF Flags, ChooseRect, Mode
<1>19. CASE ToggleAi BY <1>a, <1>19 DEF Flags, ToggleAi, Mode
<1>20. CASE ChooseBackground BY <1>a, <1>20 DEF Flags, ChooseBackground
<1>21. CASE NewMap BY <1>a, <1>21 DEF Flags, NewMap, CreateDefault, RefreshNextIds, Mode
<1>22. CASE SaveMap BY <1>a, <1>22 DEF Flags, SaveMap
<1>23. CASE SaveMapAs BY <1>a, <1>23 DEF Flags, SaveMapAs
<1>24. CASE OpenMap BY <1>a, <1>24 DEF Flags, OpenMap, Load, RefreshNextIds, Mode
<1>25. CASE Launch BY <1>a, <1>25 DEF Flags, Launch
<1>26. CASE LeaveOther BY <1>a, <1>26 DEF Flags, LeaveOther
<1>27. CASE StartNew
  BY <1>a, <1>27 DEF Flags, StartNew, CreateDefault, RefreshNextIds, Mode
<1>28. CASE StartOpen BY <1>a, <1>28 DEF Flags, StartOpen, Load, RefreshNextIds, Mode
<1>29. CASE Leave BY <1>a, <1>29 DEF Flags, Leave, ClosedEditor, Mode
<1>30. CASE Over BY <1>a, <1>30 DEF Flags, Over, vars
<1> QED
  BY <1>0, <1>1, <1>2, <1>3, <1>4, <1>5, <1>6, <1>7, <1>8, <1>9, <1>10,
     <1>11, <1>12, <1>13, <1>14, <1>15, <1>16, <1>17, <1>18, <1>19, <1>20,
     <1>21, <1>22, <1>23, <1>24, <1>25, <1>26, <1>27, <1>28, <1>29, <1>30
  DEF Next, Mouse, Typing, AiMode, Menus, Files, Screens

\* The bound on edits and failures.
LEMMA EventsKept == IInv /\ [Next]_vars => events' \in 0..MaxEvents
<1> SUFFICES ASSUME IInv, [Next]_vars PROVE events' \in 0..MaxEvents
  OBVIOUS
<1> USE DEF EditOnly, TextOnly, ModeOnly, SetMode, SaveOnly, docs, tools, panel, history
<1>a. events \in 0..MaxEvents /\ MaxEvents \in Nat
  BY Parts, EditorAssumption DEF EditorAssumption
<1>0. CASE UNCHANGED vars BY <1>a, <1>0 DEF vars
<1>1. CASE Place BY <1>a, <1>1 DEF Place, Edited, Event
<1>2. CASE FirstPoint BY <1>a, <1>2 DEF FirstPoint
<1>3. CASE CancelPoint BY <1>a, <1>3 DEF CancelPoint
<1>4. CASE SecondPoint BY <1>a, <1>4 DEF SecondPoint, Edited, Event
<1>5. CASE EraseChain BY <1>a, <1>5 DEF EraseChain, Edited, Event
<1>6. CASE PickPortal BY <1>a, <1>6 DEF PickPortal
<1>7. CASE AddPortal BY <1>a, <1>7 DEF AddPortal, Edited, Event
<1>8. CASE DeletePortal BY <1>a, <1>8 DEF DeletePortal, Edited, Event
<1>9. CASE DragRect BY <1>a, <1>9 DEF DragRect, Edited, Event
<1>10. CASE AskSize BY <1>a, <1>10 DEF AskSize
<1>11. CASE AskTarget BY <1>a, <1>11 DEF AskTarget
<1>12. CASE CommitText BY <1>a, <1>12 DEF CommitText, Edited, Event
<1>13. CASE CancelText BY <1>a, <1>13 DEF CancelText
<1>14. CASE AiFrame BY <1>a, <1>14 DEF AiFrame
<1>15. CASE AiAccept BY <1>a, <1>15 DEF AiAccept, Edited, Event
<1>16. CASE AiRegenerate BY <1>a, <1>16 DEF AiRegenerate
<1>17. CASE ChooseMode BY <1>a, <1>17 DEF ChooseMode
<1>18. CASE ChooseRect BY <1>a, <1>18 DEF ChooseRect
<1>19. CASE ToggleAi BY <1>a, <1>19 DEF ToggleAi
<1>20. CASE ChooseBackground BY <1>a, <1>20 DEF ChooseBackground, Edited, Event
<1>21. CASE NewMap BY <1>a, <1>21 DEF NewMap, CreateDefault, WriteFile, Event
<1>22. CASE SaveMap BY <1>a, <1>22 DEF SaveMap, Save, SaveTo, WriteFile, Event
<1>23. CASE SaveMapAs BY <1>a, <1>23 DEF SaveMapAs, Save, SaveTo, WriteFile, Event
<1>24. CASE OpenMap BY <1>a, <1>24 DEF OpenMap
<1>25. CASE Launch BY <1>a, <1>25 DEF Launch
<1>26. CASE LeaveOther BY <1>a, <1>26 DEF LeaveOther
<1>27. CASE StartNew BY <1>a, <1>27 DEF StartNew, CreateDefault, WriteFile, Event
<1>28. CASE StartOpen BY <1>a, <1>28 DEF StartOpen
<1>29. CASE Leave BY <1>a, <1>29 DEF Leave, WriteFile, Event
<1>30. CASE Over BY <1>a, <1>30 DEF Over, vars
<1> QED
  BY <1>0, <1>1, <1>2, <1>3, <1>4, <1>5, <1>6, <1>7, <1>8, <1>9, <1>10,
     <1>11, <1>12, <1>13, <1>14, <1>15, <1>16, <1>17, <1>18, <1>19, <1>20,
     <1>21, <1>22, <1>23, <1>24, <1>25, <1>26, <1>27, <1>28, <1>29, <1>30
  DEF Next, Mouse, Typing, AiMode, Menus, Files, Screens

\* The files.
LEMMA DiskKept == IInv /\ [Next]_vars => DiskSafe'
<1> SUFFICES ASSUME IInv, [Next]_vars PROVE DiskSafe'
  OBVIOUS
<1> USE DEF EditOnly, TextOnly, ModeOnly, SetMode, SaveOnly, docs, tools, panel, history
<1>a. DiskSafe /\ DocsOK /\ Backed BY Parts, DocsParts, BackedParts
<1>b. NoPath \notin Path BY EditorAssumption DEF EditorAssumption
<1>0. CASE UNCHANGED vars
  BY <1>a, <1>0 DEF DiskSafe, DiskOK, FileOK, MapOK, DistinctPortals, vars
<1>1. CASE Place
  BY <1>a, <1>1 DEF DiskSafe, DiskOK, FileOK, MapOK, DistinctPortals, Place
<1>2. CASE FirstPoint
  BY <1>a, <1>2 DEF DiskSafe, DiskOK, FileOK, MapOK, DistinctPortals, FirstPoint
<1>3. CASE CancelPoint
  BY <1>a, <1>3 DEF DiskSafe, DiskOK, FileOK, MapOK, DistinctPortals, CancelPoint
<1>4. CASE SecondPoint
  BY <1>a, <1>4 DEF DiskSafe, DiskOK, FileOK, MapOK, DistinctPortals, SecondPoint
<1>5. CASE EraseChain
  BY <1>a, <1>5 DEF DiskSafe, DiskOK, FileOK, MapOK, DistinctPortals, EraseChain
<1>6. CASE PickPortal
  BY <1>a, <1>6 DEF DiskSafe, DiskOK, FileOK, MapOK, DistinctPortals, PickPortal
<1>7. CASE AddPortal
  BY <1>a, <1>7 DEF DiskSafe, DiskOK, FileOK, MapOK, DistinctPortals, AddPortal
<1>8. CASE DeletePortal
  BY <1>a, <1>8 DEF DiskSafe, DiskOK, FileOK, MapOK, DistinctPortals, DeletePortal
<1>9. CASE DragRect
  BY <1>a, <1>9 DEF DiskSafe, DiskOK, FileOK, MapOK, DistinctPortals, DragRect
<1>10. CASE AskSize
  BY <1>a, <1>10 DEF DiskSafe, DiskOK, FileOK, MapOK, DistinctPortals, AskSize
<1>11. CASE AskTarget
  BY <1>a, <1>11 DEF DiskSafe, DiskOK, FileOK, MapOK, DistinctPortals, AskTarget
<1>12. CASE CommitText
  BY <1>a, <1>12 DEF DiskSafe, DiskOK, FileOK, MapOK, DistinctPortals, CommitText
<1>13. CASE CancelText
  BY <1>a, <1>13 DEF DiskSafe, DiskOK, FileOK, MapOK, DistinctPortals, CancelText
<1>14. CASE AiFrame
  BY <1>a, <1>14 DEF DiskSafe, DiskOK, FileOK, MapOK, DistinctPortals, AiFrame
<1>15. CASE AiAccept
  BY <1>a, <1>15 DEF DiskSafe, DiskOK, FileOK, MapOK, DistinctPortals, AiAccept
<1>16. CASE AiRegenerate
  BY <1>a, <1>16 DEF DiskSafe, DiskOK, FileOK, MapOK, DistinctPortals, AiRegenerate
<1>17. CASE ChooseMode
  BY <1>a, <1>17 DEF DiskSafe, DiskOK, FileOK, MapOK, DistinctPortals, ChooseMode
<1>18. CASE ChooseRect
  BY <1>a, <1>18 DEF DiskSafe, DiskOK, FileOK, MapOK, DistinctPortals, ChooseRect
<1>19. CASE ToggleAi
  BY <1>a, <1>19 DEF DiskSafe, DiskOK, FileOK, MapOK, DistinctPortals, ToggleAi
<1>20. CASE ChooseBackground
  BY <1>a, <1>20 DEF DiskSafe, DiskOK, FileOK, MapOK, DistinctPortals, ChooseBackground
<1>21. CASE NewMap BY <1>a, <1>21, Created DEF NewMap, Fresh, DiskSafe
<1>22. CASE SaveMap BY <1>a, <1>b, <1>22, SaveKept DEF SaveMap, DiskSafe
<1>23. CASE SaveMapAs BY <1>a, <1>23, Saved DEF SaveMapAs, DiskSafe
<1>24. CASE OpenMap BY <1>a, <1>24, Opened DEF OpenMap, Fresh, DiskSafe
<1>25. CASE Launch
  BY <1>a, <1>25 DEF DiskSafe, DiskOK, FileOK, MapOK, DistinctPortals, Launch
<1>26. CASE LeaveOther
  BY <1>a, <1>26 DEF DiskSafe, DiskOK, FileOK, MapOK, DistinctPortals, LeaveOther
<1>27. CASE StartNew BY <1>a, <1>27, Created DEF StartNew, Fresh, DiskSafe
<1>28. CASE StartOpen
  <2>1. CASE \E p \in Path : Readable(p) /\ Load(p)
    BY <1>a, <1>28, <2>1, Opened DEF StartOpen, Fresh, DiskSafe
  <2>2. CASE UNCHANGED <<disk, damaged, path>>
    BY <1>a, <2>2 DEF DiskSafe, DiskOK, FileOK, MapOK, DistinctPortals
  <2> QED BY <1>28, <2>1, <2>2 DEF StartOpen
<1>29. CASE Leave BY <1>a, <1>29, Left DEF ClosedEditor, DiskSafe
<1>30. CASE Over
  BY <1>a, <1>30 DEF DiskSafe, DiskOK, FileOK, MapOK, DistinctPortals, Over, vars
<1> QED
  BY <1>0, <1>1, <1>2, <1>3, <1>4, <1>5, <1>6, <1>7, <1>8, <1>9, <1>10,
     <1>11, <1>12, <1>13, <1>14, <1>15, <1>16, <1>17, <1>18, <1>19, <1>20,
     <1>21, <1>22, <1>23, <1>24, <1>25, <1>26, <1>27, <1>28, <1>29, <1>30
  DEF Next, Mouse, Typing, AiMode, Menus, Files, Screens

\* The map and its snapshot.
LEMMA MapKept == IInv /\ [Next]_vars => MapSafe'
<1> SUFFICES ASSUME IInv, [Next]_vars PROVE MapSafe'
  OBVIOUS
<1> USE DEF EditOnly, TextOnly, ModeOnly, SetMode, SaveOnly, docs, tools, panel, history
<1>a. MapSafe /\ MapOK(map) /\ map \in Map BY Parts DEF MapSafe, MapOK
<1>b. DocsOK /\ Backed /\ PortalsOK /\ SelOK /\ FootholdsOK /\ Flags
  BY Parts, DocsParts, BackedParts
<1>c. NoPath \notin Path BY EditorAssumption DEF EditorAssumption
<1>0. CASE UNCHANGED vars BY <1>a, <1>0 DEF MapSafe, vars
<1>1. CASE Place BY <1>a, <1>1, TameEdit DEF MapSafe, Tame, Place
<1>2. CASE FirstPoint BY <1>a, <1>2 DEF MapSafe, FirstPoint
<1>3. CASE CancelPoint BY <1>a, <1>3 DEF MapSafe, CancelPoint
<1>4. CASE SecondPoint
  BY <1>a, <1>b, <1>4, FootholdAdded DEF MapSafe, Flags, FootholdsOK, SecondPoint
<1>5. CASE EraseChain BY <1>a, <1>5, ChainErased DEF MapSafe, EraseChain
<1>6. CASE PickPortal BY <1>a, <1>6 DEF MapSafe, PickPortal
<1>7. CASE AddPortal BY <1>a, <1>b, <1>7, AddedPortal DEF MapSafe, AddPortal
<1>8. CASE DeletePortal BY <1>a, <1>b, <1>8, DeletedPortal DEF MapSafe, DeletePortal
<1>9. CASE DragRect BY <1>a, <1>9, TameEdit DEF MapSafe, Tame, DragRect
<1>10. CASE AskSize BY <1>a, <1>10 DEF MapSafe, AskSize
<1>11. CASE AskTarget BY <1>a, <1>11 DEF MapSafe, AskTarget
<1>12. CASE CommitText BY <1>a, <1>12, TameEdit DEF MapSafe, Tame, CommitText
<1>13. CASE CancelText BY <1>a, <1>13 DEF MapSafe, CancelText
<1>14. CASE AiFrame BY <1>a, <1>14 DEF MapSafe, AiFrame
<1>15. CASE AiAccept BY <1>a, <1>15, ShapeAdded DEF MapSafe, AiAccept
<1>16. CASE AiRegenerate BY <1>a, <1>16 DEF MapSafe, AiRegenerate
<1>17. CASE ChooseMode BY <1>a, <1>17 DEF MapSafe, ChooseMode
<1>18. CASE ChooseRect BY <1>a, <1>18 DEF MapSafe, ChooseRect
<1>19. CASE ToggleAi BY <1>a, <1>19 DEF MapSafe, ToggleAi
<1>20. CASE ChooseBackground
  BY <1>a, <1>20, TameEdit DEF MapSafe, Tame, ChooseBackground
<1>21. CASE NewMap BY <1>b, <1>21, Created DEF MapSafe, MapOK, NewMap, Fresh
<1>22. CASE SaveMap BY <1>a, <1>b, <1>c, <1>22, SaveKept DEF SaveMap, MapSafe
<1>23. CASE SaveMapAs BY <1>a, <1>b, <1>23, Saved DEF SaveMapAs, MapSafe
<1>24. CASE OpenMap BY <1>b, <1>24, Opened DEF MapSafe, MapOK, OpenMap, Fresh
<1>25. CASE Launch BY <1>a, <1>25 DEF MapSafe, Launch
<1>26. CASE LeaveOther BY <1>a, <1>26 DEF MapSafe, LeaveOther
<1>27. CASE StartNew BY <1>b, <1>27, Created DEF MapSafe, MapOK, StartNew, Fresh
<1>28. CASE StartOpen
  <2>1. CASE \E p \in Path : Readable(p) /\ Load(p)
    BY <1>b, <1>28, <2>1, Opened DEF StartOpen, Fresh, MapSafe, MapOK
  <2>2. CASE map' \in DefaultMaps(map) /\ clean' = clean
    BY <1>a, <2>2, DefaultEdit DEF MapSafe
  <2> QED BY <1>28, <2>1, <2>2 DEF StartOpen
<1>29. CASE Leave BY <1>29, EmptyOK DEF Leave, ClosedEditor, MapSafe
<1>30. CASE Over BY <1>a, <1>30 DEF MapSafe, Over, vars
<1> QED
  BY <1>0, <1>1, <1>2, <1>3, <1>4, <1>5, <1>6, <1>7, <1>8, <1>9, <1>10,
     <1>11, <1>12, <1>13, <1>14, <1>15, <1>16, <1>17, <1>18, <1>19, <1>20,
     <1>21, <1>22, <1>23, <1>24, <1>25, <1>26, <1>27, <1>28, <1>29, <1>30
  DEF Next, Mouse, Typing, AiMode, Menus, Files, Screens

\* The ids of the portals.
LEMMA PortalsKept == IInv /\ [Next]_vars => PortalsOK'
<1> SUFFICES ASSUME IInv, [Next]_vars PROVE PortalsOK'
  OBVIOUS
<1> USE DEF EditOnly, TextOnly, ModeOnly, SetMode, SaveOnly, docs, tools, panel, history
<1>a. PortalsOK BY Parts
<1>b. DocsOK /\ MapOK(map) /\ FootholdsOK /\ SelOK /\ Flags
  BY Parts, DocsParts DEF MapSafe
<1>0. CASE UNCHANGED vars BY <1>a, <1>0 DEF PortalsOK, DistinctPortals, Below, vars
<1>1. CASE Place
  BY <1>a, <1>b, <1>1, TameEdit DEF PortalsOK, DistinctPortals, Below, Tame, Place
<1>2. CASE FirstPoint BY <1>a, <1>2 DEF PortalsOK, DistinctPortals, Below, FirstPoint
<1>3. CASE CancelPoint BY <1>a, <1>3 DEF PortalsOK, DistinctPortals, Below, CancelPoint
<1>4. CASE SecondPoint
  BY <1>a, <1>b, <1>4, FootholdAdded DEF PortalsOK, DistinctPortals, Below, Flags,
    FootholdsOK, SecondPoint
<1>5. CASE EraseChain
  BY <1>a, <1>b, <1>5, ChainErased DEF PortalsOK, DistinctPortals, Below, EraseChain
<1>6. CASE PickPortal BY <1>a, <1>6 DEF PortalsOK, DistinctPortals, Below, PickPortal
<1>7. CASE AddPortal BY <1>a, <1>b, <1>7, AddedPortal
<1>8. CASE DeletePortal BY <1>a, <1>b, <1>8, DeletedPortal
<1>9. CASE DragRect
  BY <1>a, <1>b, <1>9, TameEdit DEF PortalsOK, DistinctPortals, Below, Tame, DragRect
<1>10. CASE AskSize BY <1>a, <1>10 DEF PortalsOK, DistinctPortals, Below, AskSize
<1>11. CASE AskTarget BY <1>a, <1>11 DEF PortalsOK, DistinctPortals, Below, AskTarget
<1>12. CASE CommitText
  BY <1>a, <1>b, <1>12, TameEdit DEF PortalsOK, DistinctPortals, Below, Tame,
    CommitText
<1>13. CASE CancelText BY <1>a, <1>13 DEF PortalsOK, DistinctPortals, Below, CancelText
<1>14. CASE AiFrame BY <1>a, <1>14 DEF PortalsOK, DistinctPortals, Below, AiFrame
<1>15. CASE AiAccept
  BY <1>a, <1>b, <1>15, ShapeAdded DEF PortalsOK, DistinctPortals, Below, AiAccept
<1>16. CASE AiRegenerate
  BY <1>a, <1>16 DEF PortalsOK, DistinctPortals, Below, AiRegenerate
<1>17. CASE ChooseMode BY <1>a, <1>17 DEF PortalsOK, DistinctPortals, Below, ChooseMode
<1>18. CASE ChooseRect BY <1>a, <1>18 DEF PortalsOK, DistinctPortals, Below, ChooseRect
<1>19. CASE ToggleAi BY <1>a, <1>19 DEF PortalsOK, DistinctPortals, Below, ToggleAi
<1>20. CASE ChooseBackground
  BY <1>a, <1>b, <1>20, TameEdit DEF PortalsOK, DistinctPortals, Below, Tame,
    ChooseBackground
<1>21. CASE NewMap BY <1>b, <1>21, Created DEF PortalsOK, NewMap, Fresh
<1>22. CASE SaveMap BY <1>a, <1>22 DEF PortalsOK, DistinctPortals, Below, SaveMap
<1>23. CASE SaveMapAs BY <1>a, <1>23 DEF PortalsOK, DistinctPortals, Below, SaveMapAs
<1>24. CASE OpenMap BY <1>b, <1>24, Opened DEF PortalsOK, OpenMap, Fresh
<1>25. CASE Launch BY <1>a, <1>25 DEF PortalsOK, DistinctPortals, Below, Launch
<1>26. CASE LeaveOther BY <1>a, <1>26 DEF PortalsOK, DistinctPortals, Below, LeaveOther
<1>27. CASE StartNew BY <1>b, <1>27, Created DEF PortalsOK, StartNew, Fresh
<1>28. CASE StartOpen
  <2>1. CASE \E p \in Path : Readable(p) /\ Load(p)
    BY <1>b, <1>28, <2>1, Opened DEF StartOpen, Fresh, PortalsOK
  <2>2. CASE map' \in DefaultMaps(map) /\ nextPt' = nextPt
    BY <1>a, <1>b, <2>2, DefaultEdit DEF PortalsOK, DistinctPortals, Below
  <2> QED BY <1>28, <2>1, <2>2 DEF StartOpen
<1>29. CASE Leave
  <2>1. map' = EmptyMap /\ nextPt' = 1 BY <1>29 DEF Leave, ClosedEditor
  <2>2. DOMAIN EmptyMap.portals = {} BY EmptyOK
  <2> QED BY <2>1, <2>2 DEF PortalsOK, DistinctPortals, Below
<1>30. CASE Over BY <1>a, <1>30 DEF PortalsOK, DistinctPortals, Below, Over, vars
<1> QED
  BY <1>0, <1>1, <1>2, <1>3, <1>4, <1>5, <1>6, <1>7, <1>8, <1>9, <1>10,
     <1>11, <1>12, <1>13, <1>14, <1>15, <1>16, <1>17, <1>18, <1>19, <1>20,
     <1>21, <1>22, <1>23, <1>24, <1>25, <1>26, <1>27, <1>28, <1>29, <1>30
  DEF Next, Mouse, Typing, AiMode, Menus, Files, Screens

\* The ids of the footholds, as long as the counter was not passed.
LEMMA FootholdsKept == IInv /\ [Next]_vars => FootholdsOK'
<1> SUFFICES ASSUME IInv, [Next]_vars PROVE FootholdsOK'
  OBVIOUS
<1> USE DEF EditOnly, TextOnly, ModeOnly, SetMode, SaveOnly, docs, tools, panel, history
<1>a. FootholdsOK BY Parts
<1>b. DocsOK /\ MapOK(map) /\ PortalsOK /\ SelOK /\ Flags
  BY Parts, DocsParts DEF MapSafe
<1>0. CASE UNCHANGED vars BY <1>a, <1>0 DEF FootholdsOK, Behind, vars
<1>1. CASE Place BY <1>a, <1>b, <1>1, TameEdit DEF FootholdsOK, Behind, Tame, Place
<1>2. CASE FirstPoint BY <1>a, <1>2 DEF FootholdsOK, Behind, FirstPoint
<1>3. CASE CancelPoint BY <1>a, <1>3 DEF FootholdsOK, Behind, CancelPoint
<1>4. CASE SecondPoint
  <2>1. Behind(map, nextFh) => Behind(map', nextFh')
    BY <1>a, <1>b, <1>4, FootholdAdded DEF FootholdsOK, Flags
  <2>2. behind' = behind /\ nextFh' = nextFh + 1 BY <1>4 DEF SecondPoint
  <2>3. nextFh' \in Nat BY <1>a, <2>2 DEF FootholdsOK
  <2> QED BY <1>a, <2>1, <2>2, <2>3 DEF FootholdsOK, Behind
<1>5. CASE EraseChain
  BY <1>a, <1>b, <1>5, ChainErased DEF FootholdsOK, Behind, EraseChain
<1>6. CASE PickPortal BY <1>a, <1>6 DEF FootholdsOK, Behind, PickPortal
<1>7. CASE AddPortal BY <1>a, <1>b, <1>7, AddedPortal DEF FootholdsOK, Behind, AddPortal
<1>8. CASE DeletePortal
  BY <1>a, <1>b, <1>8, DeletedPortal DEF FootholdsOK, Behind, DeletePortal
<1>9. CASE DragRect
  BY <1>a, <1>b, <1>9, TameEdit DEF FootholdsOK, Behind, Tame, DragRect
<1>10. CASE AskSize BY <1>a, <1>10 DEF FootholdsOK, Behind, AskSize
<1>11. CASE AskTarget BY <1>a, <1>11 DEF FootholdsOK, Behind, AskTarget
<1>12. CASE CommitText
  BY <1>a, <1>b, <1>12, TameEdit DEF FootholdsOK, Behind, Tame, CommitText
<1>13. CASE CancelText BY <1>a, <1>13 DEF FootholdsOK, Behind, CancelText
<1>14. CASE AiFrame BY <1>a, <1>14 DEF FootholdsOK, Behind, AiFrame
<1>15. CASE AiAccept BY <1>a, <1>b, <1>15, ShapeAdded DEF FootholdsOK, Behind, AiAccept
<1>16. CASE AiRegenerate BY <1>a, <1>16 DEF FootholdsOK, Behind, AiRegenerate
<1>17. CASE ChooseMode BY <1>a, <1>17 DEF FootholdsOK, Behind, ChooseMode
<1>18. CASE ChooseRect BY <1>a, <1>18 DEF FootholdsOK, Behind, ChooseRect
<1>19. CASE ToggleAi BY <1>a, <1>19 DEF FootholdsOK, Behind, ToggleAi
<1>20. CASE ChooseBackground
  BY <1>a, <1>b, <1>20, TameEdit DEF FootholdsOK, Behind, Tame, ChooseBackground
<1>21. CASE NewMap BY <1>b, <1>21, Created DEF FootholdsOK, NewMap, Fresh
<1>22. CASE SaveMap BY <1>a, <1>22 DEF FootholdsOK, Behind, SaveMap
<1>23. CASE SaveMapAs BY <1>a, <1>23 DEF FootholdsOK, Behind, SaveMapAs
<1>24. CASE OpenMap BY <1>b, <1>24, Opened DEF FootholdsOK, OpenMap, Fresh
<1>25. CASE Launch BY <1>a, <1>25 DEF FootholdsOK, Behind, Launch
<1>26. CASE LeaveOther BY <1>a, <1>26 DEF FootholdsOK, Behind, LeaveOther
<1>27. CASE StartNew BY <1>b, <1>27, Created DEF FootholdsOK, StartNew, Fresh
<1>28. CASE StartOpen
  <2>1. CASE \E p \in Path : Readable(p) /\ Load(p)
    BY <1>b, <1>28, <2>1, Opened DEF StartOpen, Fresh, FootholdsOK
  <2>2. CASE behind' = TRUE /\ nextFh' = nextFh
    BY <1>a, <2>2 DEF FootholdsOK
  <2> QED BY <1>28, <2>1, <2>2 DEF StartOpen
<1>29. CASE Leave
  <2>1. map' = EmptyMap /\ nextFh' = 1 BY <1>29 DEF Leave, ClosedEditor
  <2> QED BY <2>1, EmptyOK DEF FootholdsOK, Behind
<1>30. CASE Over BY <1>a, <1>30 DEF FootholdsOK, Behind, Over, vars
<1> QED
  BY <1>0, <1>1, <1>2, <1>3, <1>4, <1>5, <1>6, <1>7, <1>8, <1>9, <1>10,
     <1>11, <1>12, <1>13, <1>14, <1>15, <1>16, <1>17, <1>18, <1>19, <1>20,
     <1>21, <1>22, <1>23, <1>24, <1>25, <1>26, <1>27, <1>28, <1>29, <1>30
  DEF Next, Mouse, Typing, AiMode, Menus, Files, Screens

\* The selection.
LEMMA SelectionKept == IInv /\ [Next]_vars => SelOK'
<1> SUFFICES ASSUME IInv, [Next]_vars PROVE SelOK'
  OBVIOUS
<1> USE DEF EditOnly, TextOnly, ModeOnly, SetMode, SaveOnly, docs, tools, panel, history
<1>a. SelOK BY Parts
<1>b. DocsOK /\ MapOK(map) /\ PortalsOK /\ FootholdsOK /\ Flags
  BY Parts, DocsParts DEF MapSafe
<1>c. /\ map.portals \in Seq(Nat) /\ Len(map.portals) \in Nat
      /\ DOMAIN map.portals = 1..Len(map.portals)
      /\ \A i \in DOMAIN map.portals : map.portals[i] \in Nat /\ i \in Nat
  BY <1>b DEF MapOK, Map
<1>0. CASE UNCHANGED vars BY <1>a, <1>0 DEF SelOK, SelectionTracks, vars
<1>1. CASE Place BY <1>a, <1>b, <1>1, TameEdit DEF SelOK, SelectionTracks, Tame, Place
<1>2. CASE FirstPoint BY <1>a, <1>2 DEF SelOK, SelectionTracks, FirstPoint
<1>3. CASE CancelPoint BY <1>a, <1>3 DEF SelOK, SelectionTracks, CancelPoint
<1>4. CASE SecondPoint
  BY <1>a, <1>b, <1>4, FootholdAdded DEF SelOK, SelectionTracks, Flags, FootholdsOK,
    SecondPoint
<1>5. CASE EraseChain
  BY <1>a, <1>b, <1>5, ChainErased DEF SelOK, SelectionTracks, EraseChain
<1>6. CASE PickPortal BY <1>a, <1>c, <1>6 DEF SelOK, SelectionTracks, PickPortal
<1>7. CASE AddPortal BY <1>a, <1>b, <1>7, AddedPortal
<1>8. CASE DeletePortal BY <1>a, <1>b, <1>8, DeletedPortal
<1>9. CASE DragRect
  BY <1>a, <1>b, <1>9, TameEdit DEF SelOK, SelectionTracks, Tame, DragRect
<1>10. CASE AskSize BY <1>a, <1>10 DEF SelOK, SelectionTracks, AskSize
<1>11. CASE AskTarget BY <1>a, <1>11 DEF SelOK, SelectionTracks, AskTarget
<1>12. CASE CommitText
  BY <1>a, <1>b, <1>12, TameEdit DEF SelOK, SelectionTracks, Tame, CommitText
<1>13. CASE CancelText BY <1>a, <1>13 DEF SelOK, SelectionTracks, CancelText
<1>14. CASE AiFrame BY <1>a, <1>14 DEF SelOK, SelectionTracks, AiFrame
<1>15. CASE AiAccept
  BY <1>a, <1>b, <1>15, ShapeAdded DEF SelOK, SelectionTracks, AiAccept
<1>16. CASE AiRegenerate BY <1>a, <1>16 DEF SelOK, SelectionTracks, AiRegenerate
<1>17. CASE ChooseMode BY <1>a, <1>17 DEF SelOK, SelectionTracks, ChooseMode
<1>18. CASE ChooseRect BY <1>a, <1>18 DEF SelOK, SelectionTracks, ChooseRect
<1>19. CASE ToggleAi BY <1>a, <1>19 DEF SelOK, SelectionTracks, ToggleAi
<1>20. CASE ChooseBackground
  BY <1>a, <1>b, <1>20, TameEdit DEF SelOK, SelectionTracks, Tame, ChooseBackground
<1>21. CASE NewMap
  <2>1. sel' = 0 /\ picked' = 0 BY <1>b, <1>21, Created DEF NewMap, Fresh
  <2> QED BY <2>1 DEF SelOK, SelectionTracks
<1>22. CASE SaveMap BY <1>a, <1>22 DEF SelOK, SelectionTracks, SaveMap
<1>23. CASE SaveMapAs BY <1>a, <1>23 DEF SelOK, SelectionTracks, SaveMapAs
<1>24. CASE OpenMap
  <2>1. sel' = 0 /\ picked' = 0 BY <1>b, <1>24, Opened DEF OpenMap, Fresh
  <2> QED BY <2>1 DEF SelOK, SelectionTracks
<1>25. CASE Launch BY <1>a, <1>25 DEF SelOK, SelectionTracks, Launch
<1>26. CASE LeaveOther BY <1>a, <1>26 DEF SelOK, SelectionTracks, LeaveOther
<1>27. CASE StartNew
  <2>1. sel' = 0 /\ picked' = 0 BY <1>b, <1>27, Created DEF StartNew, Fresh
  <2> QED BY <2>1 DEF SelOK, SelectionTracks
<1>28. CASE StartOpen
  <2>1. CASE \E p \in Path : Readable(p) /\ Load(p)
    <3>1. sel' = 0 /\ picked' = 0 BY <1>b, <1>28, <2>1, Opened DEF StartOpen, Fresh
    <3> QED BY <3>1 DEF SelOK, SelectionTracks
  <2>2. CASE map' \in DefaultMaps(map) /\ sel' = sel /\ picked' = picked
    BY <1>a, <1>b, <2>2, DefaultEdit DEF SelOK, SelectionTracks
  <2> QED BY <1>28, <2>1, <2>2 DEF StartOpen
<1>29. CASE Leave BY <1>29 DEF Leave, ClosedEditor, SelOK, SelectionTracks
<1>30. CASE Over BY <1>a, <1>30 DEF SelOK, SelectionTracks, Over, vars
<1> QED
  BY <1>0, <1>1, <1>2, <1>3, <1>4, <1>5, <1>6, <1>7, <1>8, <1>9, <1>10,
     <1>11, <1>12, <1>13, <1>14, <1>15, <1>16, <1>17, <1>18, <1>19, <1>20,
     <1>21, <1>22, <1>23, <1>24, <1>25, <1>26, <1>27, <1>28, <1>29, <1>30
  DEF Next, Mouse, Typing, AiMode, Menus, Files, Screens

\* The screen's modes.
LEMMA ModesKept == IInv /\ [Next]_vars => (ModesAgree /\ AtRest)'
<1> SUFFICES ASSUME IInv, [Next]_vars PROVE (ModesAgree /\ AtRest)'
  OBVIOUS
<1> USE DEF EditOnly, TextOnly, ModeOnly, SetMode, SaveOnly, docs, tools, panel, history
<1>a. Flags /\ ModesAgree /\ AtRest /\ SelOK BY Parts
<1>b. DocsOK BY Parts, DocsParts
<1>c. DOMAIN map.portals = 1..Len(map.portals) BY <1>b DEF DocsOK, MapOK, Map
<1>0. CASE UNCHANGED vars BY <1>a, <1>0 DEF Flags, ModesAgree, AtRest, vars
<1>1. CASE Place
  BY <1>a, <1>1 DEF Flags, ModesAgree, AtRest, Place, Canvas, Idle, Screen
<1>2. CASE FirstPoint
  BY <1>a, <1>2 DEF Flags, ModesAgree, AtRest, FirstPoint, Canvas, Idle, Screen
<1>3. CASE CancelPoint
  BY <1>a, <1>3 DEF Flags, ModesAgree, AtRest, CancelPoint, Canvas, Idle, Screen
<1>4. CASE SecondPoint
  BY <1>a, <1>4 DEF Flags, ModesAgree, AtRest, SecondPoint, Canvas, Idle, Screen
<1>5. CASE EraseChain
  BY <1>a, <1>5 DEF Flags, ModesAgree, AtRest, EraseChain, Canvas, Idle, Screen
<1>6. CASE PickPortal
  BY <1>a, <1>6 DEF Flags, ModesAgree, AtRest, PickPortal, Canvas, Idle, Screen
<1>7. CASE AddPortal
  BY <1>a, <1>7 DEF Flags, ModesAgree, AtRest, AddPortal, Canvas, Idle, Screen
<1>8. CASE DeletePortal
  BY <1>a, <1>8 DEF Flags, ModesAgree, AtRest, DeletePortal, Canvas, Idle, Screen
<1>9. CASE DragRect
  BY <1>a, <1>9 DEF Flags, ModesAgree, AtRest, DragRect, Canvas, Idle, Screen
<1>10. CASE AskSize
  BY <1>a, <1>10 DEF Flags, ModesAgree, AtRest, AskSize, Canvas, Idle, Screen
<1>11. CASE AskTarget
  BY <1>a, <1>c, <1>11 DEF Flags, ModesAgree, AtRest, AskTarget, Canvas, Idle, Screen
<1>12. CASE CommitText
  BY <1>a, <1>12 DEF Flags, ModesAgree, AtRest, CommitText, Canvas, Idle, Screen
<1>13. CASE CancelText
  BY <1>a, <1>13 DEF Flags, ModesAgree, AtRest, CancelText, Canvas, Idle, Screen
<1>14. CASE AiFrame
  BY <1>a, <1>14 DEF Flags, ModesAgree, AtRest, AiFrame, Canvas, Idle, Screen
<1>15. CASE AiAccept
  BY <1>a, <1>15 DEF Flags, ModesAgree, AtRest, AiAccept, Canvas, Idle, Screen
<1>16. CASE AiRegenerate
  BY <1>a, <1>16 DEF Flags, ModesAgree, AtRest, AiRegenerate, Canvas, Idle, Screen
<1>17. CASE ChooseMode
  BY <1>a, <1>17 DEF Flags, ModesAgree, AtRest, ChooseMode, Canvas, Idle, Screen
<1>18. CASE ChooseRect
  BY <1>a, <1>18 DEF Flags, ModesAgree, AtRest, ChooseRect, Canvas, Idle, Screen
<1>19. CASE ToggleAi
  BY <1>a, <1>19 DEF Flags, ModesAgree, AtRest, ToggleAi, Canvas, Idle, Screen
<1>20. CASE ChooseBackground
  BY <1>a, <1>20 DEF Flags, ModesAgree, AtRest, ChooseBackground, Canvas, Idle, Screen
<1>21. CASE NewMap
  BY <1>a, <1>b, <1>21, Created DEF Flags, ModesAgree, AtRest, NewMap, Fresh, Idle,
    Screen
<1>22. CASE SaveMap
  BY <1>a, <1>22 DEF Flags, ModesAgree, AtRest, SaveMap, Canvas, Idle, Screen
<1>23. CASE SaveMapAs
  BY <1>a, <1>23 DEF Flags, ModesAgree, AtRest, SaveMapAs, Canvas, Idle, Screen
<1>24. CASE OpenMap
  BY <1>a, <1>b, <1>24, Opened DEF Flags, ModesAgree, AtRest, OpenMap, Fresh, Idle,
    Screen
<1>25. CASE Launch
  BY <1>a, <1>25 DEF Flags, ModesAgree, AtRest, Launch, Canvas, Idle, Screen
<1>26. CASE LeaveOther
  BY <1>a, <1>26 DEF Flags, ModesAgree, AtRest, LeaveOther, Canvas, Idle, Screen
<1>27. CASE StartNew
  BY <1>a, <1>b, <1>27, Created DEF Flags, ModesAgree, AtRest, StartNew, Fresh, Idle,
    Screen
<1>28. CASE StartOpen
  <2>1. CASE \E p \in Path : Readable(p) /\ Load(p)
    BY <1>a, <1>b, <1>28, <2>1, Opened DEF Flags, ModesAgree, AtRest, StartOpen, Fresh
  <2>2. CASE UNCHANGED <<path, mode, pending, sel>>
    BY <1>a, <1>28, <2>2 DEF Flags, ModesAgree, AtRest, StartOpen
  <2> QED BY <1>28, <2>1, <2>2 DEF StartOpen
<1>29. CASE Leave BY <1>a, <1>29 DEF Flags, ModesAgree, AtRest, Leave, ClosedEditor
<1>30. CASE Over BY <1>a, <1>30 DEF Flags, ModesAgree, AtRest, Over, vars
<1> QED
  BY <1>0, <1>1, <1>2, <1>3, <1>4, <1>5, <1>6, <1>7, <1>8, <1>9, <1>10,
     <1>11, <1>12, <1>13, <1>14, <1>15, <1>16, <1>17, <1>18, <1>19, <1>20,
     <1>21, <1>22, <1>23, <1>24, <1>25, <1>26, <1>27, <1>28, <1>29, <1>30
  DEF Next, Mouse, Typing, AiMode, Menus, Files, Screens

\* The snapshot and the file.
LEMMA SavedKept == IInv /\ [Next]_vars => CleanIsSaved'
<1> SUFFICES ASSUME IInv, [Next]_vars PROVE CleanIsSaved'
  OBVIOUS
<1> USE DEF EditOnly, TextOnly, ModeOnly, SetMode, SaveOnly, docs, tools, panel, history
<1>a. DocsOK /\ Backed /\ CleanIsSaved BY Parts, DocsParts, BackedParts
<1>b. NoPath \notin Path BY EditorAssumption DEF EditorAssumption
<1>0. CASE UNCHANGED vars BY <1>a, <1>0 DEF CleanIsSaved, Written, vars
<1>1. CASE Place BY <1>a, <1>1 DEF CleanIsSaved, Written, Place, Canvas, Idle, Screen
<1>2. CASE FirstPoint
  BY <1>a, <1>2 DEF CleanIsSaved, Written, FirstPoint, Canvas, Idle, Screen
<1>3. CASE CancelPoint
  BY <1>a, <1>3 DEF CleanIsSaved, Written, CancelPoint, Canvas, Idle, Screen
<1>4. CASE SecondPoint
  BY <1>a, <1>4 DEF CleanIsSaved, Written, SecondPoint, Canvas, Idle, Screen
<1>5. CASE EraseChain
  BY <1>a, <1>5 DEF CleanIsSaved, Written, EraseChain, Canvas, Idle, Screen
<1>6. CASE PickPortal
  BY <1>a, <1>6 DEF CleanIsSaved, Written, PickPortal, Canvas, Idle, Screen
<1>7. CASE AddPortal
  BY <1>a, <1>7 DEF CleanIsSaved, Written, AddPortal, Canvas, Idle, Screen
<1>8. CASE DeletePortal
  BY <1>a, <1>8 DEF CleanIsSaved, Written, DeletePortal, Canvas, Idle, Screen
<1>9. CASE DragRect
  BY <1>a, <1>9 DEF CleanIsSaved, Written, DragRect, Canvas, Idle, Screen
<1>10. CASE AskSize
  BY <1>a, <1>10 DEF CleanIsSaved, Written, AskSize, Canvas, Idle, Screen
<1>11. CASE AskTarget
  BY <1>a, <1>11 DEF CleanIsSaved, Written, AskTarget, Canvas, Idle, Screen
<1>12. CASE CommitText
  BY <1>a, <1>12 DEF CleanIsSaved, Written, CommitText, Canvas, Idle, Screen
<1>13. CASE CancelText
  BY <1>a, <1>13 DEF CleanIsSaved, Written, CancelText, Canvas, Idle, Screen
<1>14. CASE AiFrame
  BY <1>a, <1>14 DEF CleanIsSaved, Written, AiFrame, Canvas, Idle, Screen
<1>15. CASE AiAccept
  BY <1>a, <1>15 DEF CleanIsSaved, Written, AiAccept, Canvas, Idle, Screen
<1>16. CASE AiRegenerate
  BY <1>a, <1>16 DEF CleanIsSaved, Written, AiRegenerate, Canvas, Idle, Screen
<1>17. CASE ChooseMode
  BY <1>a, <1>17 DEF CleanIsSaved, Written, ChooseMode, Canvas, Idle, Screen
<1>18. CASE ChooseRect
  BY <1>a, <1>18 DEF CleanIsSaved, Written, ChooseRect, Canvas, Idle, Screen
<1>19. CASE ToggleAi
  BY <1>a, <1>19 DEF CleanIsSaved, Written, ToggleAi, Canvas, Idle, Screen
<1>20. CASE ChooseBackground
  BY <1>a, <1>20 DEF CleanIsSaved, Written, ChooseBackground, Canvas, Idle, Screen
<1>21. CASE NewMap BY <1>a, <1>21, Created, BackedParts DEF NewMap, Fresh
<1>22. CASE SaveMap BY <1>a, <1>b, <1>22, SaveKept, BackedParts DEF SaveMap
<1>23. CASE SaveMapAs BY <1>a, <1>23, Saved, BackedParts DEF SaveMapAs
<1>24. CASE OpenMap BY <1>a, <1>24, Opened, BackedParts DEF OpenMap, Fresh
<1>25. CASE Launch BY <1>25 DEF CleanIsSaved, Launch
<1>26. CASE LeaveOther BY <1>26 DEF CleanIsSaved, LeaveOther
<1>27. CASE StartNew BY <1>a, <1>27, Created, BackedParts DEF StartNew, Fresh
<1>28. CASE StartOpen
  <2>1. CASE \E p \in Path : Readable(p) /\ Load(p)
    BY <1>a, <1>28, <2>1, Opened, BackedParts DEF StartOpen, Fresh
  <2>2. CASE UNCHANGED <<clean, path, damaged>>
    <3>1. Backed' BY <1>a, <1>28, <2>2 DEF StartOpen, Backed, Written
    <3> QED BY <3>1, BackedParts
  <2> QED BY <1>28, <2>1, <2>2 DEF StartOpen
<1>29. CASE Leave BY <1>a, <1>29, Left DEF CleanIsSaved
<1>30. CASE Over BY <1>a, <1>30 DEF CleanIsSaved, Written, Over, vars
<1> QED
  BY <1>0, <1>1, <1>2, <1>3, <1>4, <1>5, <1>6, <1>7, <1>8, <1>9, <1>10,
     <1>11, <1>12, <1>13, <1>14, <1>15, <1>16, <1>17, <1>18, <1>19, <1>20,
     <1>21, <1>22, <1>23, <1>24, <1>25, <1>26, <1>27, <1>28, <1>29, <1>30
  DEF Next, Mouse, Typing, AiMode, Menus, Files, Screens

-----------------------------------------------------------------------------
(* The theorems.                                                           *)

LEMMA IInvInit == Init => IInv
<1> SUFFICES ASSUME Init PROVE IInv OBVIOUS
<1>1. MapOK(map) /\ map.fhs = {} /\ map.portals = <<>> BY EmptyOK DEF Init
<1>2. Flags /\ ModesAgree /\ AtRest BY DEF Init, Flags, ModesAgree, AtRest, Mode
<1>3. MapSafe BY <1>1 DEF Init, MapSafe
<1>4. DOMAIN map.portals = {} BY <1>1
<1>5. PortalsOK /\ FootholdsOK /\ SelOK
  BY <1>1, <1>4 DEF Init, PortalsOK, DistinctPortals, Below, FootholdsOK, Behind, SelOK,
                    SelectionTracks
<1>6. CleanIsSaved BY DEF Init, CleanIsSaved
<1>7. events \in 0..MaxEvents BY EditorAssumption DEF Init, EditorAssumption
<1>8. MapOK(Shipped) /\ Shipped \in Docs /\ DistinctPortals(Shipped)
  <2> DEFINE f == [id |-> 5, p1 |-> "c", p2 |-> "d"]
  <2>1. f \in Foothold BY EditorAssumption DEF EditorAssumption, Foothold
  <2> HIDE DEF f
  <2>2. {f} \in SUBSET Foothold /\ IsFiniteSet({f}) BY <2>1, FS_Singleton
  <2>3. <<3>> \in Seq(Nat) /\ DOMAIN <<3>> = {1} /\ 1 \in 0..1 OBVIOUS
  <2>4. Shipped = [fhs |-> {f}, portals |-> <<3>>, rest |-> 1, bg |-> "token"]
    BY DEF Shipped, f
  <2>5. Shipped \in Map /\ Shipped.fhs = {f} /\ Shipped.portals = <<3>> /\ Shipped.bg = "token"
    BY <2>2, <2>3, <2>4 DEF Map
  <2> QED BY <2>2, <2>3, <2>5 DEF MapOK, Docs, DistinctPortals
<1>9. DiskSafe
  <2>1. PICK p \in Path : disk = [q \in Path |-> IF q = p THEN Shipped ELSE Absent]
    BY DEF Init
  <2>2. DiskOK BY <1>8, <2>1 DEF DiskOK, FileOK
  <2> QED BY <2>2 DEF Init, DiskSafe
<1> QED BY <1>2, <1>3, <1>5, <1>6, <1>7, <1>9, Parts

LEMMA IInvStep == IInv /\ [Next]_vars => IInv'
<1> SUFFICES ASSUME IInv, [Next]_vars PROVE IInv' OBVIOUS
<1>1. Flags' /\ (events \in 0..MaxEvents)' /\ MapSafe' /\ DiskSafe'
  BY FlagsKept, EventsKept, MapKept, DiskKept
<1>2. PortalsOK' /\ FootholdsOK' /\ SelOK' BY PortalsKept, FootholdsKept, SelectionKept
<1>3. ModesAgree' /\ AtRest' /\ CleanIsSaved' BY ModesKept, SavedKept
<1> QED BY <1>1, <1>2, <1>3, Parts, PTL

\* The invariant of the editor, over every sequence of edits, files and
\* screens (MapEditor, MapEditorScreen, EditorApp).
THEOREM Invariant == Spec => []IInv
<1>1. Init => IInv BY IInvInit
<1>2. IInv /\ [Next]_vars => IInv' BY IInvStep
<1> QED BY <1>1, <1>2, PTL DEF Spec

\* Portal ids stay distinct and the next one is free; so are the footholds'
\* until something numbers them past the counter (MapEditor::RefreshNextIds).
THEOREM FreshIds == Spec => []IdsAreFresh
BY Invariant, PTL DEF IInv

\* Enter edits the portal that was selected last (MapEditor::UpdatePortal).
THEOREM Selection == Spec => []SelectionTracks
BY Invariant, PTL DEF IInv

\* A map that is not dirty is what its file says, unless the last write to
\* the file went wrong (MapEditor::IsDirty, Save, SaveAs, Load, CreateDefault).
THEOREM CleanMeansSaved == Spec => []CleanIsOnDisk
<1>1. IInv => CleanIsOnDisk
  BY DEF IInv, CleanIsSaved, CleanIsOnDisk, IsDirty
<1> QED BY <1>1, Invariant, PTL
================================================================================
