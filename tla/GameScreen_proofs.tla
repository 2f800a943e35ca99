--------------------------- MODULE GameScreen_proofs ---------------------------
(***************************************************************************)
(* The floors that hold and the map that is remembered, for any maps, any  *)
(* lengths of frames below the drop's and any number of presses and        *)
(* failures.                                                               *)
(***************************************************************************)
EXTENDS GameScreen, FiniteSetTheorems, WellFoundedInduction, TLAPS

-----------------------------------------------------------------------------
(* Finite sets of numbers.                                                 *)

\* A set of natural numbers has a least element.
LEMMA Least ==
  ASSUME NEW T \in SUBSET Nat, T # {}
  PROVE  \E n \in T : \A m \in T : n <= m
<1>1. PICK n \in T : \A m \in T : ~ (<<m, n>> \in OpToRel(<, Nat))
  BY WFMin, NatLessThanWellFounded
<1>2. \A m \in T : ~ (m < n) BY <1>1 DEF OpToRel
<1> QED BY <1>2

LowerEnd(S, n) == \A s \in S : n <= s

\* By the smallest set without one.
LEMMA FiniteMin ==
  ASSUME NEW S \in SUBSET Int, IsFiniteSet(S), S # {}
  PROVE  \E n \in S : LowerEnd(S, n)
<1> DEFINE Bad == {X \in SUBSET Int : IsFiniteSet(X) /\ X # {} /\ ~ \E n \in X : LowerEnd(X, n)}
           Ns == {Cardinality(X) : X \in Bad}
<1> SUFFICES ASSUME Bad # {} PROVE FALSE OBVIOUS
<1>1. Ns \in SUBSET Nat /\ Ns # {} BY FS_CardinalityType
<1>2. PICK k \in Ns : \A m \in Ns : k <= m
  <2> HIDE DEF Ns
  <2> QED BY <1>1, Least
<1>3. PICK X \in Bad : k = Cardinality(X) OBVIOUS
<1>4. PICK x \in X : x \in Int BY <1>3
<1> DEFINE Y == X \ {x}
<1>5. IsFiniteSet(Y) /\ Cardinality(Y) = k - 1 /\ k \in Nat /\ Y \in SUBSET Int
  BY <1>1, <1>3, <1>4, FS_RemoveElement
<1>6. Y \notin Bad BY <1>2, <1>5
<1>7. CASE Y = {}
  <2>1. LowerEnd(X, x) BY <1>4, <1>7 DEF LowerEnd
  <2> QED BY <1>3, <1>4, <2>1
<1>8. CASE Y # {}
  <2>1. PICK n \in Y : LowerEnd(Y, n) BY <1>5, <1>6, <1>8
  <2>2. n \in Int /\ n \in X BY <1>3, <2>1
  <2>3. CASE n <= x
    <3>1. LowerEnd(X, n) BY <1>4, <2>1, <2>2, <2>3 DEF LowerEnd
    <3> QED BY <1>3, <2>2, <3>1
  <2>4. CASE x < n
    <3>1. \A s \in Y : s \in Int BY <1>5
    <3>2. LowerEnd(X, x) BY <1>4, <2>1, <2>2, <2>4, <3>1 DEF LowerEnd
    <3> QED BY <1>3, <1>4, <3>2
  <2> QED BY <1>4, <2>2, <2>3, <2>4
<1> QED BY <1>7, <1>8

\* Min and Max are what they are called, on finite sets.
LEMMA MinFacts ==
  ASSUME NEW S \in SUBSET Int, IsFiniteSet(S), S # {}
  PROVE  Min(S) \in S /\ \A s \in S : Min(S) <= s
<1>1. \E n \in S : \A s \in S : n <= s BY FiniteMin DEF LowerEnd
<1> QED BY <1>1 DEF Min

LEMMA MaxFacts ==
  ASSUME NEW S \in SUBSET Int, IsFiniteSet(S), S # {}
  PROVE  Max(S) \in S /\ \A s \in S : s <= Max(S)
<1> DEFINE N == {-s : s \in S}
<1>1. IsFiniteSet(N)
  <2> DEFINE neg == [s \in S |-> -s]
  <2>1. neg \in Surjection(S, N) BY DEF Surjection
  <2> QED BY <2>1, FS_Surjection
<1>2. PICK n \in N : \A m \in N : n <= m
  <2>2. \A s \in S : s \in Int /\ -s \in Int OBVIOUS
  <2>1. N \in SUBSET Int /\ N # {} BY <2>2
  <2> HIDE DEF N
  <2> QED BY <1>1, <2>1, FiniteMin DEF LowerEnd
<1>3. PICK x \in S : n = -x BY <1>2
<1>4. ASSUME NEW s \in S PROVE x >= s
  <2>1. n <= -s BY <1>2
  <2> QED BY <1>3, <2>1
<1>5. \E y \in S : \A s \in S : y >= s BY <1>4
<1>6. Max(S) \in S /\ \A s \in S : Max(S) >= s BY <1>5 DEF Max
<1>7. \A s \in S : s \in Int /\ Max(S) \in Int BY <1>6
<1> QED BY <1>6, <1>7

LEMMA MinOfTwo ==
  ASSUME NEW a \in Int, NEW b \in Int
  PROVE  Min({a, b}) = IF a <= b THEN a ELSE b
<1>1. Min({a, b}) \in {a, b} /\ \A s \in {a, b} : Min({a, b}) <= s
  <2>1. \E n \in {a, b} : \A s \in {a, b} : n <= s OBVIOUS
  <2> QED BY <2>1 DEF Min
<1> QED BY <1>1

\* Of the indices with the least value there is a first, and a last.
LEMMA LeastBy ==
  ASSUME NEW C \in SUBSET Int, IsFiniteSet(C), C # {}, NEW Y \in [C -> Int]
  PROVE  /\ \E i \in C : \A j \in C : Y[i] < Y[j] \/ (Y[i] = Y[j] /\ i <= j)
         /\ \E i \in C : \A j \in C : Y[i] < Y[j] \/ (Y[i] = Y[j] /\ i >= j)
<1> DEFINE V == {Y[i] : i \in C}
<1>1. IsFiniteSet(V)
  <2>1. Y \in Surjection(C, V) BY DEF Surjection
  <2> QED BY <2>1, FS_Surjection
<1>2. V \in SUBSET Int /\ V # {} OBVIOUS
<1>3. PICK v \in V : \A w \in V : v <= w
  <2> HIDE DEF V
  <2> QED BY <1>1, <1>2, FiniteMin DEF LowerEnd
<1> DEFINE D == {i \in C : Y[i] = v}
<1>4. D \in SUBSET Int /\ D # {} /\ IsFiniteSet(D) BY <1>3, FS_Subset
<1>5. ASSUME NEW j \in C PROVE v < Y[j] \/ j \in D
  <2>1. v <= Y[j] /\ v \in Int /\ Y[j] \in Int BY <1>2, <1>3
  <2> QED BY <2>1
<1>6. Min(D) \in D /\ \A s \in D : Min(D) <= s
  <2> HIDE DEF D
  <2> QED BY <1>4, MinFacts
<1>7. Max(D) \in D /\ \A s \in D : s <= Max(D)
  <2> HIDE DEF D
  <2> QED BY <1>4, MaxFacts
<1>8. \A j \in C : Y[Min(D)] < Y[j] \/ (Y[Min(D)] = Y[j] /\ Min(D) <= j) BY <1>5, <1>6
<1>9. \A j \in D : Max(D) >= j
  <2>1. \A j \in D : j \in Int OBVIOUS
  <2> HIDE DEF D
  <2> QED BY <1>7, <2>1
<1>10. \A j \in C : Y[Max(D)] < Y[j] \/ (Y[Max(D)] = Y[j] /\ Max(D) >= j) BY <1>5, <1>7, <1>9
<1> QED BY <1>6, <1>7, <1>8, <1>10

-----------------------------------------------------------------------------
(* Footholds.                                                              *)

LEMMA LineFacts ==
  ASSUME NEW f \in Line, NEW x \in Int, ~IsWall(f), ContainsX(f, x)
  PROVE  /\ SurfaceY(f, x) \in Int
         /\ f.p1[2] = f.p2[2] => SurfaceY(f, x) = f.p1[2]
<1>1. f.p1 \in Int \X Int /\ f.p2 \in Int \X Int BY DEF Line, Point
<1>2. /\ f.p1[1] \in Int /\ f.p1[2] \in Int /\ f.p2[1] \in Int /\ f.p2[2] \in Int
  BY <1>1
<1> DEFINE a == (f.p2[2] - f.p1[2]) * (x - f.p1[1])
           c == f.p2[1] - f.p1[1]
<1>3. c \in Int /\ c > 0 BY <1>2 DEF IsWall, ContainsX
<1>4. a \in Int BY <1>2
<1>5. \A n, d \in Int : d > 0 => n \div d \in Int /\ 0 \div d = 0 OBVIOUS
<1>6. a \div c \in Int BY <1>3, <1>4, <1>5
<1>7. SurfaceY(f, x) = f.p1[2] + a \div c BY DEF SurfaceY
<1>8. ASSUME f.p1[2] = f.p2[2] PROVE a \div c = 0
  <2>1. a = 0 BY <1>2, <1>8
  <2> HIDE DEF a, c
  <2> QED BY <1>3, <1>5, <2>1
<1> HIDE DEF a, c
<1> QED BY <1>2, <1>6, <1>7, <1>8

LEMMA FloorsFacts ==
  ASSUME NEW fhs \in Seq(Line), NEW x \in Int, NEW C \in SUBSET Floors(fhs, x)
  PROVE  /\ C \in SUBSET Int /\ IsFiniteSet(C)
         /\ \A i \in C : /\ i # 0 /\ i \in DOMAIN fhs /\ fhs[i] \in Line
                         /\ ~IsWall(fhs[i]) /\ ContainsX(fhs[i], x)
                         /\ SurfaceY(fhs[i], x) \in Int
<1>1. DOMAIN fhs = 1..Len(fhs) /\ Len(fhs) \in Nat OBVIOUS
<1>2. C \in SUBSET (1..Len(fhs)) BY <1>1 DEF Floors
<1>3. IsFiniteSet(C)
  <2>1. IsFiniteSet(1..Len(fhs)) BY <1>1, FS_Interval
  <2> QED BY <1>2, <2>1, FS_Subset
<1>4. ASSUME NEW i \in C
      PROVE  /\ i # 0 /\ i \in DOMAIN fhs /\ fhs[i] \in Line
             /\ ~IsWall(fhs[i]) /\ ContainsX(fhs[i], x)
             /\ SurfaceY(fhs[i], x) \in Int
  <2>1. i \in DOMAIN fhs /\ i # 0 BY <1>1, <1>2
  <2>2. fhs[i] \in Line BY <2>1
  <2>3. ~IsWall(fhs[i]) /\ ContainsX(fhs[i], x) BY DEF Floors
  <2> QED BY <2>1, <2>2, <2>3, LineFacts
<1>5. C \in SUBSET Int BY <1>1, <1>2
<1> QED BY <1>3, <1>4, <1>5

\* The landing is on a floor that was crossed, and none crossed is higher.
LEMMA LandingFacts ==
  ASSUME NEW fhs \in Seq(Line), NEW x \in Int, NEW prevY \in Int, NEW newY \in Int
  PROVE  LET i == FindLanding(fhs, x, prevY, newY)
             Crossed(j) == /\ prevY <= SurfaceY(fhs[j], x) + LandingEps
                           /\ newY >= SurfaceY(fhs[j], x)
         IN  /\ i # 0 => i \in Floors(fhs, x) /\ Crossed(i)
             /\ \A j \in Floors(fhs, x) : Crossed(j) =>
                  i # 0 /\ SurfaceY(fhs[i], x) <= SurfaceY(fhs[j], x)
<1> DEFINE Crossed(j) == /\ prevY <= SurfaceY(fhs[j], x) + LandingEps
                         /\ newY >= SurfaceY(fhs[j], x)
           C == {j \in Floors(fhs, x) : Crossed(j)}
           Y == [j \in C |-> SurfaceY(fhs[j], x)]
           Best(k) == \A j \in C : SurfaceY(fhs[k], x) < SurfaceY(fhs[j], x)
                        \/ (SurfaceY(fhs[k], x) = SurfaceY(fhs[j], x) /\ k <= j)
           i == FindLanding(fhs, x, prevY, newY)
<1>1. C \in SUBSET Floors(fhs, x) OBVIOUS
<1>2. i = IF C = {} THEN 0 ELSE CHOOSE k \in C : Best(k) BY DEF FindLanding
<1>3. /\ C \in SUBSET Int /\ IsFiniteSet(C)
      /\ \A j \in C : j # 0 /\ SurfaceY(fhs[j], x) \in Int
  <2> HIDE DEF C
  <2> QED BY <1>1, FloorsFacts
<1>4. ASSUME C # {} PROVE i \in C /\ Best(i)
  <2>1. Y \in [C -> Int] BY <1>3
  <2>2. PICK k \in C : \A j \in C : Y[k] < Y[j] \/ (Y[k] = Y[j] /\ k <= j)
    <3> HIDE DEF C, Y
    <3> QED BY <1>3, <1>4, <2>1, LeastBy
  <2>3. Best(k) BY <2>2
  <2> HIDE DEF Best, C
  <2> QED BY <1>2, <1>4, <2>2, <2>3
<1>5. ASSUME NEW j \in C PROVE i # 0 /\ SurfaceY(fhs[i], x) <= SurfaceY(fhs[j], x)
  <2>1. i \in C /\ Best(i) BY <1>4
  <2>2. SurfaceY(fhs[i], x) \in Int /\ SurfaceY(fhs[j], x) \in Int /\ i # 0 BY <1>3, <2>1
  <2> HIDE DEF i, C
  <2> QED BY <2>1, <2>2
<1>6. i # 0 => i \in Floors(fhs, x) /\ Crossed(i) BY <1>2, <1>4
<1>7. \A j \in Floors(fhs, x) : Crossed(j) => i # 0 /\ SurfaceY(fhs[i], x) <= SurfaceY(fhs[j], x)
  <2> HIDE DEF i
  <2> QED BY <1>5
<1> QED BY <1>6, <1>7

\* The ground is within the tolerance, and no surface is nearer.
Dist(a, b) == IF a >= b THEN a - b ELSE b - a

LEMMA GroundFacts ==
  ASSUME NEW fhs \in Seq(Line), NEW x \in Int, NEW y \in Int, NEW tol \in Int
  PROVE  LET i == GroundAt(fhs, x, y, tol)
         IN  /\ i # 0 => i \in Floors(fhs, x) /\ Dist(SurfaceY(fhs[i], x), y) <= tol
             /\ \A j \in Floors(fhs, x) : i # 0 =>
                  \/ Dist(SurfaceY(fhs[j], x), y) > tol
                  \/ Dist(SurfaceY(fhs[i], x), y) <= Dist(SurfaceY(fhs[j], x), y)
<1> DEFINE Dy(j) == Dist(SurfaceY(fhs[j], x), y)
           C == {j \in Floors(fhs, x) : Dy(j) <= tol}
           Y == [j \in C |-> Dy(j)]
           Best(k) == \A j \in C : Dy(k) < Dy(j) \/ (Dy(k) = Dy(j) /\ k >= j)
           i == GroundAt(fhs, x, y, tol)
<1>1. C \in SUBSET Floors(fhs, x) OBVIOUS
<1>2. i = IF C = {} THEN 0 ELSE CHOOSE k \in C : Best(k) BY DEF GroundAt, Dist
<1>3. C \in SUBSET Int /\ IsFiniteSet(C) /\ \A j \in C : j # 0
  <2> HIDE DEF C
  <2> QED BY <1>1, FloorsFacts
<1>4. \A j \in Floors(fhs, x) : Dy(j) \in Int
  <2>1. ASSUME NEW j \in Floors(fhs, x) PROVE SurfaceY(fhs[j], x) \in Int
    <3>1. {j} \in SUBSET Floors(fhs, x) OBVIOUS
    <3> HIDE DEF Dy, C, Y, i
    <3> QED BY <3>1, FloorsFacts
  <2>2. ASSUME NEW j \in Floors(fhs, x) PROVE Dy(j) \in Int
    <3> DEFINE a == SurfaceY(fhs[j], x)
    <3>1. a \in Int BY <2>1
    <3> HIDE DEF a
    <3>2. Dist(a, y) \in Int BY <3>1 DEF Dist
    <3> QED BY <3>2 DEF a
  <2> QED BY <2>2
<1>5. ASSUME C # {} PROVE i \in C /\ Best(i)
  <2>1. Y \in [C -> Int] BY <1>4
  <2>2. PICK k \in C : \A j \in C : Y[k] < Y[j] \/ (Y[k] = Y[j] /\ k >= j)
    <3> HIDE DEF C, Y
    <3> QED BY <1>3, <1>5, <2>1, LeastBy
  <2>3. Best(k) BY <2>2
  <2> HIDE DEF Best, C
  <2> QED BY <1>2, <1>5, <2>2, <2>3
<1>6. i # 0 => i \in C /\ Best(i)
  <2> HIDE DEF C, Best
  <2> QED BY <1>2, <1>5
<1>7. ASSUME i # 0, NEW j \in Floors(fhs, x) PROVE Dy(j) > tol \/ Dy(i) <= Dy(j)
  <2>1. Dy(i) \in Int /\ Dy(j) \in Int BY <1>4, <1>6, <1>7
  <2>2. CASE j \in C BY <1>6, <1>7, <2>1, <2>2
  <2>3. CASE j \notin C
    <3>1. ~(Dy(j) <= tol) BY <2>3
    <3> HIDE DEF Dy
    <3> QED BY <2>1, <3>1
  <2> QED BY <2>2, <2>3
<1>8. i # 0 => i \in Floors(fhs, x) /\ Dy(i) <= tol
  <2> HIDE DEF i
  <2> QED BY <1>6
<1> QED BY <1>7, <1>8

\* A wall stops a body between where it was and where it would be.
LEMMA BlockFacts ==
  ASSUME NEW fhs \in Seq(Line), NEW prevX \in Int, NEW newX \in Int, NEW halfW \in Int,
         NEW topY, NEW bottomY
  PROVE  LET stop == BlockHorizontal(fhs, prevX, newX, halfW, topY, bottomY)
         IN  /\ stop \in Int
             /\ (prevX <= stop /\ stop <= newX) \/ (newX <= stop /\ stop <= prevX)
<1> DEFINE walls == {fhs[i] : i \in {j \in DOMAIN fhs : IsWall(fhs[j])}}
           beside == {f.p1[1] : f \in {g \in walls :
                        /\ bottomY > Min({g.p1[2], g.p2[2]})
                        /\ topY < Max({g.p1[2], g.p2[2]})}}
           right == {w - halfW : w \in
                       {u \in beside : prevX + halfW <= u /\ newX + halfW > u}}
           left == {w + halfW : w \in
                      {u \in beside : newX < prevX /\ prevX - halfW >= u /\ newX - halfW < u}}
           stop == BlockHorizontal(fhs, prevX, newX, halfW, topY, bottomY)
<1>1. DOMAIN fhs = 1..Len(fhs) /\ Len(fhs) \in Nat OBVIOUS
<1>2. IsFiniteSet(walls) /\ walls \in SUBSET Line
  <2> DEFINE D == {j \in DOMAIN fhs : IsWall(fhs[j])}
             g == [i \in D |-> fhs[i]]
  <2>1. IsFiniteSet(1..Len(fhs)) BY <1>1, FS_Interval
  <2>2. IsFiniteSet(D) BY <1>1, <2>1, FS_Subset
  <2>3. g \in Surjection(D, walls) BY DEF Surjection
  <2>4. IsFiniteSet(walls)
    <3> HIDE DEF D, walls, g
    <3> QED BY <2>2, <2>3, FS_Surjection
  <2> QED BY <2>4
<1>3. IsFiniteSet(beside) /\ beside \in SUBSET Int
  <2> DEFINE D == {g \in walls : /\ bottomY > Min({g.p1[2], g.p2[2]})
                                 /\ topY < Max({g.p1[2], g.p2[2]})}
             h == [f \in D |-> f.p1[1]]
  <2>1. D \in SUBSET walls OBVIOUS
  <2>2. h \in Surjection(D, beside) BY DEF Surjection
  <2>3. beside \in SUBSET Int
    <3>1. \A f \in D : f.p1[1] \in Int
      <4>1. \A f \in D : f \in Line BY <1>2, <2>1
      <4>2. \A f \in Line : f.p1[1] \in Int BY DEF Line, Point
      <4> QED BY <4>1, <4>2
    <3>2. beside = {f.p1[1] : f \in D} OBVIOUS
    <3> HIDE DEF D, beside
    <3> QED BY <3>1, <3>2
  <2>4. IsFiniteSet(beside)
    <3> HIDE DEF D, walls, h, beside
    <3>1. IsFiniteSet(D) BY <1>2, <2>1, FS_Subset
    <3> QED BY <2>2, <3>1, FS_Surjection
  <2> QED BY <2>3, <2>4
<1>4. stop = IF newX > prevX THEN Min({newX} \cup right) ELSE Max({newX} \cup left)
  BY DEF BlockHorizontal
<1> HIDE DEF walls, beside
<1>5. /\ IsFiniteSet({newX} \cup right) /\ {newX} \cup right \in SUBSET Int
      /\ \A w \in right : prevX <= w
  <2> DEFINE D == {u \in beside : prevX + halfW <= u /\ newX + halfW > u}
             h == [w \in D |-> w - halfW]
  <2>1. D \in SUBSET beside OBVIOUS
  <2>2. h \in Surjection(D, right) BY DEF Surjection
  <2>3. IsFiniteSet(D) BY <1>3, <2>1, FS_Subset
  <2>4. \A w \in D : w - halfW \in Int /\ prevX <= w - halfW BY <1>3
  <2>5. right \in SUBSET Int /\ \A w \in right : prevX <= w BY <2>4
  <2> HIDE DEF D, h, right
  <2>6. IsFiniteSet(right) BY <2>2, <2>3, FS_Surjection
  <2>7. IsFiniteSet({newX}) BY FS_Singleton
  <2>8. IsFiniteSet({newX} \cup right) BY <2>6, <2>7, FS_Union
  <2> QED BY <2>5, <2>8
<1>6. /\ IsFiniteSet({newX} \cup left) /\ {newX} \cup left \in SUBSET Int
      /\ \A w \in left : w <= prevX
  <2> DEFINE D == {u \in beside : newX < prevX /\ prevX - halfW >= u /\ newX - halfW < u}
             h == [w \in D |-> w + halfW]
  <2>1. D \in SUBSET beside OBVIOUS
  <2>2. h \in Surjection(D, left) BY DEF Surjection
  <2>3. IsFiniteSet(D) BY <1>3, <2>1, FS_Subset
  <2>4. \A w \in D : w + halfW \in Int /\ w + halfW <= prevX BY <1>3
  <2>5. left \in SUBSET Int /\ \A w \in left : w <= prevX BY <2>4
  <2> HIDE DEF D, h, left
  <2>6. IsFiniteSet(left) BY <2>2, <2>3, FS_Surjection
  <2>7. IsFiniteSet({newX}) BY FS_Singleton
  <2>8. IsFiniteSet({newX} \cup left) BY <2>6, <2>7, FS_Union
  <2> QED BY <2>5, <2>8
<1> HIDE DEF right, left, stop
<1>7. CASE newX > prevX
  <2> DEFINE S == {newX} \cup right
  <2>1. S \in SUBSET Int /\ IsFiniteSet(S) /\ S # {} BY <1>5
  <2>2. newX \in S /\ \A w \in S : prevX <= w BY <1>5, <1>7
  <2> HIDE DEF S
  <2>3. Min(S) \in S /\ \A s \in S : Min(S) <= s BY <2>1, MinFacts
  <2>4. stop = Min(S) BY <1>4, <1>7 DEF S
  <2> QED BY <2>1, <2>2, <2>3, <2>4 DEF stop
<1>8. CASE ~(newX > prevX)
  <2> DEFINE S == {newX} \cup left
  <2>1. S \in SUBSET Int /\ IsFiniteSet(S) /\ S # {} BY <1>6
  <2>2. newX \in S /\ \A w \in S : w <= prevX BY <1>6, <1>8
  <2> HIDE DEF S
  <2>3. Max(S) \in S /\ \A s \in S : s <= Max(S) BY <2>1, MaxFacts
  <2>4. stop = Max(S) BY <1>4, <1>8 DEF S
  <2> QED BY <2>1, <2>2, <2>3, <2>4 DEF stop
<1> QED BY <1>7, <1>8

-----------------------------------------------------------------------------
(* The stages of a frame.                                                  *)

Slow(b) == b.vel[1] \in -WalkSpeed..WalkSpeed
AtRest(b) == b.grounded => b.vel[2] = 0
Input == [move : -1..1, jump : BOOLEAN, drop : BOOLEAN]

LEMMA BodyFacts ==
  ASSUME NEW b \in Body
  PROVE  /\ b.pos \in Point /\ b.pos = <<b.pos[1], b.pos[2]>> /\ b.pos[1] \in Int /\ b.pos[2] \in Int
         /\ b.vel \in Point /\ b.vel = <<b.vel[1], b.vel[2]>> /\ b.vel[1] \in Int /\ b.vel[2] \in Int
         /\ b.grounded \in BOOLEAN /\ b.on \in Int /\ b.drop \in Int
<1>1. b.pos \in Int \X Int /\ b.vel \in Int \X Int BY DEF Body, Point
<1>2. b.grounded \in BOOLEAN /\ b.on \in Int /\ b.drop \in Int BY DEF Body
<1> QED BY <1>1, <1>2 DEF Point

\* What a body is after one field of it has changed,
LEMMA SetGrounded ==
  ASSUME NEW b \in Body, NEW n \in BOOLEAN, NEW c, c = [b EXCEPT !.grounded = n]
  PROVE  c \in Body /\ c.grounded = n /\ c.pos = b.pos /\ c.vel = b.vel /\ c.drop = b.drop
BY DEF Body

LEMMA SetOn ==
  ASSUME NEW b \in Body, NEW n \in Int, NEW c, c = [b EXCEPT !.on = n]
  PROVE  c \in Body /\ c.grounded = b.grounded /\ c.pos = b.pos /\ c.vel = b.vel /\ c.drop = b.drop
BY DEF Body

LEMMA SetDrop ==
  ASSUME NEW b \in Body, NEW n \in Int, NEW c, c = [b EXCEPT !.drop = n]
  PROVE  c \in Body /\ c.grounded = b.grounded /\ c.pos = b.pos /\ c.vel = b.vel /\ c.drop = n
BY DEF Body

LEMMA SetVel1 ==
  ASSUME NEW b \in Body, NEW n \in Int, NEW c, c = [b EXCEPT !.vel[1] = n]
  PROVE  /\ c \in Body /\ c.grounded = b.grounded /\ c.pos = b.pos /\ c.drop = b.drop
         /\ c.vel[1] = n /\ c.vel[2] = b.vel[2]
BY DEF Body, Point

LEMMA SetVel2 ==
  ASSUME NEW b \in Body, NEW n \in Int, NEW c, c = [b EXCEPT !.vel[2] = n]
  PROVE  /\ c \in Body /\ c.grounded = b.grounded /\ c.pos = b.pos /\ c.drop = b.drop
         /\ c.vel[1] = b.vel[1] /\ c.vel[2] = n
BY DEF Body, Point

LEMMA SetPos1 ==
  ASSUME NEW b \in Body, NEW n \in Int, NEW c, c = [b EXCEPT !.pos[1] = n]
  PROVE  /\ c \in Body /\ c.grounded = b.grounded /\ c.vel = b.vel /\ c.drop = b.drop
         /\ c.pos[1] = n /\ c.pos[2] = b.pos[2]
BY DEF Body, Point

LEMMA SetPos2 ==
  ASSUME NEW b \in Body, NEW n \in Int, NEW c, c = [b EXCEPT !.pos[2] = n]
  PROVE  /\ c \in Body /\ c.grounded = b.grounded /\ c.vel = b.vel /\ c.drop = b.drop
         /\ c.pos[1] = b.pos[1] /\ c.pos[2] = n
BY DEF Body, Point

LEMMA SetPos ==
  ASSUME NEW b \in Body, NEW n \in Point, NEW c, c = [b EXCEPT !.pos = n]
  PROVE  /\ c \in Body /\ c.grounded = b.grounded /\ c.vel = b.vel /\ c.drop = b.drop
         /\ c.pos = n
BY DEF Body, Point

\* and after the changes that stages make.
LEMMA Lifted ==
  ASSUME NEW b \in Body
  PROVE  LET c == [b EXCEPT !.grounded = FALSE, !.on = 0]
         IN  c \in Body /\ ~c.grounded /\ c.pos = b.pos /\ c.vel = b.vel /\ c.drop = b.drop
<1> DEFINE e == [b EXCEPT !.grounded = FALSE]
           c == [b EXCEPT !.grounded = FALSE, !.on = 0]
<1>1. e \in Body /\ ~e.grounded /\ e.pos = b.pos /\ e.vel = b.vel /\ e.drop = b.drop
  BY SetGrounded
<1>2. c = [e EXCEPT !.on = 0] OBVIOUS
<1> HIDE DEF e, c
<1>3. c \in Body /\ ~c.grounded /\ c.pos = b.pos /\ c.vel = b.vel /\ c.drop = b.drop
  BY <1>1, <1>2, SetOn
<1> QED BY <1>3 DEF c

DropTo(b, n, k) == [b EXCEPT !.grounded = FALSE, !.on = 0, !.drop = k, !.pos[2] = n]

LEMMA DroppedFacts ==
  ASSUME NEW b \in Body, NEW n \in Int, NEW k \in Int
  PROVE  /\ DropTo(b, n, k) \in Body /\ ~DropTo(b, n, k).grounded
         /\ DropTo(b, n, k).pos[1] = b.pos[1]
         /\ DropTo(b, n, k).vel = b.vel /\ DropTo(b, n, k).drop = k
<1> DEFINE e == [b EXCEPT !.grounded = FALSE, !.on = 0]
           f == [e EXCEPT !.drop = k]
           c == [b EXCEPT !.grounded = FALSE, !.on = 0, !.drop = k, !.pos[2] = n]
<1>1. e \in Body /\ ~e.grounded /\ e.pos = b.pos /\ e.vel = b.vel /\ e.drop = b.drop
  BY Lifted
<1>2. c = [f EXCEPT !.pos[2] = n] OBVIOUS
<1> HIDE DEF e
<1>3. f \in Body /\ ~f.grounded /\ f.pos = b.pos /\ f.vel = b.vel /\ f.drop = k
  BY <1>1, SetDrop
<1> HIDE DEF f, c
<1>4. /\ c \in Body /\ ~c.grounded /\ c.pos[1] = b.pos[1] /\ c.pos[2] = n
      /\ c.vel = b.vel /\ c.drop = k
  BY <1>2, <1>3, SetPos2
<1> QED BY <1>4 DEF c, DropTo

LEMMA JumpedFacts ==
  ASSUME NEW b \in Body, NEW n \in Int
  PROVE  LET c == [b EXCEPT !.vel[2] = n, !.grounded = FALSE, !.on = 0] IN
         /\ c \in Body /\ ~c.grounded /\ c.pos = b.pos /\ c.vel[1] = b.vel[1]
         /\ c.drop = b.drop
<1> DEFINE e == [b EXCEPT !.vel[2] = n]
           c == [b EXCEPT !.vel[2] = n, !.grounded = FALSE, !.on = 0]
<1>1. e \in Body /\ e.pos = b.pos /\ e.vel[1] = b.vel[1] /\ e.drop = b.drop
  BY SetVel2
<1>2. c = [e EXCEPT !.grounded = FALSE, !.on = 0] OBVIOUS
<1> HIDE DEF e
<1>3. /\ c \in Body /\ ~c.grounded /\ c.pos = b.pos /\ c.vel[1] = b.vel[1]
      /\ c.drop = b.drop
  <2> HIDE DEF c
  <2> QED BY <1>1, <1>2, Lifted
<1> QED BY <1>3 DEF c

LEMMA StandOnFacts ==
  ASSUME NEW b \in Body, NEW f \in Line, SurfaceY(f, b.pos[1]) \in Int
  PROVE  /\ StandOn(b, f) \in Body /\ StandOn(b, f).vel[1] = b.vel[1] /\ StandOn(b, f).vel[2] = 0
         /\ StandOn(b, f).pos[1] = b.pos[1] /\ StandOn(b, f).pos[2] = SurfaceY(f, b.pos[1])
         /\ StandOn(b, f).drop = b.drop
<1> DEFINE y == SurfaceY(f, b.pos[1])
           n == f.id
           p == [b EXCEPT !.pos[2] = y]
           v == [p EXCEPT !.vel[2] = 0]
           g == [v EXCEPT !.grounded = TRUE]
           c == [b EXCEPT !.pos[2] = y, !.vel[2] = 0, !.grounded = TRUE, !.on = n]
<1>1. StandOn(b, f) = c BY DEF StandOn
<1>2. n \in Int /\ y \in Int BY DEF Line
<1> HIDE DEF y, n
<1>3. c = [g EXCEPT !.on = n] OBVIOUS
<1>4. /\ p \in Body /\ p.vel = b.vel /\ p.drop = b.drop
      /\ p.pos[1] = b.pos[1] /\ p.pos[2] = y
  BY <1>2, SetPos2
<1> HIDE DEF p, c
<1>5. /\ v \in Body /\ v.pos = p.pos /\ v.drop = b.drop
      /\ v.vel[1] = b.vel[1] /\ v.vel[2] = 0
  <2>1. v = [p EXCEPT !.vel[2] = 0] /\ 0 \in Int OBVIOUS
  <2> HIDE DEF v
  <2>2. v \in Body /\ v.pos = p.pos /\ v.drop = p.drop /\ v.vel[1] = p.vel[1] /\ v.vel[2] = 0
    BY <1>4, <2>1, SetVel2
  <2> QED BY <1>4, <2>2
<1> HIDE DEF v
<1>6. g \in Body /\ g.pos = v.pos /\ g.vel = v.vel /\ g.drop = b.drop
  <2>1. g = [v EXCEPT !.grounded = TRUE] /\ TRUE \in BOOLEAN OBVIOUS
  <2> HIDE DEF g
  <2> QED BY <1>5, <2>1 DEF Body
<1> HIDE DEF g
<1>7. c \in Body /\ c.pos = g.pos /\ c.vel = g.vel /\ c.drop = b.drop BY <1>2, <1>3, <1>6, SetOn
<1> QED BY <1>1, <1>4, <1>5, <1>6, <1>7 DEF y

LEMMA ClampedXFacts ==
  ASSUME NEW b \in Body, Slow(b), NEW lo \in Int, NEW hi \in Int
  PROVE  LET c == ClampedX(b, lo, hi)
         IN  /\ c \in Body /\ c.vel[1] \in {0, b.vel[1]} /\ c.vel[2] = b.vel[2]
             /\ c.grounded = b.grounded /\ c.drop = b.drop
             /\ c.pos[1] = Clamp(b.pos[1], lo, hi) /\ c.pos[2] = b.pos[2]
<1> DEFINE x == Clamp(b.pos[1], lo, hi)
           w == IF (b.pos[1] < lo /\ b.vel[1] < 0) \/ (b.pos[1] > hi /\ b.vel[1] > 0)
                         THEN 0 ELSE b.vel[1]
           p == [b EXCEPT !.pos[1] = x]
           c == [b EXCEPT !.pos[1] = x, !.vel[1] = w]
<1>1. ClampedX(b, lo, hi) = c BY DEF ClampedX
<1>2. x \in Int /\ w \in Int /\ w \in {0, b.vel[1]}
  BY DEF Clamp, Body, Point
<1> HIDE DEF x, w
<1>3. c = [p EXCEPT !.vel[1] = w] OBVIOUS
<1>4. /\ p \in Body /\ p.vel = b.vel /\ p.drop = b.drop /\ p.grounded = b.grounded
      /\ p.pos[1] = x /\ p.pos[2] = b.pos[2]
  BY <1>2, SetPos1
<1> HIDE DEF p, c
<1>5. /\ c \in Body /\ c.pos = p.pos /\ c.drop = b.drop /\ c.grounded = b.grounded
      /\ c.vel[1] = w /\ c.vel[2] = b.vel[2]
  <2>1. /\ c \in Body /\ c.pos = p.pos /\ c.drop = p.drop /\ c.grounded = p.grounded
        /\ c.vel[1] = w /\ c.vel[2] = p.vel[2]
    BY <1>2, <1>3, <1>4, SetVel1, SMTT(30)
  <2> QED BY <1>4, <2>1
<1> QED BY <1>1, <1>2, <1>4, <1>5 DEF x

LEMMA WalkedXFacts ==
  ASSUME NEW b \in Body, Slow(b), NEW m \in -1..1, NEW k \in Nat
  PROVE  WalkedX(b, m, k) \in -WalkSpeed..WalkSpeed
<1> DEFINE v == b.vel[1]
           fr == (Friction * k) \div 100
           ga == (WalkAccel * k) \div 100
           aa == (AirAccel * k) \div 100
<1>1. v \in -260..260 BY DEF Slow, WalkSpeed
<1>2. fr \in Nat /\ ga \in Nat /\ aa \in Nat BY DEF Friction, WalkAccel, AirAccel
<1> HIDE DEF v, fr, ga, aa
<1>3. \A n \in Int : Clamp(n, -260, 260) \in -260..260 BY DEF Clamp
<1>4. m * ga \in Int /\ m * aa \in Int
  <2>1. m = -1 \/ m = 0 \/ m = 1 OBVIOUS
  <2> QED BY <1>2, <2>1
<1>5. v + m * ga \in Int /\ v + m * aa \in Int BY <1>1, <1>4
<1>6. CASE m # 0
  <2>1. WalkedX(b, m, k) = Clamp(v + m * (IF b.grounded THEN ga ELSE aa), -260, 260)
    BY <1>6 DEF WalkedX, WalkSpeed, v, ga, aa
  <2> QED BY <1>3, <1>5, <2>1 DEF WalkSpeed
<1>7. CASE m = 0
  <2>1. WalkedX(b, m, k) = IF ~b.grounded THEN v
                           ELSE IF v > fr THEN v - fr ELSE IF v < -fr THEN v + fr ELSE 0
    BY <1>7 DEF WalkedX, v, fr
  <2>2. (v > fr => v - fr \in -260..260) /\ (v < -fr => v + fr \in -260..260) BY <1>1, <1>2
  <2> QED BY <1>1, <2>1, <2>2 DEF WalkSpeed
<1> QED BY <1>6, <1>7

\* What the body is before it moves.
Left(b, in, k) ==
  Fallen(Jumped(TimerRun(Dropped([b EXCEPT !.vel[1] = WalkedX(b, in.move, k)], in.drop), k),
                in.jump), k)

\* Its place is changed by a drop only, which outlasts the frame; and who
\* stands on has not jumped.
LEMMA LeftFacts ==
  ASSUME NEW b \in Body, Slow(b), AtRest(b), NEW in \in Input, NEW k \in 1..(DropTime - 1)
  PROVE  LET l == Left(b, in, k)
         IN  /\ l \in Body /\ Slow(l) /\ AtRest(l)
             /\ l.pos[1] = b.pos[1]
             /\ l.drop <= 0 => l.pos[2] = b.pos[2]
             /\ ~in.drop /\ b.drop <= 0 => l.drop <= 0
<1>1. k \in Nat /\ 0 < k /\ k < DropTime /\ DropTime = 18 BY DEF DropTime
<1>2. in.move \in -1..1 /\ in.jump \in BOOLEAN /\ in.drop \in BOOLEAN BY DEF Input
<1> DEFINE a == [b EXCEPT !.vel[1] = WalkedX(b, in.move, k)]
           d == Dropped(a, in.drop)
           t == TimerRun(d, k)
           j == Jumped(t, in.jump)
           l == Fallen(j, k)
<1>3. /\ a \in Body /\ Slow(a) /\ AtRest(a) /\ a.pos = b.pos /\ a.drop = b.drop
  <2>1. WalkedX(b, in.move, k) \in -WalkSpeed..WalkSpeed BY <1>1, <1>2, WalkedXFacts
  <2>2. WalkedX(b, in.move, k) \in Int BY <2>1 DEF WalkSpeed
  <2>3. /\ a \in Body /\ a.pos = b.pos /\ a.drop = b.drop /\ a.grounded = b.grounded
        /\ a.vel[1] = WalkedX(b, in.move, k) /\ a.vel[2] = b.vel[2]
    BY <2>2, SetVel1
  <2> QED BY <2>1, <2>3 DEF Slow, AtRest
<1> HIDE DEF a
<1>4. /\ d \in Body /\ Slow(d) /\ AtRest(d) /\ d.pos[1] = a.pos[1]
      /\ IF in.drop /\ a.grounded THEN d.drop = 18 ELSE d.pos[2] = a.pos[2] /\ d.drop = a.drop
  <2>1. CASE in.drop /\ a.grounded
    <3> DEFINE n == a.pos[2] + 2 * Px
    <3>1. n \in Int BY BodyFacts, <1>3 DEF Px
    <3>2. d = [a EXCEPT !.grounded = FALSE, !.on = 0, !.drop = 18, !.pos[2] = n]
      BY <2>1 DEF Dropped, DropTime
    <3> HIDE DEF d, n
    <3>3. /\ d \in Body /\ ~d.grounded /\ d.pos[1] = a.pos[1]
          /\ d.vel = a.vel /\ d.drop = 18
      <4>1. d = DropTo(a, n, 18) BY <3>2 DEF DropTo
      <4>2. /\ DropTo(a, n, 18) \in Body /\ ~DropTo(a, n, 18).grounded
            /\ DropTo(a, n, 18).pos[1] = a.pos[1]
            /\ DropTo(a, n, 18).vel = a.vel /\ DropTo(a, n, 18).drop = 18
        <5>1. a \in Body /\ 18 \in Int BY <1>3
        <5> QED BY <3>1, <5>1, DroppedFacts
      <4> QED BY <4>1, <4>2
    <3> QED BY <1>3, <2>1, <3>3 DEF Slow, AtRest
  <2>2. CASE ~(in.drop /\ a.grounded)
    <3>1. d = a BY <2>2 DEF Dropped
    <3> QED BY <1>3, <2>2, <3>1
  <2> QED BY <2>1, <2>2
<1> HIDE DEF d
<1>5. /\ t \in Body /\ Slow(t) /\ AtRest(t) /\ t.pos = d.pos
      /\ t.drop = IF d.drop > 0 THEN d.drop - k ELSE d.drop
  <2> DEFINE n == IF d.drop > 0 THEN d.drop - k ELSE d.drop
  <2>1. n \in Int BY <1>1, <1>4, BodyFacts
  <2>2. t = [d EXCEPT !.drop = n] BY DEF TimerRun
  <2> HIDE DEF n
  <2> HIDE DEF t
  <2>3. /\ t \in Body /\ t.pos = d.pos /\ t.vel = d.vel /\ t.grounded = d.grounded /\ t.drop = n
    BY <1>4, <2>1, <2>2, SetDrop
  <2> QED BY <1>4, <2>3 DEF Slow, AtRest, n
<1> HIDE DEF t
<1>6. j \in Body /\ Slow(j) /\ AtRest(j) /\ j.pos = t.pos /\ j.drop = t.drop
  <2>1. CASE in.jump /\ t.grounded
    <3>1. j = [t EXCEPT !.vel[2] = -JumpSpeed, !.grounded = FALSE, !.on = 0]
      BY <2>1 DEF Jumped
    <3>2. -JumpSpeed \in Int BY DEF JumpSpeed
    <3> HIDE DEF j
    <3>3. /\ j \in Body /\ ~j.grounded /\ j.pos = t.pos /\ j.vel[1] = t.vel[1]
          /\ j.drop = t.drop
      BY <1>5, <3>1, <3>2, JumpedFacts
    <3> QED BY <1>5, <3>3 DEF Slow, AtRest
  <2>2. CASE ~(in.jump /\ t.grounded) BY <1>5, <2>2 DEF Jumped
  <2> QED BY <2>1, <2>2
<1> HIDE DEF j
<1>7. l \in Body /\ Slow(l) /\ AtRest(l) /\ l.pos = j.pos /\ l.drop = j.drop
  <2>1. CASE j.grounded BY <1>6, <2>1 DEF Fallen
  <2>2. CASE ~j.grounded
    <3> DEFINE n == Min({j.vel[2] + (Gravity * k) \div 100, MaxFallSpeed})
    <3>1. n \in Int
      <4>1. (Gravity * k) \div 100 \in Int BY <1>1 DEF Gravity
      <4>2. j.vel[2] + (Gravity * k) \div 100 \in Int BY <1>6, <4>1, BodyFacts
      <4> QED BY <4>2, MinOfTwo DEF MaxFallSpeed
    <3>2. l = [j EXCEPT !.vel[2] = n] BY <2>2 DEF Fallen
    <3> HIDE DEF l, n
    <3>3. /\ l \in Body /\ l.pos = j.pos /\ l.drop = j.drop /\ l.grounded = j.grounded
          /\ l.vel[1] = j.vel[1]
      BY <1>6, <3>1, <3>2, SetVel2
    <3> QED BY <1>6, <2>2, <3>3 DEF Slow, AtRest
  <2> QED BY <2>1, <2>2
<1>8. Left(b, in, k) = l BY DEF Left, a, d, t, j
<1> HIDE DEF l
<1>9. l.pos[1] = b.pos[1] BY <1>3, <1>4, <1>5, <1>6, <1>7
<1>10. l.drop = (IF d.drop > 0 THEN d.drop - k ELSE d.drop) /\ l.pos[2] = d.pos[2]
  BY <1>5, <1>6, <1>7
<1>11. d.drop \in Int /\ b.drop \in Int BY <1>4, BodyFacts
<1>12. l.drop <= 0 => l.pos[2] = b.pos[2]
  <2>1. CASE in.drop /\ a.grounded
    <3>1. l.drop = 18 - k BY <1>4, <1>10, <2>1
    <3> QED BY <1>1, <3>1
  <2>2. CASE ~(in.drop /\ a.grounded) BY <1>3, <1>4, <1>10, <2>2
  <2> QED BY <2>1, <2>2
<1>13. ~in.drop /\ b.drop <= 0 => l.drop <= 0 BY <1>3, <1>4, <1>10, <1>11
<1> QED BY <1>7, <1>8, <1>9, <1>12, <1>13

\* How far a body gets in a frame.
LEMMA Distance ==
  ASSUME NEW v \in -260..260, NEW k \in Nat, NEW m \in Nat, k <= m
  PROVE  v * k \in Int /\ -(260 * m) <= v * k /\ v * k <= 260 * m
<1>1. v * k \in Int OBVIOUS
<1>2. v * k <= 260 * k
  <2>1. (260 - v) * k >= 0
    <3>1. 260 - v \in Nat OBVIOUS
    <3>2. \A x, y \in Nat : x * y >= 0 OBVIOUS
    <3> QED BY <3>1, <3>2
  <2> QED BY <2>1
<1>3. -(260 * k) <= v * k
  <2>1. (260 + v) * k >= 0
    <3>1. 260 + v \in Nat OBVIOUS
    <3>2. \A x, y \in Nat : x * y >= 0 OBVIOUS
    <3> QED BY <3>1, <3>2
  <2> QED BY <2>1
<1>4. 260 * k <= 260 * m OBVIOUS
<1> QED BY <1>1, <1>2, <1>3, <1>4

LEMMA Between ==
  ASSUME NEW a \in Int, NEW t \in Int, NEW d \in Nat, NEW stop \in Int, -d <= t, t <= d,
         (a <= stop /\ stop <= a + t) \/ (a + t <= stop /\ stop <= a)
  PROVE  a - d <= stop /\ stop <= a + d
OBVIOUS

\* The body at another place with another speed to the side.
PushedTo(b, q, w) == [b EXCEPT !.pos = q, !.vel[1] = w]

LEMMA PushedFacts ==
  ASSUME NEW b \in Body, NEW q \in Point, NEW w \in Int
  PROVE  /\ PushedTo(b, q, w) \in Body /\ PushedTo(b, q, w).pos = q
         /\ PushedTo(b, q, w).vel[1] = w /\ PushedTo(b, q, w).vel[2] = b.vel[2]
         /\ PushedTo(b, q, w).grounded = b.grounded /\ PushedTo(b, q, w).drop = b.drop
<1> DEFINE p == [b EXCEPT !.pos = q]
           c == [b EXCEPT !.pos = q, !.vel[1] = w]
<1>1. c = [p EXCEPT !.vel[1] = w] OBVIOUS
<1>2. p \in Body /\ p.grounded = b.grounded /\ p.vel = b.vel /\ p.drop = b.drop /\ p.pos = q
  BY SetPos
<1> HIDE DEF p, c
<1>3. /\ c \in Body /\ c.grounded = p.grounded /\ c.pos = p.pos /\ c.drop = p.drop
      /\ c.vel[1] = w /\ c.vel[2] = p.vel[2]
  BY <1>1, <1>2, SetVel1
<1> QED BY <1>2, <1>3 DEF PushedTo, c

LEMMA MovedFacts ==
  ASSUME NEW b \in Body, Slow(b), NEW fhs \in Seq(Line), NEW k \in Nat, NEW m \in Nat, k <= m
  PROVE  /\ Moved(b, fhs, k) \in Body /\ Slow(Moved(b, fhs, k))
         /\ Moved(b, fhs, k).vel[2] = b.vel[2]
         /\ Moved(b, fhs, k).grounded = b.grounded /\ Moved(b, fhs, k).drop = b.drop
         /\ Moved(b, fhs, k).pos[2] = b.pos[2] + b.vel[2] * k
         /\ b.pos[1] - WalkSpeed * m <= Moved(b, fhs, k).pos[1]
         /\ Moved(b, fhs, k).pos[1] <= b.pos[1] + WalkSpeed * m
<1> DEFINE a == b.pos[1]
           v == b.vel[1]
           t == v * k
           d == 260 * m
           x == b.pos[1] + b.vel[1] * k
           y == b.pos[2] + b.vel[2] * k
           stop == BlockHorizontal(fhs, b.pos[1], x, BodyHalfW, y - BodyHeight, y)
           q == <<stop, y>>
           w == IF stop = x THEN b.vel[1] ELSE 0
           c == Moved(b, fhs, k)
<1>1. c = PushedTo(b, q, w) BY DEF Moved, PushedTo
<1>2. a \in Int /\ v \in -260..260 /\ y \in Int
  <2>1. b.pos[2] \in Int /\ b.vel[2] \in Int BY BodyFacts
  <2>2. \A i, j \in Int : i + j * k \in Int OBVIOUS
  <2> QED BY <2>1, <2>2, BodyFacts DEF Slow, WalkSpeed
<1>3. t \in Int /\ -d <= t /\ t <= d /\ d \in Nat
  <2>1. d \in Nat OBVIOUS
  <2> HIDE DEF v
  <2> QED BY <1>2, <2>1, Distance
<1>4. x = a + t OBVIOUS
<1> HIDE DEF a, t, d, x, y
<1>5. x \in Int BY <1>2, <1>3, <1>4
<1>6. stop \in Int /\ ((a <= stop /\ stop <= x) \/ (x <= stop /\ stop <= a))
  <2>1. BodyHalfW \in Int BY DEF BodyHalfW, Px
  <2> QED BY <1>2, <1>5, <2>1, BlockFacts DEF a
<1>7. w \in -260..260
  <2>1. 0 \in -260..260 OBVIOUS
  <2> QED BY <1>2, <2>1
<1> HIDE DEF stop, w, v
<1>8. a - d <= stop /\ stop <= a + d BY <1>2, <1>3, <1>4, <1>6, Between
<1>9. q \in Point /\ q[1] = stop /\ q[2] = y BY <1>2, <1>6 DEF Point
<1>10. w \in Int BY <1>7
<1> HIDE DEF q, c
<1>11. /\ c \in Body /\ c.pos = q /\ c.vel[1] = w /\ c.vel[2] = b.vel[2]
       /\ c.grounded = b.grounded /\ c.drop = b.drop
  BY <1>1, <1>9, <1>10, PushedFacts
<1>12. a = b.pos[1] /\ d = WalkSpeed * m /\ y = b.pos[2] + b.vel[2] * k
  BY DEF a, d, y, WalkSpeed
<1>13. Slow(c) BY <1>7, <1>11 DEF Slow, WalkSpeed
<1>14. c.pos[2] = b.pos[2] + b.vel[2] * k BY <1>9, <1>11, <1>12
<1>15. b.pos[1] - WalkSpeed * m <= c.pos[1] /\ c.pos[1] <= b.pos[1] + WalkSpeed * m
  BY <1>8, <1>9, <1>11, <1>12
<1> QED BY <1>11, <1>13, <1>14, <1>15 DEF c

\* A level floor is not passed by a body that comes from above it or from it,
\* falls or stands, and may land.
LEMMA SettledFacts ==
  ASSUME NEW b \in Body, AtRest(b), NEW fhs \in Seq(Line), NEW prevY \in Int
  PROVE  /\ Settled(b, fhs, prevY) \in Body /\ AtRest(Settled(b, fhs, prevY))
         /\ Settled(b, fhs, prevY).vel[1] = b.vel[1]
         /\ Settled(b, fhs, prevY).pos[1] = b.pos[1]
         /\ Settled(b, fhs, prevY).drop = b.drop
         /\ \A n \in DOMAIN fhs :
              /\ fhs[n].p1[2] = fhs[n].p2[2] /\ ~IsWall(fhs[n]) /\ ContainsX(fhs[n], b.pos[1])
              /\ b.drop <= 0 /\ prevY <= fhs[n].p1[2]
              /\ b.grounded => b.pos[2] = prevY
              /\ b.vel[2] < 0 => b.pos[2] <= prevY
              => Settled(b, fhs, prevY).pos[2] <= fhs[n].p1[2]
<1> DEFINE s == Settled(b, fhs, prevY)
           x == b.pos[1]
           y == b.pos[2]
           Flat(n) == /\ fhs[n].p1[2] = fhs[n].p2[2] /\ ~IsWall(fhs[n])
                      /\ ContainsX(fhs[n], x)
           Above(n) == /\ b.drop <= 0 /\ prevY <= fhs[n].p1[2]
                       /\ b.grounded => y = prevY
                       /\ b.vel[2] < 0 => y <= prevY
<1>1. x \in Int /\ y \in Int /\ b.vel[2] \in Int /\ b.drop \in Int BY BodyFacts
<1>2. ASSUME NEW n \in DOMAIN fhs, Flat(n)
      PROVE  /\ fhs[n] \in Line /\ SurfaceY(fhs[n], x) = fhs[n].p1[2] /\ fhs[n].p1[2] \in Int
             /\ n \in Floors(fhs, x)
  <2>1. fhs[n] \in Line OBVIOUS
  <2>2. SurfaceY(fhs[n], x) = fhs[n].p1[2] /\ SurfaceY(fhs[n], x) \in Int
    BY <1>1, <1>2, <2>1, LineFacts
  <2> QED BY <1>2, <2>1, <2>2 DEF Floors
<1>3. ASSUME NEW i \in Floors(fhs, x), s = StandOn(b, fhs[i])
      PROVE  /\ s \in Body /\ AtRest(s) /\ s.vel[1] = b.vel[1] /\ s.pos[1] = x
             /\ s.drop = b.drop /\ s.pos[2] = SurfaceY(fhs[i], x)
             /\ SurfaceY(fhs[i], x) \in Int
  <2>1. fhs[i] \in Line /\ SurfaceY(fhs[i], x) \in Int
    <3> DEFINE C == Floors(fhs, x)
    <3>1. C \in SUBSET Floors(fhs, x) /\ i \in C BY <1>3
    <3> HIDE DEF x, C
    <3> QED BY <1>1, <3>1, FloorsFacts
  <2> HIDE DEF s
  <2>2. /\ s \in Body /\ s.vel[1] = b.vel[1] /\ s.vel[2] = 0 /\ s.pos[1] = x
        /\ s.pos[2] = SurfaceY(fhs[i], x) /\ s.drop = b.drop
    BY <1>3, <2>1, StandOnFacts
  <2> QED BY <2>1, <2>2 DEF AtRest
<1>4. CASE b.grounded
  <2> DEFINE i == GroundAt(fhs, x, y, GroundTol)
  <2>0. GroundTol = 800 BY DEF GroundTol, Px
  <2>1. /\ i # 0 => i \in Floors(fhs, x) /\ Dist(SurfaceY(fhs[i], x), y) <= 800
        /\ \A j \in Floors(fhs, x) : i # 0 =>
             \/ Dist(SurfaceY(fhs[j], x), y) > 800
             \/ Dist(SurfaceY(fhs[i], x), y) <= Dist(SurfaceY(fhs[j], x), y)
    <3> HIDE DEF x, y
    <3> QED BY <1>1, <2>0, GroundFacts
  <2>2. CASE i = 0
    <3>1. s = [b EXCEPT !.grounded = FALSE, !.on = 0] BY <1>4, <2>2 DEF Settled
    <3> HIDE DEF s
    <3>2. s \in Body /\ ~s.grounded /\ s.pos = b.pos /\ s.vel = b.vel /\ s.drop = b.drop
      BY <3>1, Lifted
    <3>3. ASSUME NEW n \in DOMAIN fhs, Flat(n), Above(n) PROVE s.pos[2] <= fhs[n].p1[2]
      BY <1>4, <3>2, <3>3
    <3> QED BY <3>2, <3>3 DEF AtRest, s
  <2>3. CASE i # 0
    <3>1. s = StandOn(b, fhs[i]) BY <1>4, <2>3 DEF Settled
    <3>2. /\ s \in Body /\ AtRest(s) /\ s.vel[1] = b.vel[1] /\ s.pos[1] = x
          /\ s.drop = b.drop /\ s.pos[2] = SurfaceY(fhs[i], x)
          /\ SurfaceY(fhs[i], x) \in Int
      <4> HIDE DEF s, i, x
      <4> QED BY <1>3, <2>1, <2>3, <3>1
    <3>3. ASSUME NEW n \in DOMAIN fhs, Flat(n), Above(n) PROVE s.pos[2] <= fhs[n].p1[2]
      <4> DEFINE a == SurfaceY(fhs[i], x)
                 c == fhs[n].p1[2]
      <4>1. c \in Int /\ SurfaceY(fhs[n], x) = c /\ n \in Floors(fhs, x) BY <1>2, <3>3
      <4>2. Dist(a, y) <= 800 /\ (Dist(c, y) > 800 \/ Dist(a, y) <= Dist(c, y))
        <5> HIDE DEF i, x, y
        <5> QED BY <2>1, <2>3, <4>1
      <4>3. y <= c BY <1>4, <3>3
      <4>4. a \in Int /\ s.pos[2] = a BY <3>2
      <4> HIDE DEF a, c, s, y
      <4>5. a <= c BY <1>1, <4>1, <4>2, <4>3, <4>4 DEF Dist
      <4> QED BY <4>4, <4>5 DEF c
    <3> HIDE DEF s
    <3> QED BY <3>2, <3>3 DEF s
  <2> QED BY <2>2, <2>3
<1>5. CASE ~b.grounded /\ b.vel[2] >= 0 /\ b.drop <= 0
  <2> DEFINE i == FindLanding(fhs, x, prevY, y)
  <2>0. LandingEps = 100 BY DEF LandingEps, Px
  <2>1. /\ i # 0 => /\ i \in Floors(fhs, x)
                    /\ y >= SurfaceY(fhs[i], x)
        /\ \A j \in Floors(fhs, x) :
             prevY <= SurfaceY(fhs[j], x) + 100 /\ y >= SurfaceY(fhs[j], x) =>
               i # 0 /\ SurfaceY(fhs[i], x) <= SurfaceY(fhs[j], x)
    <3> HIDE DEF x, y
    <3> QED BY <1>1, <2>0, LandingFacts
  <2>2. CASE i = 0
    <3>1. s = b BY <1>5, <2>2 DEF Settled
    <3>2. ASSUME NEW n \in DOMAIN fhs, Flat(n), Above(n) PROVE y <= fhs[n].p1[2]
      <4> DEFINE c == fhs[n].p1[2]
      <4>1. c \in Int /\ SurfaceY(fhs[n], x) = c /\ n \in Floors(fhs, x) BY <1>2, <3>2
      <4>2. prevY <= c BY <3>2
      <4>3. ~(prevY <= c + 100 /\ y >= c)
        <5> HIDE DEF i, x, y, c
        <5> QED BY <2>1, <2>2, <4>1
      <4> HIDE DEF c, y
      <4>4. y <= c BY <1>1, <4>1, <4>2, <4>3
      <4> QED BY <4>4 DEF c
    <3> QED BY <3>1, <3>2
  <2>3. CASE i # 0
    <3>1. s = StandOn(b, fhs[i]) BY <1>5, <2>3 DEF Settled
    <3>2. /\ s \in Body /\ AtRest(s) /\ s.vel[1] = b.vel[1] /\ s.pos[1] = x
          /\ s.drop = b.drop /\ s.pos[2] = SurfaceY(fhs[i], x)
          /\ SurfaceY(fhs[i], x) \in Int
      <4> HIDE DEF s, i, x
      <4> QED BY <1>3, <2>1, <2>3, <3>1
    <3>3. ASSUME NEW n \in DOMAIN fhs, Flat(n), Above(n) PROVE s.pos[2] <= fhs[n].p1[2]
      <4> DEFINE a == SurfaceY(fhs[i], x)
                 c == fhs[n].p1[2]
      <4>1. c \in Int /\ SurfaceY(fhs[n], x) = c /\ n \in Floors(fhs, x) BY <1>2, <3>3
      <4>2. y >= a /\ (prevY <= c + 100 /\ y >= c => a <= c)
        <5> HIDE DEF i, x, y
        <5> QED BY <2>1, <2>3, <4>1
      <4>3. prevY <= c BY <3>3
      <4>4. a \in Int /\ s.pos[2] = a BY <3>2
      <4> HIDE DEF a, c, s, y
      <4>5. a <= c BY <1>1, <4>1, <4>2, <4>3, <4>4
      <4> QED BY <4>4, <4>5 DEF c
    <3> HIDE DEF s
    <3> QED BY <3>2, <3>3 DEF s
  <2> QED BY <2>2, <2>3
<1>6. CASE ~b.grounded /\ ~(b.vel[2] >= 0 /\ b.drop <= 0)
  <2>1. s = b BY <1>6 DEF Settled
  <2>2. ASSUME NEW n \in DOMAIN fhs, Flat(n), Above(n) PROVE y <= fhs[n].p1[2]
    <3> DEFINE c == fhs[n].p1[2]
    <3>1. c \in Int BY <1>2, <2>2
    <3>2. prevY <= c /\ y <= prevY BY <1>1, <1>6, <2>2
    <3> HIDE DEF c, y
    <3>3. y <= c BY <1>1, <3>1, <3>2
    <3> QED BY <3>3 DEF c
  <2> QED BY <2>1, <2>2
<1> QED BY <1>4, <1>5, <1>6

-----------------------------------------------------------------------------
(* A frame.                                                                *)

InEdges(b, m) == \E lo, hi \in Edges(m) : lo <= b.pos[1] /\ b.pos[1] <= hi

LEMMA DoorFacts ==
  ASSUME NEW m, IsMap(m)
  PROVE  /\ DOMAIN m.portals \in SUBSET Int /\ IsFiniteSet(DOMAIN m.portals)
         /\ \A i \in DOMAIN m.portals : m.portals[i] \in Door
<1> DEFINE ps == m.portals
<1>1. ps \in Seq(Door) BY DEF IsMap
<1> HIDE DEF ps
<1>2. DOMAIN ps = 1..Len(ps) /\ Len(ps) \in Nat /\ \A i \in DOMAIN ps : ps[i] \in Door
  BY <1>1
<1>3. IsFiniteSet(1..Len(ps)) BY <1>2, FS_Interval
<1> QED BY <1>2, <1>3 DEF ps

LEMMA MapFacts ==
  ASSUME NEW m, IsMap(m)
  PROVE  /\ m.left \in Int /\ m.right \in Int /\ m.bottom \in Int
         /\ m.footholds \in Seq(Line)
         /\ Places(m) \in SUBSET Point /\ Edges(m) \in SUBSET Int
<1>1. m.left \in Int /\ m.right \in Int /\ m.bottom \in Int /\ m.footholds \in Seq(Line)
  BY DEF IsMap
<1>2. Places(m) \in SUBSET Point
  <2>1. m.spawn \in Point BY DEF IsMap
  <2>2. ASSUME NEW i \in DOMAIN m.portals PROVE m.portals[i].pos \in Point
    <3>1. m.portals[i] \in Door BY DoorFacts
    <3> QED BY <3>1 DEF Door
  <2> QED BY <2>1, <2>2 DEF Places
<1>3. \A p \in Places(m) : p[1] \in Int BY <1>2 DEF Point
<1> QED BY <1>1, <1>2, <1>3 DEF Edges

LEMMA PlacedFacts ==
  ASSUME NEW m, IsMap(m), NEW p \in Places(m)
  PROVE  /\ PlacedAt(p) \in Body /\ Slow(PlacedAt(p)) /\ AtRest(PlacedAt(p))
         /\ InEdges(PlacedAt(p), m)
<1>1. p \in Point /\ p[1] \in Int BY MapFacts DEF Point
<1>2. PlacedAt(p) \in Body BY <1>1 DEF PlacedAt, Body, Point
<1>3. Slow(PlacedAt(p)) /\ AtRest(PlacedAt(p)) BY DEF PlacedAt, Slow, AtRest, WalkSpeed
<1>4. p[1] \in Edges(m) /\ PlacedAt(p).pos[1] = p[1] BY DEF Edges, PlacedAt
<1> QED BY <1>1, <1>2, <1>3, <1>4 DEF InEdges

\* The borders leave the height alone, but for who is sent back to the spawn.
LEMMA BoundedFacts ==
  ASSUME NEW b \in Body, Slow(b), AtRest(b), NEW m, IsMap(m)
  PROVE  /\ Bounded(b, m) \in Body /\ Slow(Bounded(b, m)) /\ AtRest(Bounded(b, m))
         /\ InEdges(Bounded(b, m), m)
         /\ \/ Bounded(b, m) = PlacedAt(m.spawn)
            \/ Bounded(b, m).pos[2] = b.pos[2] /\ Bounded(b, m).drop = b.drop
<1> DEFINE c == ClampedX(b, m.left, m.right)
           x == b.pos[1]
<1>1. m.left \in Int /\ m.right \in Int BY MapFacts
<1>2. /\ c \in Body /\ c.vel[1] \in {0, b.vel[1]} /\ c.vel[2] = b.vel[2]
      /\ c.grounded = b.grounded /\ c.drop = b.drop
      /\ c.pos[1] = Clamp(x, m.left, m.right) /\ c.pos[2] = b.pos[2]
  BY <1>1, ClampedXFacts
<1>3. Bounded(b, m) = c \/ Bounded(b, m) = PlacedAt(m.spawn) BY DEF Bounded
<1> HIDE DEF c
<1>4. Slow(c) /\ AtRest(c) BY <1>2 DEF Slow, AtRest, WalkSpeed
<1>5. x \in Int BY BodyFacts
<1>6. InEdges(c, m)
  <2>1. m.left \in Edges(m) /\ m.right \in Edges(m) BY DEF Edges
  <2>2. \/ c.pos[1] = m.left \/ c.pos[1] = m.right
        \/ m.left <= c.pos[1] /\ c.pos[1] <= m.right
    <3> HIDE DEF x
    <3> QED BY <1>1, <1>2, <1>5 DEF Clamp
  <2>3. m.left <= m.left /\ m.right <= m.right BY <1>1
  <2> QED BY <2>1, <2>2, <2>3 DEF InEdges
<1>7. m.spawn \in Places(m) BY DEF Places
<1>8. CASE Bounded(b, m) = c BY <1>2, <1>4, <1>6, <1>8
<1>9. CASE Bounded(b, m) = PlacedAt(m.spawn) BY <1>7, <1>9, PlacedFacts
<1> QED BY <1>3, <1>8, <1>9

\* Over such a floor there is floor wherever a frame leads.
LEMMA AroundFacts ==
  ASSUME NEW m, IsMap(m), NEW b \in Body, NEW f \in FloorsAround(b, m),
         NEW x \in Int, b.pos[1] - WalkSpeed * MaxTicks <= x,
         x <= b.pos[1] + WalkSpeed * MaxTicks
  PROVE  ~IsWall(f) /\ ContainsX(f, x) /\ f.p1[2] = f.p2[2]
         /\ \E n \in DOMAIN m.footholds : f = m.footholds[n]
<1>1. f.p1[2] = f.p2[2] /\ \E n \in DOMAIN m.footholds : f = m.footholds[n]
  BY DEF FloorsAround
<1>2. f \in Line BY <1>1, MapFacts
<1>3. f.p1[1] \in Int /\ f.p2[1] \in Int BY <1>2 DEF Line, Point
<1> DEFINE y == b.pos[1]
           d == WalkSpeed * MaxTicks
<1>4. f.p1[1] <= y - d /\ f.p2[1] >= y + d BY DEF FloorsAround
<1>5. d \in Nat /\ 0 < d BY GameScreenAssumption DEF WalkSpeed
<1>6. y \in Int /\ y - d <= x /\ x <= y + d BY BodyFacts
<1> HIDE DEF y, d
<1>7. f.p1[1] <= x /\ x <= f.p2[1] /\ f.p1[1] # f.p2[1] BY <1>3, <1>4, <1>5, <1>6
<1> QED BY <1>1, <1>7 DEF IsWall, ContainsX

\* Everything between two frames, with the keys that are down.
After(b, in, m, k) == Bounded(Updated(b, in, m.footholds, k), m)

LEMMA FrameFacts ==
  ASSUME NEW b \in Body, Slow(b), AtRest(b), NEW m, IsMap(m),
         NEW in \in Input, NEW k \in 1..MaxTicks
  PROVE  LET n == After(b, in, m, k)
         IN  /\ n \in Body /\ Slow(n) /\ AtRest(n) /\ InEdges(n, m)
             /\ \A f \in FloorsAround(b, m) :
                  /\ b.pos[2] <= f.p1[2]
                  /\ n.drop <= 0 \/ (~in.drop /\ b.drop <= 0)
                  => n.pos[2] <= f.p1[2] \/ n = PlacedAt(m.spawn)
<1> DEFINE l == Left(b, in, k)
           v == Moved(l, m.footholds, k)
           s == Settled(v, m.footholds, l.pos[2])
           n == Bounded(s, m)
<1>1. After(b, in, m, k) = n BY DEF After, Updated, Left
<1>2. m.footholds \in Seq(Line) BY MapFacts
<1>3. k \in Nat /\ MaxTicks \in Nat /\ k <= MaxTicks /\ 0 < k /\ k \in 1..(DropTime - 1)
  BY GameScreenAssumption DEF DropTime
<1>4. /\ l \in Body /\ Slow(l) /\ AtRest(l) /\ l.pos[1] = b.pos[1]
      /\ l.drop <= 0 => l.pos[2] = b.pos[2]
      /\ ~in.drop /\ b.drop <= 0 => l.drop <= 0
  BY <1>3, LeftFacts
<1> HIDE DEF l
<1>5. /\ v \in Body /\ Slow(v) /\ v.vel[2] = l.vel[2]
      /\ v.grounded = l.grounded /\ v.drop = l.drop
      /\ v.pos[2] = l.pos[2] + l.vel[2] * k
      /\ l.pos[1] - WalkSpeed * MaxTicks <= v.pos[1]
      /\ v.pos[1] <= l.pos[1] + WalkSpeed * MaxTicks
  BY <1>2, <1>3, <1>4, MovedFacts
<1> HIDE DEF v
<1>6. AtRest(v) BY <1>4, <1>5 DEF AtRest
<1>7. l.pos[2] \in Int /\ l.vel[2] \in Int BY <1>4, BodyFacts
<1>8. /\ s \in Body /\ AtRest(s) /\ s.vel[1] = v.vel[1] /\ s.pos[1] = v.pos[1]
      /\ s.drop = v.drop
      /\ \A i \in DOMAIN m.footholds :
           /\ m.footholds[i].p1[2] = m.footholds[i].p2[2] /\ ~IsWall(m.footholds[i])
           /\ ContainsX(m.footholds[i], v.pos[1])
           /\ v.drop <= 0 /\ l.pos[2] <= m.footholds[i].p1[2]
           /\ v.grounded => v.pos[2] = l.pos[2]
           /\ v.vel[2] < 0 => v.pos[2] <= l.pos[2]
           => s.pos[2] <= m.footholds[i].p1[2]
  BY <1>2, <1>5, <1>6, <1>7, SettledFacts
<1> HIDE DEF s
<1>9. Slow(s) BY <1>5, <1>8 DEF Slow
<1>10. /\ n \in Body /\ Slow(n) /\ AtRest(n) /\ InEdges(n, m)
       /\ \/ n = PlacedAt(m.spawn)
          \/ n.pos[2] = s.pos[2] /\ n.drop = s.drop
  BY <1>8, <1>9, BoundedFacts
<1> HIDE DEF n
<1>11. ASSUME NEW f \in FloorsAround(b, m), b.pos[2] <= f.p1[2],
              n.drop <= 0 \/ (~in.drop /\ b.drop <= 0), n # PlacedAt(m.spawn)
       PROVE  n.pos[2] <= f.p1[2]
  <2>1. v.drop <= 0 /\ l.pos[2] = b.pos[2] BY <1>4, <1>5, <1>8, <1>10, <1>11
  <2>2. v.pos[1] \in Int BY <1>5, BodyFacts
  <2>3. /\ ~IsWall(f) /\ ContainsX(f, v.pos[1]) /\ f.p1[2] = f.p2[2]
        /\ \E i \in DOMAIN m.footholds : f = m.footholds[i]
    BY <1>4, <1>5, <2>2, AroundFacts
  <2>4. v.grounded => v.pos[2] = l.pos[2]
    <3>1. v.grounded => l.vel[2] = 0 BY <1>5, <1>6 DEF AtRest
    <3>2. l.vel[2] = 0 => l.vel[2] * k = 0 BY <1>3
    <3> QED BY <1>5, <1>7, <3>1, <3>2
  <2>5. v.vel[2] < 0 => v.pos[2] <= l.pos[2]
    <3> DEFINE u == l.vel[2]
               t == u * k
               y == l.pos[2]
    <3>1. u < 0 => t < 0
      <4>1. u \in Int BY <1>7
      <4> HIDE DEF u
      <4>2. ASSUME u < 0 PROVE (-u) * k > 0
        <5>1. -u \in Nat \ {0} BY <4>1, <4>2
        <5>2. \A i, j \in Nat \ {0} : i * j > 0 OBVIOUS
        <5> QED BY <1>3, <5>1, <5>2
      <4> QED BY <1>3, <4>1, <4>2
    <3>2. t \in Int /\ v.pos[2] = y + t /\ v.vel[2] = u /\ y \in Int BY <1>3, <1>5, <1>7
    <3> HIDE DEF u, t
    <3>3. u < 0 => y + t <= y
      <4> HIDE DEF y
      <4> QED BY <3>1, <3>2
    <3> QED BY <3>2, <3>3
  <2>6. l.pos[2] <= f.p1[2] BY <1>11, <2>1
  <2> QED BY <1>8, <1>10, <1>11, <2>1, <2>3, <2>4, <2>5, <2>6
<1> QED BY <1>1, <1>10, <1>11

-----------------------------------------------------------------------------
(* The steps.                                                              *)

\* Through a portal one comes to a place of the map it leads to.
LEMMA ArrivalFacts ==
  ASSUME NEW m, IsMap(m), NEW portal
  PROVE  Arrival(m, portal) \in Places(m)
<1> DEFINE P == {i \in DOMAIN m.portals : portal.partner # 0 /\ m.portals[i].id = portal.partner}
<1>1. Arrival(m, portal) = IF P = {} THEN m.spawn ELSE m.portals[Min(P)].pos
  BY DEF Arrival
<1>2. P \in SUBSET (DOMAIN m.portals) OBVIOUS
<1>3. DOMAIN m.portals \in SUBSET Int /\ IsFiniteSet(DOMAIN m.portals) BY DoorFacts
<1> HIDE DEF P
<1>4. IsFiniteSet(P) /\ P \in SUBSET Int BY <1>2, <1>3, FS_Subset
<1>5. P # {} => Min(P) \in DOMAIN m.portals BY <1>2, <1>4, MinFacts
<1> QED BY <1>1, <1>5 DEF Places

LEMMA DefaultMapFacts == IsMap(DefaultMap) /\ DefaultMap.portals = <<>>
<1>1. <<>> \in Seq(Door) OBVIOUS
<1>2. \A i, n, p, q, r \in Nat : Foothold(i, <<n, p>>, <<q, r>>) \in Line
  BY DEF Foothold, Line, Point
<1>3. DefaultMap.footholds \in Seq(Line) BY <1>2 DEF DefaultMap, Px
<1>4. DefaultMap.spawn \in Point /\ DefaultMap.left \in Int /\ DefaultMap.right \in Int
      /\ DefaultMap.bottom \in Int
  BY DEF DefaultMap, Px, TileSize, Point
<1>5. DefaultMap.portals = <<>> BY DEF DefaultMap
<1> QED BY <1>1, <1>3, <1>4, <1>5 DEF IsMap

\* The part of the invariant that is about the body, for the map it is on.
Sound(b, m) == b \in Body /\ Slow(b) /\ AtRest(b) /\ InEdges(b, m)

LEMMA SoundIs ==
  /\ IInv /\ playing => Sound(body, map)
  /\ Sound(body, map) => body \in Body /\ BodyInv
BY DEF IInv, TypeOK, BodyInv, Sound, Slow, AtRest, InEdges

\* A frame with these keys.
LEMMA WalkFacts ==
  ASSUME IInv, playing, NEW chatting \in BOOLEAN, NEW held \in -1..1,
         NEW edge \in [jump : BOOLEAN, drop : BOOLEAN], NEW k \in 1..MaxTicks
  PROVE  /\ Sound(Walk(chatting, held, edge, k), map)
         /\ \A f \in FloorsAround(body, map) :
              /\ body.pos[2] <= f.p1[2]
              /\ \/ Walk(chatting, held, edge, k).drop <= 0
                 \/ (chatting \/ ~edge.drop) /\ body.drop <= 0
              => \/ Walk(chatting, held, edge, k).pos[2] <= f.p1[2]
                 \/ Walk(chatting, held, edge, k) = PlacedAt(map.spawn)
<1> DEFINE in == IF chatting THEN [move |-> 0, jump |-> FALSE, drop |-> FALSE]
                 ELSE [move |-> held, jump |-> edge.jump, drop |-> edge.drop]
<1>1. Walk(chatting, held, edge, k) = After(body, in, map, k) BY DEF Walk, After
<1>2. in \in Input /\ (chatting \/ ~edge.drop => ~in.drop)
  <2>1. CASE chatting BY <2>1 DEF Input
  <2>2. CASE ~chatting BY <2>2 DEF Input
  <2> QED BY <2>1, <2>2
<1>3. Sound(body, map) /\ IsMap(map) BY SoundIs DEF IInv, TypeOK
<1> HIDE DEF in
<1> DEFINE n == After(body, in, map, k)
<1>4. /\ n \in Body /\ Slow(n) /\ AtRest(n) /\ InEdges(n, map)
      /\ \A f \in FloorsAround(body, map) :
           /\ body.pos[2] <= f.p1[2]
           /\ n.drop <= 0 \/ (~in.drop /\ body.drop <= 0)
           => n.pos[2] <= f.p1[2] \/ n = PlacedAt(map.spawn)
  BY <1>2, <1>3, FrameFacts DEF Sound
<1> HIDE DEF n
<1>5. Walk(chatting, held, edge, k) = n BY <1>1 DEF n
<1> QED BY <1>2, <1>4, <1>5 DEF Sound

\* A frame either walks on the map, with the keys that the chat line leaves,
Walks ==
  /\ playing /\ playing' /\ UNCHANGED place
  /\ \E chatting \in BOOLEAN, held \in -1..1,
        edge \in [jump : BOOLEAN, drop : BOOLEAN], k \in 1..MaxTicks :
       /\ body' = Walk(chatting, held, edge, k)
       /\ chat => chatting \/ ~edge.drop

\* or goes through one of its portals.
Enters ==
  /\ playing /\ playing' /\ DOMAIN map.portals # {}
  /\ \E portal :
       /\ portal.target \in MapFile
       /\ map' = Content[portal.target] /\ name' = portal.target
       /\ body' = PlacedAt(Arrival(map', portal))
       /\ SetLastMap(last, portal.target, 1)

LEMMA FrameSteps ==
  ASSUME IInv, Frame
  PROVE  /\ move' \in -1..1 /\ chat' \in BOOLEAN /\ UNCHANGED dt
         /\ Walks \/ Enters
<1>1. /\ move \in -1..1 /\ chat \in BOOLEAN /\ dt \in 1..MaxTicks /\ MaxTicks \in 1..MaxTicks
  BY GameScreenAssumption DEF IInv, TypeOK, DropTime
<1>2. NoEdge \in [jump : BOOLEAN, drop : BOOLEAN] /\ ~NoEdge.drop BY DEF NoEdge
<1>3. CASE Tick BY <1>1, <1>2, <1>3 DEF Tick, Stepped, Same, Walks, place
<1>4. CASE Hitch BY <1>1, <1>2, <1>4 DEF Hitch, Stepped, Same, Walks, place
<1>5. CASE Turn
  <2>1. PICK held \in {-1, 0, 1} : move' = held /\ Stepped(chat, held, NoEdge, dt)
    BY <1>5 DEF Turn
  <2>2. held \in -1..1 OBVIOUS
  <2> QED BY <1>1, <1>2, <1>5, <2>1, <2>2 DEF Turn, Stepped, Same, Walks, place
<1>6. CASE Jump
  <2>1. PICK drop \in BOOLEAN : Stepped(chat, move, [jump |-> ~drop, drop |-> drop], dt)
    BY <1>6 DEF Jump
  <2>2. [jump |-> ~drop, drop |-> drop] \in [jump : BOOLEAN, drop : BOOLEAN] OBVIOUS
  <2> QED BY <1>1, <1>6, <2>1, <2>2 DEF Jump, Stepped, Same, Walks, place
<1>7. CASE Chat BY <1>1, <1>2, <1>7 DEF Chat, Stepped, Same, Walks, place
<1>8. CASE UpKey
  <2> DEFINE w == Walk(FALSE, move, NoEdge, dt)
             portal == map.portals[Min(Touched(w))]
  <2>1. playing /\ playing' /\ ~chat /\ chat' = chat /\ move' = move /\ dt' = dt
    BY <1>8 DEF UpKey, Same
  <2>2. TryEnterPortal(w) BY <1>8 DEF UpKey
  <2>3. CASE Touched(w) # {} /\ Loadable(portal.target)
    <3>1. /\ map' = Content[portal.target] /\ name' = portal.target
          /\ body' = PlacedAt(Arrival(map', portal))
          /\ SetLastMap(last, portal.target, 1)
      BY <2>2, <2>3 DEF TryEnterPortal
    <3>2. portal.target \in MapFile BY <2>3 DEF Loadable
    <3>3. DOMAIN map.portals # {} BY <2>3 DEF Touched
    <3> HIDE DEF portal
    <3> QED BY <1>1, <2>1, <3>1, <3>2, <3>3 DEF Enters
  <2>4. CASE ~(Touched(w) # {} /\ Loadable(portal.target))
    <3>1. body' = w /\ UNCHANGED place BY <2>2, <2>4 DEF TryEnterPortal
    <3> QED BY <1>1, <1>2, <2>1, <3>1 DEF Walks
  <2> QED BY <2>3, <2>4
<1> QED BY <1>3, <1>4, <1>5, <1>6, <1>7, <1>8 DEF Frame

\* Whoever enters a map stands in it, and it is remembered.
LEMMA EnterFacts ==
  ASSUME NEW m \in MapFile, NEW known, NEW others,
         map' = Content[m], name' = m, SetLastMap(known, m, others),
         m = known => failed \/ disk = m, failed \in BOOLEAN,
         NEW p \in Places(map'), body' = PlacedAt(p)
  PROVE  IsMap(map') /\ Sound(body', map') /\ failed' \in BOOLEAN /\ MapInv' /\ LastMapKept'
<1>1. IsMap(map') BY ContentAssumption
<1>2. Sound(body', map') BY <1>1, PlacedFacts DEF Sound
<1>3. m # NoMap BY GameScreenAssumption
<1>4. last' = m /\ failed' \in BOOLEAN /\ (failed' \/ disk' = m) BY DEF SetLastMap
<1> QED BY <1>1, <1>2, <1>3, <1>4 DEF MapInv, LastMapKept

LEMMA InitInv == Init => IInv
<1> SUFFICES ASSUME Init PROVE IInv OBVIOUS
<1>1. IsMap(map) BY DefaultMapFacts DEF Init
<1>2. body \in Body /\ body.vel[1] = 0 /\ ~body.grounded
  BY DEF Init, PlacedAt, Body, Point
<1>3. TypeOK
  <2>1. playing \in BOOLEAN /\ chat \in BOOLEAN /\ failed \in BOOLEAN BY DEF Init
  <2>2. move \in -1..1 /\ dt \in FrameTicks BY DEF Init
  <2> QED BY <1>1, <1>2, <2>1, <2>2 DEF TypeOK
<1>4. BodyInv BY <1>2 DEF Init, BodyInv, WalkSpeed
<1> QED BY <1>3, <1>4 DEF Init, MapInv, LastMapKept, IInv

LEMMA StepInv == IInv /\ [Next]_vars => IInv'
<1> SUFFICES ASSUME IInv, [Next]_vars PROVE IInv' OBVIOUS
<1>1. TypeOK /\ MapInv /\ LastMapKept /\ BodyInv BY DEF IInv
<1>2. ASSUME Frame PROVE IInv'
  <2>1. /\ move' \in -1..1 /\ chat' \in BOOLEAN /\ dt' = dt
        /\ playing /\ playing'
    BY <1>2, FrameSteps DEF Walks, Enters
  <2>2. Walks \/ Enters BY <1>2, FrameSteps
  <2>3. CASE Walks
    <3>1. PICK chatting \in BOOLEAN, held \in -1..1,
               edge \in [jump : BOOLEAN, drop : BOOLEAN], k \in 1..MaxTicks :
            body' = Walk(chatting, held, edge, k)
      BY <2>3 DEF Walks
    <3>2. Sound(body', map') BY <2>1, <2>3, <3>1, WalkFacts DEF Walks, place
    <3>3. body' \in Body /\ BodyInv' BY <3>2 DEF Sound, BodyInv, Slow, AtRest, InEdges
    <3>4. UNCHANGED <<map, name, last, disk, failed>> BY <2>3 DEF Walks, place
    <3>5. TypeOK' BY <1>1, <2>1, <3>3, <3>4 DEF TypeOK
    <3> QED BY <1>1, <2>1, <3>3, <3>4, <3>5 DEF IInv, MapInv, LastMapKept
  <2>4. CASE Enters
    <3>1. PICK portal :
            /\ portal.target \in MapFile
            /\ map' = Content[portal.target] /\ name' = portal.target
            /\ body' = PlacedAt(Arrival(map', portal))
            /\ SetLastMap(last, portal.target, 1)
      BY <2>4 DEF Enters
    <3>2. name # NoMap
      <4>1. DOMAIN DefaultMap.portals = {} BY DefaultMapFacts
      <4> QED BY <1>1, <2>4, <4>1 DEF MapInv, Enters
    <3>3. last = name /\ (failed \/ disk = last) BY <1>1, <2>1, <3>2 DEF LastMapKept
    <3>4. IsMap(map') BY <3>1, ContentAssumption
    <3>5. Arrival(map', portal) \in Places(map') BY <3>4, ArrivalFacts
    <3>6. /\ IsMap(map') /\ Sound(body', map') /\ failed' \in BOOLEAN
          /\ MapInv' /\ LastMapKept'
      BY <1>1, <3>1, <3>3, <3>5, EnterFacts DEF TypeOK
    <3>7. body' \in Body /\ BodyInv' BY <3>6 DEF Sound, BodyInv, Slow, AtRest, InEdges
    <3>8. TypeOK' BY <1>1, <2>1, <3>6, <3>7 DEF TypeOK
    <3> QED BY <3>6, <3>7, <3>8 DEF IInv
  <2> QED BY <2>2, <2>3, <2>4
<1>3. ASSUME Quit PROVE IInv'
  <2>1. /\ ~playing' /\ playing' \in BOOLEAN /\ body' = PlacedAt(<<0, 0>>)
        /\ move' = 0 /\ chat' = FALSE /\ failed' = FALSE
        /\ UNCHANGED <<map, name, dt>>
    BY <1>3 DEF Quit
  <2>2. body' \in Body /\ body'.vel[1] = 0 /\ ~body'.grounded
    BY <2>1 DEF PlacedAt, Body, Point
  <2>3. TypeOK'
    <3>1. /\ chat' \in BOOLEAN /\ failed' \in BOOLEAN
          /\ move' \in -1..1
      <4>1. chat' \in BOOLEAN BY <2>1
      <4>2. failed' \in BOOLEAN BY <2>1
      <4>3. move' \in -1..1 BY <2>1
      <4> QED BY <4>1, <4>2, <4>3
    <3>2. dt' \in FrameTicks /\ IsMap(map') BY <1>1, <2>1 DEF TypeOK
    <3> QED BY <2>1, <2>2, <3>1, <3>2 DEF TypeOK
  <2>4. BodyInv' BY <2>1, <2>2 DEF BodyInv, WalkSpeed
  <2> QED BY <1>1, <2>1, <2>3, <2>4 DEF IInv, MapInv, LastMapKept
<1>4. ASSUME Start PROVE IInv'
  <2> DEFINE m == IF disk = NoMap THEN StartFile ELSE disk
  <2>1. /\ playing' = TRUE /\ body' = PlacedAt(map'.spawn)
        /\ UNCHANGED <<move, chat, dt>>
    BY <1>4 DEF Start
  <2>2. IF Loadable(m)
          THEN map' = Content[m] /\ name' = m /\ SetLastMap(disk, m, 0)
          ELSE map' = DefaultMap /\ name' = NoMap /\ last' = disk /\ failed' = failed
    BY <1>4 DEF Start
  <2>3. map'.spawn \in Places(map') BY DEF Places
  <2> HIDE DEF m
  <2>4. IsMap(map') /\ Sound(body', map') /\ failed' \in BOOLEAN /\ MapInv' /\ LastMapKept'
    <3>1. CASE Loadable(m)
      <4>1. m \in MapFile /\ (m = disk => failed \/ disk = m) BY <3>1 DEF Loadable
      <4> QED BY <1>1, <2>1, <2>2, <2>3, <3>1, <4>1, EnterFacts DEF TypeOK
    <3>2. CASE ~Loadable(m)
      <4>1. IsMap(map') BY <2>2, <3>2, DefaultMapFacts
      <4>2. Sound(body', map') BY <2>1, <2>3, <4>1, PlacedFacts DEF Sound
      <4> QED BY <1>1, <2>2, <3>2, <4>1, <4>2 DEF TypeOK, MapInv, LastMapKept
    <3> QED BY <3>1, <3>2
  <2>5. body' \in Body /\ BodyInv' BY <2>4 DEF Sound, BodyInv, Slow, AtRest, InEdges
  <2>6. TypeOK' BY <1>1, <2>1, <2>4, <2>5 DEF TypeOK
  <2> QED BY <2>4, <2>5, <2>6 DEF IInv
<1>5. ASSUME UNCHANGED <<playing, body, move, chat, place, dt>> PROVE IInv'
  BY <1>1, <1>5 DEF IInv, TypeOK, BodyInv, MapInv, LastMapKept, place
<1>6. CASE FileEvent BY <1>5, <1>6 DEF FileEvent
<1>7. CASE UNCHANGED vars BY <1>5, <1>7 DEF vars
<1> QED BY <1>2, <1>3, <1>4, <1>6, <1>7 DEF Next

\* Who stands does not fall, nobody is faster than one can walk or outside
\* the borders but where he was placed, the default map is never taken for a
\* file, and the map is remembered: in every state, for all maps and frames.
THEOREM Invariant == Spec => []IInv
BY InitInv, StepInv, PTL DEF Spec

\* The map one was in last is what the player state names, unless its last
\* write failed: however often one changes maps, quits or loses files.
THEOREM LastMapSafety == Spec => []LastMapKept
<1>1. IInv => LastMapKept BY DEF IInv
<1> QED BY <1>1, Invariant, PTL

-----------------------------------------------------------------------------
(* The floors.                                                             *)

FloorStep ==
  \A f \in FloorsAround(body, map) :
    /\ playing /\ playing' /\ map' = map
    /\ body.pos[2] <= f.p1[2]
    /\ body'.drop <= 0 \/ (chat /\ body.drop <= 0)
    => body'.pos[2] <= f.p1[2] \/ \E p \in Places(map) : body' = PlacedAt(p)

LEMMA FloorHeld == IInv /\ [Next]_vars => [FloorStep]_vars
<1> SUFFICES ASSUME IInv, Next PROVE FloorStep
  BY DEF vars
<1>1. CASE Frame
  <2>1. CASE Walks
    <3>1. PICK chatting \in BOOLEAN, held \in -1..1,
               edge \in [jump : BOOLEAN, drop : BOOLEAN], k \in 1..MaxTicks :
            body' = Walk(chatting, held, edge, k) /\ (chat => chatting \/ ~edge.drop)
      BY <2>1 DEF Walks
    <3>2. map.spawn \in Places(map) BY DEF Places
    <3>3. ASSUME NEW f \in FloorsAround(body, map), body.pos[2] <= f.p1[2],
                 body'.drop <= 0 \/ (chat /\ body.drop <= 0)
          PROVE  body'.pos[2] <= f.p1[2] \/ body' = PlacedAt(map.spawn)
      BY <2>1, <3>1, <3>3, WalkFacts DEF Walks
    <3> QED BY <3>2, <3>3 DEF FloorStep
  <2>2. CASE Enters
    <3>1. PICK portal : /\ portal.target \in MapFile /\ map' = Content[portal.target]
                        /\ body' = PlacedAt(Arrival(map', portal))
      BY <2>2 DEF Enters
    <3>2. Arrival(map', portal) \in Places(map') BY <3>1, ContentAssumption, ArrivalFacts
    <3> QED BY <3>1, <3>2 DEF FloorStep
  <2> QED BY <1>1, <2>1, <2>2, FrameSteps
<1>2. CASE Quit BY <1>2 DEF Quit, FloorStep
<1>3. CASE Start BY <1>3 DEF Start, FloorStep
<1>4. CASE FileEvent BY <1>4 DEF FileEvent, FloorStep
<1> QED BY <1>1, <1>2, <1>3, <1>4 DEF Next

\* Nobody falls through a level floor that reaches further than a frame: not
\* in the longest frame, not where he lands exactly on it, not beside another
\* platform or a wall, unless he drops; for any footholds and frames.
THEOREM FloorSafety == Spec => FloorHolds
<1>1. [FloorStep]_vars => [\A f \in FloorsAround(body, map) :
         /\ playing /\ playing' /\ map' = map
         /\ body.pos[2] <= f.p1[2]
         /\ body'.drop <= 0 \/ (chat /\ body.drop <= 0)
         => body'.pos[2] <= f.p1[2] \/ \E p \in Places(map) : body' = PlacedAt(p)]_vars
  BY DEF FloorStep
<1> QED BY <1>1, Invariant, FloorHeld, PTL DEF Spec, FloorHolds
================================================================================
