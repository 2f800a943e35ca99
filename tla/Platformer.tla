------------------------------ MODULE Platformer ------------------------------
(***************************************************************************)
(* The movement of a body over footholds: PlatformerController and the     *)
(* queries of FootholdMap.                                                 *)
(*                                                                         *)
(* Time is in hundredths of a second, speed in pixels per second, place in *)
(* hundredths of a pixel: a frame of k hundredths moves v * k.  A body is  *)
(* the point at its feet (pos), vel, grounded, the id of its foothold (on) *)
(* and what is left of m_dropTimer (drop).                                 *)
(***************************************************************************)
EXTENDS ShapeToMap

Gravity == 2000
MaxFallSpeed == 900
WalkSpeed == 260
WalkAccel == 3200
AirAccel == 1800
Friction == 3200
JumpSpeed == 596
BodyHalfW == 14 * Px
BodyHeight == 48 * Px
DropTime == 18

\* How far walking looks for the ground, and how far below a surface the
\* feet may have been when they come down on it.
GroundTol == 8 * Px
LandingEps == Px

\* SetPosition
PlacedAt(pos) == [pos |-> pos, vel |-> <<0, 0>>, grounded |-> FALSE, on |-> 0, drop |-> 0]

Clamp(n, low, high) == IF n < low THEN low ELSE IF n > high THEN high ELSE n

-----------------------------------------------------------------------------
(* FootholdMap: the foothold's index, 0 if there is none.                  *)

Floors(fhs, x) == {i \in DOMAIN fhs : ~IsWall(fhs[i]) /\ ContainsX(fhs[i], x)}

\* Mutant: the feet must have been above the surface by more than the step.
FindLanding_Strict(fhs, x, prevY, newY) ==
  LET crossed == {i \in Floors(fhs, x) :
                    prevY < SurfaceY(fhs[i], x) /\ newY > SurfaceY(fhs[i], x)}
  IN  IF crossed = {} THEN 0
      ELSE CHOOSE i \in crossed : \A j \in crossed :
             SurfaceY(fhs[i], x) <= SurfaceY(fhs[j], x)

\* The highest surface that the feet come down through, the first of equals.
FindLanding(fhs, x, prevY, newY) ==
  LET Y(i) == SurfaceY(fhs[i], x)
      crossed == {i \in Floors(fhs, x) : prevY <= Y(i) + LandingEps /\ newY >= Y(i)}
  IN  IF crossed = {} THEN 0
      ELSE CHOOSE i \in crossed : \A j \in crossed :
             Y(i) < Y(j) \/ (Y(i) = Y(j) /\ i <= j)

\* The nearest surface within the tolerance, the last of equals.
GroundAt(fhs, x, feetY, tol) ==
  LET Dy(i) == IF SurfaceY(fhs[i], x) >= feetY THEN SurfaceY(fhs[i], x) - feetY
               ELSE feetY - SurfaceY(fhs[i], x)
      near == {i \in Floors(fhs, x) : Dy(i) <= tol}
  IN  IF near = {} THEN 0
      ELSE CHOOSE i \in near : \A j \in near :
             Dy(i) < Dy(j) \/ (Dy(i) = Dy(j) /\ i >= j)

\* Where a body that moves from prevX to newX is stopped by a wall.
BlockHorizontal(fhs, prevX, newX, halfW, topY, bottomY) ==
  LET walls == {fhs[i] : i \in {j \in DOMAIN fhs : IsWall(fhs[j])}}
      beside == {f.p1[1] : f \in {g \in walls :
                   /\ bottomY > Min({g.p1[2], g.p2[2]})
                   /\ topY < Max({g.p1[2], g.p2[2]})}}
  IN  IF newX > prevX
        THEN Min({newX} \cup {w - halfW : w \in
                   {u \in beside : prevX + halfW <= u /\ newX + halfW > u}})
        ELSE Max({newX} \cup {w + halfW : w \in
                   {u \in beside : newX < prevX /\ prevX - halfW >= u /\ newX - halfW < u}})

-----------------------------------------------------------------------------
(* PlatformerController::Update, in its order.                             *)

\* Acceleration up to the walking speed; friction on the ground.
WalkedX(b, move, k) ==
  IF move # 0
    THEN LET accel == IF b.grounded THEN WalkAccel ELSE AirAccel
         IN  Clamp(b.vel[1] + move * ((accel * k) \div 100), -WalkSpeed, WalkSpeed)
  ELSE IF ~b.grounded THEN b.vel[1]
  ELSE LET fr == (Friction * k) \div 100
       IN  IF b.vel[1] > fr THEN b.vel[1] - fr
           ELSE IF b.vel[1] < -fr THEN b.vel[1] + fr ELSE 0

\* The drop: a little below the surface, and no landing for a while.
Dropped(b, drop) ==
  IF drop /\ b.grounded
    THEN [b EXCEPT !.grounded = FALSE, !.on = 0, !.drop = DropTime, !.pos[2] = @ + 2 * Px]
    ELSE b

TimerRun(b, k) == [b EXCEPT !.drop = IF @ > 0 THEN @ - k ELSE @]

Jumped(b, jump) ==
  IF jump /\ b.grounded
    THEN [b EXCEPT !.vel[2] = -JumpSpeed, !.grounded = FALSE, !.on = 0] ELSE b

Fallen(b, k) ==
  IF b.grounded THEN b
  ELSE [b EXCEPT !.vel[2] = Min({@ + (Gravity * k) \div 100, MaxFallSpeed})]

\* The move, stopped by walls.
Moved(b, fhs, k) ==
  LET x == b.pos[1] + b.vel[1] * k
      y == b.pos[2] + b.vel[2] * k
      stop == BlockHorizontal(fhs, b.pos[1], x, BodyHalfW, y - BodyHeight, y)
  IN  [b EXCEPT !.pos = <<stop, y>>, !.vel[1] = IF stop = x THEN @ ELSE 0]

\* Mutant: who lands keeps the speed of the fall.
StandOn_Falling(b, f) ==
  [b EXCEPT !.pos[2] = SurfaceY(f, b.pos[1]), !.grounded = TRUE, !.on = f.id]

StandOn(b, f) ==
  [b EXCEPT !.pos[2] = SurfaceY(f, b.pos[1]), !.vel[2] = 0,
            !.grounded = TRUE, !.on = f.id]

\* The ground under the feet, or a landing from prevY.
Settled(b, fhs, prevY) ==
  IF b.grounded
    THEN LET i == GroundAt(fhs, b.pos[1], b.pos[2], GroundTol)
         IN  IF i # 0 THEN StandOn(b, fhs[i])
             ELSE [b EXCEPT !.grounded = FALSE, !.on = 0]
  ELSE IF b.vel[2] >= 0 /\ b.drop <= 0
    THEN LET i == FindLanding(fhs, b.pos[1], prevY, b.pos[2])
         IN  IF i # 0 THEN StandOn(b, fhs[i]) ELSE b
  ELSE b

Updated(b, in, fhs, k) ==
  LET walked == [b EXCEPT !.vel[1] = WalkedX(b, in.move, k)]
      left == Fallen(Jumped(TimerRun(Dropped(walked, in.drop), k), in.jump), k)
  IN  Settled(Moved(left, fhs, k), fhs, left.pos[2])

\* ClampX: the borders of the map.
ClampedX(b, minX, maxX) ==
  [b EXCEPT !.pos[1] = Clamp(@, minX, maxX),
            !.vel[1] = IF (b.pos[1] < minX /\ @ < 0) \/ (b.pos[1] > maxX /\ @ > 0)
                         THEN 0 ELSE @]
================================================================================
