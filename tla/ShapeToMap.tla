------------------------------ MODULE ShapeToMap ------------------------------
(***************************************************************************)
(* From a shape of tiles to footholds (ShapeToMap.cpp) and the geometry of *)
(* a foothold (Foothold.h).  A shape is its width w, its height h and the  *)
(* set of its cells that hold a tile; y grows downwards.                   *)
(*                                                                         *)
(* World coordinates are hundredths of a pixel: every number the code gets *)
(* from a tile size of 32 px is an integer then.                           *)
(***************************************************************************)
EXTENDS Integers, Sequences, SequencesExt

Px == 100
TileSize == 32

\* Foothold.h.  The ends of the footholds here are in the order of their x.
Foothold(id, p1, p2) == [id |-> id, p1 |-> p1, p2 |-> p2]
IsWall(f) == f.p1[1] = f.p2[1]
ContainsX(f, x) == f.p1[1] <= x /\ x <= f.p2[1]
SurfaceY(f, x) ==
  f.p1[2] + ((f.p2[2] - f.p1[2]) * (x - f.p1[1])) \div (f.p2[1] - f.p1[1])

-----------------------------------------------------------------------------
NoSurface == -1

\* The highest cell of column x that has a tile and none above it.
SurfaceRow(shape, x) ==
  LET rows == {y \in 0..(shape.h - 1) :
                 <<x, y>> \in shape.cells /\ <<x, y - 1>> \notin shape.cells}
  IN  IF rows = {} THEN NoSurface ELSE Min(rows)

Surface(shape) == [x \in 0..(shape.w - 1) |-> SurfaceRow(shape, x)]

\* Neighbouring columns of one run: both have a surface, a step at most apart.
Joined(s, x) ==
  /\ s[x] # NoSurface /\ s[x + 1] # NoSurface
  /\ s[x + 1] - s[x] \in -1..1

\* The longest runs of columns, as pairs of the first and the last.
Runs(s, w, minCells) ==
  {r \in (0..(w - 1)) \X (0..(w - 1)) :
     /\ r[1] <= r[2] /\ r[2] - r[1] + 1 >= minCells
     /\ s[r[1]] # NoSurface
     /\ \A x \in r[1]..(r[2] - 1) : Joined(s, x)
     /\ r[1] = 0 \/ ~Joined(s, r[1] - 1)
     /\ r[2] = w - 1 \/ ~Joined(s, r[2])}

\* Mutant: the ends of a run are not extended by half a cell.
Points_Centred(s, r) ==
  [i \in 1..(r[2] - r[1] + 1) |->
     <<2 * (r[1] + i - 1) + 1, 2 * s[r[1] + i - 1]>>]

\* The points of a run, in half cells: the middle of every column, and half
\* a cell more on both sides along the slope there.
Points(s, r) ==
  LET first == IF r[1] < r[2] THEN s[r[1] + 1] - s[r[1]] ELSE 0
      last  == IF r[1] < r[2] THEN s[r[2]] - s[r[2] - 1] ELSE 0
      middle == [i \in 1..(r[2] - r[1] + 1) |->
                   <<2 * (r[1] + i - 1) + 1, 2 * s[r[1] + i - 1]>>]
  IN  <<<<2 * r[1], 2 * s[r[1]] - first>>>> \o middle
        \o <<<<2 * (r[2] + 1), 2 * s[r[2]] + last>>>>

Collinear(a, b, c) ==
  (b[1] - a[1]) * (c[2] - a[2]) = (b[2] - a[2]) * (c[1] - a[1])

\* A point replaces the last one on the same line; once is enough, since no
\* three that are kept are on a line.
Push(points, p) ==
  LET n == Len(points)
  IN  Append(IF n >= 2 /\ Collinear(points[n - 1], points[n], p)
               THEN Front(points) ELSE points, p)

Simple(points) == FoldLeft(Push, <<>>, points)

\* ExtractFootholds, with the cell the shape is put at.
ExtractFootholds(shape, cell, nextId, minCells) ==
  LET s == Surface(shape)
      Coord(c, n) == ((2 * c + n) * TileSize * Px) \div 2
      World(p) == <<Coord(cell[1], p[1]), Coord(cell[2], p[2])>>
      Line(r) == Simple(Points(s, r))
      Pieces(r) == [i \in 1..(Len(Line(r)) - 1) |-> <<Line(r)[i], Line(r)[i + 1]>>]
      runs == SetToSortSeq(Runs(s, shape.w, IF minCells < 1 THEN 1 ELSE minCells),
                           LAMBDA a, b : a[1] < b[1])
      all == FlattenSeq([i \in DOMAIN runs |-> Pieces(runs[i])])
  IN  [i \in DOMAIN all |-> Foothold(nextId + i - 1, World(all[i][1]), World(all[i][2]))]

Width(f) == f.p2[1] - f.p1[1]

\* ApplyShape, for a map that is its footholds and its spawn: ids after the
\* largest one, and the spawn above the middle of the longest new foothold.
ApplyShape(map, shape, cell, minCells) ==
  LET nextId == Max({0} \cup {map.footholds[i].id : i \in DOMAIN map.footholds}) + 1
      added == ExtractFootholds(shape, cell, nextId, minCells)
      best == CHOOSE i \in DOMAIN added :
                /\ \A j \in DOMAIN added : Width(added[j]) <= Width(added[i])
                /\ \A j \in 1..(i - 1) : Width(added[j]) < Width(added[i])
      middle == (added[best].p1[1] + added[best].p2[1]) \div 2
  IN  [map EXCEPT !.footholds = @ \o added,
                  !.spawn = IF added = <<>> THEN @
                            ELSE <<middle, SurfaceY(added[best], middle) - 2 * Px>>]
================================================================================
