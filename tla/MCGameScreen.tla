----------------------------- MODULE MCGameScreen -----------------------------
(* Small maps for GameScreen: 160 px wide, instead of 1000 and more.         *)
EXTENDS GameScreen

Wide(y) == Foothold(1, <<-32 * Px, y * Px>>, <<192 * Px, y * Px>>)
Portal(id, x, y, target, partner) ==
  [id |-> id, pos |-> <<x * Px, y * Px>>, target |-> target, partner |-> partner]
Empty(fhs, portals, spawn, bottom) ==
  [footholds |-> fhs, portals |-> portals, spawn |-> <<spawn[1] * Px, spawn[2] * Px>>,
   left |-> 0, right |-> 160 * Px, bottom |-> bottom * Px, runs |-> {}]

\* A slope up, a level part, a cliff.
Hill == [w |-> 4, h |-> 3,
         cells |-> {<<0, 1>>, <<1, 0>>, <<1, 1>>, <<2, 0>>, <<3, 2>>}]
HillCell == <<1, 2>>

RunsOf(shape, cell) ==
  LET s == Surface(shape)
      Box(r) == [left |-> (cell[1] + r[1]) * TileSize * Px,
                 right |-> (cell[1] + r[2] + 1) * TileSize * Px,
                 top |-> (cell[2] - 1) * TileSize * Px,
                 bottom |-> (cell[2] + shape.h) * TileSize * Px - 1]
  IN  {Box(r) : r \in Runs(s, shape.w, 2)}

\* The hill over a floor, with a portal on the floor.
Field ==
  [ApplyShape(Empty(<<Wide(160)>>, <<Portal(3, 144, 160, "cave", 3)>>, <<20, 100>>, 170),
              Hill, HillCell, 2)
   EXCEPT !.runs = RunsOf(Hill, HillCell)]

\* A wall, and a platform so low that a drop from it misses the floor too.
Cave ==
  Empty(<<Wide(96), Foothold(2, <<40 * Px, 80 * Px>>, <<100 * Px, 80 * Px>>),
          Foothold(3, <<130 * Px, 40 * Px>>, <<130 * Px, 96 * Px>>)>>,
        <<Portal(1, 60, 80, NoMap, 0), Portal(3, 60, 96, "field", 9)>>,
        <<20, 60>>, 100)

SmallMaps == "field" :> Field @@ "cave" :> Cave

\* Like crystalgarden: the lowest floor begins at the border.
Garden ==
  Empty(<<Foothold(1, <<0, 96 * Px>>, <<192 * Px, 96 * Px>>)>>, <<>>, <<40, 94>>, 100)
BorderMaps == "garden" :> Garden
===============================================================================
