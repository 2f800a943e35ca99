------------------------------ MODULE GameScreen ------------------------------
(***************************************************************************)
(* The game screen: the player on a map, the chat line that holds the      *)
(* keys, the portals and the map that is remembered for the next start     *)
(* (GameScreen, ChatOverlay's input, PlayerState, App::MakeScreen and the  *)
(* frame of HostLoop).  The movement is Platformer's.                      *)
(*                                                                         *)
(* One step is one frame.  The frames of a run are equally long (dt), but  *)
(* for hitches, which HostLoop cuts off at MaxTicks.  A map is what Load   *)
(* makes of its file: footholds, portals, spawn and the borders of         *)
(* CameraBounds (and, as a reference, the runs of the shapes put into it). *)
(* Left out: the camera, what is drawn, what is sent to the server, and    *)
(* the login screen and the menu before the game.                          *)
(***************************************************************************)
EXTENDS Platformer

CONSTANTS
  MapFile,     \* the names of maps
  Content,     \* what Load makes of each
  StartFile,   \* the map of a player without a last one
  NoMap,       \* the empty name
  CutName,     \* a name that a cut file leaves: no map has it
  FrameTicks,  \* how long frames are
  MaxTicks,    \* the longest, after a hitch
  MaxEvents    \* bounds the presses, hitches and failures

VARIABLES
  playing,     \* the process is in the game screen
  map,         \* m_map
  name,        \* the name of its file, NoMap for the default map
  body,        \* m_player
  move,        \* the direction held: -1, 0, 1
  chat,        \* ChatOverlay::m_active
  last,        \* m_lastMap
  disk,        \* the map the player state file names
  broken,      \* the map files that cannot be loaded
  dt,          \* the length of a frame
  failed,      \* history: the last write of the player state went wrong
  events

place == <<map, name, last, disk, failed>>
vars == <<playing, body, move, chat, place, broken, dt, events>>

ASSUME GameScreenAssumption ==
  /\ StartFile \in MapFile /\ {NoMap, CutName} \cap MapFile = {}
  /\ FrameTicks \subseteq 1..MaxTicks
  /\ MaxTicks \in 1..(DropTime - 1)   \* kMaxFrameDt is 50 ms, the drop 180
  /\ MaxEvents \in Nat

\* What a map consists of.
Point == Int \X Int
Line == [id : Nat, p1 : Point, p2 : Point]
Door == [id : Nat, pos : Point, target : MapFile \cup {NoMap}, partner : Nat]
IsMap(m) ==
  /\ m.footholds \in Seq(Line)
  /\ m.portals \in Seq(Door)
  /\ m.spawn \in Point /\ {m.left, m.right, m.bottom} \subseteq Int

ASSUME ContentAssumption == \A m \in MapFile : IsMap(Content[m])

\* BuildDefaultMap: 80 x 40 tiles, a floor, a slope and a platform.
DefaultMap ==
  [footholds |-> <<Foothold(1, <<0, 640 * Px>>, <<1600 * Px, 640 * Px>>),
                   Foothold(2, <<1600 * Px, 640 * Px>>, <<1900 * Px, 520 * Px>>),
                   Foothold(3, <<704 * Px, 480 * Px>>, <<1024 * Px, 480 * Px>>)>>,
   portals |-> <<>>, spawn |-> <<200 * Px, 560 * Px>>,
   left |-> 0, right |-> 80 * TileSize * Px, bottom |-> 40 * TileSize * Px,
   runs |-> {}]

Loadable(m) == m \in MapFile \ broken

Spend(n) == events + n <= MaxEvents /\ events' = events + n

-----------------------------------------------------------------------------
(* PlayerState.                                                            *)

\* SetLastMap, where the last map known is another or the same, in a frame
\* with this many other events.  Nobody learns of a write that fails.
SetLastMap(known, m, others) ==
  /\ last' = m
  /\ IF m = known THEN Spend(others) /\ UNCHANGED <<disk, failed>>
     ELSE \/ Spend(others) /\ disk' = m /\ failed' = FALSE
          \/ Spend(others + 1) /\ disk' \in {disk, NoMap, CutName} /\ failed' = TRUE

-----------------------------------------------------------------------------
(* The player.                                                             *)

PlayerBox(pos) == [x1 |-> pos[1] - 14 * Px, x2 |-> pos[1] + 14 * Px,
                   y1 |-> pos[2] - 48 * Px, y2 |-> pos[2]]
PortalBox(pos) == [x1 |-> pos[1] - 20 * Px, x2 |-> pos[1] + 20 * Px,
                   y1 |-> pos[2] - 60 * Px, y2 |-> pos[2]]
Intersects(a, b) == a.x1 < b.x2 /\ a.x2 > b.x1 /\ a.y1 < b.y2 /\ a.y2 > b.y1

\* The portals that lead somewhere and touch the player; the first is used.
Touched(b) ==
  {i \in DOMAIN map.portals :
     /\ map.portals[i].target # NoMap
     /\ Intersects(PlayerBox(b.pos), PortalBox(map.portals[i].pos))}

\* Where a portal leads to: its partner, or the spawn.
Arrival(m, portal) ==
  LET partners == {i \in DOMAIN m.portals :
                     portal.partner # 0 /\ m.portals[i].id = portal.partner}
  IN  IF partners = {} THEN m.spawn ELSE m.portals[Min(partners)].pos

\* The borders at the sides, and below the map the way back to the spawn.
Bounded(b, m) ==
  LET c == ClampedX(b, m.left, m.right)
  IN  IF c.pos[2] > m.bottom + 200 * Px THEN PlacedAt(m.spawn) ELSE c

-----------------------------------------------------------------------------
(* A frame.                                                                *)

NoEdge == [jump |-> FALSE, drop |-> FALSE]

\* The player after the physics; the chat line holds the keys.
Walk(chatting, held, edge, k) ==
  LET in == IF chatting THEN [move |-> 0, jump |-> FALSE, drop |-> FALSE]
            ELSE [move |-> held, jump |-> edge.jump, drop |-> edge.drop]
  IN  Bounded(Updated(body, in, map.footholds, k), map)

\* What a frame with the given keys comes to, without a portal.
Stepped(chatting, held, edge, k) ==
  body' = Walk(chatting, held, edge, k)

Same == UNCHANGED <<playing, broken, dt>>

\* A frame in which nothing is pressed or let go.
Tick ==
  /\ playing
  /\ UNCHANGED move
  /\ Stepped(chat, move, NoEdge, dt)
  /\ Same /\ UNCHANGED <<chat, place, events>>

\* A frame that took longer: the debugger, a slow disk.
Hitch ==
  /\ playing /\ Spend(1)
  /\ UNCHANGED move
  /\ Stepped(chat, move, NoEdge, MaxTicks)
  /\ Same /\ UNCHANGED <<chat, place>>

Turn ==
  /\ playing /\ Spend(1)
  /\ \E held \in {-1, 0, 1} \ {move} : move' = held /\ Stepped(chat, held, NoEdge, dt)
  /\ Same /\ UNCHANGED <<chat, place>>

\* The key of the action Jump, with Down or without.
Jump ==
  /\ playing /\ Spend(1)
  /\ UNCHANGED move
  /\ \E drop \in BOOLEAN : Stepped(chat, move, [jump |-> ~drop, drop |-> drop], dt)
  /\ Same /\ UNCHANGED <<chat, place>>

\* Enter opens the chat line, and closes it if it is empty; a click beside
\* it closes it too.  Text is sent, and the line stays open.
Chat ==
  /\ playing /\ Spend(1)
  /\ UNCHANGED move
  /\ chat' = ~chat
  /\ Stepped(~chat, move, NoEdge, dt)
  /\ Same /\ UNCHANGED place

\* Mutant: the map counts as entered before it is loaded.
TryEnterPortal_TooEarly(walked) ==
  LET portal == map.portals[Min(Touched(walked))]
  IN  IF Touched(walked) # {}
        THEN /\ IF Loadable(portal.target)
                  THEN /\ map' = Content[portal.target] /\ name' = portal.target
                       /\ body' = PlacedAt(Arrival(map', portal))
                  ELSE body' = walked /\ UNCHANGED <<map, name>>
             /\ SetLastMap(last, portal.target, 1)
        ELSE body' = walked /\ Spend(1) /\ UNCHANGED place

\* TryEnterPortal, for the player after the physics.  A target that cannot
\* be loaded leaves everything as it was.
TryEnterPortal(walked) ==
  LET portal == map.portals[Min(Touched(walked))]
  IN  IF Touched(walked) # {} /\ Loadable(portal.target)
        THEN /\ map' = Content[portal.target] /\ name' = portal.target
             /\ body' = PlacedAt(Arrival(map', portal))
             /\ SetLastMap(last, portal.target, 1)
        ELSE body' = walked /\ Spend(1) /\ UNCHANGED place

\* The key Up
UpKey ==
  /\ playing /\ ~chat
  /\ UNCHANGED move
  /\ TryEnterPortal(Walk(FALSE, move, NoEdge, dt))
  /\ Same /\ UNCHANGED chat

-----------------------------------------------------------------------------
\* Escape, the cross, or a crash: every change of maps is saved already.
Quit ==
  /\ playing /\ playing' = FALSE
  /\ Spend(1)
  /\ body' = PlacedAt(<<0, 0>>) /\ move' = 0 /\ chat' = FALSE
  /\ failed' = FALSE
  /\ UNCHANGED <<map, name, last, disk, broken, dt>>

\* The next game: the file is read and its map is entered.  A map that
\* cannot be loaded is replaced by the default map, its name is kept.
Start ==
  /\ ~playing /\ playing' = TRUE
  /\ LET m == IF disk = NoMap THEN StartFile ELSE disk
     IN  IF Loadable(m)
           THEN map' = Content[m] /\ name' = m /\ SetLastMap(disk, m, 0)
           ELSE /\ map' = DefaultMap /\ name' = NoMap /\ last' = disk
                /\ UNCHANGED <<disk, failed, events>>
  /\ body' = PlacedAt(map'.spawn)
  /\ UNCHANGED <<move, chat, broken, dt>>

\* The editor, or somebody else, takes a map away or brings it back.
FileEvent ==
  /\ Spend(1)
  /\ \E m \in MapFile : broken' \in {broken \cup {m}, broken \ {m}}
  /\ broken' # broken
  /\ UNCHANGED <<playing, body, move, chat, place, dt>>

Init ==
  /\ playing = FALSE
  /\ map = DefaultMap /\ name = NoMap /\ last = NoMap /\ disk = NoMap /\ failed = FALSE
  /\ body = PlacedAt(<<0, 0>>) /\ move = 0 /\ chat = FALSE
  /\ broken = {}
  /\ dt \in FrameTicks
  /\ events = 0

Frame == Tick \/ Hitch \/ Turn \/ Jump \/ Chat \/ UpKey
Next == Frame \/ Quit \/ Start \/ FileEvent

Spec == Init /\ [][Next]_vars
-----------------------------------------------------------------------------
\* Where a body is placed, and what it walks between.
Places(m) == {m.spawn} \cup {m.portals[i].pos : i \in DOMAIN m.portals}
Edges(m) == {m.left, m.right} \cup {p[1] : p \in Places(m)}

\* The level floors that reach further to both sides than a frame can lead.
FloorsAround(b, m) ==
  {f \in {m.footholds[i] : i \in DOMAIN m.footholds} :
     /\ f.p1[2] = f.p2[2]
     /\ f.p1[1] <= b.pos[1] - WalkSpeed * MaxTicks
     /\ f.p2[1] >= b.pos[1] + WalkSpeed * MaxTicks}

\* The one-way landing (FindLanding, its tolerance, the drop timer, arrivals
\* exactly on a floor, walls and platforms beside it, hitches): nobody gets
\* below a level floor under him but while a drop of his own lasts, which the
\* chat line does not make, or by being placed there.
FloorHolds ==
  [][\A f \in FloorsAround(body, map) :
       /\ playing /\ playing' /\ map' = map
       /\ body.pos[2] <= f.p1[2]
       /\ body'.drop <= 0 \/ (chat /\ body.drop <= 0)
       => body'.pos[2] <= f.p1[2] \/ \E p \in Places(map) : body' = PlacedAt(p)]_vars

Near(a, b, d) == a - b \in -d..d
Within(r, pos) == r.left <= pos[1] /\ pos[1] <= r.right /\ r.top <= pos[2] /\ pos[2] <= r.bottom

\* ShapeToMap.cpp, "so that the character does not misstep at the end of a
\* foothold": who walks on a shape keeps the ground up to the borders of its
\* columns, over every slope and joint, at steps of at most GroundTol.
RunIsWalkable ==
  [][\A r \in map.runs :
       /\ playing /\ playing' /\ map' = map
       /\ body.grounded /\ body'.vel[2] = 0
       /\ Within(r, body.pos) /\ r.left <= body'.pos[1] /\ body'.pos[1] <= r.right
       /\ Near(body'.pos[1], body.pos[1], GroundTol)
       => body'.grounded]_vars

\* PlayerState.h: whichever way the game ends, the map one was in last is
\* what the file names, unless its last write failed; the default map that
\* stands for a missing one is not remembered.
LastMapKept ==
  playing /\ name # NoMap => last = name /\ (failed \/ disk = name)

\* PlatformerController.h: a body stopped by the border of the map sticks to
\* it and keeps its landing.  With ground under it, it goes on standing.
GroundKept ==
  [][/\ playing /\ playing' /\ map' = map
     /\ body.grounded /\ body'.vel[2] = 0
     /\ GroundAt(map.footholds, body'.pos[1], body'.pos[2], GroundTol) # 0
     => body'.grounded]_vars

-----------------------------------------------------------------------------
(* What these follow from, in a form that every step preserves.            *)

Body == [pos : Point, vel : Point, grounded : BOOLEAN, on : Int, drop : Int]

TypeOK ==
  /\ playing \in BOOLEAN /\ chat \in BOOLEAN /\ failed \in BOOLEAN
  /\ move \in -1..1 /\ dt \in FrameTicks /\ IsMap(map)
  /\ body \in Body

\* Who stands does not fall, nobody is faster than one can walk, and the body
\* is within the borders or where it was placed beyond them.
BodyInv ==
  /\ body.grounded => body.vel[2] = 0
  /\ body.vel[1] \in -WalkSpeed..WalkSpeed
  /\ playing => \E a, b \in Edges(map) : a <= body.pos[1] /\ body.pos[1] <= b

\* From the default map no portal leads to a map that would be remembered.
MapInv == name = NoMap => map = DefaultMap

IInv == TypeOK /\ BodyInv /\ MapInv /\ LastMapKept
================================================================================
