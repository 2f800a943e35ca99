------------------------------- MODULE MapEditor -------------------------------
(***************************************************************************)
(* The map editor: MapEditor, the screen that drives it (MapEditorScreen), *)
(* the shell that switches screens (EditorApp), the map files (Map::Save,  *)
(* Map::Load) and what a shape of the AI tool does to the map (ApplyShape).*)
(*                                                                         *)
(* One step is one frame with one input.  File dialogs and the close       *)
(* prompt are modal, so a frame includes the answer; a cancelled dialog    *)
(* changes nothing.  A map is its footholds, the ids of its portals, bg    *)
(* (whether the name of the background has a space in it) and rest, which  *)
(* stands for all the rest: tiles, size, spawn, objects, mobs, rectangles, *)
(* concept, where the portals are and lead to.                             *)
(* Left out: the camera, the grid and snapping, the palettes and their     *)
(* search box, the status line and everything drawn.  A click may hit any  *)
(* portal or foothold, or none.                                            *)
(***************************************************************************)
EXTENDS Integers, Sequences, FiniteSets

CONSTANTS
  Path,        \* the map files a dialog can name
  NoPath,
  NoMap,       \* no snapshot yet
  Absent, Broken,
  Point,       \* where footholds end
  Clicked,     \* the points that are clicked
  NoPoint,
  MaxEvents    \* bounds the edits and the writes that go wrong, together

VARIABLES
  scene,       \* "launcher", "data", "empty", "editing" or "gone"
  map,         \* m_map
  clean,       \* m_cleanSnapshot
  path,        \* m_mapPath
  disk,        \* what Load makes of each file
  mode,        \* m_mode
  pending,     \* m_pendingPoint, NoPoint without m_hasPending
  sel,         \* m_selectedPortal, 0 for none
  text,        \* m_textTarget: "none", "resize" or "target"
  nextFh,      \* m_nextFootholdId
  nextPt,      \* m_nextPortalId
  ai,          \* m_aiMode
  rect,        \* m_editingRect # 0: one of the two rectangles is edited
  preview,     \* AiShapeTool::HasPreview
  picked,      \* history: the id of the portal selected last
  behind,      \* history: footholds were added past nextFh's back
  damaged,     \* history: the files whose last write failed
  events

docs == <<map, clean, path, disk>>
tools == <<mode, pending, sel, text, nextFh, nextPt>>
panel == <<ai, rect, preview>>
history == <<picked, behind, damaged>>
vars == <<scene, docs, tools, panel, history, events>>

\* Tiles, the spawn and objects are placed alike.
Mode == {"browse", "place", "foothold", "portal"}
Foothold == [id : Nat, p1 : Point, p2 : Point]
Map == [fhs : SUBSET Foothold, portals : Seq(Nat),
        rest : 0..1, bg : {"token", "spaced"}]

ASSUME EditorAssumption ==
  /\ NoPath \notin Path /\ NoPoint \notin Point
  /\ Clicked \subseteq Point /\ {"a", "b", "c", "d", "e"} \subseteq Point
  /\ Absent # Broken /\ {NoMap, Absent, Broken} \cap Map = {}
  /\ MaxEvents \in Nat

-----------------------------------------------------------------------------
(* The map and its file.                                                   *)

DefaultFootholds ==
  {[id |-> 1, p1 |-> "a", p2 |-> "b"], [id |-> 2, p1 |-> "b", p2 |-> "c"],
   [id |-> 3, p1 |-> "d", p2 |-> "e"]}

EmptyMap ==
  [fhs |-> {}, portals |-> <<>>, rest |-> 0, bg |-> "token"]

\* BuildDefaultMap makes tiles, spawn and footholds anew; portals, objects,
\* mobs, rectangles, background and concept stay as they are.
DefaultMaps(m) == {[m EXCEPT !.fhs = DefaultFootholds, !.rest = r] : r \in 0..m.rest}

\* The text of a map as Load reads it: BACKGROUND is one token, what follows
\* a space in it is an unknown tag.
Written(m) == [m EXCEPT !.bg = "token"]

\* A file that ends early: it is read, without the sections it lacks, since
\* END is not required, or it is refused.
CutFiles(m) ==
  {Broken, [m EXCEPT !.portals = <<>>, !.rest = 0]}

\* A write that goes well.
Whole(m) == [ok |-> TRUE, file |-> Written(m)]

Event == events < MaxEvents /\ events' = events + 1

\* Map::Save: what it reports and what it leaves in the file.  The last part
\* of the text is written when the stream is closed, after the test.
Writes(p, m) ==
  {Whole(m), [ok |-> FALSE, file |-> disk[p]]}
    \cup [ok : BOOLEAN, file : CutFiles(Written(m))]

WriteFile(p, m, w) ==
  /\ disk' = [disk EXCEPT ![p] = w.file]
  /\ IF w = Whole(m)
       THEN damaged' = damaged \ {p} /\ UNCHANGED events
       ELSE damaged' = damaged \cup {p} /\ Event

IsDirty == map # clean

MaxOf(S) == CHOOSE m \in S \cup {0} : \A n \in S : n <= m
FootholdIds(m) == {f.id : f \in m.fhs}
PortalIds(m) == {m.portals[i] : i \in DOMAIN m.portals}

\* RefreshNextIds, for the map m.
RefreshNextIds(m) ==
  /\ nextFh' = MaxOf(FootholdIds(m)) + 1
  /\ nextPt' = MaxOf(PortalIds(m)) + 1
  /\ pending' = NoPoint /\ sel' = 0 /\ picked' = 0
  /\ behind' = FALSE

-----------------------------------------------------------------------------
(* Edits on the canvas.                                                    *)

Screen == scene = "editing"
Idle == Screen /\ text = "none"

\* A frame of MapEditor in mode m that sees the mouse.
Canvas(m) == Idle /\ ~ai /\ ~rect /\ mode = m

Edited(m) ==
  /\ map' = m
  /\ IF m = map THEN UNCHANGED events ELSE Event
EditOnly == UNCHANGED <<scene, clean, path, disk, panel, behind, damaged>>

\* Tile, Spawn and Object: left draws, sets or adds, right erases.
Place ==
  /\ Canvas("place")
  /\ \E r \in 0..1 : Edited([map EXCEPT !.rest = r])
  /\ EditOnly /\ UNCHANGED <<tools, picked>>

FirstPoint ==
  /\ Canvas("foothold") /\ pending = NoPoint
  /\ pending' \in Clicked
  /\ EditOnly /\ UNCHANGED <<map, events, mode, sel, text, nextFh, nextPt, picked>>

CancelPoint ==
  /\ Canvas("foothold")
  /\ pending' = NoPoint
  /\ EditOnly /\ UNCHANGED <<map, events, mode, sel, text, nextFh, nextPt, picked>>

SecondPoint ==
  /\ Canvas("foothold") /\ pending # NoPoint
  /\ \E p \in Clicked :
       Edited([map EXCEPT !.fhs = @ \cup {[id |-> nextFh, p1 |-> pending, p2 |-> p]}])
  /\ nextFh' = nextFh + 1
  /\ pending' = NoPoint
  /\ EditOnly /\ UNCHANGED <<mode, sel, text, nextPt, picked>>

FootholdsTouch(f, g) == {f.p1, f.p2} \cap {g.p1, g.p2} # {}

\* The footholds of S that hang together with f.
Connected(S, f) ==
  {g \in S : \A T \in SUBSET S :
     f \in T /\ (\A h \in T, k \in S : FootholdsTouch(h, k) => k \in T) => g \in T}

\* Alt and a click: EraseConnectedFootholds
EraseChain ==
  /\ Canvas("foothold")
  /\ \E f \in map.fhs : Edited([map EXCEPT !.fhs = @ \ Connected(@, f)])
  /\ pending' = NoPoint
  /\ EditOnly /\ UNCHANGED <<mode, sel, text, nextFh, nextPt, picked>>

PickPortal ==
  /\ Canvas("portal")
  /\ sel' \in DOMAIN map.portals
  /\ picked' = map.portals[sel']
  /\ EditOnly /\ UNCHANGED <<map, events, mode, pending, text, nextFh, nextPt>>

AddPortal ==
  /\ Canvas("portal")
  /\ Edited([map EXCEPT !.portals = Append(@, nextPt)])
  /\ nextPt' = nextPt + 1
  /\ sel' = Len(map.portals) + 1 /\ picked' = nextPt
  /\ EditOnly /\ UNCHANGED <<mode, pending, text, nextFh>>

Without(s, i) == [j \in 1..(Len(s) - 1) |-> IF j < i THEN s[j] ELSE s[j + 1]]

\* Mutant: the next id is the number of portals plus one.
DeletePortal_Counts ==
  /\ Canvas("portal")
  /\ \E i \in DOMAIN map.portals :
       /\ Edited([map EXCEPT !.portals = Without(@, i)])
       /\ sel' = IF sel = i THEN 0 ELSE IF sel > i THEN sel - 1 ELSE sel
       /\ picked' = IF sel = i THEN 0 ELSE picked
       /\ nextPt' = Len(map.portals)
  /\ EditOnly /\ UNCHANGED <<mode, pending, text, nextFh>>

\* Mutant: the selection is not moved.
DeletePortal_KeepsIndex ==
  /\ Canvas("portal")
  /\ \E i \in DOMAIN map.portals :
       /\ Edited([map EXCEPT !.portals = Without(@, i)])
       /\ sel' = IF sel = i THEN 0 ELSE sel
       /\ picked' = IF sel = i THEN 0 ELSE picked
       /\ nextPt' = MaxOf(PortalIds(map')) + 1
  /\ EditOnly /\ UNCHANGED <<mode, pending, text, nextFh>>

DeletePortal ==
  /\ Canvas("portal")
  /\ \E i \in DOMAIN map.portals :
       /\ Edited([map EXCEPT !.portals = Without(@, i)])
       /\ sel' = IF sel = i THEN 0 ELSE IF sel > i THEN sel - 1 ELSE sel
       /\ picked' = IF sel = i THEN 0 ELSE picked
       /\ nextPt' = MaxOf(PortalIds(map')) + 1
  /\ EditOnly /\ UNCHANGED <<mode, pending, text, nextFh>>

\* Right drag draws a rectangle, the handles resize it, a right click clears it.
DragRect ==
  /\ Idle /\ ~ai /\ rect
  /\ \E r \in 0..1 : Edited([map EXCEPT !.rest = r])
  /\ EditOnly /\ UNCHANGED <<tools, picked>>

-----------------------------------------------------------------------------
(* Text entry.  The keys work in every mode, the menus do not while text   *)
(* is typed.                                                               *)

TextOnly ==
  UNCHANGED <<scene, clean, path, disk, mode, pending, sel, nextFh, nextPt, ai, rect,
              history>>

\* R, without the AI mode
AskSize ==
  /\ Idle /\ ~ai
  /\ text' = "resize"
  /\ TextOnly /\ UNCHANGED <<map, events, preview>>

\* Enter with a portal selected
AskTarget ==
  /\ Canvas("portal") /\ sel \in DOMAIN map.portals
  /\ text' = "target"
  /\ TextOnly /\ UNCHANGED <<map, events, preview>>

\* CommitText: a size, or the target of the selected portal if there is one.
Committed ==
  {map} \cup IF text = "resize" \/ (text = "target" /\ sel \in DOMAIN map.portals)
            THEN {[map EXCEPT !.rest = r] : r \in 0..1} ELSE {}

\* Enter
CommitText ==
  /\ Screen /\ text # "none" /\ ~(ai /\ preview)
  /\ \E m \in Committed : Edited(m)
  /\ text' = "none"
  /\ TextOnly /\ UNCHANGED preview

\* Escape: a preview goes first.
CancelText ==
  /\ Screen /\ text # "none" /\ ~(ai /\ preview)
  /\ text' = "none"
  /\ TextOnly /\ UNCHANGED <<map, events, preview>>

-----------------------------------------------------------------------------
(* The AI mode: the tool has the canvas and Enter, R and Escape, and       *)
(* MapEditor still sees the keys of the same frame.                        *)

\* An answer arrives, or a drag, a label or Escape takes the preview away.
AiFrame ==
  /\ Screen /\ ai
  /\ preview' \in BOOLEAN
  /\ UNCHANGED <<scene, docs, tools, ai, rect, history, events>>

\* ApplyShape numbers the footholds by itself; the label goes into the map.
ApplyShape(m, S) ==
  [m EXCEPT !.rest = 1,
            !.fhs = @ \cup {[id |-> MaxOf(FootholdIds(m)) + 1, p1 |-> s[1], p2 |-> s[2]] :
                            s \in S}]

\* Enter: the shape is accepted, and text that is typed is committed.  The
\* surface of the shape gives footholds unless it is too short.
AiAccept ==
  /\ Screen /\ ai /\ preview
  /\ \E S \in {{}, {<<"d", "e">>}} :
       /\ \E m \in Committed :
            Edited(ApplyShape(m, S))
       /\ behind' = (behind \/ S # {})
  /\ preview' = FALSE
  /\ text' = "none"
  /\ UNCHANGED <<scene, clean, path, disk, mode, pending, sel, nextFh, nextPt, ai, rect,
                 picked, damaged>>

\* R: another shape is asked for, and the size of the map too.
AiRegenerate ==
  /\ Screen /\ ai
  /\ preview' = FALSE
  /\ text' = IF text = "none" THEN "resize" ELSE text
  /\ TextOnly /\ UNCHANGED <<map, events>>

-----------------------------------------------------------------------------
(* The menus.                                                              *)

\* SetMode, for the mode m; the tool's Reset comes with every choice of one.
SetMode(m) == mode' = m /\ pending' = NoPoint /\ preview' = FALSE
ModeOnly == UNCHANGED <<scene, docs, sel, text, nextFh, nextPt, history, events>>

\* Browse, the menu of placements, and the objects of the palette.
ChooseMode ==
  /\ Idle
  /\ \E m \in Mode : SetMode(m)
  /\ ai' = FALSE /\ rect' = FALSE
  /\ ModeOnly

\* Mutant: the mode stays a placement.
ChooseRect_KeepsMode ==
  /\ Idle
  /\ rect' \in BOOLEAN
  /\ ai' = FALSE /\ preview' = FALSE
  /\ ModeOnly /\ UNCHANGED <<mode, pending>>

ChooseRect ==
  /\ Idle
  /\ rect' \in BOOLEAN
  /\ SetMode("browse")
  /\ ai' = FALSE
  /\ ModeOnly

ToggleAi ==
  /\ Idle
  /\ ai' = ~ai /\ rect' = FALSE
  /\ SetMode("browse")
  /\ ModeOnly

ChooseBackground ==
  /\ Idle
  /\ \E b \in {"token", "spaced"}, r \in 0..1 : Edited([map EXCEPT !.bg = b, !.rest = r])
  /\ EditOnly /\ UNCHANGED <<tools, picked>>

-----------------------------------------------------------------------------
(* The files.                                                              *)

\* MapEditor::CreateDefault: the map counts as unchanged even if it could
\* not be written.
CreateDefault(p) ==
  \E m \in DefaultMaps(map) :
    /\ map' = m /\ clean' = m /\ path' = p
    /\ \E w \in Writes(p, m) : WriteFile(p, m, w)
    /\ mode' = "browse"
    /\ RefreshNextIds(m)

\* The menu, or N
NewMap ==
  /\ Idle
  /\ \E p \in Path : CreateDefault(p)
  /\ UNCHANGED <<scene, text, panel>>

SaveTo(p) ==
  \E w \in Writes(p, map) :
    /\ WriteFile(p, map, w)
    /\ IF w.ok THEN clean' = map /\ path' = p ELSE UNCHANGED <<clean, path>>

\* Save without a file is SaveAs; there the dialog may be cancelled.
Save ==
  IF path # NoPath THEN SaveTo(path)
  ELSE \/ \E p \in Path : SaveTo(p)
       \/ UNCHANGED <<clean, path, disk, damaged, events>>

SaveOnly == UNCHANGED <<scene, map, tools, panel, picked, behind>>
SaveMap == Idle /\ Save /\ SaveOnly

\* Mutant: the editor goes on with the old file.
SaveMapAs_KeepsPath ==
  /\ Idle
  /\ \E p \in Path : \E w \in Writes(p, map) :
       /\ WriteFile(p, map, w)
       /\ clean' = IF w.ok THEN map ELSE clean
  /\ SaveOnly /\ UNCHANGED path

SaveMapAs ==
  /\ Idle
  /\ \E p \in Path : SaveTo(p)
  /\ SaveOnly

Readable(p) == disk[p] \notin {Absent, Broken}

\* Map::Load: all or nothing.
Load(p) ==
  /\ map' = disk[p] /\ clean' = disk[p] /\ path' = p
  /\ damaged' = damaged \ {p}
  /\ mode' = "browse"
  /\ RefreshNextIds(disk[p])

\* The menu, or L; a file that is refused changes nothing.
OpenMap ==
  /\ Idle
  /\ \E p \in Path : Readable(p) /\ Load(p)
  /\ UNCHANGED <<scene, disk, text, panel, events>>

-----------------------------------------------------------------------------
(* The screens.                                                            *)

ClosedEditor ==
  /\ map' = EmptyMap /\ clean' = NoMap /\ path' = NoPath
  /\ mode' = "browse" /\ pending' = NoPoint /\ sel' = 0 /\ text' = "none"
  /\ nextFh' = 1 /\ nextPt' = 1
  /\ ai' = FALSE /\ rect' = FALSE /\ preview' = FALSE
  /\ picked' = 0 /\ behind' = FALSE

\* The launcher: an editor, or Escape, or the cross.
Launch ==
  /\ scene = "launcher"
  /\ scene' \in {"empty", "data", "gone"}
  /\ UNCHANGED <<docs, tools, panel, picked, behind, damaged, events>>

\* The other editors are empty screens; closing the window needs no answer.
LeaveOther ==
  /\ scene \in {"data", "empty"}
  /\ scene' \in {"launcher", "gone"}
  /\ UNCHANGED <<docs, tools, panel, history, events>>

\* A new map from the empty screen, once it has a name.
StartNew ==
  /\ scene = "empty" /\ scene' = "editing"
  /\ \E p \in Path : CreateDefault(p)
  /\ UNCHANGED <<text, panel>>

\* Opening from the empty screen: a default map is made first, under a fresh
\* editor whose counters know nothing of it, and stays if no file is opened.
StartOpen ==
  /\ scene = "empty" /\ scene' = "editing"
  /\ \/ \E p \in Path : Readable(p) /\ Load(p)
     \/ /\ map' \in DefaultMaps(map)
        /\ behind' = TRUE
        /\ UNCHANGED <<clean, path, damaged, mode, pending, sel, nextFh, nextPt, picked>>
  /\ UNCHANGED <<disk, text, panel, events>>

\* Escape or the menu leaves the editor, the cross closes the window: both
\* ask if there are changes, and both go on whatever Save came to.
Leave ==
  /\ \/ Idle /\ ~(ai /\ preview) /\ scene' = "launcher"
     \/ Screen /\ scene' = "gone"
  /\ \/ UNCHANGED <<disk, damaged, events>>   \* no changes, Discard, no name
     \/ /\ IsDirty
        /\ \E p \in IF path = NoPath THEN Path ELSE {path} :
             \E w \in Writes(p, map) : WriteFile(p, map, w)
  /\ ClosedEditor

-----------------------------------------------------------------------------
\* A file like the ones in assets/maps: its portal is not number 1.
Shipped ==
  [fhs |-> {[id |-> 5, p1 |-> "c", p2 |-> "d"]},
   portals |-> <<3>>, rest |-> 1, bg |-> "token"]

Init ==
  /\ scene = "launcher"
  /\ map = EmptyMap /\ clean = NoMap /\ path = NoPath
  /\ \E p \in Path : disk = [q \in Path |-> IF q = p THEN Shipped ELSE Absent]
  /\ mode = "browse" /\ pending = NoPoint /\ sel = 0 /\ text = "none"
  /\ nextFh = 1 /\ nextPt = 1
  /\ ai = FALSE /\ rect = FALSE /\ preview = FALSE
  /\ picked = 0 /\ behind = FALSE /\ damaged = {}
  /\ events = 0

Mouse ==
  \/ Place
  \/ FirstPoint \/ CancelPoint \/ SecondPoint \/ EraseChain
  \/ PickPortal \/ AddPortal \/ DeletePortal \/ DragRect
Typing == AskSize \/ AskTarget \/ CommitText \/ CancelText
AiMode == AiFrame \/ AiAccept \/ AiRegenerate
Menus == ChooseMode \/ ChooseRect \/ ToggleAi \/ ChooseBackground
Files == NewMap \/ SaveMap \/ SaveMapAs \/ OpenMap
Screens == Launch \/ LeaveOther \/ StartNew \/ StartOpen \/ Leave

Over == scene = "gone" /\ UNCHANGED vars

Next == Mouse \/ Typing \/ AiMode \/ Menus \/ Files \/ Screens \/ Over

Spec == Init /\ [][Next]_vars

-----------------------------------------------------------------------------
\* What Load can return: the text has no spaces left in the background.
Docs == {m \in Map : m.bg # "spaced"}

TypeOK ==
  /\ scene \in {"launcher", "data", "empty", "editing", "gone"}
  /\ map \in Map /\ clean \in Map \cup {NoMap} /\ path \in Path \cup {NoPath}
  /\ disk \in [Path -> Docs \cup {Absent, Broken}]
  /\ mode \in Mode /\ pending \in Point \cup {NoPoint} /\ sel \in Nat
  /\ text \in {"none", "resize", "target"}
  /\ nextFh \in Nat /\ nextPt \in Nat
  /\ ai \in BOOLEAN /\ rect \in BOOLEAN /\ preview \in BOOLEAN
  /\ picked \in Nat /\ behind \in BOOLEAN /\ damaged \subseteq Path
  /\ events \in 0..MaxEvents

\* IsDirty is what decides whether the close prompt appears: a map that is
\* not dirty and has a file is what that file says, unless the last write to
\* it went wrong (CreateDefault counts a map it could not write as saved).
CleanIsOnDisk ==
  scene = "editing" /\ ~IsDirty /\ path # NoPath /\ path \notin damaged =>
    disk[path] = Written(map)

\* m_selectedPortal is an index that survives deletions, files and modes:
\* Enter asks for the target of the portal that was selected last.
SelectionTracks ==
  sel # 0 => sel \in DOMAIN map.portals /\ map.portals[sel] = picked

DistinctPortals(m) ==
  \A i, j \in DOMAIN m.portals : m.portals[i] = m.portals[j] => i = j

\* Portals of a map refer to each other by id: no two have the same, and the
\* next one has none of them, after any sequence of deletions (which reuse
\* ids), new maps (which keep the portals of the old one) and files.  For
\* footholds the counter is ahead only if nothing went past it.
IdsAreFresh ==
  /\ DistinctPortals(map)
  /\ \A i \in DOMAIN map.portals : map.portals[i] < nextPt
  /\ ~behind => \A f \in map.fhs : f.id < nextFh

-----------------------------------------------------------------------------
(* The inductive invariant.                                                *)

\* The screen's modes keep clicks from the editor's.
ModesAgree ==
  /\ ai \/ rect => mode = "browse"
  /\ ai => ~rect
  /\ preview => ai
  /\ pending # NoPoint => mode = "foothold"
  /\ text = "target" => mode = "portal" /\ sel # 0

\* What a file holds could have been made here.
FilesSound ==
  \A p \in Path : Readable(p) => IsFiniteSet(disk[p].fhs) /\ DistinctPortals(disk[p])

\* Edits and undoing them by hand leave the last saved map on the disk.
CleanIsSaved ==
  scene = "editing" /\ path # NoPath /\ path \notin damaged =>
    disk[path] = Written(clean)

\* A screen starts with an editor that was closed.
AtRest == scene # "editing" => path = NoPath /\ text = "none"

IInv ==
  /\ TypeOK /\ IsFiniteSet(map.fhs) /\ ModesAgree /\ AtRest
  /\ FilesSound /\ IdsAreFresh /\ SelectionTracks /\ CleanIsSaved
================================================================================
