------------------------------- MODULE ShapeTool -------------------------------
(***************************************************************************)
(* AiShapeTool and the part of MapEditorScreen that drives it, composed    *)
(* with the generator: the editor thread's frames in AI mode.  One step is *)
(* one whole frame: the results are collected first, then a key or the     *)
(* mouse is looked at.                                                     *)
(*                                                                         *)
(* map is what Accept leaves in the map: the concept it is labelled with   *)
(* and the shape that was drawn.  Left out: where the shape is drawn, its  *)
(* footholds, the ghost, the status line, the tile number.                 *)
(***************************************************************************)
EXTENDS ShapeGenerator

VARIABLES
  screen,     \* "open", "notify" or "join" (inside Stop), "left"
  aiMode,     \* m_aiMode
  generator,  \* m_aiGenerator: "none", "null" or "remote"
  state, label, sel, preview,
  map

tool == <<state, label, sel, preview>>
toolVars == <<screen, aiMode, generator, tool, map>>
vars == <<genVars, toolVars>>

NoMap == [concept |-> "none", shape |-> NoRequest]
MapState == {NoMap} \cup [concept : Label, shape : ShapeRequest]

EditorTypeOK ==
  /\ screen \in {"open", "notify", "join", "left"}
  /\ aiMode \in BOOLEAN /\ generator \in {"none", "null", "remote"}
  /\ state \in {"Idle", "Selecting", "Waiting", "Preview"}
  /\ label \in Label /\ sel \in AnyRegion /\ preview \in ShapeRequest \cup {NoRequest}
  /\ map \in MapState

Init ==
  /\ GeneratorInit
  /\ screen = "open" /\ aiMode = FALSE /\ generator = "none"
  /\ state = "Idle" /\ label \in Label /\ sel = NoRegion /\ preview = NoRequest
  /\ map = NoMap

rest == <<running, stop, connected, taken, attempt, outcome, wire, server, hurt>>

-----------------------------------------------------------------------------
(* The operations of the tool.                                             *)

Available == generator = "remote" /\ running

Reset == state' = "Idle" /\ sel' = NoRegion /\ preview' = NoRequest

\* SendRequest with the label l and the selection r.
SendRequest(l, r) ==
  IF Available
    THEN state' = "Waiting" /\ Request(l, r)
    ELSE state' = "Idle" /\ UNCHANGED <<slot, latestSeq, pc>> /\ results' = <<>>

\* What Update's loop over Poll makes of state and preview.
Collected ==
  IF Polled = {} THEN [state |-> state, preview |-> preview]
  ELSE LET d == CHOOSE d \in Polled : TRUE
       IN IF d.kind = "ok" THEN [state |-> "Preview", preview |-> d.shape]
                           ELSE [state |-> "Idle", preview |-> preview]

\* A frame of the AI mode that reaches Update.
Frame == screen = "open" /\ aiMode /\ PollAll
NoRequestMade == UNCHANGED <<slot, latestSeq, pc>>

-----------------------------------------------------------------------------
(* One frame each.                                                         *)

\* Enter: the shape goes into the map, under the label of the tool.
Accept ==
  /\ Frame /\ Collected.state = "Preview"
  /\ map' = [concept |-> label, shape |-> Collected.preview]
  /\ Reset /\ NoRequestMade
  /\ UNCHANGED <<rest, screen, aiMode, generator, label>>

\* R
Regenerate ==
  /\ Frame /\ Collected.state = "Preview"
  /\ SendRequest(label, sel)
  /\ preview' = Collected.preview
  /\ UNCHANGED <<rest, screen, aiMode, generator, label, sel, map>>

\* The pointer is over a panel: a drag ends there.
OverUi ==
  /\ Frame
  /\ state' = IF Collected.state = "Selecting" THEN "Idle" ELSE Collected.state
  /\ preview' = Collected.preview
  /\ NoRequestMade
  /\ UNCHANGED <<rest, screen, aiMode, generator, label, sel, map>>

\* The pointer is over the canvas and no drag goes on.
Hover ==
  /\ Frame /\ Collected.state # "Selecting"
  /\ state' = Collected.state /\ preview' = Collected.preview
  /\ NoRequestMade
  /\ UNCHANGED <<rest, screen, aiMode, generator, label, sel, map>>

\* A drag starts with one cell, too small for a shape.
Press ==
  /\ Frame
  /\ state' = "Selecting" /\ preview' = NoRequest /\ sel' = BadRegion
  /\ NoRequestMade
  /\ UNCHANGED <<rest, screen, aiMode, generator, label, map>>

Drag ==
  /\ Frame /\ Collected.state = "Selecting"
  /\ sel' \in Region \cup {BadRegion}
  /\ NoRequestMade
  /\ UNCHANGED <<rest, screen, aiMode, generator, state, label, preview, map>>

Release ==
  /\ Frame /\ Collected.state = "Selecting"
  /\ \/ /\ Reset /\ NoRequestMade
     \/ \E r \in Region :
          /\ sel' = r
          /\ SendRequest(label, r)
          /\ UNCHANGED preview
  /\ UNCHANGED <<rest, screen, aiMode, generator, label, map>>

\* SetLabel, from the panel; this frame does not reach Update.  The pointer
\* cannot get there in a drag: OverUi has ended it.
SetLabel(l) ==
  /\ screen = "open" /\ aiMode /\ MutexFree /\ l # label /\ state # "Selecting"
  /\ label' = l
  /\ IF state \notin {"Preview", "Waiting"}
       THEN UNCHANGED <<slot, latestSeq, results, pc, state, sel, preview>>
       ELSE IF sel = NoRegion THEN Reset /\ UNCHANGED <<slot, latestSeq, results, pc>>
       ELSE SendRequest(l, sel) /\ UNCHANGED <<sel, preview>>
  /\ UNCHANGED <<rest, screen, aiMode, generator, map>>

\* Escape: the screen cancels a preview before anything else.
Escape ==
  /\ screen = "open" /\ aiMode /\ state = "Preview"
  /\ Reset
  /\ UNCHANGED <<genVars, screen, aiMode, generator, label, map>>

\* The button of the AI mode; the generator is made the first time, as the
\* configuration says.
EnterMode ==
  /\ screen = "open" /\ ~aiMode
  /\ aiMode' = TRUE
  /\ \/ generator = "none" /\ generator' = "null" /\ UNCHANGED <<running, stop, pc>>
     \/ generator = "none" /\ generator' = "remote" /\ Start
     \/ generator # "none" /\ UNCHANGED <<generator, running, stop, pc>>
  /\ UNCHANGED <<slot, latestSeq, results, connected, taken, attempt, outcome, wire, server,
                 hurt, screen, tool, map>>

\* Any other mode.
LeaveMode ==
  /\ screen = "open" /\ aiMode
  /\ aiMode' = FALSE
  /\ Reset
  /\ UNCHANGED <<genVars, screen, generator, label, map>>

\* The screen is left, and its generator destroyed: Stop.
LeaveScreen ==
  /\ screen = "open"
  /\ IF generator = "remote"
       THEN StopFlag /\ screen' = "notify"
       ELSE screen' = "left" /\ UNCHANGED <<running, stop>>
  /\ UNCHANGED <<slot, latestSeq, results, connected, work, wire, server, hurt,
                 aiMode, generator, tool, map>>

StopNotify ==
  /\ screen = "notify"
  /\ Notify
  /\ screen' = "join"
  /\ UNCHANGED <<shared, taken, attempt, outcome, wire, server, hurt,
                 aiMode, generator, tool, map>>

Join ==
  /\ screen = "join"
  /\ StopJoin
  /\ screen' = "left"
  /\ UNCHANGED <<slot, latestSeq, results, running, stop, work, wire, server, hurt,
                 aiMode, generator, tool, map>>

Stopping == StopNotify \/ Join
Canvas == Accept \/ Regenerate \/ OverUi \/ Hover \/ Press \/ Drag \/ Release
Editor ==
  \/ Canvas \/ Escape \/ EnterMode \/ LeaveMode \/ LeaveScreen
  \/ \E l \in Label : SetLabel(l)

Over == screen = "left" /\ UNCHANGED vars

Next ==
  \/ Editor \/ Stopping \/ Over
  \/ (Worker \/ ServerSide) /\ UNCHANGED toolVars

Spec == Init /\ [][Next]_vars

\* The threads run on and Stop goes through.  Frames follow each other while
\* the AI mode is on, with no input if need be; the worker holds the mutex
\* again and again, but never for long.
FairSpec ==
  /\ Spec
  /\ WF_vars(Worker /\ UNCHANGED toolVars)
  /\ SF_vars(Hover)
  /\ WF_vars(Stopping)

-----------------------------------------------------------------------------
TypeOK == GeneratorTypeOK /\ EditorTypeOK

\* A grid in the results was made for the request whose number it carries,
\* although the worker compares nothing but the size: no answer to a request
\* that was given up (timeout, lost connection) is read for a later one.
ResultIsAnswer ==
  \A i \in DOMAIN results : results[i].kind = "ok" => results[i].shape.seed = results[i].seq

\* What the tool shows answers the last request, however many were made
\* while the worker was busy (IShapeGenerator.h: only the last one counts).
PreviewIsLatest ==
  state = "Preview" => preview \in ShapeRequest /\ preview.seed = latestSeq

\* While the tool waits, the last request is in the slot, in the worker's
\* hands or answered: neither a request that replaces another nor the answer
\* to an old one loses it.  (Without sockets there is no worker.)
WaitingIsServed ==
  state = "Waiting" /\ pc # "failed" =>
    \/ slot # NoRequest /\ slot.seed = latestSeq
    \/ taken # NoRequest /\ taken.seed = latestSeq
    \/ Polled # {}

\* A failure of the connection is reported only if something failed while
\* the request was in hand: a connection the server had closed before costs
\* nobody a request.
FailureHasCause == ~stop => \A d \in Polled : d.kind = "lost" => d.hurt

\* The tool and the generator with its worker, its connection, its retries and
\* the server are together what the editor is promised: every request is
\* answered at most once, nothing but the answer to the last one is ever shown
\* or drawn, and a request that is waited for is not lost.
LastTaken == taken # NoRequest /\ taken.seed = latestSeq
Able == pc # "failed"
Due == Able /\ (slot # NoRequest \/ LastTaken)
Unseen == {IF d.kind = "ok" THEN d.shape.seed ELSE 0 : d \in Polled}
Shown == IF state = "Preview" THEN preview.seed ELSE 0
Drawn == IF map = NoMap THEN 0 ELSE map.shape.seed

Service == INSTANCE ShapeService WITH
  able <- Able, last <- latestSeq, due <- Due, answer <- Unseen,
  waiting <- state = "Waiting", shown <- Shown, drawn <- Drawn
ImplementsService == Service!Spec

\* A request is answered, if only by a failure, or withdrawn.
RequestAnswered ==
  state = "Waiting" ~> (state # "Waiting" \/ screen # "open" \/ pc = "failed")

\* Leaving the editor never hangs in Stop: no wake-up that is missed, no
\* server that is silent holds the worker.
StopReturns == screen = "notify" ~> screen = "left"

\* A server that is started later, and stays, is found without a request.
Reconnects == <>[](serving /\ running /\ pc # "failed") => []<>connected

-----------------------------------------------------------------------------
(* The inductive invariant.                                                *)

Working == {"dial", "redial", "send", "recv", "push"}

JobInv ==
  /\ slot # NoRequest => slot.seed = latestSeq
  /\ taken # NoRequest <=> pc \in Working
  /\ pc \in {"redial", "push"} => outcome.seq = taken.seed
  /\ pc = "redial" => outcome.kind = "lost"
  /\ pc = "push" /\ outcome.kind = "ok" =>
       outcome.shape \in ShapeRequest /\ outcome.shape.seed = outcome.seq

ResultInv ==
  \A i \in DOMAIN results :
    results[i].kind = "ok" =>
      results[i].shape \in ShapeRequest /\ results[i].shape.seed = results[i].seq

\* All that is on the wire concerns the request in hand, and there is at most
\* one such thing.
WireInv ==
  /\ pc = "recv" =>
       /\ Len(asks) + Len(acks) <= 1
       /\ \A i \in DOMAIN asks : asks[i] = taken
       /\ \A i \in DOMAIN acks : acks[i].shape = taken
  /\ pc \in {"dial", "redial", "send"} \/ (pc # "recv" /\ ~stop) =>
       asks = <<>> /\ acks = <<>>

CauseInv ==
  /\ pc \in Working /\ ~serving => hurt
  /\ pc = "redial" => conn = "none"
  /\ pc = "dial" => attempt = 1
  /\ pc \in {"send", "recv"} /\ attempt = 2 /\ conn = "dead" => hurt
  /\ pc = "push" /\ outcome.kind = "lost" /\ ~stop => outcome.hurt
  /\ ~stop => \A i \in DOMAIN results : results[i].kind = "lost" => results[i].hurt
  /\ pc = "unborn" => generator # "remote" /\ ~stop

\* A request is in one place, and where it is answered it is nowhere else.
OnceInv ==
  /\ taken # NoRequest => taken.seed <= latestSeq
  /\ slot # NoRequest => (taken # NoRequest => taken.seed < latestSeq)
  /\ Due => Polled = {}
  /\ pc \in {"unborn", "start"} => results = <<>>
  /\ \A d, e \in Polled : d = e

IInv ==
  /\ TypeOK /\ JobInv /\ ResultInv /\ WireInv /\ CauseInv /\ OnceInv
  /\ PreviewIsLatest /\ WaitingIsServed
================================================================================
