----------------------------- MODULE ShapeService -----------------------------
(***************************************************************************)
(* What the editor is promised of shapes (IShapeGenerator.h and the flow   *)
(* of states in AiShapeTool.h): requests are numbered, only the last one   *)
(* counts, it is answered at most once, a failure is an answer too, and    *)
(* what is shown or drawn is the answer to the last request.               *)
(*                                                                         *)
(* A shape is the number of the request it was made for, 0 is none.        *)
(***************************************************************************)
EXTENDS Naturals

VARIABLES
  able,      \* whoever answers is there
  last,      \* the last request
  due,       \* it has not been answered
  answer,    \* {}, or the answer that was not looked at; {0} is a failure
  waiting,   \* the tool waits for it
  shown,     \* the shape it shows
  drawn      \* the last shape that went into the map

vars == <<able, last, due, answer, waiting, shown, drawn>>

Init ==
  /\ able = TRUE /\ last = 0 /\ due = FALSE /\ answer = {}
  /\ waiting = FALSE /\ shown = 0 /\ drawn = 0

\* A request replaces the one before it, answered or not.
Ask ==
  /\ last' = last + 1 /\ due' = able /\ answer' = {}
  /\ waiting' = TRUE /\ shown' = 0
  /\ UNCHANGED <<able, drawn>>

Reply ==
  /\ due /\ due' = FALSE
  /\ answer' \in {{0}, {last}}
  /\ UNCHANGED <<able, last, waiting, shown, drawn>>

\* Nobody answers any more, and that is said once.
GiveUp ==
  /\ able /\ able' = FALSE
  /\ due' = FALSE /\ answer' = {0}
  /\ UNCHANGED <<last, waiting, shown, drawn>>

\* What a look at the answers shows: the one that is new, or what it was.
Seen == IF answer = {} THEN {shown} ELSE answer

\* The tool looks, and may drop what it saw and what it waits for.
Look ==
  /\ answer' = {}
  /\ shown' \in Seen \cup {0}
  /\ waiting' \in {waiting /\ answer = {}, FALSE}
  /\ UNCHANGED <<able, last, due, drawn>>

\* It may drop them without a look.
Forget ==
  /\ shown' = 0 /\ waiting' = FALSE
  /\ UNCHANGED <<able, last, due, answer, drawn>>

Draw ==
  /\ drawn' \in Seen \ {0}
  /\ answer' = {} /\ shown' = 0 /\ waiting' = FALSE
  /\ UNCHANGED <<able, last, due>>

Next == Ask \/ Reply \/ GiveUp \/ Look \/ Forget \/ Draw

Spec == Init /\ [][Next]_vars
================================================================================
