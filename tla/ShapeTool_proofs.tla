--------------------------- MODULE ShapeTool_proofs ---------------------------
(***************************************************************************)
(* The safety properties of ShapeTool, for every set of labels and regions *)
(* and any number of requests and faults.                                  *)
(***************************************************************************)
EXTENDS ShapeTool, SequenceTheorems, TLAPS

USE GeneratorAssumption DEF GeneratorAssumption

-----------------------------------------------------------------------------
(* The operators.                                                          *)

LEMMA ErrorType ==
  ASSUME NEW k \in {"refused", "lost", "cancelled", "noNet"}, NEW n \in 0..MaxRequests,
         NEW w \in BOOLEAN
  PROVE  /\ MakeError(k, n, w) \in Result
         /\ MakeError(k, n, w).kind = k /\ MakeError(k, n, w).seq = n
         /\ MakeError(k, n, w).hurt = w
BY DEF MakeError, Result

LEMMA AppendedResult ==
  ASSUME NEW S, NEW q \in Seq(S), NEW e \in S
  PROVE  /\ Append(q, e) \in Seq(S)
         /\ \A i \in DOMAIN Append(q, e) :
              Append(q, e)[i] = e \/ (i \in DOMAIN q /\ Append(q, e)[i] = q[i])
         /\ Len(q) + 1 \in DOMAIN Append(q, e) /\ Append(q, e)[Len(q) + 1] = e
         /\ \A i \in DOMAIN q : i \in DOMAIN Append(q, e) /\ Append(q, e)[i] = q[i]
         /\ Len(Append(q, e)) = Len(q) + 1
BY AppendProperties

LEMMA ShortSeq ==
  ASSUME NEW S, NEW q \in Seq(S)
  PROVE  /\ Len(q) \in Nat
         /\ q # <<>> => Len(q) >= 1
         /\ Len(q) = 0 => q = <<>>
         /\ Len(q) = 1 => Tail(q) = <<>>
<1>1. Len(q) \in Nat OBVIOUS
<1>2. Len(q) = 0 => q = <<>> OBVIOUS
<1>3. Len(q) = 1 => Tail(q) \in Seq(S) /\ Len(Tail(q)) = 0
  BY EmptySeq, HeadTailProperties
<1>4. Len(q) = 1 => Tail(q) = <<>> BY <1>3, EmptySeq
<1> QED BY <1>1, <1>2, <1>4

LEMMA NoneYet == <<>> \in Seq(ShapeRequest) /\ <<>> \in Seq(Answer)
OBVIOUS

LEMMA OnlyOne ==
  ASSUME NEW m \in Nat, NEW n \in Nat, m + n <= 1, n >= 1
  PROVE  m = 0 /\ n = 1
OBVIOUS

\* What the frame collects is a state and a shape of the right kind; a preview
\* is the old one or answers the last request; waiting goes on only if nothing
\* was there.
LEMMA CollectedFacts ==
  ASSUME TypeOK
  PROVE  /\ Collected.state \in {"Idle", "Selecting", "Waiting", "Preview"}
         /\ Collected.preview \in ShapeRequest \cup {NoRequest}
         /\ ResultInv /\ PreviewIsLatest /\ Collected.state = "Preview" =>
              Collected.preview \in ShapeRequest /\ Collected.preview.seed = latestSeq
         /\ Collected.state \in {"Waiting", "Selecting"} => Collected.state = state
         /\ Collected.state = "Waiting" => Polled = {}
<1>1. CASE Polled = {}
  BY <1>1 DEF Collected, TypeOK, EditorTypeOK, PreviewIsLatest
<1>2. CASE Polled # {}
  <2> DEFINE d == CHOOSE d \in Polled : TRUE
  <2>1. d \in Polled BY <1>2
  <2>2. PICK i \in DOMAIN results : d = results[i] /\ d.seq = latestSeq
    BY <2>1 DEF Polled
  <2> HIDE DEF d
  <2>0. results \in Seq(Result) BY DEF TypeOK, GeneratorTypeOK
  <2>3. d \in Result BY <2>0, <2>2
  <2> USE DEF d
  <2>4. Collected = IF d.kind = "ok" THEN [state |-> "Preview", preview |-> d.shape]
                                     ELSE [state |-> "Idle", preview |-> preview]
    BY <1>2 DEF Collected
  <2> HIDE DEF d
  <2>5. d.shape \in ShapeRequest \cup {NoRequest} BY <2>3 DEF Result
  <2>6. ResultInv /\ d.kind = "ok" =>
          d.shape \in ShapeRequest /\ d.shape.seed = latestSeq
    BY <2>2 DEF ResultInv
  <2>7. CASE d.kind = "ok" BY <2>4, <2>5, <2>6, <2>7
  <2>8. CASE d.kind # "ok" BY <2>4, <2>8 DEF TypeOK, EditorTypeOK
  <2> QED BY <2>7, <2>8
<1> QED BY <1>1, <1>2

\* A request is a new one, and it is in the slot.
LEMMA RequestFacts ==
  ASSUME TypeOK, NEW l \in Label, NEW r \in AnyRegion, Request(l, r)
  PROVE  /\ slot' \in ShapeRequest /\ slot' # NoRequest
         /\ latestSeq' \in 0..MaxRequests /\ slot'.seed = latestSeq'
         /\ results' = <<>>
         /\ pc' = IF pc = "asleep" THEN "check" ELSE pc
<1>1. latestSeq + 1 \in 1..MaxRequests BY DEF Request, TypeOK, GeneratorTypeOK
<1>2. [label |-> l, region |-> r, seed |-> latestSeq + 1] \in ShapeRequest
  BY <1>1 DEF ShapeRequest
<1> QED BY <1>1, <1>2 DEF Request, Notify

\* SendRequest changes the slot, the results, the worker's place and state.
LEMMA SendFacts ==
  ASSUME TypeOK, NEW l \in Label, NEW r \in AnyRegion, SendRequest(l, r)
  PROVE  /\ results' = <<>> /\ results' \in Seq(Result)
         /\ slot' \in ShapeRequest \cup {NoRequest}
         /\ pc' = pc \/ (pc = "asleep" /\ pc' = "check")
         /\ latestSeq' \in 0..MaxRequests
         /\ \/ state' = "Waiting" /\ slot' \in ShapeRequest /\ slot'.seed = latestSeq'
            \/ state' = "Idle" /\ slot' = slot /\ latestSeq' = latestSeq
<1>1. slot \in ShapeRequest \cup {NoRequest} /\ latestSeq \in 0..MaxRequests
  BY DEF TypeOK, GeneratorTypeOK
<1>2. <<>> \in Seq(Result) OBVIOUS
<1> QED BY <1>1, <1>2, RequestFacts DEF SendRequest

-----------------------------------------------------------------------------
(* Types.                                                                  *)

FlagsOK ==
  /\ running \in BOOLEAN /\ stop \in BOOLEAN /\ connected \in BOOLEAN
  /\ serving \in BOOLEAN /\ hurt \in BOOLEAN /\ aiMode \in BOOLEAN

PlacesOK ==
  /\ pc \in {"unborn", "start", "failed", "check", "falling", "asleep", "tick", "dial",
             "redial", "send", "recv", "push", "closing", "done"}
  /\ conn \in {"none", "up", "dead"}
  /\ screen \in {"open", "notify", "join", "left"}
  /\ generator \in {"none", "null", "remote"}
  /\ state \in {"Idle", "Selecting", "Waiting", "Preview"}

CountsOK == latestSeq \in 0..MaxRequests /\ attempt \in 1..2 /\ faults \in 0..MaxFaults

DataOK ==
  /\ slot \in ShapeRequest \cup {NoRequest} /\ taken \in ShapeRequest \cup {NoRequest}
  /\ results \in Seq(Result) /\ outcome \in Result
  /\ asks \in Seq(ShapeRequest) /\ acks \in Seq(Answer)
  /\ label \in Label /\ sel \in AnyRegion /\ preview \in ShapeRequest \cup {NoRequest}
  /\ map \in MapState

LEMMA TypeParts ==
  /\ TypeOK <=> FlagsOK /\ PlacesOK /\ CountsOK /\ DataOK
  /\ FlagsOK' /\ PlacesOK' /\ CountsOK' /\ DataOK' => TypeOK'
<1>1. TypeOK => FlagsOK BY DEF TypeOK, GeneratorTypeOK, EditorTypeOK, FlagsOK
<1>2. TypeOK => PlacesOK BY DEF TypeOK, GeneratorTypeOK, EditorTypeOK, PlacesOK
<1>3. TypeOK => CountsOK BY DEF TypeOK, GeneratorTypeOK, CountsOK
<1>4. TypeOK => DataOK BY DEF TypeOK, GeneratorTypeOK, EditorTypeOK, DataOK
<1> USE DEF TypeOK, GeneratorTypeOK, EditorTypeOK, FlagsOK, PlacesOK, CountsOK, DataOK
<1>5. FlagsOK /\ PlacesOK /\ CountsOK /\ DataOK => TypeOK OBVIOUS
<1>6. FlagsOK' /\ PlacesOK' /\ CountsOK' /\ DataOK' => TypeOK' OBVIOUS
<1> QED BY <1>1, <1>2, <1>3, <1>4, <1>5, <1>6

\* The flags.
LEMMA FlagsStep == FlagsOK /\ [Next]_vars => FlagsOK'
<1> SUFFICES ASSUME FlagsOK, [Next]_vars PROVE FlagsOK'
  OBVIOUS
<1> USE DEF FlagsOK, vars, genVars, toolVars, tool, rest, shared, work, wire, server
<1>0. CASE UNCHANGED vars BY <1>0
<1>1. CASE Accept BY <1>1 DEF Accept, Frame, PollAll, Reset, NoRequestMade
<1>2. CASE Regenerate BY <1>2 DEF Regenerate, Frame, PollAll
<1>3. CASE OverUi BY <1>3 DEF OverUi, Frame, PollAll, NoRequestMade
<1>4. CASE Hover BY <1>4 DEF Hover, Frame, PollAll, NoRequestMade
<1>5. CASE Press BY <1>5 DEF Press, Frame, PollAll, NoRequestMade
<1>6. CASE Drag BY <1>6 DEF Drag, Frame, PollAll, NoRequestMade
<1>7. CASE Release BY <1>7 DEF Release, Frame, PollAll
<1>8. CASE Escape BY <1>8 DEF Escape, Reset
<1>9. CASE EnterMode
  <2>1. running' = TRUE \/ running' = running BY <1>9 DEF EnterMode, Start
  <2>2. stop' = FALSE \/ stop' = stop BY <1>9 DEF EnterMode, Start
  <2> QED BY <1>9, <2>1, <2>2 DEF EnterMode
<1>10. CASE LeaveMode BY <1>10 DEF LeaveMode, Reset
<1>11. CASE LeaveScreen
  <2>1. running' = FALSE \/ running' = running BY <1>11 DEF LeaveScreen, StopFlag
  <2>2. stop' = TRUE \/ stop' = stop BY <1>11 DEF LeaveScreen, StopFlag
  <2> QED BY <1>11, <2>1, <2>2 DEF LeaveScreen
<1>12. ASSUME NEW l \in Label, SetLabel(l) PROVE FlagsOK' BY <1>12 DEF SetLabel
<1>13. CASE StopNotify BY <1>13 DEF StopNotify, Notify
<1>14. CASE Join BY <1>14 DEF Join, StopJoin
<1>15. CASE Over BY <1>15 DEF Over
<1>16. CASE NetInitFails /\ UNCHANGED server /\ UNCHANGED toolVars
  BY <1>16 DEF NetInitFails, MakeError
<1>17. CASE Boot /\ UNCHANGED server /\ UNCHANGED toolVars
  BY <1>17 DEF Boot, EnsureConnected
<1>18. CASE Check /\ UNCHANGED server /\ UNCHANGED toolVars
  <2>1. hurt' = hurt \/ hurt' = ~serving BY <1>18 DEF Check, Look
  <2> QED BY <1>18, <2>1 DEF Check
<1>19. CASE FallAsleep /\ UNCHANGED server /\ UNCHANGED toolVars BY <1>19 DEF FallAsleep
<1>20. CASE WaitTimeout /\ UNCHANGED server /\ UNCHANGED toolVars
  <2>1. hurt' = hurt \/ hurt' = ~serving BY <1>20 DEF WaitTimeout, Look
  <2> QED BY <1>20, <2>1 DEF WaitTimeout
<1>21. CASE Tick /\ UNCHANGED server /\ UNCHANGED toolVars
  BY <1>21 DEF Tick, EnsureConnected
<1>22. CASE Dial /\ UNCHANGED server /\ UNCHANGED toolVars
  BY <1>22 DEF Dial, EnsureConnected, MakeError
<1>23. CASE Redial /\ UNCHANGED server /\ UNCHANGED toolVars
  <2>1. connected' = connected \/ connected' = (conn' # "none")
    BY <1>23 DEF Redial, EnsureConnected
  <2> QED BY <1>23, <2>1 DEF Redial
<1>24. CASE Send /\ UNCHANGED server /\ UNCHANGED toolVars BY <1>24 DEF Send
<1>25. CASE SendFails /\ UNCHANGED server /\ UNCHANGED toolVars
  BY <1>25 DEF SendFails, LostConnection, Drop, MakeError
<1>26. CASE Cancelled /\ UNCHANGED server /\ UNCHANGED toolVars
  BY <1>26 DEF Cancelled, MakeError
<1>27. CASE ReadAnswer /\ UNCHANGED server /\ UNCHANGED toolVars
  BY <1>27 DEF ReadAnswer, ParseResponse, MakeError
<1>28. CASE ReadGarbage /\ UNCHANGED server /\ UNCHANGED toolVars
  BY <1>28 DEF ReadGarbage, LostConnection, Drop, MakeError
<1>29. CASE ReplyTimeout /\ UNCHANGED server /\ UNCHANGED toolVars
  BY <1>29 DEF ReplyTimeout, LostConnection, Drop, MakeError
<1>30. CASE RecvFails /\ UNCHANGED server /\ UNCHANGED toolVars
  BY <1>30 DEF RecvFails, LostConnection, Drop, MakeError
<1>31. CASE PushResult /\ UNCHANGED server /\ UNCHANGED toolVars BY <1>31 DEF PushResult
<1>32. CASE WorkerEnds /\ UNCHANGED server /\ UNCHANGED toolVars
  BY <1>32 DEF WorkerEnds, Drop
<1>33. CASE Reply /\ UNCHANGED toolVars BY <1>33 DEF Reply
<1>34. CASE HandlerEnds /\ UNCHANGED toolVars BY <1>34 DEF HandlerEnds, Hangup
<1>35. CASE ServerExits /\ UNCHANGED toolVars BY <1>35 DEF ServerExits, Hangup
<1>36. CASE ServerStarts /\ UNCHANGED toolVars BY <1>36 DEF ServerStarts
<1> QED
  BY <1>0, <1>1, <1>2, <1>3, <1>4, <1>5, <1>6, <1>7, <1>8, <1>9, <1>10, <1>11, <1>12,
    <1>13, <1>14, <1>15, <1>16, <1>17, <1>18, <1>19, <1>20, <1>21, <1>22, <1>23, <1>24,
    <1>25, <1>26, <1>27, <1>28, <1>29, <1>30, <1>31, <1>32, <1>33, <1>34, <1>35, <1>36
    DEF Next, Editor, Stopping, Canvas, Worker, ServerSide

\* The places.
LEMMA PlacesStep == TypeOK /\ PlacesOK /\ [Next]_vars => PlacesOK'
<1> SUFFICES ASSUME TypeOK, PlacesOK, [Next]_vars PROVE PlacesOK'
  OBVIOUS
<1> USE DEF PlacesOK, vars, genVars, toolVars, tool, rest, shared, work, wire, server
<1>0. CASE UNCHANGED vars BY <1>0
<1>1. CASE Accept BY <1>1 DEF Accept, Frame, PollAll, Reset, NoRequestMade
<1>2. CASE Regenerate
  <2>1. sel \in AnyRegion /\ label \in Label BY TypeParts DEF DataOK
  <2> QED BY <1>2, <2>1, SendFacts DEF Regenerate
<1>3. CASE OverUi BY <1>3, CollectedFacts DEF OverUi, Frame, PollAll, NoRequestMade
<1>4. CASE Hover BY <1>4, CollectedFacts DEF Hover, Frame, PollAll, NoRequestMade
<1>5. CASE Press BY <1>5, CollectedFacts DEF Press, Frame, PollAll, NoRequestMade
<1>6. CASE Drag BY <1>6, CollectedFacts DEF Drag, Frame, PollAll, NoRequestMade
<1>7. CASE Release
  <2>1. CASE Reset /\ NoRequestMade
    BY <1>7, <2>1 DEF Release, Frame, PollAll, Reset, NoRequestMade
  <2>2. ASSUME NEW r \in Region, sel' = r, SendRequest(label, r), UNCHANGED preview
        PROVE PlacesOK'
    <3>1. r \in AnyRegion /\ label \in Label BY TypeParts DEF AnyRegion, DataOK
    <3> QED BY <1>7, <2>2, <3>1, SendFacts DEF Release
  <2> QED BY <1>7, <2>1, <2>2 DEF Release
<1>8. CASE Escape BY <1>8 DEF Escape, Reset
<1>9. CASE EnterMode BY <1>9 DEF EnterMode, Start
<1>10. CASE LeaveMode BY <1>10 DEF LeaveMode, Reset
<1>11. CASE LeaveScreen BY <1>11 DEF LeaveScreen, StopFlag
<1>12. ASSUME NEW l \in Label, SetLabel(l) PROVE PlacesOK'
  <2>1. CASE state \notin {"Preview", "Waiting"} BY <1>12, <2>1 DEF SetLabel
  <2>2. CASE state \in {"Preview", "Waiting"} /\ sel = NoRegion
    BY <1>12, <2>2 DEF SetLabel, Reset
  <2>3. CASE state \in {"Preview", "Waiting"} /\ sel # NoRegion
    <3>1. sel \in AnyRegion BY TypeParts DEF DataOK
    <3> QED BY <1>12, <2>3, <3>1, SendFacts DEF SetLabel
  <2> QED BY <2>1, <2>2, <2>3
<1>13. CASE StopNotify BY <1>13 DEF StopNotify, Notify
<1>14. CASE Join BY <1>14 DEF Join, StopJoin
<1>15. CASE Over BY <1>15 DEF Over
<1>16. CASE NetInitFails /\ UNCHANGED server /\ UNCHANGED toolVars
  BY <1>16 DEF NetInitFails, MakeError
<1>17. CASE Boot /\ UNCHANGED server /\ UNCHANGED toolVars
  BY <1>17 DEF Boot, EnsureConnected
<1>18. CASE Check /\ UNCHANGED server /\ UNCHANGED toolVars BY <1>18 DEF Check, Look
<1>19. CASE FallAsleep /\ UNCHANGED server /\ UNCHANGED toolVars BY <1>19 DEF FallAsleep
<1>20. CASE WaitTimeout /\ UNCHANGED server /\ UNCHANGED toolVars
  BY <1>20 DEF WaitTimeout, Look
<1>21. CASE Tick /\ UNCHANGED server /\ UNCHANGED toolVars
  BY <1>21 DEF Tick, EnsureConnected
<1>22. CASE Dial /\ UNCHANGED server /\ UNCHANGED toolVars
  BY <1>22 DEF Dial, EnsureConnected, MakeError
<1>23. CASE Redial /\ UNCHANGED server /\ UNCHANGED toolVars
  BY <1>23 DEF Redial, EnsureConnected
<1>24. CASE Send /\ UNCHANGED server /\ UNCHANGED toolVars BY <1>24 DEF Send
<1>25. CASE SendFails /\ UNCHANGED server /\ UNCHANGED toolVars
  BY <1>25 DEF SendFails, LostConnection, Drop, MakeError
<1>26. CASE Cancelled /\ UNCHANGED server /\ UNCHANGED toolVars
  BY <1>26 DEF Cancelled, MakeError
<1>27. CASE ReadAnswer /\ UNCHANGED server /\ UNCHANGED toolVars
  BY <1>27 DEF ReadAnswer, ParseResponse, MakeError
<1>28. CASE ReadGarbage /\ UNCHANGED server /\ UNCHANGED toolVars
  BY <1>28 DEF ReadGarbage, LostConnection, Drop, MakeError
<1>29. CASE ReplyTimeout /\ UNCHANGED server /\ UNCHANGED toolVars
  BY <1>29 DEF ReplyTimeout, LostConnection, Drop, MakeError
<1>30. CASE RecvFails /\ UNCHANGED server /\ UNCHANGED toolVars
  BY <1>30 DEF RecvFails, LostConnection, Drop, MakeError
<1>31. CASE PushResult /\ UNCHANGED server /\ UNCHANGED toolVars BY <1>31 DEF PushResult
<1>32. CASE WorkerEnds /\ UNCHANGED server /\ UNCHANGED toolVars
  BY <1>32 DEF WorkerEnds, Drop
<1>33. CASE Reply /\ UNCHANGED toolVars BY <1>33 DEF Reply
<1>34. CASE HandlerEnds /\ UNCHANGED toolVars BY <1>34 DEF HandlerEnds, Hangup
<1>35. CASE ServerExits /\ UNCHANGED toolVars BY <1>35 DEF ServerExits, Hangup
<1>36. CASE ServerStarts /\ UNCHANGED toolVars BY <1>36 DEF ServerStarts
<1> QED
  BY <1>0, <1>1, <1>2, <1>3, <1>4, <1>5, <1>6, <1>7, <1>8, <1>9, <1>10, <1>11, <1>12,
    <1>13, <1>14, <1>15, <1>16, <1>17, <1>18, <1>19, <1>20, <1>21, <1>22, <1>23, <1>24,
    <1>25, <1>26, <1>27, <1>28, <1>29, <1>30, <1>31, <1>32, <1>33, <1>34, <1>35, <1>36
    DEF Next, Editor, Stopping, Canvas, Worker, ServerSide

\* The bounded counters.
LEMMA CountsStep == TypeOK /\ CountsOK /\ [Next]_vars => CountsOK'
<1> SUFFICES ASSUME TypeOK, CountsOK, [Next]_vars PROVE CountsOK'
  OBVIOUS
<1> USE DEF CountsOK, vars, genVars, toolVars, tool, rest, shared, work, wire, server
<1>0. CASE UNCHANGED vars BY <1>0
<1>1. CASE Accept BY <1>1 DEF Accept, Frame, PollAll, Reset, NoRequestMade
<1>2. CASE Regenerate
  <2>1. sel \in AnyRegion /\ label \in Label BY TypeParts DEF DataOK
  <2> QED BY <1>2, <2>1, SendFacts DEF Regenerate
<1>3. CASE OverUi BY <1>3 DEF OverUi, Frame, PollAll, NoRequestMade
<1>4. CASE Hover BY <1>4 DEF Hover, Frame, PollAll, NoRequestMade
<1>5. CASE Press BY <1>5 DEF Press, Frame, PollAll, NoRequestMade
<1>6. CASE Drag BY <1>6 DEF Drag, Frame, PollAll, NoRequestMade
<1>7. CASE Release
  <2>1. CASE Reset /\ NoRequestMade
    BY <1>7, <2>1 DEF Release, Frame, PollAll, Reset, NoRequestMade
  <2>2. ASSUME NEW r \in Region, sel' = r, SendRequest(label, r), UNCHANGED preview
        PROVE CountsOK'
    <3>1. r \in AnyRegion /\ label \in Label BY TypeParts DEF AnyRegion, DataOK
    <3> QED BY <1>7, <2>2, <3>1, SendFacts DEF Release
  <2> QED BY <1>7, <2>1, <2>2 DEF Release
<1>8. CASE Escape BY <1>8 DEF Escape, Reset
<1>9. CASE EnterMode BY <1>9 DEF EnterMode, Start
<1>10. CASE LeaveMode BY <1>10 DEF LeaveMode, Reset
<1>11. CASE LeaveScreen BY <1>11 DEF LeaveScreen, StopFlag
<1>12. ASSUME NEW l \in Label, SetLabel(l) PROVE CountsOK'
  <2>1. CASE state \notin {"Preview", "Waiting"} BY <1>12, <2>1 DEF SetLabel
  <2>2. CASE state \in {"Preview", "Waiting"} /\ sel = NoRegion
    BY <1>12, <2>2 DEF SetLabel, Reset
  <2>3. CASE state \in {"Preview", "Waiting"} /\ sel # NoRegion
    <3>1. sel \in AnyRegion BY TypeParts DEF DataOK
    <3> QED BY <1>12, <2>3, <3>1, SendFacts DEF SetLabel
  <2> QED BY <2>1, <2>2, <2>3
<1>13. CASE StopNotify BY <1>13 DEF StopNotify, Notify
<1>14. CASE Join BY <1>14 DEF Join, StopJoin
<1>15. CASE Over BY <1>15 DEF Over
<1>16. CASE NetInitFails /\ UNCHANGED server /\ UNCHANGED toolVars
  BY <1>16 DEF NetInitFails, MakeError
<1>17. CASE Boot /\ UNCHANGED server /\ UNCHANGED toolVars
  BY <1>17 DEF Boot, EnsureConnected
<1>18. CASE Check /\ UNCHANGED server /\ UNCHANGED toolVars BY <1>18 DEF Check, Look
<1>19. CASE FallAsleep /\ UNCHANGED server /\ UNCHANGED toolVars BY <1>19 DEF FallAsleep
<1>20. CASE WaitTimeout /\ UNCHANGED server /\ UNCHANGED toolVars
  BY <1>20 DEF WaitTimeout, Look
<1>21. CASE Tick /\ UNCHANGED server /\ UNCHANGED toolVars
  BY <1>21 DEF Tick, EnsureConnected
<1>22. CASE Dial /\ UNCHANGED server /\ UNCHANGED toolVars
  BY <1>22 DEF Dial, EnsureConnected, MakeError
<1>23. CASE Redial /\ UNCHANGED server /\ UNCHANGED toolVars
  BY <1>23 DEF Redial, EnsureConnected
<1>24. CASE Send /\ UNCHANGED server /\ UNCHANGED toolVars BY <1>24 DEF Send
<1>25. CASE SendFails /\ UNCHANGED server /\ UNCHANGED toolVars
  BY <1>25 DEF SendFails, LostConnection, Drop, MakeError
<1>26. CASE Cancelled /\ UNCHANGED server /\ UNCHANGED toolVars
  BY <1>26 DEF Cancelled, MakeError
<1>27. CASE ReadAnswer /\ UNCHANGED server /\ UNCHANGED toolVars
  BY <1>27 DEF ReadAnswer, ParseResponse, MakeError
<1>28. CASE ReadGarbage /\ UNCHANGED server /\ UNCHANGED toolVars
  BY <1>28 DEF ReadGarbage, LostConnection, Drop, MakeError
<1>29. CASE ReplyTimeout /\ UNCHANGED server /\ UNCHANGED toolVars
  BY <1>29 DEF ReplyTimeout, LostConnection, Drop, MakeError
<1>30. CASE RecvFails /\ UNCHANGED server /\ UNCHANGED toolVars
  BY <1>30 DEF RecvFails, LostConnection, Drop, MakeError
<1>31. CASE PushResult /\ UNCHANGED server /\ UNCHANGED toolVars BY <1>31 DEF PushResult
<1>32. CASE WorkerEnds /\ UNCHANGED server /\ UNCHANGED toolVars
  BY <1>32 DEF WorkerEnds, Drop
<1>33. CASE Reply /\ UNCHANGED toolVars BY <1>33 DEF Reply
<1>34. CASE HandlerEnds /\ UNCHANGED toolVars BY <1>34 DEF HandlerEnds, Hangup
<1>35. CASE ServerExits /\ UNCHANGED toolVars BY <1>35 DEF ServerExits, Hangup
<1>36. CASE ServerStarts /\ UNCHANGED toolVars BY <1>36 DEF ServerStarts
<1> QED
  BY <1>0, <1>1, <1>2, <1>3, <1>4, <1>5, <1>6, <1>7, <1>8, <1>9, <1>10, <1>11, <1>12,
    <1>13, <1>14, <1>15, <1>16, <1>17, <1>18, <1>19, <1>20, <1>21, <1>22, <1>23, <1>24,
    <1>25, <1>26, <1>27, <1>28, <1>29, <1>30, <1>31, <1>32, <1>33, <1>34, <1>35, <1>36
    DEF Next, Editor, Stopping, Canvas, Worker, ServerSide

\* Requests, results and sequences; a worker with work has a request in hand.
LEMMA DataStep ==
  TypeOK /\ JobInv /\ ResultInv /\ PreviewIsLatest /\ DataOK
  /\ [Next]_vars => DataOK'
<1> SUFFICES ASSUME TypeOK, JobInv, ResultInv, PreviewIsLatest, DataOK, [Next]_vars
             PROVE DataOK'
  OBVIOUS
<1> USE DEF DataOK, vars, genVars, toolVars, tool, rest, shared, work, wire, server
<1>0. CASE UNCHANGED vars BY <1>0
<1>1. CASE Accept
  <2>1. Collected.preview \in ShapeRequest
    BY <1>1, CollectedFacts DEF Accept
  <2>2. label \in Label OBVIOUS
  <2>3. map' \in MapState BY <1>1, <2>1, <2>2 DEF Accept, MapState
  <2> QED BY <1>1, <2>3 DEF Accept, Frame, PollAll, Reset, NoRequestMade, AnyRegion
<1>2. CASE Regenerate BY <1>2, CollectedFacts, SendFacts DEF Regenerate
<1>3. CASE OverUi
  BY <1>3, CollectedFacts DEF OverUi, Frame, PollAll, NoRequestMade, AnyRegion
<1>4. CASE Hover
  BY <1>4, CollectedFacts DEF Hover, Frame, PollAll, NoRequestMade, AnyRegion
<1>5. CASE Press
  BY <1>5, CollectedFacts DEF Press, Frame, PollAll, NoRequestMade, AnyRegion
<1>6. CASE Drag
  BY <1>6, CollectedFacts DEF Drag, Frame, PollAll, NoRequestMade, AnyRegion
<1>7. CASE Release
  <2>1. CASE Reset /\ NoRequestMade
    BY <1>7, <2>1 DEF Release, Frame, PollAll, Reset, NoRequestMade, AnyRegion
  <2>2. ASSUME NEW r \in Region, sel' = r, SendRequest(label, r), UNCHANGED preview
        PROVE DataOK'
    <3>1. r \in AnyRegion /\ label \in Label BY TypeParts DEF AnyRegion, DataOK
    <3> QED BY <1>7, <2>2, <3>1, SendFacts DEF Release
  <2> QED BY <1>7, <2>1, <2>2 DEF Release
<1>8. CASE Escape BY <1>8 DEF Escape, Reset, AnyRegion
<1>9. CASE EnterMode BY <1>9 DEF EnterMode, Start
<1>10. CASE LeaveMode BY <1>10 DEF LeaveMode, Reset, AnyRegion
<1>11. CASE LeaveScreen BY <1>11 DEF LeaveScreen, StopFlag
<1>12. ASSUME NEW l \in Label, SetLabel(l) PROVE DataOK'
  <2>1. CASE state \notin {"Preview", "Waiting"} BY <1>12, <2>1 DEF SetLabel
  <2>2. CASE state \in {"Preview", "Waiting"} /\ sel = NoRegion
    BY <1>12, <2>2 DEF SetLabel, Reset, AnyRegion
  <2>3. CASE state \in {"Preview", "Waiting"} /\ sel # NoRegion
    <3>1. sel \in AnyRegion BY TypeParts DEF DataOK
    <3> QED BY <1>12, <2>3, <3>1, SendFacts DEF SetLabel
  <2> QED BY <2>1, <2>2, <2>3
<1>13. CASE StopNotify BY <1>13 DEF StopNotify, Notify
<1>14. CASE Join BY <1>14 DEF Join, StopJoin
<1>15. CASE Over BY <1>15 DEF Over
<1>16. CASE NetInitFails /\ UNCHANGED server /\ UNCHANGED toolVars
  <2>1. latestSeq \in 0..MaxRequests BY DEF TypeOK, GeneratorTypeOK
  <2>2. MakeError("noNet", latestSeq, TRUE) \in Result BY <2>1, ErrorType
  <2> QED BY <1>16, <2>2, AppendedResult DEF NetInitFails
<1>17. CASE Boot /\ UNCHANGED server /\ UNCHANGED toolVars
  BY <1>17 DEF Boot, EnsureConnected
<1>18. CASE Check /\ UNCHANGED server /\ UNCHANGED toolVars BY <1>18 DEF Check, Look
<1>19. CASE FallAsleep /\ UNCHANGED server /\ UNCHANGED toolVars BY <1>19 DEF FallAsleep
<1>20. CASE WaitTimeout /\ UNCHANGED server /\ UNCHANGED toolVars
  BY <1>20 DEF WaitTimeout, Look
<1>21. CASE Tick /\ UNCHANGED server /\ UNCHANGED toolVars
  BY <1>21 DEF Tick, EnsureConnected
<1>22. CASE Dial /\ UNCHANGED server /\ UNCHANGED toolVars
  <2>1. taken.seed \in 0..MaxRequests BY <1>22 DEF Dial, JobInv, Working, ShapeRequest
  <2>2. hurt \in BOOLEAN BY TypeParts DEF FlagsOK
  <2>3. MakeError("lost", taken.seed, hurt) \in Result BY <2>1, <2>2, ErrorType
  <2>4. outcome' = outcome \/ outcome' = MakeError("lost", taken.seed, hurt)
    BY <1>22 DEF Dial, EnsureConnected
  <2>5. outcome' \in Result BY <2>3, <2>4
  <2> QED BY <1>22, <2>5 DEF Dial, EnsureConnected
<1>23. CASE Redial /\ UNCHANGED server /\ UNCHANGED toolVars
  BY <1>23 DEF Redial, EnsureConnected, Result, TypeOK, GeneratorTypeOK
<1>24. CASE Send /\ UNCHANGED server /\ UNCHANGED toolVars
  <2>1. taken \in ShapeRequest BY <1>24 DEF Send, JobInv, Working
  <2>2. asks' \in Seq(ShapeRequest) BY <1>24, <2>1, AppendedResult DEF Send
  <2> QED BY <1>24, <2>2 DEF Send
<1>25. CASE SendFails /\ UNCHANGED server /\ UNCHANGED toolVars
  <2>1. taken.seed \in 0..MaxRequests
    BY <1>25 DEF SendFails, JobInv, Working, ShapeRequest
  <2>2. hurt \in BOOLEAN BY TypeParts DEF FlagsOK
  <2>3. MakeError("lost", taken.seed, hurt) \in Result BY <2>1, <2>2, ErrorType
  <2>4. outcome' = outcome \/ outcome' = MakeError("lost", taken.seed, hurt)
    BY <1>25 DEF SendFails, LostConnection, Drop
  <2>5. outcome' \in Result BY <2>3, <2>4
  <2> QED BY <1>25, <2>5 DEF SendFails, LostConnection, Drop
<1>26. CASE Cancelled /\ UNCHANGED server /\ UNCHANGED toolVars
  <2>1. taken.seed \in 0..MaxRequests
    BY <1>26 DEF Cancelled, JobInv, Working, ShapeRequest
  <2>2. hurt \in BOOLEAN BY TypeParts DEF FlagsOK
  <2>3. MakeError("cancelled", taken.seed, FALSE) \in Result BY <2>1, <2>2, ErrorType
  <2>4. outcome' = outcome \/ outcome' = MakeError("cancelled", taken.seed, FALSE)
    BY <1>26 DEF Cancelled
  <2>5. outcome' \in Result BY <2>3, <2>4
  <2> QED BY <1>26, <2>5 DEF Cancelled
<1>27. CASE ReadAnswer /\ UNCHANGED server /\ UNCHANGED toolVars
  <2>1. taken.seed \in 0..MaxRequests
    BY <1>27 DEF ReadAnswer, JobInv, Working, ShapeRequest
  <2>2. Head(acks) \in Answer BY <1>27 DEF ReadAnswer
  <2>3. Head(acks).shape \in ShapeRequest BY <2>2 DEF Answer
  <2>4. ParseResponse(Head(acks)) \in Result
    BY <2>1, <2>3, ErrorType DEF ParseResponse, Result
  <2>5. acks' \in Seq(Answer) BY <1>27 DEF ReadAnswer
  <2> QED BY <1>27, <2>4, <2>5 DEF ReadAnswer
<1>28. CASE ReadGarbage /\ UNCHANGED server /\ UNCHANGED toolVars
  <2>1. taken.seed \in 0..MaxRequests
    BY <1>28 DEF ReadGarbage, JobInv, Working, ShapeRequest
  <2>2. hurt \in BOOLEAN BY TypeParts DEF FlagsOK
  <2>3. MakeError("lost", taken.seed, TRUE) \in Result BY <2>1, <2>2, ErrorType
  <2>4. outcome' = outcome \/ outcome' = MakeError("lost", taken.seed, TRUE)
    BY <1>28 DEF ReadGarbage, LostConnection, Drop
  <2>5. outcome' \in Result BY <2>3, <2>4
  <2>6. asks' \in Seq(ShapeRequest) /\ acks' \in Seq(Answer)
    BY <1>28, NoneYet DEF ReadGarbage, LostConnection, Drop
  <2>7. UNCHANGED <<slot, taken, results, label, sel, preview, map>>
    BY <1>28 DEF ReadGarbage, LostConnection, Drop
  <2> QED BY <2>5, <2>6, <2>7
<1>29. CASE ReplyTimeout /\ UNCHANGED server /\ UNCHANGED toolVars
  <2>1. taken.seed \in 0..MaxRequests
    BY <1>29 DEF ReplyTimeout, JobInv, Working, ShapeRequest
  <2>2. hurt \in BOOLEAN BY TypeParts DEF FlagsOK
  <2>3. MakeError("lost", taken.seed, TRUE) \in Result BY <2>1, <2>2, ErrorType
  <2>4. outcome' = outcome \/ outcome' = MakeError("lost", taken.seed, TRUE)
    BY <1>29 DEF ReplyTimeout, LostConnection, Drop
  <2>5. outcome' \in Result BY <2>3, <2>4
  <2>6. asks' \in Seq(ShapeRequest) /\ acks' \in Seq(Answer)
    BY <1>29, NoneYet DEF ReplyTimeout, LostConnection, Drop
  <2>7. UNCHANGED <<slot, taken, results, label, sel, preview, map>>
    BY <1>29 DEF ReplyTimeout, LostConnection, Drop
  <2> QED BY <2>5, <2>6, <2>7
<1>30. CASE RecvFails /\ UNCHANGED server /\ UNCHANGED toolVars
  <2>1. taken.seed \in 0..MaxRequests
    BY <1>30 DEF RecvFails, JobInv, Working, ShapeRequest
  <2>2. hurt \in BOOLEAN BY TypeParts DEF FlagsOK
  <2>3. MakeError("lost", taken.seed, hurt) \in Result BY <2>1, <2>2, ErrorType
  <2>4. outcome' = outcome \/ outcome' = MakeError("lost", taken.seed, hurt)
    BY <1>30 DEF RecvFails, LostConnection, Drop
  <2>5. outcome' \in Result BY <2>3, <2>4
  <2> QED BY <1>30, <2>5 DEF RecvFails, LostConnection, Drop
<1>31. CASE PushResult /\ UNCHANGED server /\ UNCHANGED toolVars
  BY <1>31, AppendedResult DEF PushResult
<1>32. CASE WorkerEnds /\ UNCHANGED server /\ UNCHANGED toolVars
  BY <1>32 DEF WorkerEnds, Drop
<1>33. CASE Reply /\ UNCHANGED toolVars
  <2>1. PICK k \in AnswerKind : acks' = Append(acks, [kind |-> k, shape |-> Head(asks)])
    BY <1>33 DEF Reply
  <2>2. Head(asks) \in ShapeRequest /\ asks' \in Seq(ShapeRequest) BY <1>33 DEF Reply
  <2>3. [kind |-> k, shape |-> Head(asks)] \in Answer BY <2>2 DEF Answer
  <2>4. acks' \in Seq(Answer) BY <2>1, <2>3, AppendedResult
  <2> QED BY <1>33, <2>2, <2>4 DEF Reply
<1>34. CASE HandlerEnds /\ UNCHANGED toolVars
  <2>1. asks' = asks \/ asks' = <<>> BY <1>34 DEF HandlerEnds, Hangup
  <2>2. acks' = acks \/ acks' = <<>> BY <1>34 DEF HandlerEnds, Hangup
  <2>0. asks \in Seq(ShapeRequest) /\ acks \in Seq(Answer) OBVIOUS
  <2>3. asks' \in Seq(ShapeRequest) /\ acks' \in Seq(Answer)
    BY <2>0, <2>1, <2>2, NoneYet
  <2> QED BY <1>34, <2>3 DEF HandlerEnds, Hangup
<1>35. CASE ServerExits /\ UNCHANGED toolVars
  <2>1. asks' = asks \/ asks' = <<>> BY <1>35 DEF ServerExits, Hangup
  <2>2. acks' = acks \/ acks' = <<>> BY <1>35 DEF ServerExits, Hangup
  <2>0. asks \in Seq(ShapeRequest) /\ acks \in Seq(Answer) OBVIOUS
  <2>3. asks' \in Seq(ShapeRequest) /\ acks' \in Seq(Answer)
    BY <2>0, <2>1, <2>2, NoneYet
  <2> QED BY <1>35, <2>3 DEF ServerExits, Hangup
<1>36. CASE ServerStarts /\ UNCHANGED toolVars BY <1>36 DEF ServerStarts
<1> QED
  BY <1>0, <1>1, <1>2, <1>3, <1>4, <1>5, <1>6, <1>7, <1>8, <1>9, <1>10, <1>11, <1>12,
    <1>13, <1>14, <1>15, <1>16, <1>17, <1>18, <1>19, <1>20, <1>21, <1>22, <1>23, <1>24,
    <1>25, <1>26, <1>27, <1>28, <1>29, <1>30, <1>31, <1>32, <1>33, <1>34, <1>35, <1>36
    DEF Next, Editor, Stopping, Canvas, Worker, ServerSide

-----------------------------------------------------------------------------
(* The request in hand and the results.                                    *)

\* An answer that is read answers the request in hand.
LEMMA JobStep == TypeOK /\ JobInv /\ WireInv /\ [Next]_vars => JobInv'
<1> SUFFICES ASSUME TypeOK, JobInv, WireInv, [Next]_vars PROVE JobInv'
  OBVIOUS
<1> USE
  DEF TypeOK, GeneratorTypeOK, EditorTypeOK, JobInv, Working, vars, genVars, toolVars,
    tool, rest, shared, work, wire, server
<1>0. CASE UNCHANGED vars BY <1>0
<1>1. CASE Accept BY <1>1 DEF Accept, Frame, PollAll, Reset, NoRequestMade
<1>2. CASE Regenerate BY <1>2, SendFacts DEF Regenerate
<1>3. CASE OverUi BY <1>3 DEF OverUi, Frame, PollAll, NoRequestMade
<1>4. CASE Hover BY <1>4 DEF Hover, Frame, PollAll, NoRequestMade
<1>5. CASE Press BY <1>5 DEF Press, Frame, PollAll, NoRequestMade
<1>6. CASE Drag BY <1>6 DEF Drag, Frame, PollAll, NoRequestMade
<1>7. CASE Release
  <2>1. CASE Reset /\ NoRequestMade
    BY <1>7, <2>1 DEF Release, Frame, PollAll, Reset, NoRequestMade
  <2>2. ASSUME NEW r \in Region, SendRequest(label, r) PROVE JobInv'
    <3>1. r \in AnyRegion BY DEF AnyRegion
    <3> QED BY <1>7, <2>2, <3>1, SendFacts DEF Release
  <2> QED BY <1>7, <2>1, <2>2 DEF Release
<1>8. CASE Escape BY <1>8 DEF Escape, Reset
<1>9. CASE EnterMode BY <1>9 DEF EnterMode, Start
<1>10. CASE LeaveMode BY <1>10 DEF LeaveMode, Reset
<1>11. CASE LeaveScreen BY <1>11 DEF LeaveScreen, StopFlag
<1>12. ASSUME NEW l \in Label, SetLabel(l) PROVE JobInv'
  <2>1. CASE state \notin {"Preview", "Waiting"} \/ sel = NoRegion
    BY <1>12, <2>1 DEF SetLabel
  <2>2. CASE state \in {"Preview", "Waiting"} /\ sel # NoRegion
    BY <1>12, <2>2, SendFacts DEF SetLabel
  <2> QED BY <2>1, <2>2
<1>13. CASE StopNotify BY <1>13 DEF StopNotify, Notify
<1>14. CASE Join BY <1>14 DEF Join, StopJoin
<1>15. CASE Over BY <1>15 DEF Over
<1>16. CASE NetInitFails /\ UNCHANGED server /\ UNCHANGED toolVars
  BY <1>16 DEF NetInitFails, MakeError
<1>17. CASE Boot /\ UNCHANGED server /\ UNCHANGED toolVars
  BY <1>17 DEF Boot, EnsureConnected
<1>18. CASE Check /\ UNCHANGED server /\ UNCHANGED toolVars BY <1>18 DEF Check, Look
<1>19. CASE FallAsleep /\ UNCHANGED server /\ UNCHANGED toolVars BY <1>19 DEF FallAsleep
<1>20. CASE WaitTimeout /\ UNCHANGED server /\ UNCHANGED toolVars
  BY <1>20 DEF WaitTimeout, Look
<1>21. CASE Tick /\ UNCHANGED server /\ UNCHANGED toolVars
  BY <1>21 DEF Tick, EnsureConnected
<1>22. CASE Dial /\ UNCHANGED server /\ UNCHANGED toolVars
  BY <1>22 DEF Dial, EnsureConnected, MakeError
<1>23. CASE Redial /\ UNCHANGED server /\ UNCHANGED toolVars
  BY <1>23 DEF Redial, EnsureConnected, Result
<1>24. CASE Send /\ UNCHANGED server /\ UNCHANGED toolVars BY <1>24 DEF Send
<1>25. CASE SendFails /\ UNCHANGED server /\ UNCHANGED toolVars
  BY <1>25 DEF SendFails, LostConnection, Drop, MakeError
<1>26. CASE Cancelled /\ UNCHANGED server /\ UNCHANGED toolVars
  BY <1>26 DEF Cancelled, MakeError
<1>27. CASE ReadAnswer /\ UNCHANGED server /\ UNCHANGED toolVars
  <2>1. Head(acks) \in Answer /\ acks[1] = Head(acks) /\ 1 \in DOMAIN acks
    BY <1>27 DEF ReadAnswer
  <2>2. Head(acks).shape = taken BY <1>27, <2>1 DEF ReadAnswer, WireInv
  <2>3. taken \in ShapeRequest BY <1>27 DEF ReadAnswer
  <2> QED BY <1>27, <2>2, <2>3 DEF ReadAnswer, ParseResponse, MakeError
<1>28. CASE ReadGarbage /\ UNCHANGED server /\ UNCHANGED toolVars
  BY <1>28 DEF ReadGarbage, LostConnection, Drop, MakeError
<1>29. CASE ReplyTimeout /\ UNCHANGED server /\ UNCHANGED toolVars
  BY <1>29 DEF ReplyTimeout, LostConnection, Drop, MakeError
<1>30. CASE RecvFails /\ UNCHANGED server /\ UNCHANGED toolVars
  BY <1>30 DEF RecvFails, LostConnection, Drop, MakeError
<1>31. CASE PushResult /\ UNCHANGED server /\ UNCHANGED toolVars BY <1>31 DEF PushResult
<1>32. CASE WorkerEnds /\ UNCHANGED server /\ UNCHANGED toolVars
  BY <1>32 DEF WorkerEnds, Drop
<1>33. CASE Reply /\ UNCHANGED toolVars BY <1>33 DEF Reply
<1>34. CASE HandlerEnds /\ UNCHANGED toolVars BY <1>34 DEF HandlerEnds, Hangup
<1>35. CASE ServerExits /\ UNCHANGED toolVars BY <1>35 DEF ServerExits, Hangup
<1>36. CASE ServerStarts /\ UNCHANGED toolVars BY <1>36 DEF ServerStarts
<1> QED
  BY <1>0, <1>1, <1>2, <1>3, <1>4, <1>5, <1>6, <1>7, <1>8, <1>9, <1>10, <1>11, <1>12,
    <1>13, <1>14, <1>15, <1>16, <1>17, <1>18, <1>19, <1>20, <1>21, <1>22, <1>23, <1>24,
    <1>25, <1>26, <1>27, <1>28, <1>29, <1>30, <1>31, <1>32, <1>33, <1>34, <1>35, <1>36
    DEF Next, Editor, Stopping, Canvas, Worker, ServerSide

\* What is pushed carries the number of the request it answers.
LEMMA ResultStep == TypeOK /\ JobInv /\ ResultInv /\ [Next]_vars => ResultInv'
<1> SUFFICES ASSUME TypeOK, JobInv, ResultInv, [Next]_vars PROVE ResultInv'
  OBVIOUS
<1> USE
  DEF TypeOK, GeneratorTypeOK, EditorTypeOK, ResultInv, vars, genVars, toolVars, tool,
    rest, shared, work, wire, server
<1>0. CASE UNCHANGED vars BY <1>0
<1>1. CASE Accept BY <1>1 DEF Accept, Frame, PollAll, Reset, NoRequestMade
<1>2. CASE Regenerate BY <1>2, SendFacts DEF Regenerate
<1>3. CASE OverUi BY <1>3 DEF OverUi, Frame, PollAll, NoRequestMade
<1>4. CASE Hover BY <1>4 DEF Hover, Frame, PollAll, NoRequestMade
<1>5. CASE Press BY <1>5 DEF Press, Frame, PollAll, NoRequestMade
<1>6. CASE Drag BY <1>6 DEF Drag, Frame, PollAll, NoRequestMade
<1>7. CASE Release
  <2>1. CASE Reset /\ NoRequestMade
    BY <1>7, <2>1 DEF Release, Frame, PollAll, Reset, NoRequestMade
  <2>2. ASSUME NEW r \in Region, SendRequest(label, r) PROVE ResultInv'
    <3>1. r \in AnyRegion BY DEF AnyRegion
    <3> QED BY <1>7, <2>2, <3>1, SendFacts DEF Release
  <2> QED BY <1>7, <2>1, <2>2 DEF Release
<1>8. CASE Escape BY <1>8 DEF Escape, Reset
<1>9. CASE EnterMode BY <1>9 DEF EnterMode, Start
<1>10. CASE LeaveMode BY <1>10 DEF LeaveMode, Reset
<1>11. CASE LeaveScreen BY <1>11 DEF LeaveScreen, StopFlag
<1>12. ASSUME NEW l \in Label, SetLabel(l) PROVE ResultInv'
  <2>1. CASE state \notin {"Preview", "Waiting"} \/ sel = NoRegion
    BY <1>12, <2>1 DEF SetLabel
  <2>2. CASE state \in {"Preview", "Waiting"} /\ sel # NoRegion
    BY <1>12, <2>2, SendFacts DEF SetLabel
  <2> QED BY <2>1, <2>2
<1>13. CASE StopNotify BY <1>13 DEF StopNotify, Notify
<1>14. CASE Join BY <1>14 DEF Join, StopJoin
<1>15. CASE Over BY <1>15 DEF Over
<1>16. CASE NetInitFails /\ UNCHANGED server /\ UNCHANGED toolVars
  <2> DEFINE e == MakeError("noNet", latestSeq, TRUE)
  <2>0. latestSeq \in 0..MaxRequests OBVIOUS
  <2>1. e \in Result /\ e.kind # "ok" BY <2>0, ErrorType
  <2>2. results' = Append(results, e) BY <1>16 DEF NetInitFails
  <2> HIDE DEF e
  <2>3. \A i \in DOMAIN results' :
          results'[i] = e \/ (i \in DOMAIN results /\ results'[i] = results[i])
    BY <2>1, <2>2, AppendedResult
  <2> QED BY <1>16, <2>1, <2>3 DEF NetInitFails
<1>17. CASE Boot /\ UNCHANGED server /\ UNCHANGED toolVars
  BY <1>17 DEF Boot, EnsureConnected
<1>18. CASE Check /\ UNCHANGED server /\ UNCHANGED toolVars BY <1>18 DEF Check, Look
<1>19. CASE FallAsleep /\ UNCHANGED server /\ UNCHANGED toolVars BY <1>19 DEF FallAsleep
<1>20. CASE WaitTimeout /\ UNCHANGED server /\ UNCHANGED toolVars
  BY <1>20 DEF WaitTimeout, Look
<1>21. CASE Tick /\ UNCHANGED server /\ UNCHANGED toolVars
  BY <1>21 DEF Tick, EnsureConnected
<1>22. CASE Dial /\ UNCHANGED server /\ UNCHANGED toolVars
  BY <1>22 DEF Dial, EnsureConnected, MakeError
<1>23. CASE Redial /\ UNCHANGED server /\ UNCHANGED toolVars
  BY <1>23 DEF Redial, EnsureConnected
<1>24. CASE Send /\ UNCHANGED server /\ UNCHANGED toolVars BY <1>24 DEF Send
<1>25. CASE SendFails /\ UNCHANGED server /\ UNCHANGED toolVars
  BY <1>25 DEF SendFails, LostConnection, Drop, MakeError
<1>26. CASE Cancelled /\ UNCHANGED server /\ UNCHANGED toolVars
  BY <1>26 DEF Cancelled, MakeError
<1>27. CASE ReadAnswer /\ UNCHANGED server /\ UNCHANGED toolVars
  BY <1>27 DEF ReadAnswer, ParseResponse, MakeError
<1>28. CASE ReadGarbage /\ UNCHANGED server /\ UNCHANGED toolVars
  BY <1>28 DEF ReadGarbage, LostConnection, Drop, MakeError
<1>29. CASE ReplyTimeout /\ UNCHANGED server /\ UNCHANGED toolVars
  BY <1>29 DEF ReplyTimeout, LostConnection, Drop, MakeError
<1>30. CASE RecvFails /\ UNCHANGED server /\ UNCHANGED toolVars
  BY <1>30 DEF RecvFails, LostConnection, Drop, MakeError
<1>31. CASE PushResult /\ UNCHANGED server /\ UNCHANGED toolVars
  BY <1>31, AppendedResult DEF PushResult, JobInv, Working
<1>32. CASE WorkerEnds /\ UNCHANGED server /\ UNCHANGED toolVars
  BY <1>32 DEF WorkerEnds, Drop
<1>33. CASE Reply /\ UNCHANGED toolVars BY <1>33 DEF Reply
<1>34. CASE HandlerEnds /\ UNCHANGED toolVars BY <1>34 DEF HandlerEnds, Hangup
<1>35. CASE ServerExits /\ UNCHANGED toolVars BY <1>35 DEF ServerExits, Hangup
<1>36. CASE ServerStarts /\ UNCHANGED toolVars BY <1>36 DEF ServerStarts
<1> QED
  BY <1>0, <1>1, <1>2, <1>3, <1>4, <1>5, <1>6, <1>7, <1>8, <1>9, <1>10, <1>11, <1>12,
    <1>13, <1>14, <1>15, <1>16, <1>17, <1>18, <1>19, <1>20, <1>21, <1>22, <1>23, <1>24,
    <1>25, <1>26, <1>27, <1>28, <1>29, <1>30, <1>31, <1>32, <1>33, <1>34, <1>35, <1>36
    DEF Next, Editor, Stopping, Canvas, Worker, ServerSide

\* A connection on which a request was given up is closed before the next.
LEMMA WireStep == TypeOK /\ JobInv /\ WireInv /\ CauseInv /\ [Next]_vars => WireInv'
<1> SUFFICES ASSUME TypeOK, JobInv, WireInv, CauseInv, [Next]_vars PROVE WireInv'
  OBVIOUS
<1> USE
  DEF TypeOK, GeneratorTypeOK, EditorTypeOK, WireInv, vars, genVars, toolVars, tool,
    rest, shared, work, wire, server
<1>0. CASE UNCHANGED vars BY <1>0
<1>1. CASE Accept BY <1>1 DEF Accept, Frame, PollAll, Reset, NoRequestMade
<1>2. CASE Regenerate BY <1>2, SendFacts DEF Regenerate
<1>3. CASE OverUi BY <1>3 DEF OverUi, Frame, PollAll, NoRequestMade
<1>4. CASE Hover BY <1>4 DEF Hover, Frame, PollAll, NoRequestMade
<1>5. CASE Press BY <1>5 DEF Press, Frame, PollAll, NoRequestMade
<1>6. CASE Drag BY <1>6 DEF Drag, Frame, PollAll, NoRequestMade
<1>7. CASE Release
  <2>1. CASE Reset /\ NoRequestMade
    BY <1>7, <2>1 DEF Release, Frame, PollAll, Reset, NoRequestMade
  <2>2. ASSUME NEW r \in Region, SendRequest(label, r) PROVE WireInv'
    <3>1. r \in AnyRegion BY DEF AnyRegion
    <3> QED BY <1>7, <2>2, <3>1, SendFacts DEF Release
  <2> QED BY <1>7, <2>1, <2>2 DEF Release
<1>8. CASE Escape BY <1>8 DEF Escape, Reset
<1>9. CASE EnterMode BY <1>9 DEF EnterMode, Start, CauseInv
<1>10. CASE LeaveMode BY <1>10 DEF LeaveMode, Reset
<1>11. CASE LeaveScreen BY <1>11 DEF LeaveScreen, StopFlag
<1>12. ASSUME NEW l \in Label, SetLabel(l) PROVE WireInv'
  <2>1. CASE state \notin {"Preview", "Waiting"} \/ sel = NoRegion
    BY <1>12, <2>1 DEF SetLabel
  <2>2. CASE state \in {"Preview", "Waiting"} /\ sel # NoRegion
    BY <1>12, <2>2, SendFacts DEF SetLabel
  <2> QED BY <2>1, <2>2
<1>13. CASE StopNotify BY <1>13 DEF StopNotify, Notify
<1>14. CASE Join BY <1>14 DEF Join, StopJoin
<1>15. CASE Over BY <1>15 DEF Over
<1>16. CASE NetInitFails /\ UNCHANGED server /\ UNCHANGED toolVars
  BY <1>16 DEF NetInitFails, MakeError
<1>17. CASE Boot /\ UNCHANGED server /\ UNCHANGED toolVars
  BY <1>17 DEF Boot, EnsureConnected
<1>18. CASE Check /\ UNCHANGED server /\ UNCHANGED toolVars BY <1>18 DEF Check, Look
<1>19. CASE FallAsleep /\ UNCHANGED server /\ UNCHANGED toolVars BY <1>19 DEF FallAsleep
<1>20. CASE WaitTimeout /\ UNCHANGED server /\ UNCHANGED toolVars
  BY <1>20 DEF WaitTimeout, Look
<1>21. CASE Tick /\ UNCHANGED server /\ UNCHANGED toolVars
  BY <1>21 DEF Tick, EnsureConnected
<1>22. CASE Dial /\ UNCHANGED server /\ UNCHANGED toolVars
  BY <1>22 DEF Dial, EnsureConnected, MakeError
<1>23. CASE Redial /\ UNCHANGED server /\ UNCHANGED toolVars
  BY <1>23 DEF Redial, EnsureConnected
<1>24. CASE Send /\ UNCHANGED server /\ UNCHANGED toolVars
  <2>1. taken \in ShapeRequest BY <1>24 DEF Send, JobInv, Working
  <2>2. asks = <<>> /\ acks = <<>> BY <1>24 DEF Send
  <2>3. Append(asks, taken) = <<taken>> BY <2>1, <2>2
  <2>4. asks' = <<taken>> \/ asks' = <<>> BY <1>24, <2>2, <2>3 DEF Send
  <2> QED BY <1>24, <2>2, <2>4 DEF Send
<1>25. CASE SendFails /\ UNCHANGED server /\ UNCHANGED toolVars
  BY <1>25 DEF SendFails, LostConnection, Drop, MakeError
<1>26. CASE Cancelled /\ UNCHANGED server /\ UNCHANGED toolVars
  BY <1>26 DEF Cancelled, MakeError
<1>27. CASE ReadAnswer /\ UNCHANGED server /\ UNCHANGED toolVars
  <2>0. asks \in Seq(ShapeRequest) /\ acks \in Seq(Answer) /\ pc = "recv" /\ acks # <<>>
    BY <1>27 DEF ReadAnswer
  <2>1. Len(asks) \in Nat /\ Len(acks) \in Nat /\ Len(acks) >= 1 BY <2>0, ShortSeq
  <2>4. Len(asks) + Len(acks) <= 1 BY <2>0
  <2>5. Len(acks) = 1 /\ Len(asks) = 0 BY <2>1, <2>4, OnlyOne
  <2>2. asks = <<>> BY <2>0, <2>5, ShortSeq
  <2>3. Tail(acks) = <<>> BY <2>0, <2>5, ShortSeq
  <2> QED BY <1>27, <2>2, <2>3 DEF ReadAnswer
<1>28. CASE ReadGarbage /\ UNCHANGED server /\ UNCHANGED toolVars
  BY <1>28 DEF ReadGarbage, LostConnection, Drop, MakeError
<1>29. CASE ReplyTimeout /\ UNCHANGED server /\ UNCHANGED toolVars
  BY <1>29 DEF ReplyTimeout, LostConnection, Drop, MakeError
<1>30. CASE RecvFails /\ UNCHANGED server /\ UNCHANGED toolVars
  BY <1>30 DEF RecvFails, LostConnection, Drop, MakeError
<1>31. CASE PushResult /\ UNCHANGED server /\ UNCHANGED toolVars BY <1>31 DEF PushResult
<1>32. CASE WorkerEnds /\ UNCHANGED server /\ UNCHANGED toolVars
  BY <1>32 DEF WorkerEnds, Drop
<1>33. CASE Reply /\ UNCHANGED toolVars
  <2>1. PICK k \in AnswerKind : acks' = Append(acks, [kind |-> k, shape |-> Head(asks)])
    BY <1>33 DEF Reply
  <2> DEFINE a == [kind |-> k, shape |-> Head(asks)]
  <2>2. asks # <<>> BY <1>33 DEF Reply
  <2>3. CASE pc = "recv"
    <3>0. asks \in Seq(ShapeRequest) /\ acks \in Seq(Answer) OBVIOUS
    <3>10. Len(asks) \in Nat /\ Len(acks) \in Nat /\ Len(asks) >= 1
      BY <2>2, <3>0, ShortSeq
    <3>11. Len(acks) + Len(asks) <= 1 BY <2>3, <3>10
    <3>1. Len(asks) = 1 /\ Len(acks) = 0 BY <3>10, <3>11, OnlyOne
    <3>2. acks = <<>> /\ asks' = <<>> BY <1>33, <3>0, <3>1, ShortSeq DEF Reply
    <3>3. Head(asks) = taken BY <2>2, <2>3, <3>1
    <3>4. a \in Answer BY <2>2 DEF Answer
    <3>5. acks' = <<a>> BY <2>1, <3>2, <3>4
    <3>6. a.shape = taken BY <3>3
    <3> HIDE DEF a
    <3>7. Len(asks') = 0 /\ DOMAIN asks' = {} BY <3>2
    <3>8. Len(acks') = 1 /\ DOMAIN acks' = {1} /\ acks'[1] = a BY <3>5
    <3>9. pc' = pc /\ taken' = taken BY <1>33 DEF Reply
    <3> QED BY <2>3, <3>6, <3>7, <3>8, <3>9
  <2>4. CASE pc # "recv" BY <1>33, <2>2, <2>4 DEF Reply
  <2> QED BY <2>3, <2>4
<1>34. CASE HandlerEnds /\ UNCHANGED toolVars BY <1>34 DEF HandlerEnds, Hangup
<1>35. CASE ServerExits /\ UNCHANGED toolVars BY <1>35 DEF ServerExits, Hangup
<1>36. CASE ServerStarts /\ UNCHANGED toolVars BY <1>36 DEF ServerStarts
<1> QED
  BY <1>0, <1>1, <1>2, <1>3, <1>4, <1>5, <1>6, <1>7, <1>8, <1>9, <1>10, <1>11, <1>12,
    <1>13, <1>14, <1>15, <1>16, <1>17, <1>18, <1>19, <1>20, <1>21, <1>22, <1>23, <1>24,
    <1>25, <1>26, <1>27, <1>28, <1>29, <1>30, <1>31, <1>32, <1>33, <1>34, <1>35, <1>36
    DEF Next, Editor, Stopping, Canvas, Worker, ServerSide

\* A request is sent again when the first attempt failed for no fresh reason.
LEMMA CauseStep == TypeOK /\ JobInv /\ CauseInv /\ [Next]_vars => CauseInv'
<1> SUFFICES ASSUME TypeOK, JobInv, CauseInv, [Next]_vars PROVE CauseInv'
  OBVIOUS
<1> USE
  DEF TypeOK, GeneratorTypeOK, EditorTypeOK, CauseInv, Working, vars, genVars, toolVars,
    tool, rest, shared, work, wire, server
<1>0. CASE UNCHANGED vars BY <1>0
<1>1. CASE Accept BY <1>1 DEF Accept, Frame, PollAll, Reset, NoRequestMade
<1>2. CASE Regenerate BY <1>2, SendFacts DEF Regenerate
<1>3. CASE OverUi BY <1>3 DEF OverUi, Frame, PollAll, NoRequestMade
<1>4. CASE Hover BY <1>4 DEF Hover, Frame, PollAll, NoRequestMade
<1>5. CASE Press BY <1>5 DEF Press, Frame, PollAll, NoRequestMade
<1>6. CASE Drag BY <1>6 DEF Drag, Frame, PollAll, NoRequestMade
<1>7. CASE Release
  <2>1. CASE Reset /\ NoRequestMade
    BY <1>7, <2>1 DEF Release, Frame, PollAll, Reset, NoRequestMade
  <2>2. ASSUME NEW r \in Region, SendRequest(label, r) PROVE CauseInv'
    <3>1. r \in AnyRegion BY DEF AnyRegion
    <3> QED BY <1>7, <2>2, <3>1, SendFacts DEF Release
  <2> QED BY <1>7, <2>1, <2>2 DEF Release
<1>8. CASE Escape BY <1>8 DEF Escape, Reset
<1>9. CASE EnterMode BY <1>9 DEF EnterMode, Start
<1>10. CASE LeaveMode BY <1>10 DEF LeaveMode, Reset
<1>11. CASE LeaveScreen BY <1>11 DEF LeaveScreen, StopFlag
<1>12. ASSUME NEW l \in Label, SetLabel(l) PROVE CauseInv'
  <2>1. CASE state \notin {"Preview", "Waiting"} \/ sel = NoRegion
    BY <1>12, <2>1 DEF SetLabel
  <2>2. CASE state \in {"Preview", "Waiting"} /\ sel # NoRegion
    BY <1>12, <2>2, SendFacts DEF SetLabel
  <2> QED BY <2>1, <2>2
<1>13. CASE StopNotify BY <1>13 DEF StopNotify, Notify
<1>14. CASE Join BY <1>14 DEF Join, StopJoin
<1>15. CASE Over BY <1>15 DEF Over
<1>16. CASE NetInitFails /\ UNCHANGED server /\ UNCHANGED toolVars
  <2> DEFINE e == MakeError("noNet", latestSeq, TRUE)
  <2>0. latestSeq \in 0..MaxRequests OBVIOUS
  <2>1. e \in Result /\ e.kind # "lost" BY <2>0, ErrorType
  <2>2. results' = Append(results, e) BY <1>16 DEF NetInitFails
  <2> HIDE DEF e
  <2>3. \A i \in DOMAIN results' :
          results'[i] = e \/ (i \in DOMAIN results /\ results'[i] = results[i])
    BY <2>1, <2>2, AppendedResult
  <2> QED BY <1>16, <2>1, <2>3 DEF NetInitFails
<1>17. CASE Boot /\ UNCHANGED server /\ UNCHANGED toolVars
  BY <1>17 DEF Boot, EnsureConnected
<1>18. CASE Check /\ UNCHANGED server /\ UNCHANGED toolVars BY <1>18 DEF Check, Look
<1>19. CASE FallAsleep /\ UNCHANGED server /\ UNCHANGED toolVars BY <1>19 DEF FallAsleep
<1>20. CASE WaitTimeout /\ UNCHANGED server /\ UNCHANGED toolVars
  BY <1>20 DEF WaitTimeout, Look
<1>21. CASE Tick /\ UNCHANGED server /\ UNCHANGED toolVars
  BY <1>21 DEF Tick, EnsureConnected
<1>22. CASE Dial /\ UNCHANGED server /\ UNCHANGED toolVars
  <2>1. CASE conn' # "none" BY <1>22, <2>1 DEF Dial, EnsureConnected
  <2>2. CASE conn' = "none"
    <3>1. hurt BY <1>22, <2>2 DEF Dial, EnsureConnected
    <3>2. outcome'.hurt = hurt BY <1>22, <2>2 DEF Dial, MakeError
    <3> QED BY <1>22, <2>2, <3>1, <3>2 DEF Dial
  <2> QED BY <2>1, <2>2
<1>23. CASE Redial /\ UNCHANGED server /\ UNCHANGED toolVars
  BY <1>23 DEF Redial, EnsureConnected, Result
<1>24. CASE Send /\ UNCHANGED server /\ UNCHANGED toolVars BY <1>24 DEF Send
<1>25. CASE SendFails /\ UNCHANGED server /\ UNCHANGED toolVars
  BY <1>25 DEF SendFails, LostConnection, Drop, MakeError
<1>26. CASE Cancelled /\ UNCHANGED server /\ UNCHANGED toolVars
  BY <1>26 DEF Cancelled, MakeError
<1>27. CASE ReadAnswer /\ UNCHANGED server /\ UNCHANGED toolVars
  BY <1>27 DEF ReadAnswer, ParseResponse, MakeError
<1>28. CASE ReadGarbage /\ UNCHANGED server /\ UNCHANGED toolVars
  BY <1>28 DEF ReadGarbage, LostConnection, Drop, MakeError
<1>29. CASE ReplyTimeout /\ UNCHANGED server /\ UNCHANGED toolVars
  BY <1>29 DEF ReplyTimeout, LostConnection, Drop, MakeError
<1>30. CASE RecvFails /\ UNCHANGED server /\ UNCHANGED toolVars
  BY <1>30 DEF RecvFails, LostConnection, Drop, MakeError
<1>31. CASE PushResult /\ UNCHANGED server /\ UNCHANGED toolVars
  BY <1>31, AppendedResult DEF PushResult
<1>32. CASE WorkerEnds /\ UNCHANGED server /\ UNCHANGED toolVars
  BY <1>32 DEF WorkerEnds, Drop
<1>33. CASE Reply /\ UNCHANGED toolVars BY <1>33 DEF Reply
<1>34. CASE HandlerEnds /\ UNCHANGED toolVars BY <1>34 DEF HandlerEnds, Hangup
<1>35. CASE ServerExits /\ UNCHANGED toolVars BY <1>35 DEF ServerExits, Hangup
<1>36. CASE ServerStarts /\ UNCHANGED toolVars BY <1>36 DEF ServerStarts
<1> QED
  BY <1>0, <1>1, <1>2, <1>3, <1>4, <1>5, <1>6, <1>7, <1>8, <1>9, <1>10, <1>11, <1>12,
    <1>13, <1>14, <1>15, <1>16, <1>17, <1>18, <1>19, <1>20, <1>21, <1>22, <1>23, <1>24,
    <1>25, <1>26, <1>27, <1>28, <1>29, <1>30, <1>31, <1>32, <1>33, <1>34, <1>35, <1>36
    DEF Next, Editor, Stopping, Canvas, Worker, ServerSide

-----------------------------------------------------------------------------
(* The tool.                                                               *)

\* Only Poll shows a preview, and a new request takes it away.
LEMMA PreviewStep ==
  TypeOK /\ ResultInv /\ PreviewIsLatest
  /\ [Next]_vars => PreviewIsLatest'
<1> SUFFICES ASSUME TypeOK, ResultInv, PreviewIsLatest, [Next]_vars
             PROVE PreviewIsLatest'
  OBVIOUS
<1> USE
  DEF TypeOK, GeneratorTypeOK, EditorTypeOK, PreviewIsLatest, vars, genVars, toolVars,
    tool, rest, shared, work, wire, server
<1>0. CASE UNCHANGED vars BY <1>0
<1>1. CASE Accept BY <1>1 DEF Accept, Frame, PollAll, Reset, NoRequestMade
<1>2. CASE Regenerate BY <1>2, SendFacts DEF Regenerate
<1>3. CASE OverUi BY <1>3, CollectedFacts DEF OverUi, Frame, PollAll, NoRequestMade
<1>4. CASE Hover BY <1>4, CollectedFacts DEF Hover, Frame, PollAll, NoRequestMade
<1>5. CASE Press BY <1>5, CollectedFacts DEF Press, Frame, PollAll, NoRequestMade
<1>6. CASE Drag BY <1>6, CollectedFacts DEF Drag, Frame, PollAll, NoRequestMade
<1>7. CASE Release
  <2>1. CASE Reset /\ NoRequestMade
    BY <1>7, <2>1 DEF Release, Frame, PollAll, Reset, NoRequestMade
  <2>2. ASSUME NEW r \in Region, SendRequest(label, r) PROVE PreviewIsLatest'
    <3>1. r \in AnyRegion BY DEF AnyRegion
    <3> QED BY <1>7, <2>2, <3>1, SendFacts DEF Release
  <2> QED BY <1>7, <2>1, <2>2 DEF Release
<1>8. CASE Escape BY <1>8 DEF Escape, Reset
<1>9. CASE EnterMode BY <1>9 DEF EnterMode, Start
<1>10. CASE LeaveMode BY <1>10 DEF LeaveMode, Reset
<1>11. CASE LeaveScreen BY <1>11 DEF LeaveScreen, StopFlag
<1>12. ASSUME NEW l \in Label, SetLabel(l) PROVE PreviewIsLatest'
  <2>1. CASE state \notin {"Preview", "Waiting"} BY <1>12, <2>1 DEF SetLabel
  <2>2. CASE state \in {"Preview", "Waiting"} /\ sel = NoRegion
    BY <1>12, <2>2 DEF SetLabel, Reset
  <2>3. CASE state \in {"Preview", "Waiting"} /\ sel # NoRegion
    BY <1>12, <2>3, SendFacts DEF SetLabel
  <2> QED BY <2>1, <2>2, <2>3
<1>13. CASE StopNotify BY <1>13 DEF StopNotify, Notify
<1>14. CASE Join BY <1>14 DEF Join, StopJoin
<1>15. CASE Over BY <1>15 DEF Over
<1>16. CASE NetInitFails /\ UNCHANGED server /\ UNCHANGED toolVars
  BY <1>16 DEF NetInitFails, MakeError
<1>17. CASE Boot /\ UNCHANGED server /\ UNCHANGED toolVars
  BY <1>17 DEF Boot, EnsureConnected
<1>18. CASE Check /\ UNCHANGED server /\ UNCHANGED toolVars BY <1>18 DEF Check, Look
<1>19. CASE FallAsleep /\ UNCHANGED server /\ UNCHANGED toolVars BY <1>19 DEF FallAsleep
<1>20. CASE WaitTimeout /\ UNCHANGED server /\ UNCHANGED toolVars
  BY <1>20 DEF WaitTimeout, Look
<1>21. CASE Tick /\ UNCHANGED server /\ UNCHANGED toolVars
  BY <1>21 DEF Tick, EnsureConnected
<1>22. CASE Dial /\ UNCHANGED server /\ UNCHANGED toolVars
  BY <1>22 DEF Dial, EnsureConnected, MakeError
<1>23. CASE Redial /\ UNCHANGED server /\ UNCHANGED toolVars
  BY <1>23 DEF Redial, EnsureConnected
<1>24. CASE Send /\ UNCHANGED server /\ UNCHANGED toolVars BY <1>24 DEF Send
<1>25. CASE SendFails /\ UNCHANGED server /\ UNCHANGED toolVars
  BY <1>25 DEF SendFails, LostConnection, Drop, MakeError
<1>26. CASE Cancelled /\ UNCHANGED server /\ UNCHANGED toolVars
  BY <1>26 DEF Cancelled, MakeError
<1>27. CASE ReadAnswer /\ UNCHANGED server /\ UNCHANGED toolVars
  BY <1>27 DEF ReadAnswer, ParseResponse, MakeError
<1>28. CASE ReadGarbage /\ UNCHANGED server /\ UNCHANGED toolVars
  BY <1>28 DEF ReadGarbage, LostConnection, Drop, MakeError
<1>29. CASE ReplyTimeout /\ UNCHANGED server /\ UNCHANGED toolVars
  BY <1>29 DEF ReplyTimeout, LostConnection, Drop, MakeError
<1>30. CASE RecvFails /\ UNCHANGED server /\ UNCHANGED toolVars
  BY <1>30 DEF RecvFails, LostConnection, Drop, MakeError
<1>31. CASE PushResult /\ UNCHANGED server /\ UNCHANGED toolVars BY <1>31 DEF PushResult
<1>32. CASE WorkerEnds /\ UNCHANGED server /\ UNCHANGED toolVars
  BY <1>32 DEF WorkerEnds, Drop
<1>33. CASE Reply /\ UNCHANGED toolVars BY <1>33 DEF Reply
<1>34. CASE HandlerEnds /\ UNCHANGED toolVars BY <1>34 DEF HandlerEnds, Hangup
<1>35. CASE ServerExits /\ UNCHANGED toolVars BY <1>35 DEF ServerExits, Hangup
<1>36. CASE ServerStarts /\ UNCHANGED toolVars BY <1>36 DEF ServerStarts
<1> QED
  BY <1>0, <1>1, <1>2, <1>3, <1>4, <1>5, <1>6, <1>7, <1>8, <1>9, <1>10, <1>11, <1>12,
    <1>13, <1>14, <1>15, <1>16, <1>17, <1>18, <1>19, <1>20, <1>21, <1>22, <1>23, <1>24,
    <1>25, <1>26, <1>27, <1>28, <1>29, <1>30, <1>31, <1>32, <1>33, <1>34, <1>35, <1>36
    DEF Next, Editor, Stopping, Canvas, Worker, ServerSide

\* The last request goes from the slot to the worker and to the results.
LEMMA ServedStep ==
  TypeOK /\ JobInv /\ WaitingIsServed
  /\ [Next]_vars => WaitingIsServed'
<1> SUFFICES ASSUME TypeOK, JobInv, WaitingIsServed, [Next]_vars PROVE WaitingIsServed'
  OBVIOUS
<1> USE
  DEF TypeOK, GeneratorTypeOK, EditorTypeOK, WaitingIsServed, vars, genVars, toolVars,
    tool, rest, shared, work, wire, server
<1>0. CASE UNCHANGED vars BY <1>0 DEF Polled
<1>1. CASE Accept BY <1>1 DEF Accept, Reset
<1>2. CASE Regenerate BY <1>2, SendFacts DEF Regenerate
<1>3. CASE OverUi BY <1>3, CollectedFacts DEF OverUi, Frame, PollAll, NoRequestMade
<1>4. CASE Hover BY <1>4, CollectedFacts DEF Hover, Frame, PollAll, NoRequestMade
<1>5. CASE Press BY <1>5 DEF Press
<1>6. CASE Drag BY <1>6, CollectedFacts DEF Drag, Frame, PollAll, NoRequestMade
<1>7. CASE Release
  <2>1. CASE Reset BY <1>7, <2>1 DEF Reset
  <2>2. ASSUME NEW r \in Region, SendRequest(label, r) PROVE WaitingIsServed'
    <3>1. r \in AnyRegion BY DEF AnyRegion
    <3> QED BY <1>7, <2>2, <3>1, SendFacts DEF Release
  <2> QED BY <1>7, <2>1, <2>2 DEF Release
<1>8. CASE Escape BY <1>8 DEF Escape, Reset
<1>9. CASE EnterMode BY <1>9 DEF EnterMode, Start, Polled
<1>10. CASE LeaveMode BY <1>10 DEF LeaveMode, Reset
<1>11. CASE LeaveScreen BY <1>11 DEF LeaveScreen, StopFlag, Polled
<1>12. ASSUME NEW l \in Label, SetLabel(l) PROVE WaitingIsServed'
  <2>1. CASE state \notin {"Preview", "Waiting"} BY <1>12, <2>1 DEF SetLabel
  <2>2. CASE state \in {"Preview", "Waiting"} /\ sel = NoRegion
    BY <1>12, <2>2 DEF SetLabel, Reset
  <2>3. CASE state \in {"Preview", "Waiting"} /\ sel # NoRegion
    BY <1>12, <2>3, SendFacts DEF SetLabel
  <2> QED BY <2>1, <2>2, <2>3
<1>13. CASE StopNotify BY <1>13 DEF StopNotify, Notify, Polled
<1>14. CASE Join BY <1>14 DEF Join, StopJoin, Polled
<1>15. CASE Over BY <1>15 DEF Over, Polled
<1>16. CASE NetInitFails /\ UNCHANGED server /\ UNCHANGED toolVars
  BY <1>16 DEF NetInitFails, MakeError, Polled
<1>17. CASE Boot /\ UNCHANGED server /\ UNCHANGED toolVars
  BY <1>17 DEF Boot, EnsureConnected, Polled
<1>18. CASE Check /\ UNCHANGED server /\ UNCHANGED toolVars
  BY <1>18 DEF Check, Look, JobInv, Polled
<1>19. CASE FallAsleep /\ UNCHANGED server /\ UNCHANGED toolVars
  BY <1>19 DEF FallAsleep, Polled
<1>20. CASE WaitTimeout /\ UNCHANGED server /\ UNCHANGED toolVars
  BY <1>20 DEF WaitTimeout, Look, JobInv, Polled
<1>21. CASE Tick /\ UNCHANGED server /\ UNCHANGED toolVars
  BY <1>21 DEF Tick, EnsureConnected, Polled
<1>22. CASE Dial /\ UNCHANGED server /\ UNCHANGED toolVars
  BY <1>22 DEF Dial, EnsureConnected, MakeError, Polled
<1>23. CASE Redial /\ UNCHANGED server /\ UNCHANGED toolVars
  BY <1>23 DEF Redial, EnsureConnected, Polled
<1>24. CASE Send /\ UNCHANGED server /\ UNCHANGED toolVars BY <1>24 DEF Send, Polled
<1>25. CASE SendFails /\ UNCHANGED server /\ UNCHANGED toolVars
  BY <1>25 DEF SendFails, LostConnection, Drop, MakeError, Polled
<1>26. CASE Cancelled /\ UNCHANGED server /\ UNCHANGED toolVars
  BY <1>26 DEF Cancelled, MakeError, Polled
<1>27. CASE ReadAnswer /\ UNCHANGED server /\ UNCHANGED toolVars
  BY <1>27 DEF ReadAnswer, ParseResponse, MakeError, Polled
<1>28. CASE ReadGarbage /\ UNCHANGED server /\ UNCHANGED toolVars
  BY <1>28 DEF ReadGarbage, LostConnection, Drop, MakeError, Polled
<1>29. CASE ReplyTimeout /\ UNCHANGED server /\ UNCHANGED toolVars
  BY <1>29 DEF ReplyTimeout, LostConnection, Drop, MakeError, Polled
<1>30. CASE RecvFails /\ UNCHANGED server /\ UNCHANGED toolVars
  BY <1>30 DEF RecvFails, LostConnection, Drop, MakeError, Polled
<1>31. CASE PushResult /\ UNCHANGED server /\ UNCHANGED toolVars
  <2>1. outcome.seq = taken.seed BY <1>31 DEF PushResult, JobInv
  <2>2. /\ \A i \in DOMAIN results : i \in DOMAIN results' /\ results'[i] = results[i]
        /\ \E i \in DOMAIN results' : results'[i] = outcome
    BY <1>31, AppendedResult DEF PushResult
  <2>3. taken # NoRequest /\ taken.seed = latestSeq => Polled' # {}
    BY <1>31, <2>1, <2>2 DEF PushResult, Polled
  <2>4. Polled # {} => Polled' # {} BY <1>31, <2>2 DEF PushResult, Polled
  <2> QED BY <1>31, <2>3, <2>4 DEF PushResult
<1>32. CASE WorkerEnds /\ UNCHANGED server /\ UNCHANGED toolVars
  BY <1>32 DEF WorkerEnds, Drop, Polled
<1>33. CASE Reply /\ UNCHANGED toolVars BY <1>33 DEF Reply, Polled
<1>34. CASE HandlerEnds /\ UNCHANGED toolVars BY <1>34 DEF HandlerEnds, Hangup, Polled
<1>35. CASE ServerExits /\ UNCHANGED toolVars BY <1>35 DEF ServerExits, Hangup, Polled
<1>36. CASE ServerStarts /\ UNCHANGED toolVars BY <1>36 DEF ServerStarts, Polled
<1> QED
  BY <1>0, <1>1, <1>2, <1>3, <1>4, <1>5, <1>6, <1>7, <1>8, <1>9, <1>10, <1>11, <1>12,
    <1>13, <1>14, <1>15, <1>16, <1>17, <1>18, <1>19, <1>20, <1>21, <1>22, <1>23, <1>24,
    <1>25, <1>26, <1>27, <1>28, <1>29, <1>30, <1>31, <1>32, <1>33, <1>34, <1>35, <1>36
    DEF Next, Editor, Stopping, Canvas, Worker, ServerSide

-----------------------------------------------------------------------------
(* What a step does to the requests and their answers.                     *)

\* It leaves them alone, ...
Quiet ==
  /\ UNCHANGED <<slot, latestSeq, results, taken>>
  /\ pc' = "failed" <=> pc = "failed"
  /\ pc' \in {"unborn", "start"} => pc \in {"unborn", "start"}

\* ... the worker takes the one in the slot, ...
Takes ==
  /\ slot # NoRequest /\ taken' = slot /\ slot' = NoRequest
  /\ UNCHANGED <<latestSeq, results>>
  /\ pc \in {"check", "asleep"} /\ pc' = "dial"

\* ... the editor makes one, ...
Asks ==
  /\ slot' \in ShapeRequest /\ slot'.seed = latestSeq' /\ latestSeq' = latestSeq + 1
  /\ results' = <<>> /\ taken' = taken
  /\ pc' = pc \/ (pc = "asleep" /\ pc' = "check")

\* ... it collects what was answered (or the worker answers, or gives up).
Polls == results' = <<>> /\ UNCHANGED <<slot, latestSeq, taken, pc>>

LEMMA SendKinds ==
  ASSUME TypeOK, NEW l \in Label, NEW r \in AnyRegion, SendRequest(l, r), taken' = taken
  PROVE  \/ Asks /\ state' = "Waiting"
         \/ Polls /\ state' = "Idle"
<1>1. CASE Available
  <2>1. Request(l, r) /\ state' = "Waiting" BY <1>1 DEF SendRequest
  <2>2. latestSeq' = latestSeq + 1 BY <2>1 DEF Request
  <2> QED BY <2>1, <2>2, RequestFacts DEF Asks
<1>2. CASE ~Available BY <1>2 DEF SendRequest, Polls
<1> QED BY <1>1, <1>2

LEMMA WorkerKinds ==
  ASSUME Worker \/ ServerSide
  PROVE  Quiet \/ Takes \/ NetInitFails \/ PushResult
<1> USE DEF Quiet, genVars, shared, work, wire, server
<1>1. CASE Boot BY <1>1 DEF Boot
<1>2. CASE Check BY <1>2 DEF Check, Look, Takes
<1>3. CASE FallAsleep BY <1>3 DEF FallAsleep
<1>4. CASE WaitTimeout BY <1>4 DEF WaitTimeout, Look, Takes
<1>5. CASE Tick BY <1>5 DEF Tick
<1>6. CASE Dial BY <1>6 DEF Dial
<1>7. CASE Redial BY <1>7 DEF Redial
<1>8. CASE Send BY <1>8 DEF Send
<1>9. CASE SendFails BY <1>9 DEF SendFails, LostConnection
<1>10. CASE Cancelled BY <1>10 DEF Cancelled
<1>11. CASE ReadAnswer BY <1>11 DEF ReadAnswer
<1>12. CASE ReadGarbage BY <1>12 DEF ReadGarbage, LostConnection
<1>13. CASE ReplyTimeout BY <1>13 DEF ReplyTimeout, LostConnection
<1>14. CASE RecvFails BY <1>14 DEF RecvFails, LostConnection
<1>15. CASE WorkerEnds BY <1>15 DEF WorkerEnds
<1>16. CASE Reply BY <1>16 DEF Reply
<1>17. CASE HandlerEnds BY <1>17 DEF HandlerEnds, Hangup
<1>18. CASE ServerExits BY <1>18 DEF ServerExits, Hangup
<1>19. CASE ServerStarts BY <1>19 DEF ServerStarts
<1> QED
  BY <1>1, <1>2, <1>3, <1>4, <1>5, <1>6, <1>7, <1>8, <1>9, <1>10, <1>11, <1>12, <1>13,
    <1>14, <1>15, <1>16, <1>17, <1>18, <1>19 DEF Worker, ServerSide

LEMMA ToolKinds ==
  ASSUME TypeOK, Editor \/ Stopping \/ Over
  PROVE  Quiet \/ Asks \/ Polls
<1> USE DEF vars, genVars, rest, shared, work, wire
<1>0. label \in Label /\ sel \in AnyRegion /\ Region \subseteq AnyRegion
  BY DEF TypeOK, EditorTypeOK, AnyRegion
<1>1. CASE Accept \/ OverUi \/ Hover \/ Press \/ Drag
  BY <1>1 DEF Accept, OverUi, Hover, Press, Drag, Frame, PollAll, NoRequestMade, Polls
<1>2. CASE Regenerate BY <1>0, <1>2, SendKinds DEF Regenerate
<1>3. CASE Release
  BY <1>0, <1>3, SendKinds DEF Release, Frame, PollAll, NoRequestMade, Polls
<1>4. CASE Escape \/ LeaveMode BY <1>4 DEF Escape, LeaveMode, Quiet
<1>5. CASE EnterMode BY <1>5 DEF EnterMode, Start, Quiet
<1>6. CASE LeaveScreen BY <1>6 DEF LeaveScreen, Quiet
<1>7. ASSUME NEW l \in Label, SetLabel(l) PROVE Quiet \/ Asks \/ Polls
  BY <1>0, <1>7, SendKinds DEF SetLabel, Quiet
<1>8. CASE Stopping BY <1>8 DEF Stopping, StopNotify, Notify, Join, Quiet
<1>9. CASE Over BY <1>9 DEF Over, Quiet
<1> QED BY <1>1, <1>2, <1>3, <1>4, <1>5, <1>6, <1>7, <1>8, <1>9 DEF Editor, Canvas

\* A result that is pushed can be polled if it answers the last request.
LEMMA PolledPush ==
  ASSUME NEW e \in Result, results \in Seq(Result), results' = Append(results, e),
         latestSeq' = latestSeq
  PROVE  /\ e.seq = latestSeq => Polled' = Polled \cup {e}
         /\ e.seq # latestSeq => Polled' = Polled
<1>1. /\ \A i \in DOMAIN results' :
           results'[i] = e \/ (i \in DOMAIN results /\ results'[i] = results[i])
      /\ \A i \in DOMAIN results : i \in DOMAIN results' /\ results'[i] = results[i]
      /\ \E i \in DOMAIN results' : results'[i] = e
  BY AppendedResult
<1>2. {results'[i] : i \in DOMAIN results'} = {results[i] : i \in DOMAIN results} \cup {e}
  BY <1>1
<1> QED BY <1>2 DEF Polled

\* What the worker pushes answers what it had in hand.
LEMMA PushFacts ==
  ASSUME TypeOK, JobInv, PushResult
  PROVE  /\ outcome \in Result /\ outcome.seq = taken.seed /\ taken \in ShapeRequest
         /\ outcome.kind = "ok" => outcome.shape.seed = taken.seed
         /\ results' = Append(results, outcome) /\ results \in Seq(Result)
         /\ taken' = NoRequest /\ UNCHANGED <<slot, latestSeq>>
         /\ pc = "push" /\ pc' = "check"
BY DEF TypeOK, GeneratorTypeOK, JobInv, Working, PushResult

\* Where a request is answered it is nowhere else.
LEMMA OnceStep == TypeOK /\ JobInv /\ OnceInv /\ [Next]_vars => OnceInv'
<1> SUFFICES ASSUME TypeOK, JobInv, OnceInv, [Next]_vars PROVE OnceInv'
  OBVIOUS
<1>0. /\ latestSeq \in Nat /\ slot \in ShapeRequest \cup {NoRequest}
      /\ taken \in ShapeRequest \cup {NoRequest}
      /\ \A r \in ShapeRequest : r.seed \in Nat /\ r.seed > 0
  BY DEF TypeOK, GeneratorTypeOK, ShapeRequest
<1> USE DEF OnceInv, Due, Able, LastTaken
<1>1. CASE Quiet BY <1>1 DEF Quiet, Polled
<1>2. CASE Takes BY <1>0, <1>2 DEF Takes, JobInv, Polled
<1>3. CASE Asks BY <1>0, <1>3 DEF Asks, Polled
<1>4. CASE Polls BY <1>4 DEF Polls, Polled
<1>5. CASE NetInitFails
  <2> DEFINE e == MakeError("noNet", latestSeq, TRUE)
  <2>1. e \in Result BY <1>0 DEF MakeError, Result, TypeOK, GeneratorTypeOK
  <2>2. results = <<>> /\ results' = Append(results, e) /\ latestSeq' = latestSeq
    BY <1>5 DEF NetInitFails
  <2> HIDE DEF e
  <2>3. Polled = {} BY <2>2 DEF Polled
  <2>4. results \in Seq(Result) BY <2>2
  <2>5. Polled' = {} \/ Polled' = {e} BY <2>1, <2>2, <2>3, <2>4, PolledPush
  <2> QED BY <1>5, <2>5 DEF NetInitFails
<1>6. CASE PushResult
  <2>1. CASE LastTaken
    <3>1. Polled' = {outcome} BY <1>6, <2>1, PushFacts, PolledPush
    <3>2. slot = NoRequest BY <1>0, <2>1
    <3> QED BY <1>6, <3>1, <3>2, PushFacts
  <2>2. CASE ~LastTaken
    <3>1. Polled' = Polled
      BY <1>0, <1>6, <2>2, PushFacts, PolledPush
    <3> QED BY <1>6, <3>1, PushFacts
  <2> QED BY <2>1, <2>2
<1>7. CASE UNCHANGED vars
  BY <1>7 DEF vars, genVars, shared, work, Polled
<1> QED BY <1>1, <1>2, <1>3, <1>4, <1>5, <1>6, <1>7, WorkerKinds, ToolKinds DEF Next

-----------------------------------------------------------------------------
(* The theorems.                                                           *)

LEMMA InitInv == Init => IInv
<1> SUFFICES ASSUME Init PROVE IInv OBVIOUS
<1> USE DEF Init, GeneratorInit
<1>1. TypeOK
  <2>1. NoResult \in Result BY DEF NoResult, MakeError, Result
  <2>2. FlagsOK BY DEF FlagsOK
  <2>3. PlacesOK /\ CountsOK BY DEF PlacesOK, CountsOK
  <2>4. DataOK BY <2>1 DEF DataOK, AnyRegion, MapState
  <2> QED BY <2>2, <2>3, <2>4, TypeParts
<1>2. JobInv /\ WireInv BY DEF JobInv, Working, WireInv
<1>3. ResultInv /\ CauseInv BY DEF ResultInv, CauseInv, Working
<1>4. PreviewIsLatest /\ WaitingIsServed BY DEF PreviewIsLatest, WaitingIsServed
<1>5. OnceInv BY DEF OnceInv, Due, LastTaken, Polled
<1> QED BY <1>1, <1>2, <1>3, <1>4, <1>5 DEF IInv

\* IInv holds in every state.
THEOREM Invariance == Spec => []IInv
<1>1. IInv /\ [Next]_vars => IInv'
  <2> SUFFICES ASSUME IInv, [Next]_vars PROVE IInv' OBVIOUS
  <2> USE DEF IInv
  <2>1. TypeOK' BY TypeParts, FlagsStep, PlacesStep, CountsStep, DataStep
  <2>2. JobInv' /\ ResultInv' BY JobStep, ResultStep
  <2>3. WireInv' /\ CauseInv' BY WireStep, CauseStep
  <2>4. PreviewIsLatest' /\ WaitingIsServed' BY PreviewStep, ServedStep
  <2>5. OnceInv' BY OnceStep
  <2> QED BY <2>1, <2>2, <2>3, <2>4, <2>5
<1> QED BY InitInv, <1>1, PTL DEF Spec

\* Every variable keeps its type.
THEOREM TypeCorrect == Spec => []TypeOK
<1>1. IInv => TypeOK BY DEF IInv
<1> QED BY Invariance, <1>1, PTL

\* No answer is taken for the answer to another request.
THEOREM Answers == Spec => []ResultIsAnswer
<1>1. IInv => ResultIsAnswer BY DEF IInv, ResultInv, ResultIsAnswer
<1> QED BY Invariance, <1>1, PTL

\* The tool shows the answer to the last request or none.
THEOREM LatestShown == Spec => []PreviewIsLatest
<1>1. IInv => PreviewIsLatest BY DEF IInv
<1> QED BY Invariance, <1>1, PTL

\* A request that is waited for is never lost.
THEOREM NothingLost == Spec => []WaitingIsServed
<1>1. IInv => WaitingIsServed BY DEF IInv
<1> QED BY Invariance, <1>1, PTL

\* A failure of the connection is never reported without one.
THEOREM CausesKnown == Spec => []FailureHasCause
<1>1. IInv => FailureHasCause BY DEF IInv, CauseInv, FailureHasCause, Polled
<1> QED BY Invariance, <1>1, PTL

-----------------------------------------------------------------------------
(* The tool and the generator implement the service.                       *)

\* Steps that the service does not see.
LEMMA Unseeable ==
  ASSUME UNCHANGED <<Able, latestSeq, Due, Unseen, state, preview, map>>
  PROVE  UNCHANGED Service!vars
BY DEF Service!vars, Shown, Drawn

LEMMA WorkerRefines ==
  ASSUME IInv, Worker \/ ServerSide, UNCHANGED toolVars
  PROVE  [Service!Next]_(Service!vars)
<1> USE DEF IInv
<1>0. /\ latestSeq \in Nat /\ UNCHANGED <<state, preview, map>>
      /\ slot \in ShapeRequest \cup {NoRequest} /\ taken \in ShapeRequest \cup {NoRequest}
  BY DEF TypeOK, GeneratorTypeOK, toolVars, tool
<1>s. UNCHANGED <<Shown, Drawn>> BY <1>0 DEF Shown, Drawn
<1>1. CASE Quiet
  <2>1. UNCHANGED <<Able, Due, Unseen, latestSeq>>
    BY <1>1 DEF Quiet, Able, Due, LastTaken, Unseen, Polled
  <2> QED BY <1>0, <2>1, Unseeable
<1>2. CASE Takes
  <2>1. UNCHANGED <<Able, Due>>
    BY <1>2 DEF Takes, JobInv, Able, Due, LastTaken
  <2>2. UNCHANGED <<Unseen, latestSeq>> BY <1>2 DEF Takes, Unseen, Polled
  <2> QED BY <1>0, <2>1, <2>2, Unseeable
<1>3. CASE NetInitFails
  <2> DEFINE e == MakeError("noNet", latestSeq, TRUE)
  <2>1. e \in Result /\ e.kind = "noNet" /\ e.seq = latestSeq
    BY <1>0 DEF MakeError, Result, TypeOK, GeneratorTypeOK
  <2>2. results = <<>> /\ results' = Append(results, e) /\ latestSeq' = latestSeq
    BY <1>3 DEF NetInitFails, OnceInv
  <2> HIDE DEF e
  <2>3. Polled = {} /\ results \in Seq(Result) BY <2>2 DEF Polled
  <2>4. Polled' = {e} BY <2>1, <2>2, <2>3, PolledPush
  <2>5. Unseen' = {0} BY <2>1, <2>4 DEF Unseen
  <2>6. Able /\ ~Able' /\ ~Due' BY <1>3 DEF NetInitFails, Able, Due
  <2>7. Able' = FALSE /\ Due' = FALSE BY <2>6 DEF Able, Due
  <2> QED BY <1>0, <1>s, <2>2, <2>5, <2>6, <2>7 DEF Service!Next, Service!GiveUp
<1>4. CASE PushResult
  <2>1. Able /\ Able' /\ latestSeq' = latestSeq /\ slot' = slot
    BY <1>4, PushFacts DEF Able
  <2>2. CASE LastTaken
    <3>1. slot = NoRequest BY <1>0, <2>2 DEF OnceInv, LastTaken, ShapeRequest
    <3>2. Due BY <2>1, <2>2 DEF Due
    <3>3. ~Due' BY <1>4, <2>1, <3>1, PushFacts DEF Due, LastTaken
    <3>4. Polled' = {outcome}
      BY <1>4, <2>2, <3>2, PushFacts, PolledPush DEF OnceInv, LastTaken
    <3>5. Unseen' = {0} \/ Unseen' = {latestSeq}
      BY <1>4, <2>2, <3>4, PushFacts DEF Unseen, LastTaken
    <3>6. Able' = Able BY <2>1 DEF Able
    <3>7. Due' = FALSE BY <3>3 DEF Due
    <3> QED BY <1>0, <1>s, <2>1, <3>2, <3>5, <3>6, <3>7 DEF Service!Next, Service!Reply
  <2>3. CASE ~LastTaken
    <3>1. Polled' = Polled BY <1>4, <2>1, <2>3, PushFacts, PolledPush DEF LastTaken
    <3>2. Unseen' = Unseen BY <3>1 DEF Unseen
    <3>3. Able' = Able BY <2>1 DEF Able
    <3>4. Due' = Due BY <1>4, <2>1, <2>3, <3>3, PushFacts DEF Due, LastTaken
    <3> QED BY <1>0, <2>1, <3>2, <3>3, <3>4, Unseeable
  <2> QED BY <2>2, <2>3
<1> QED BY <1>1, <1>2, <1>3, <1>4, WorkerKinds

\* What Update makes of the answers is what a look at them may show.
LEMMA CollectedSeen ==
  ASSUME IInv
  PROVE  /\ (IF Collected.state = "Preview" THEN Collected.preview.seed ELSE 0)
              \in Service!Seen \cup {0}
         /\ Collected.state = "Preview" =>
              /\ Collected.preview \in ShapeRequest /\ Collected.preview.seed > 0
              /\ Collected.preview.seed \in Service!Seen
         /\ Collected.state = "Waiting" => state = "Waiting" /\ Unseen = {}
<1> USE DEF IInv
<1>1. /\ Collected.state = "Preview" =>
           Collected.preview \in ShapeRequest /\ Collected.preview.seed > 0
      /\ Collected.state = "Waiting" => state = "Waiting" /\ Polled = {}
  BY CollectedFacts DEF ShapeRequest
<1>2. Unseen = {} <=> Polled = {}
  <2> DEFINE Said(d) == IF d.kind = "ok" THEN d.shape.seed ELSE 0
  <2>1. Unseen = {Said(d) : d \in Polled} BY DEF Unseen
  <2> HIDE DEF Said
  <2> QED BY <2>1
<1>3. ASSUME Collected.state = "Preview" PROVE Collected.preview.seed \in Service!Seen
  <2>1. CASE Polled = {}
    BY <1>2, <1>3, <2>1 DEF Collected, Service!Seen, Shown
  <2>2. CASE Polled # {}
    <3> DEFINE d == CHOOSE d \in Polled : TRUE
    <3>1. d \in Polled BY <2>2
    <3>2. Collected = IF d.kind = "ok" THEN [state |-> "Preview", preview |-> d.shape]
                                       ELSE [state |-> "Idle", preview |-> preview]
      BY <2>2 DEF Collected
    <3> HIDE DEF d
    <3>3. d.kind = "ok" /\ Collected.preview = d.shape BY <1>3, <3>2
    <3>4. d.shape.seed \in Unseen BY <3>1, <3>3 DEF Unseen
    <3> QED BY <1>2, <2>2, <3>3, <3>4 DEF Service!Seen
  <2> QED BY <2>1, <2>2
<1> QED BY <1>1, <1>2, <1>3

\* A frame that draws nothing is a look.
LEMMA FrameLooks ==
  ASSUME IInv, Polls, UNCHANGED map,
         \/ state' = Collected.state /\ preview' = Collected.preview
         \/ state' \in {"Idle", "Selecting"}
  PROVE  Service!Look
<1>1. UNCHANGED <<Able, latestSeq, Due, Drawn>> BY DEF Polls, Able, Due, LastTaken, Drawn
<1>2. Unseen' = {} BY DEF Polls, Unseen, Polled
<1>3. Shown' \in Service!Seen \cup {0} BY CollectedSeen DEF Shown
<1>4. (state = "Waiting")' \in {state = "Waiting" /\ Unseen = {}, FALSE} BY CollectedSeen
<1> QED BY <1>1, <1>2, <1>3, <1>4 DEF Service!Look

LEMMA AskRefines ==
  ASSUME IInv, Asks, state' = "Waiting", UNCHANGED map
  PROVE  Service!Ask
<1>1. Able' = Able BY DEF Asks, Able
<1>2. Due' = Able BY <1>1 DEF Asks, Due, Able
<1>3. Unseen' = {} BY DEF Asks, Unseen, Polled
<1>4. Shown' = 0 /\ Drawn' = Drawn BY DEF Shown, Drawn
<1>5. (state = "Waiting")' = TRUE OBVIOUS
<1>6. latestSeq' = latestSeq + 1 BY DEF Asks
<1> QED BY <1>1, <1>2, <1>3, <1>4, <1>5, <1>6 DEF Service!Ask

LEMMA ToolRefines ==
  ASSUME IInv, Editor \/ Stopping \/ Over
  PROVE  [Service!Next]_(Service!vars)
<1> USE DEF IInv
<1>0. /\ label \in Label /\ sel \in AnyRegion /\ Region \subseteq AnyRegion
      /\ state \in {"Idle", "Selecting", "Waiting", "Preview"}
  BY DEF TypeOK, EditorTypeOK, AnyRegion
<1>l. Service!Look => Service!Next BY DEF Service!Next
<1>a. Service!Ask => Service!Next BY DEF Service!Next
<1>f. ASSUME UNCHANGED <<slot, latestSeq, results, taken, map>>, Able' = Able,
             state' = "Idle"
      PROVE  Service!Next
  <2>1. UNCHANGED <<Able, latestSeq, Due, Unseen, Drawn>>
    BY <1>f DEF Due, LastTaken, Unseen, Polled, Drawn
  <2>2. Shown' = 0 /\ (state = "Waiting")' = FALSE BY <1>f DEF Shown
  <2> QED BY <2>1, <2>2 DEF Service!Next, Service!Forget
<1>s. ASSUME NEW l \in Label, NEW r \in AnyRegion, SendRequest(l, r),
             UNCHANGED <<taken, map>>
      PROVE  Service!Next
  BY <1>s, <1>l, <1>a, SendKinds, AskRefines, FrameLooks
<1>1. CASE Accept
  <2>1. Polls BY <1>1 DEF Accept, Frame, PollAll, NoRequestMade, Polls, rest
  <2>2. UNCHANGED <<Able, latestSeq, Due>> BY <2>1 DEF Polls, Able, Due, LastTaken
  <2>3. Unseen' = {} BY <2>1 DEF Polls, Unseen, Polled
  <2>4. state' = "Idle" /\ map' = [concept |-> label, shape |-> Collected.preview]
    BY <1>1 DEF Accept, Reset
  <2>5. Collected.state = "Preview" BY <1>1 DEF Accept
  <2>6. Drawn' = Collected.preview.seed BY <2>4, <2>5, CollectedSeen DEF Drawn, NoMap
  <2>7. Drawn' \in Service!Seen \ {0}
    BY <2>5, <2>6, CollectedSeen DEF ShapeRequest
  <2>8. Shown' = 0 /\ (state = "Waiting")' = FALSE BY <2>4 DEF Shown
  <2> QED BY <2>2, <2>3, <2>7, <2>8 DEF Service!Next, Service!Draw
<1>2. CASE Regenerate
  BY <1>0, <1>2, <1>s DEF Regenerate, rest
<1>3. CASE OverUi \/ Hover
  BY <1>3, <1>l, FrameLooks
     DEF OverUi, Hover, Frame, PollAll, NoRequestMade, Polls, rest
<1>4. CASE Press \/ Drag
  <2>1. Polls /\ UNCHANGED map
    BY <1>4 DEF Press, Drag, Frame, PollAll, NoRequestMade, Polls, rest
  <2>2. state' = "Selecting" BY <1>4, CollectedFacts DEF Press, Drag
  <2> QED BY <1>l, <2>1, <2>2, FrameLooks
<1>5. CASE Release
  <2>1. CASE Reset /\ NoRequestMade
    BY <1>5, <2>1, <1>l, FrameLooks
       DEF Release, Frame, PollAll, NoRequestMade, Reset, Polls, rest
  <2>2. ASSUME NEW r \in Region, SendRequest(label, r) PROVE Service!Next
    BY <1>0, <1>5, <2>2, <1>s DEF Release, rest
  <2> QED BY <1>5, <2>1, <2>2 DEF Release
<1>6. CASE Escape \/ LeaveMode
  BY <1>6, <1>f DEF Escape, LeaveMode, Reset, genVars, shared, work, Able
<1>7. CASE EnterMode \/ LeaveScreen \/ StopNotify \/ Join
  <2>1. UNCHANGED <<slot, latestSeq, results, taken, state, preview, map>>
    BY <1>7 DEF EnterMode, LeaveScreen, StopNotify, Join, shared, work, tool
  <2>2. pc' = "failed" <=> pc = "failed"
    BY <1>7 DEF EnterMode, Start, LeaveScreen, StopNotify, Notify, Join, work
  <2>3. UNCHANGED <<Able, Due, Unseen>>
    BY <2>1, <2>2 DEF Able, Due, LastTaken, Unseen, Polled
  <2> QED BY <2>1, <2>3, Unseeable
<1>8. ASSUME NEW l \in Label, SetLabel(l) PROVE [Service!Next]_(Service!vars)
  <2>1. CASE state \notin {"Preview", "Waiting"}
    <3>1. UNCHANGED <<slot, latestSeq, results, pc, taken, state, preview, map>>
      BY <1>8, <2>1 DEF SetLabel, rest
    <3>2. UNCHANGED <<Able, Due, Unseen>>
      BY <3>1 DEF Able, Due, LastTaken, Unseen, Polled
    <3> QED BY <3>1, <3>2, Unseeable
  <2>2. CASE state \in {"Preview", "Waiting"} /\ sel = NoRegion
    BY <1>8, <2>2, <1>f DEF SetLabel, Reset, rest, Able
  <2>3. CASE state \in {"Preview", "Waiting"} /\ sel # NoRegion
    BY <1>0, <1>8, <2>3, <1>s DEF SetLabel, rest
  <2> QED BY <2>1, <2>2, <2>3
<1>9. CASE Over
  BY <1>9, Unseeable DEF Over, vars, genVars, toolVars, tool, shared, work, Able, Due,
     LastTaken, Unseen, Polled
<1> QED
  BY <1>1, <1>2, <1>3, <1>4, <1>5, <1>6, <1>7, <1>8, <1>9 DEF Editor, Canvas, Stopping

\* However often the connection is lost, requests are replaced and frames come
\* late, the editor is served as it is promised: each request is answered at most
\* once, and only the answer to the last one is shown or drawn
\* (RemoteShapeGenerator.cpp and AiShapeTool.cpp; IShapeGenerator.h).
THEOREM Implementation == Spec => ImplementsService
<1>1. Init => Service!Init
  <2> SUFFICES ASSUME Init PROVE Service!Init OBVIOUS
  <2> USE DEF Init, GeneratorInit
  <2>1. Able = TRUE /\ Due = FALSE BY DEF Able, Due, LastTaken
  <2>2. Unseen = {} BY DEF Unseen, Polled
  <2>3. (state = "Waiting") = FALSE /\ Shown = 0 /\ Drawn = 0 BY DEF Shown, Drawn
  <2> QED BY <2>1, <2>2, <2>3 DEF Service!Init
<1>2. IInv /\ [Next]_vars => [Service!Next]_(Service!vars)
  <2>1. CASE UNCHANGED vars
    BY <2>1, Unseeable DEF vars, genVars, toolVars, tool, shared, work, Able, Due, LastTaken,
       Unseen, Polled
  <2> QED BY <2>1, WorkerRefines, ToolRefines DEF Next
<1> QED BY <1>1, <1>2, Invariance, PTL DEF Spec, ImplementsService, Service!Spec
================================================================================
