--------------------------- MODULE ShapeGenerator ---------------------------
(***************************************************************************)
(* RemoteShapeGenerator: the worker thread that asks the Python server for *)
(* shapes over one TCP connection, the slot and the results it shares with *)
(* the editor thread, the connection, and the server at its other end.     *)
(* ShapeTool composes it with the editor thread.                           *)
(*                                                                         *)
(* A request is its label, its region (size) and its seed; every request   *)
(* draws a new seed and a new sequence number, which are one number here.  *)
(* Left out: tile numbers, grids, messages and the length of the waits.    *)
(***************************************************************************)
EXTENDS Naturals, Sequences

CONSTANTS Label,        \* the shapes one can ask for
          Region,       \* sizes of a selection the tool sends
          BadRegion,    \* a selection too small or too large
          NoRegion,     \* no selection (0 x 0)
          NoRequest,
          MaxRequests,  \* bound: requests the editor makes
          MaxFaults     \* bound: times the server closes or goes down

AnyRegion == Region \cup {BadRegion, NoRegion}
ShapeRequest == [label : Label, region : AnyRegion, seed : 1..MaxRequests]

ASSUME GeneratorAssumption ==
  /\ BadRegion \notin Region /\ NoRegion \notin Region /\ BadRegion # NoRegion
  /\ NoRequest \notin ShapeRequest
  /\ MaxRequests \in Nat /\ MaxFaults \in Nat

VARIABLES
  \* shared by both threads
  slot,       \* m_job while m_hasJob, NoRequest otherwise
  latestSeq, results, running, stop, connected,
  \* the worker
  pc,         \* place in Worker; "unborn" before Start, "failed" without sockets
  taken,      \* job: the request in hand while m_inFlight, NoRequest otherwise
  attempt,    \* 1, or 2 once the request has been sent again
  outcome,    \* result: what the worker is about to push
  \* the connection: "none" for the worker, "up", or "dead": closed by the server
  conn, asks, acks,
  \* the server
  serving, faults,
  hurt        \* history: the server or the network failed since taken was taken

shared == <<slot, latestSeq, results, running, stop, connected>>
work == <<pc, taken, attempt, outcome>>
wire == <<conn, asks, acks>>
server == <<serving, faults>>
genVars == <<shared, work, wire, server, hurt>>

\* What a frame of the server says; the last two are an opcode that is not
\* GenerateAck and a frame that is none.
AnswerKind == {"ok", "refused", "odd", "garbage"}
Answer == [kind : AnswerKind, shape : ShapeRequest]
\* shape is the request a grid was made for.
Result == [kind : {"ok", "refused", "lost", "cancelled", "noNet"},
           seq : 0..MaxRequests, shape : ShapeRequest \cup {NoRequest}, hurt : BOOLEAN]

\* why: whether the server or the network is to blame, for the property only.
MakeError(k, n, why) == [kind |-> k, seq |-> n, shape |-> NoRequest, hurt |-> why]
NoResult == MakeError("cancelled", 0, FALSE)

GeneratorTypeOK ==
  /\ slot \in ShapeRequest \cup {NoRequest} /\ latestSeq \in 0..MaxRequests
  /\ results \in Seq(Result)
  /\ running \in BOOLEAN /\ stop \in BOOLEAN /\ connected \in BOOLEAN
  /\ pc \in {"unborn", "start", "failed", "check", "falling", "asleep", "tick", "dial",
             "redial", "send", "recv", "push", "closing", "done"}
  /\ taken \in ShapeRequest \cup {NoRequest} /\ attempt \in 1..2 /\ outcome \in Result
  /\ conn \in {"none", "up", "dead"} /\ asks \in Seq(ShapeRequest) /\ acks \in Seq(Answer)
  /\ serving \in BOOLEAN /\ faults \in 0..MaxFaults /\ hurt \in BOOLEAN

GeneratorInit ==
  /\ slot = NoRequest /\ latestSeq = 0 /\ results = <<>>
  /\ running = FALSE /\ stop = FALSE /\ connected = FALSE
  /\ pc = "unborn" /\ taken = NoRequest /\ attempt = 1 /\ outcome = NoResult
  /\ conn = "none" /\ asks = <<>> /\ acks = <<>>
  /\ serving \in BOOLEAN /\ faults = 0
  /\ hurt = FALSE

-----------------------------------------------------------------------------
(* What the editor thread does.  The mutex is free unless the worker is    *)
(* between its predicate and its sleep ("falling"), so a whole Request or  *)
(* Poll is one step.                                                       *)

MutexFree == pc # "falling"

\* notify_one, notify_all: only a thread that is asleep hears it.
Notify == pc' = IF pc = "asleep" THEN "check" ELSE pc

Start ==
  /\ pc = "unborn"
  /\ running' = TRUE /\ stop' = FALSE
  /\ pc' = "start"

\* Request replaces what waits in the slot and forgets what was answered.
Request(label, region) ==
  LET r == [label |-> label, region |-> region, seed |-> latestSeq + 1]
  IN /\ latestSeq < MaxRequests
     /\ slot' = r /\ latestSeq' = r.seed /\ results' = <<>>
     /\ Notify

\* Poll, called until it returns false: the results that answer the last
\* request; the others are thrown away.
Polled == {d \in {results[i] : i \in DOMAIN results} : d.seq = latestSeq}
PollAll == MutexFree /\ results' = <<>>

\* Stop, in three steps; it returns once the worker is gone.
StopFlag == running /\ running' = FALSE /\ stop' = TRUE
StopJoin == pc \in {"unborn", "failed", "done"} /\ connected' = FALSE

-----------------------------------------------------------------------------
(* The worker.                                                             *)

Drop ==
  /\ conn' = "none" /\ asks' = <<>> /\ acks' = <<>>
  /\ connected' = FALSE

\* A connection the worker holds counts as connected, whatever became of it.
EnsureConnected ==
  /\ conn' = IF conn = "none" /\ serving THEN "up" ELSE conn
  /\ connected' = (conn' # "none")
  /\ UNCHANGED <<asks, acks>>

NetInitFails ==
  /\ pc = "start"
  /\ pc' = "failed"
  /\ results' = Append(results, MakeError("noNet", latestSeq, TRUE))
  /\ UNCHANGED <<slot, latestSeq, running, stop, connected, taken, attempt, outcome,
                 wire, hurt>>

Boot ==
  /\ pc = "start"
  /\ EnsureConnected
  /\ pc' = "check"
  /\ UNCHANGED <<slot, latestSeq, results, running, stop, taken, attempt, outcome, hurt>>

\* What the worker does when it holds the mutex; next: where it goes when
\* there is nothing to do.
Look(next) ==
  \/ stop /\ pc' = "closing" /\ UNCHANGED <<slot, taken, attempt, hurt>>
  \/ /\ ~stop /\ slot # NoRequest
     /\ taken' = slot /\ slot' = NoRequest
     /\ attempt' = 1 /\ hurt' = ~serving
     /\ pc' = "dial"
  \/ ~stop /\ slot = NoRequest /\ pc' = next /\ UNCHANGED <<slot, taken, attempt, hurt>>

\* wait_for tests its predicate first, ...
Check ==
  /\ pc = "check"
  /\ Look("falling")
  /\ UNCHANGED <<latestSeq, results, running, stop, connected, outcome, wire>>

\* ... releases the mutex as it falls asleep, ...
FallAsleep ==
  /\ pc = "falling"
  /\ pc' = "asleep"
  /\ UNCHANGED <<shared, taken, attempt, outcome, wire, hurt>>

\* Mutant: wait instead of wait_for.
WaitTimeout_Never == FALSE

\* ... and tests it a last time after kIdlePollMs.
WaitTimeout ==
  /\ pc = "asleep"
  /\ Look("tick")
  /\ UNCHANGED <<latestSeq, results, running, stop, connected, outcome, wire>>

\* Mutant: the idle tick leaves the connection alone.
Tick_Idle ==
  /\ pc = "tick"
  /\ pc' = "check"
  /\ UNCHANGED <<shared, taken, attempt, outcome, wire, hurt>>

Tick ==
  /\ pc = "tick"
  /\ EnsureConnected
  /\ pc' = "check"
  /\ UNCHANGED <<slot, latestSeq, results, running, stop, taken, attempt, outcome, hurt>>

Dial ==
  /\ pc = "dial"
  /\ EnsureConnected
  /\ IF conn' # "none"
       THEN pc' = "send" /\ UNCHANGED outcome
       ELSE pc' = "push" /\ outcome' = MakeError("lost", taken.seed, hurt)
  /\ UNCHANGED <<slot, latestSeq, results, running, stop, taken, attempt, hurt>>

\* attempt came back with lostConnection: the first time the request may be
\* sent again.
LostConnection(why) ==
  /\ Drop
  /\ hurt' = why
  /\ outcome' = MakeError("lost", taken.seed, why)
  /\ pc' = IF attempt = 1 THEN "redial" ELSE "push"
  /\ UNCHANGED <<slot, latestSeq, results, running, stop, taken, attempt>>

\* Mutant: a lost connection is reported at once.
Redial_Never ==
  /\ pc = "redial"
  /\ pc' = "push"
  /\ UNCHANGED <<shared, taken, attempt, outcome, wire, hurt>>

Redial ==
  /\ pc = "redial"
  /\ IF stop THEN UNCHANGED <<wire, connected>> ELSE EnsureConnected
  /\ IF conn' # "none"
       THEN pc' = "send" /\ attempt' = 2 /\ UNCHANGED outcome
       ELSE pc' = "push" /\ outcome' = [outcome EXCEPT !.hurt = hurt] /\ UNCHANGED attempt
  /\ UNCHANGED <<slot, latestSeq, results, running, stop, taken, hurt>>

\* What is sent on a connection the server has closed is lost, noticed or not.
Send ==
  /\ pc = "send"
  /\ pc' = "recv"
  /\ asks' = IF conn = "up" THEN Append(asks, taken) ELSE asks
  /\ UNCHANGED <<shared, taken, attempt, outcome, conn, acks, hurt>>

SendFails == pc = "send" /\ conn = "dead" /\ LostConnection(hurt)

Cancelled ==
  /\ pc = "recv" /\ stop
  /\ pc' = "push"
  /\ outcome' = MakeError("cancelled", taken.seed, FALSE)
  /\ UNCHANGED <<shared, taken, attempt, wire, hurt>>

\* A grid counts when it has the size that was asked for; the seed it was drawn
\* with is kept but not compared, its label is not read.
ParseResponse(a) ==
  IF a.kind = "ok" /\ a.shape.region = taken.region
    THEN [kind |-> "ok", seq |-> taken.seed, shape |-> a.shape, hurt |-> FALSE]
    ELSE MakeError("refused", taken.seed, FALSE)

ReadAnswer ==
  /\ pc = "recv" /\ ~stop /\ acks # <<>> /\ Head(acks).kind # "garbage"
  /\ acks' = Tail(acks)
  /\ outcome' = ParseResponse(Head(acks))
  /\ pc' = "push"
  /\ UNCHANGED <<shared, taken, attempt, conn, asks, hurt>>

ReadGarbage ==
  /\ pc = "recv" /\ ~stop /\ acks # <<>> /\ Head(acks).kind = "garbage"
  /\ LostConnection(TRUE)

\* Mutant: the connection outlives the request that was given up.
ReplyTimeout_Keeps ==
  /\ pc = "recv" /\ ~stop
  /\ hurt' = TRUE
  /\ outcome' = MakeError("lost", taken.seed, TRUE)
  /\ pc' = "push"
  /\ UNCHANGED <<shared, taken, attempt, wire>>

\* Mutant: an answer is awaited for ever.
ReplyTimeout_Never == FALSE

\* kReplyTimeoutMs are over; the answer may still come, on a connection that
\* is closed.
ReplyTimeout == pc = "recv" /\ ~stop /\ LostConnection(TRUE)

RecvFails == pc = "recv" /\ ~stop /\ acks = <<>> /\ conn = "dead" /\ LostConnection(hurt)

\* Mutant: the job stays in hand.
PushResult_InFlight ==
  /\ pc = "push"
  /\ results' = Append(results, outcome)
  /\ pc' = "check"
  /\ UNCHANGED <<slot, latestSeq, running, stop, connected, taken, attempt, outcome, wire,
                 hurt>>

PushResult ==
  /\ pc = "push"
  /\ results' = Append(results, outcome)
  /\ taken' = NoRequest
  /\ pc' = "check"
  /\ UNCHANGED <<slot, latestSeq, running, stop, connected, attempt, outcome, wire, hurt>>

WorkerEnds ==
  /\ pc = "closing"
  /\ Drop
  /\ pc' = "done"
  /\ UNCHANGED <<slot, latestSeq, results, running, stop, taken, attempt, outcome, hurt>>

Worker ==
  /\ \/ NetInitFails \/ Boot \/ Check \/ FallAsleep \/ WaitTimeout \/ Tick
     \/ Dial \/ Redial \/ Send \/ SendFails
     \/ Cancelled \/ ReadAnswer \/ ReadGarbage \/ ReplyTimeout \/ RecvFails
     \/ PushResult \/ WorkerEnds
  /\ UNCHANGED server

-----------------------------------------------------------------------------
(* The server: one thread per connection, one answer per request, in order. *)

\* The server refuses a size out of range.  Opcodes and frames of other
\* programs on that port are the last two kinds.
Reply ==
  /\ conn = "up" /\ asks # <<>>
  /\ \E k \in AnswerKind :
       /\ k = "ok" => Head(asks).region \in Region
       /\ acks' = Append(acks, [kind |-> k, shape |-> Head(asks)])
  /\ asks' = Tail(asks)
  /\ UNCHANGED <<shared, work, conn, server, hurt>>

\* 300 idle seconds, an exception, or the end of the process; what was sent
\* may or may not arrive.
Hangup ==
  /\ faults < MaxFaults /\ faults' = faults + 1
  /\ IF conn = "none" THEN UNCHANGED wire
       ELSE conn' = "dead" /\ asks' = <<>> /\ acks' \in {acks, <<>>}
  /\ hurt' = TRUE
  /\ UNCHANGED <<shared, work>>

HandlerEnds == conn = "up" /\ Hangup /\ UNCHANGED serving
ServerExits == serving /\ Hangup /\ serving' = FALSE
ServerStarts == ~serving /\ serving' = TRUE /\ UNCHANGED <<shared, work, wire, faults, hurt>>

ServerSide == Reply \/ HandlerEnds \/ ServerExits \/ ServerStarts
=============================================================================
