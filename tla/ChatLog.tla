------------------------------ MODULE ChatLog ------------------------------
(***************************************************************************)
(* GuideStoryServer's chat log (ChatLog.cpp): client threads call Enqueue, *)
(* one writer thread takes batches off the queue and writes each in one    *)
(* SQLite transaction, and Stop, called from the SIGINT thread and from    *)
(* main, waits for the writer and closes the database.                     *)
(*                                                                         *)
(* A SIGINT during start-up, before main accepts anybody, is left out: no  *)
(* line exists yet.                                                        *)
(***************************************************************************)
EXTENDS Naturals, Sequences, FiniteSets

CONSTANTS Client,             \* client threads, each in RouteChat one at a time
          MaxLines,           \* bound: lines a client says
          kMaxQueuedEntries,  \* the queue limit
          kMaxBatchRows,      \* most rows in one transaction
          MaxFaults           \* bound: SQLite errors

ASSUME LogAssumption ==
  /\ IsFiniteSet(Client)
  /\ MaxLines \in Nat
  /\ kMaxQueuedEntries \in Nat \ {0}
  /\ kMaxBatchRows \in Nat \ {0}
  /\ MaxFaults \in Nat

VARIABLES
  alive,      \* the process runs
  db,         \* gDb and gInsertStmt: "null" or "open"
  joinable,   \* gWriterThread.joinable()
  stopping,   \* gStopping
  queue,      \* gQueue
  cpc, said,  \* client threads: place in Enqueue, lines said so far
  spc,        \* place in Stop of the threads that call it
  wpc,        \* place of the writer thread in WriterLoop / WriteBatch
  batch,      \* rows of the batch still to insert
  okCount,    \* inserts of the batch that succeeded
  inTxn, txn, \* SQLite: a transaction is open; the rows inserted in it
  rows,       \* SQLite: the table chat_log
  written, dropped,   \* gWritten, gDropped
  faults,     \* SQLite errors so far
  owed, lost  \* lines queued before gStopping was set; lines an error cost

vars == <<alive, db, joinable, stopping, queue, cpc, said, spc, wpc, batch,
          okCount, inTxn, txn, rows, written, dropped, faults, owed, lost>>
clients == <<cpc, said, dropped, owed>>
stops == <<alive, db, joinable, stopping, spc>>
sqlite == <<batch, okCount, inTxn, txn, rows, written, faults, lost>>

Stopper == {"interrupt", "main"}
Line == [by : Client, n : 1..MaxLines]
Lines(q) == {q[i] : i \in 1..Len(q)}

Init ==
  /\ alive = TRUE
  /\ db = "null"
  /\ joinable = FALSE
  /\ stopping = FALSE
  /\ queue = <<>>
  /\ cpc = [c \in Client |-> "out"]
  /\ said = [c \in Client |-> 0]
  /\ spc = [t \in Stopper |-> IF t = "main" THEN "boot" ELSE "out"]
  /\ wpc = "none"
  /\ batch = <<>>
  /\ okCount = 0
  /\ inTxn = FALSE
  /\ txn = <<>>
  /\ rows = <<>>
  /\ written = 0
  /\ dropped = 0
  /\ faults = 0
  /\ owed = {}
  /\ lost = {}

\* notify_one: the writer wakes if it sleeps in gCv.wait.
Wake(w) == IF w = "asleep" THEN "idle" ELSE w

\* main: Start, which may fail, and then the accept loop.
Start ==
  /\ alive
  /\ spc["main"] = "boot"
  /\ spc' = [spc EXCEPT !["main"] = "serve"]
  /\ \/ db' = "open" /\ joinable' = TRUE /\ wpc' = "idle"
     \/ UNCHANGED <<db, joinable, wpc>>
  /\ UNCHANGED <<alive, stopping, queue, clients, sqlite>>

-----------------------------------------------------------------------------
(* Enqueue, on a client thread.                                            *)

TheLine(c) == [by |-> c, n |-> said[c]]

\* Mutant: a line dropped for want of a database is not counted.
Enqueue_Uncounted(c) ==
  /\ alive
  /\ spc["main"] # "boot"
  /\ cpc[c] = "out" /\ said[c] < MaxLines
  /\ said' = [said EXCEPT ![c] = @ + 1]
  /\ IF db = "null" THEN UNCHANGED cpc ELSE cpc' = [cpc EXCEPT ![c] = "push"]
  /\ UNCHANGED <<stops, queue, wpc, dropped, owed, sqlite>>

\* The unlocked test of gDb.
Enqueue(c) ==
  /\ alive
  /\ spc["main"] # "boot"
  /\ cpc[c] = "out" /\ said[c] < MaxLines
  /\ said' = [said EXCEPT ![c] = @ + 1]
  /\ IF db = "null"
       THEN dropped' = dropped + 1 /\ UNCHANGED cpc
       ELSE cpc' = [cpc EXCEPT ![c] = "push"] /\ UNCHANGED dropped
  /\ UNCHANGED <<stops, queue, wpc, owed, sqlite>>

Full == Len(queue) >= kMaxQueuedEntries

\* Under the lock: a full queue drops the line.
Push(c) ==
  /\ alive
  /\ cpc[c] = "push"
  /\ IF Full
       THEN /\ dropped' = dropped + 1
            /\ cpc' = [cpc EXCEPT ![c] = "out"]
            /\ UNCHANGED <<queue, owed>>
       ELSE /\ queue' = Append(queue, TheLine(c))
            /\ owed' = IF stopping THEN owed ELSE owed \cup {TheLine(c)}
            /\ cpc' = [cpc EXCEPT ![c] = "notify"]
            /\ UNCHANGED dropped
  /\ UNCHANGED <<stops, said, wpc, sqlite>>

\* Mutant: a producer does not notify.
Notify_Missed(c) ==
  /\ alive
  /\ cpc[c] = "notify"
  /\ cpc' = [cpc EXCEPT ![c] = "out"]
  /\ UNCHANGED <<stops, queue, said, dropped, owed, wpc, sqlite>>

\* The notification comes after the unlock.
Notify(c) ==
  /\ alive
  /\ cpc[c] = "notify"
  /\ wpc' = Wake(wpc)
  /\ cpc' = [cpc EXCEPT ![c] = "out"]
  /\ UNCHANGED <<stops, queue, said, dropped, owed, sqlite>>

-----------------------------------------------------------------------------
(* The writer thread.                                                      *)

\* Mutant: a writer asked to stop ends at once.
AfterTake_Hasty ==
  IF stopping THEN "ended" ELSE IF queue # <<>> THEN "begin" ELSE "asleep"

\* Asked to stop, the writer ends only when the queue is empty.
AfterTake ==
  IF queue # <<>> THEN "begin" ELSE IF stopping THEN "ended" ELSE "asleep"

\* Mutant: the lines of the batch stay in the queue.
Take_Unpopped ==
  /\ alive
  /\ wpc = "idle"
  /\ batch' = SubSeq(queue, 1, IF Len(queue) < kMaxBatchRows THEN Len(queue) ELSE kMaxBatchRows)
  /\ wpc' = AfterTake
  /\ okCount' = 0
  /\ UNCHANGED <<stops, clients, queue, inTxn, txn, rows, written, faults, lost>>

\* Under the lock: take a batch, end, or sleep (which lets go of the lock).
Take ==
  /\ alive
  /\ wpc = "idle"
  /\ LET take == IF Len(queue) < kMaxBatchRows THEN Len(queue) ELSE kMaxBatchRows
     IN  /\ batch' = SubSeq(queue, 1, take)
         /\ queue' = SubSeq(queue, take + 1, Len(queue))
  /\ wpc' = AfterTake
  /\ okCount' = 0
  /\ UNCHANGED <<stops, clients, inTxn, txn, rows, written, faults, lost>>

\* gCv.wait may return without a notification.
SpuriousWake ==
  /\ alive
  /\ wpc = "asleep"
  /\ wpc' = "idle"
  /\ UNCHANGED <<stops, clients, queue, sqlite>>

Fault == faults < MaxFaults /\ faults' = faults + 1

\* BEGIN; if it fails WriteBatch returns, and batch.clear() follows.
Begin ==
  /\ alive
  /\ wpc = "begin"
  /\ \/ inTxn' = TRUE /\ wpc' = "insert" /\ UNCHANGED <<batch, lost, faults>>
     \/ /\ Fault
        /\ lost' = lost \cup Lines(batch)
        /\ batch' = <<>>
        /\ wpc' = "idle"
        /\ UNCHANGED inTxn
  /\ UNCHANGED <<stops, clients, queue, okCount, txn, rows, written>>

\* One INSERT.  Outside a transaction SQLite commits it by itself.
Insert ==
  /\ alive
  /\ wpc = "insert" /\ batch # <<>>
  /\ okCount' = okCount + 1
  /\ batch' = Tail(batch)
  /\ IF inTxn THEN txn' = Append(txn, Head(batch)) /\ UNCHANGED rows
              ELSE rows' = Append(rows, Head(batch)) /\ UNCHANGED txn
  /\ UNCHANGED <<stops, clients, queue, wpc, inTxn, written, faults, lost>>

\* An INSERT that fails costs its row; after some errors (disk full, I/O error,
\* out of memory) SQLite has rolled the whole transaction back as well.
InsertFails ==
  /\ alive
  /\ wpc = "insert" /\ batch # <<>>
  /\ Fault
  /\ batch' = Tail(batch)
  /\ \/ lost' = lost \cup {Head(batch)} /\ UNCHANGED <<inTxn, txn>>
     \/ /\ lost' = lost \cup {Head(batch)} \cup Lines(txn)
        /\ inTxn' = FALSE
        /\ txn' = <<>>
  /\ UNCHANGED <<stops, clients, queue, wpc, okCount, rows, written>>

Commit ==
  /\ alive
  /\ wpc = "insert" /\ batch = <<>>
  /\ inTxn
  /\ rows' = rows \o txn
  /\ txn' = <<>>
  /\ inTxn' = FALSE
  /\ written' = written + okCount
  /\ wpc' = "idle"
  /\ UNCHANGED <<stops, clients, queue, batch, okCount, faults, lost>>

\* Mutant: the rows of a failed transaction go to the back of the queue.
CommitFails_Requeued ==
  /\ alive
  /\ wpc = "insert" /\ batch = <<>>
  /\ IF inTxn THEN Fault ELSE UNCHANGED faults
  /\ queue' = queue \o txn
  /\ txn' = <<>>
  /\ inTxn' = FALSE
  /\ wpc' = "idle"
  /\ UNCHANGED <<stops, clients, batch, okCount, rows, written, lost>>

\* Mutant: the inserts of a failed transaction are counted.
CommitFails_Counted ==
  /\ alive
  /\ wpc = "insert" /\ batch = <<>>
  /\ IF inTxn THEN Fault ELSE UNCHANGED faults
  /\ lost' = lost \cup Lines(txn)
  /\ written' = written + okCount
  /\ txn' = <<>>
  /\ inTxn' = FALSE
  /\ wpc' = "idle"
  /\ UNCHANGED <<stops, clients, queue, batch, okCount, rows>>

\* COMMIT fails: an error, or no transaction is open any more.  ROLLBACK follows.
CommitFails ==
  /\ alive
  /\ wpc = "insert" /\ batch = <<>>
  /\ IF inTxn THEN Fault ELSE UNCHANGED faults
  /\ lost' = lost \cup Lines(txn)
  /\ txn' = <<>>
  /\ inTxn' = FALSE
  /\ wpc' = "idle"
  /\ UNCHANGED <<stops, clients, queue, batch, okCount, rows, written>>

-----------------------------------------------------------------------------
(* Stop, on the SIGINT thread (OnInterrupt) and on main.                   *)

\* OnInterrupt, once main serves: gRunning = false, then Stop.
Interrupt ==
  /\ alive
  /\ spc["interrupt"] = "out" /\ spc["main"] # "boot"
  /\ spc' = [spc EXCEPT !["interrupt"] = "test"]
  /\ UNCHANGED <<alive, db, joinable, stopping, queue, wpc, clients, sqlite>>

\* accept() returns once more and main finds gRunning false.
LeaveLoop ==
  /\ alive
  /\ spc["main"] = "serve" /\ spc["interrupt"] # "out"
  /\ spc' = [spc EXCEPT !["main"] = "test"]
  /\ UNCHANGED <<alive, db, joinable, stopping, queue, wpc, clients, sqlite>>

\* Mutant: a writer that never started is waited for.
TestJoinable_Unchecked(t) ==
  /\ alive
  /\ spc[t] = "test"
  /\ spc' = [spc EXCEPT ![t] = "raise"]
  /\ UNCHANGED <<alive, db, joinable, stopping, queue, wpc, clients, sqlite>>

TestJoinable(t) ==
  /\ alive
  /\ spc[t] = "test"
  /\ spc' = [spc EXCEPT ![t] = IF joinable THEN "raise" ELSE "close"]
  /\ UNCHANGED <<alive, db, joinable, stopping, queue, wpc, clients, sqlite>>

RaiseStopping(t) ==
  /\ alive
  /\ spc[t] = "raise"
  /\ stopping' = TRUE
  /\ spc' = [spc EXCEPT ![t] = "notify"]
  /\ UNCHANGED <<alive, db, joinable, queue, wpc, clients, sqlite>>

\* Mutant: Stop does not notify.
NotifyStop_Missed(t) ==
  /\ alive
  /\ spc[t] = "notify"
  /\ spc' = [spc EXCEPT ![t] = "join"]
  /\ UNCHANGED <<alive, db, joinable, stopping, queue, wpc, clients, sqlite>>

NotifyStop(t) ==
  /\ alive
  /\ spc[t] = "notify"
  /\ wpc' = Wake(wpc)
  /\ spc' = [spc EXCEPT ![t] = "join"]
  /\ UNCHANGED <<alive, db, joinable, stopping, queue, clients, sqlite>>

\* Mutant: the writer is not waited for.
Join_Detached(t) ==
  /\ alive
  /\ spc[t] = "join"
  /\ joinable' = FALSE
  /\ spc' = [spc EXCEPT ![t] = "close"]
  /\ UNCHANGED <<alive, db, stopping, queue, wpc, clients, sqlite>>

Join(t) ==
  /\ alive
  /\ spc[t] = "join"
  /\ wpc = "ended"
  /\ joinable' = FALSE
  /\ spc' = [spc EXCEPT ![t] = "close"]
  /\ UNCHANGED <<alive, db, stopping, queue, wpc, clients, sqlite>>

\* Finalize the statement, close the database, forget both.
Close(t) ==
  /\ alive
  /\ spc[t] = "close"
  /\ db' = "null"
  /\ spc' = [spc EXCEPT ![t] = "exit"]
  /\ UNCHANGED <<alive, joinable, stopping, queue, wpc, clients, sqlite>>

\* _Exit, or the return from main: every other thread dies with the process.
Exit(t) ==
  /\ alive
  /\ spc[t] = "exit"
  /\ alive' = FALSE
  /\ UNCHANGED <<db, joinable, stopping, queue, spc, wpc, clients, sqlite>>

\* Two threads in Stop at once is undefined: a join on a thread the other has
\* joined throws (and terminates the process), and so may a handle closed twice.
Clash(t) ==
  /\ alive
  /\ \/ spc[t] = "join" /\ wpc = "ended"
     \/ spc[t] = "close" /\ db = "open"
  /\ \E u \in Stopper \ {t} : spc[u] \in {"join", "close", "exit"}
  /\ alive' = FALSE
  /\ UNCHANGED <<db, joinable, stopping, queue, spc, wpc, clients, sqlite>>

-----------------------------------------------------------------------------
Enqueuing(c) == Push(c) \/ Notify(c)
Writer == Take \/ Begin \/ Insert \/ InsertFails \/ Commit \/ CommitFails
Stop(t) == TestJoinable(t) \/ RaiseStopping(t) \/ NotifyStop(t) \/ Join(t)
             \/ Close(t) \/ Exit(t) \/ Clash(t)

Ended == ~alive /\ UNCHANGED vars

Next ==
  \/ Start \/ Interrupt \/ LeaveLoop
  \/ \E c \in Client : Enqueue(c) \/ Enqueuing(c)
  \/ Writer \/ SpuriousWake
  \/ \E t \in Stopper : Stop(t)
  \/ Ended

Spec == Init /\ [][Next]_vars

\* The scheduler runs every thread that can run; nobody owes a signal, a line
\* or a spurious wake-up.
FairSpec ==
  /\ Spec
  /\ WF_vars(Writer)
  /\ \A c \in Client : WF_vars(Enqueuing(c))
  /\ \A t \in Stopper : WF_vars(Stop(t))

-----------------------------------------------------------------------------
(* Properties.                                                             *)

\* Lines on their way into the table, oldest first.
Pending == txn \o batch \o queue
Pipeline == rows \o Pending
Settled == Lines(rows) \cup lost
Known == Settled \cup Lines(txn) \cup Lines(batch) \cup Lines(queue)

\* Each variable has its type, and the queue keeps its limit.
ThreadTypes ==
  /\ alive \in BOOLEAN /\ joinable \in BOOLEAN /\ stopping \in BOOLEAN
  /\ db \in {"null", "open"}
  /\ cpc \in [Client -> {"out", "push", "notify"}]
  /\ said \in [Client -> 0..MaxLines]
  /\ spc \in [Stopper -> {"boot", "serve", "out", "test", "raise", "notify",
                          "join", "close", "exit"}]
  /\ wpc \in {"none", "idle", "asleep", "begin", "insert", "ended"}
CountTypes ==
  /\ inTxn \in BOOLEAN
  /\ okCount \in Nat /\ written \in Nat /\ dropped \in Nat
  /\ faults \in 0..MaxFaults
LineTypes ==
  /\ queue \in Seq(Line) /\ Len(queue) <= kMaxQueuedEntries
  /\ batch \in Seq(Line)
  /\ txn \in Seq(Line)
  /\ rows \in Seq(Line)
  /\ owed \subseteq Line /\ lost \subseteq Line
TypeOK == ThreadTypes /\ CountTypes /\ LineTypes

\* The writer never uses a closed database (ChatLog.cpp: only the writer thread
\* touches gDb, so it needs no lock): nobody closes it before the writer ended,
\* not even with two threads in Stop.
WriterHasDb == wpc \in {"idle", "asleep", "begin", "insert"} => db = "open"

\* A line is in one place: the number of lines said is the number dropped, on the
\* way, stored and lost to an error, and none is there twice.
Accounting ==
  LET busy == {c \in Client : cpc[c] = "push"}
      total == {l \in Line : l.n <= said[l.by]}
  IN  /\ Cardinality(total) = Cardinality(busy) + dropped + Len(Pipeline) + Cardinality(lost)
      /\ Cardinality(Lines(Pipeline)) = Len(Pipeline)
      /\ Lines(Pipeline) \cap lost = {}

\* What one person says is stored, or waits to be, in the order it was said, and
\* no line twice.
Ordered(q) ==
  \A i, j \in 1..Len(q) : i < j /\ q[i].by = q[j].by => q[i].n < q[j].n
OrderKept == Ordered(Pipeline)

\* Stop, from one thread or two, loses nothing that was queued before it asked
\* the writer to stop: the process ends, or closes the database, only when all of
\* that is in the table, errors aside.
StopDrains ==
  (\E t \in Stopper : spc[t] = "exit") \/ ~alive => owed \subseteq Settled

\* Rows counted as written are in the table.
WrittenIsStored == written <= Len(rows)

\* What the queue, the locks and the transactions amount to.
Log == INSTANCE AsyncLog WITH open <- db = "open", pending <- Pending
ImplementsLog == Log!Spec

\* The strengthening of the safety properties that is inductive.  The writer
\* exists between Start and its own end, and nobody closes what it uses.
ThreadInv ==
  /\ spc["main"] = "boot" => spc["interrupt"] = "out" /\ wpc = "none"
  /\ wpc = "none" => db = "null" /\ ~joinable
  /\ wpc \in {"idle", "asleep", "begin", "insert"} => db = "open" /\ joinable
  /\ wpc = "ended" => stopping
  /\ \A t \in Stopper : spc[t] \in {"close", "exit"} => ~joinable
  /\ \A t \in Stopper : spc[t] \in {"raise", "notify", "join"} => wpc # "none"
  /\ ~alive => wpc \in {"none", "ended"}

\* What the batch and the transaction hold at each place of WriteBatch.
BatchInv ==
  /\ batch # <<>> => wpc \in {"begin", "insert"}
  /\ inTxn => wpc = "insert"
  /\ txn # <<>> => inTxn
  /\ wpc = "begin" => okCount = 0
  /\ inTxn => okCount = Len(txn)
  /\ WrittenIsStored

\* A client has queued no line later than the one it is at.
SaidInv ==
  /\ \A l \in Known : l.n <= said[l.by]
  /\ \A c \in Client :
       /\ cpc[c] = "push" => said[c] # 0 /\ \A l \in Known : l.by = c => l.n < said[c]
       /\ cpc[c] # "out" => wpc # "none"

\* The lines queued before Stop asked: on their way until the writer ends.
OwedInv ==
  /\ owed \subseteq Known
  /\ wpc \in {"none", "ended"} => owed \subseteq Settled

IInv == TypeOK /\ ThreadInv /\ BatchInv /\ SaidInv /\ OwedInv

\* A queued line is written as long as there is a writer: no wake-up is lost
\* although the notification comes after the unlock.
QueuedIsWritten ==
  \A l \in Line :
    (l \in Lines(queue) /\ wpc # "ended") ~> l \in Settled

\* Stop always returns: the process ends.
StopReturns == spc["interrupt"] = "test" ~> ~alive
=============================================================================
