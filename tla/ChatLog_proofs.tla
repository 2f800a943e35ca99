--------------------------- MODULE ChatLog_proofs ---------------------------
(***************************************************************************)
(* The safety properties of ChatLog, for every set of clients, every queue *)
(* limit and batch size, and any number of SQLite errors.                  *)
(***************************************************************************)
EXTENDS ChatLog, FiniteSetTheorems, SequenceTheorems, TLAPS

USE LogAssumption DEF Stopper, Full, AfterTake

-----------------------------------------------------------------------------
(* The lines of a sequence.                                                *)

LEMMA LinesOfAppend ==
  ASSUME NEW S, NEW q \in Seq(S), NEW e \in S
  PROVE  Lines(Append(q, e)) = Lines(q) \cup {e}
BY AppendProperties DEF Lines

LEMMA LinesOfConcat ==
  ASSUME NEW S, NEW p \in Seq(S), NEW q \in Seq(S)
  PROVE  Lines(p \o q) = Lines(p) \cup Lines(q)
<1>1. Lines(p \o q) \subseteq Lines(p) \cup Lines(q) BY DEF Lines
<1>2. Lines(p) \subseteq Lines(p \o q) BY DEF Lines
<1>3. ASSUME NEW i \in 1..Len(q) PROVE q[i] \in Lines(p \o q)
  <2>1. (p \o q)[Len(p) + i] = q[i] /\ Len(p) + i \in 1..Len(p \o q) OBVIOUS
  <2> QED BY <2>1 DEF Lines
<1> QED BY <1>1, <1>2, <1>3 DEF Lines

LEMMA LinesOfHeadTail ==
  ASSUME NEW S, NEW q \in Seq(S), q # <<>>
  PROVE  Lines(q) = {Head(q)} \cup Lines(Tail(q))
<1>1. Head(q) = q[1] /\ Len(q) \in Nat \ {0} OBVIOUS
<1>2. \A i \in 1..Len(Tail(q)) : Tail(q)[i] = q[i + 1] BY HeadTailProperties
<1>3. Len(Tail(q)) = Len(q) - 1 BY HeadTailProperties
<1>4. ASSUME NEW i \in 1..Len(q), i # 1 PROVE q[i] \in Lines(Tail(q))
  <2>1. i - 1 \in 1..Len(Tail(q)) /\ Tail(q)[i - 1] = q[i] BY <1>2, <1>3, <1>4
  <2> QED BY <2>1 DEF Lines
<1> QED BY <1>1, <1>2, <1>3, <1>4 DEF Lines

\* A queue cut in two has the lines of its parts.
LEMMA LinesOfCut ==
  ASSUME NEW S, NEW q \in Seq(S), NEW k \in 0..Len(q)
  PROVE  /\ SubSeq(q, 1, k) \in Seq(S) /\ SubSeq(q, k + 1, Len(q)) \in Seq(S)
         /\ Lines(q) = Lines(SubSeq(q, 1, k)) \cup Lines(SubSeq(q, k + 1, Len(q)))
         /\ Len(SubSeq(q, 1, k)) = k /\ Len(SubSeq(q, k + 1, Len(q))) = Len(q) - k
<1> DEFINE a == SubSeq(q, 1, k)
           b == SubSeq(q, k + 1, Len(q))
<1>1. /\ a \in Seq(S) /\ Len(a) = k
      /\ \A i \in 1..k : a[i] = q[i]
  BY SubSeqProperties
<1>2. /\ b \in Seq(S) /\ Len(b) = Len(q) - k
      /\ \A i \in 1..(Len(q) - k) : b[i] = q[k + i]
  BY SubSeqProperties
<1>3. Lines(a) \cup Lines(b) \subseteq Lines(q) BY <1>1, <1>2 DEF Lines
<1>4. ASSUME NEW i \in 1..Len(q) PROVE q[i] \in Lines(a) \cup Lines(b)
  <2>1. CASE i <= k BY <1>1, <2>1 DEF Lines
  <2>2. CASE i > k
    <3>1. i - k \in 1..Len(b) /\ b[i - k] = q[i] BY <1>2, <2>2
    <3> QED BY <3>1 DEF Lines
  <2> QED BY <2>1, <2>2
<1> QED BY <1>1, <1>2, <1>3, <1>4 DEF Lines

LEMMA LinesOfEmpty == Lines(<<>>) = {}
BY DEF Lines

-----------------------------------------------------------------------------
(* Types.                                                                  *)

\* The lines of a typed sequence are lines.
LEMMA LinesAreLines ==
  ASSUME NEW S, NEW q \in Seq(S)
  PROVE  Lines(q) \subseteq S
BY DEF Lines

\* What Take moves from the queue into the batch.
LEMMA TakeFacts ==
  ASSUME LineTypes, Take
  PROVE  /\ batch' \in Seq(Line) /\ queue' \in Seq(Line) /\ Len(queue') <= Len(queue)
         /\ Lines(queue) = Lines(batch') \cup Lines(queue')
         /\ queue = <<>> => batch' = <<>> /\ queue' = <<>>
<1> DEFINE take == IF Len(queue) < kMaxBatchRows THEN Len(queue) ELSE kMaxBatchRows
<1>1. take \in 0..Len(queue) BY DEF LineTypes
<1>2. batch' = SubSeq(queue, 1, take) /\ queue' = SubSeq(queue, take + 1, Len(queue))
  BY DEF Take
<1>3. queue \in Seq(Line) BY DEF LineTypes
<1>4. /\ batch' \in Seq(Line) /\ queue' \in Seq(Line) /\ Len(queue') <= Len(queue)
      /\ Lines(queue) = Lines(batch') \cup Lines(queue')
      /\ Len(batch') = take /\ Len(queue') = Len(queue) - take
  <2> HIDE DEF take
  <2> QED BY <1>1, <1>2, <1>3, LinesOfCut
<1>5. queue = <<>> => batch' = <<>> /\ queue' = <<>>
  BY <1>1, <1>3, <1>4
<1> QED BY <1>4, <1>5

LEMMA ThreadTypesStep == ThreadTypes /\ [Next]_vars => ThreadTypes'
<1> SUFFICES ASSUME ThreadTypes, [Next]_vars PROVE ThreadTypes'
  OBVIOUS
<1> USE DEF ThreadTypes, clients, stops, sqlite
<1>1. CASE UNCHANGED vars BY <1>1 DEF vars
<1>2. CASE Start BY <1>2 DEF Start
<1>3. CASE Interrupt BY <1>3 DEF Interrupt
<1>4. CASE LeaveLoop BY <1>4 DEF LeaveLoop
<1>5. CASE Take BY <1>5 DEF Take
<1>6. CASE SpuriousWake BY <1>6 DEF SpuriousWake
<1>7. CASE Begin BY <1>7 DEF Begin
<1>8. CASE Insert BY <1>8 DEF Insert
<1>9. CASE InsertFails BY <1>9 DEF InsertFails
<1>10. CASE Commit BY <1>10 DEF Commit
<1>11. CASE CommitFails BY <1>11 DEF CommitFails
<1>12. CASE Ended BY <1>12 DEF Ended, vars
<1>13. ASSUME NEW c \in Client, Enqueue(c) PROVE ThreadTypes' BY <1>13 DEF Enqueue
<1>14. ASSUME NEW c \in Client, Push(c) PROVE ThreadTypes' BY <1>14 DEF Push
<1>15. ASSUME NEW c \in Client, Notify(c) PROVE ThreadTypes' BY <1>15 DEF Notify, Wake
<1>16. ASSUME NEW t \in Stopper, TestJoinable(t) PROVE ThreadTypes' BY <1>16 DEF TestJoinable
<1>17. ASSUME NEW t \in Stopper, RaiseStopping(t) PROVE ThreadTypes' BY <1>17 DEF RaiseStopping
<1>18. ASSUME NEW t \in Stopper, NotifyStop(t) PROVE ThreadTypes' BY <1>18 DEF NotifyStop, Wake
<1>19. ASSUME NEW t \in Stopper, Join(t) PROVE ThreadTypes' BY <1>19 DEF Join
<1>20. ASSUME NEW t \in Stopper, Close(t) PROVE ThreadTypes' BY <1>20 DEF Close
<1>21. ASSUME NEW t \in Stopper, Exit(t) PROVE ThreadTypes' BY <1>21 DEF Exit
<1>22. ASSUME NEW t \in Stopper, Clash(t) PROVE ThreadTypes' BY <1>22 DEF Clash
<1> QED
  BY <1>1, <1>2, <1>3, <1>4, <1>5, <1>6, <1>7, <1>8, <1>9, <1>10, <1>11,
     <1>12, <1>13, <1>14, <1>15, <1>16, <1>17, <1>18, <1>19, <1>20, <1>21, <1>22
     DEF Next, Enqueuing, Writer, Stop

LEMMA CountTypesStep == CountTypes /\ [Next]_vars => CountTypes'
<1> SUFFICES ASSUME CountTypes, [Next]_vars PROVE CountTypes'
  OBVIOUS
<1> USE DEF CountTypes, clients, stops, sqlite, Fault
<1>1. CASE UNCHANGED vars BY <1>1 DEF vars
<1>2. CASE Start BY <1>2 DEF Start
<1>3. CASE Interrupt BY <1>3 DEF Interrupt
<1>4. CASE LeaveLoop BY <1>4 DEF LeaveLoop
<1>5. CASE Take BY <1>5 DEF Take
<1>6. CASE SpuriousWake BY <1>6 DEF SpuriousWake
<1>7. CASE Begin
  <2>1. inTxn' \in BOOLEAN BY <1>7 DEF Begin
  <2>2. okCount' \in Nat /\ written' \in Nat /\ dropped' \in Nat BY <1>7 DEF Begin
  <2>3. faults' \in 0..MaxFaults BY <1>7 DEF Begin
  <2> QED BY <2>1, <2>2, <2>3
<1>8. CASE Insert BY <1>8 DEF Insert
<1>9. CASE InsertFails
  <2>1. inTxn' \in BOOLEAN BY <1>9 DEF InsertFails
  <2>2. okCount' \in Nat /\ written' \in Nat /\ dropped' \in Nat BY <1>9 DEF InsertFails
  <2>3. faults' \in 0..MaxFaults BY <1>9 DEF InsertFails
  <2> QED BY <2>1, <2>2, <2>3
<1>10. CASE Commit
  <2>1. inTxn' \in BOOLEAN BY <1>10 DEF Commit
  <2>2. okCount' \in Nat /\ written' \in Nat /\ dropped' \in Nat BY <1>10 DEF Commit
  <2>3. faults' \in 0..MaxFaults BY <1>10 DEF Commit
  <2> QED BY <2>1, <2>2, <2>3
<1>11. CASE CommitFails
  <2>1. inTxn' \in BOOLEAN BY <1>11 DEF CommitFails
  <2>2. okCount' \in Nat /\ written' \in Nat /\ dropped' \in Nat BY <1>11 DEF CommitFails
  <2>3. faults' \in 0..MaxFaults BY <1>11 DEF CommitFails
  <2> QED BY <2>1, <2>2, <2>3
<1>12. CASE Ended BY <1>12 DEF Ended, vars
<1>13. ASSUME NEW c \in Client, Enqueue(c) PROVE CountTypes' BY <1>13 DEF Enqueue
<1>14. ASSUME NEW c \in Client, Push(c) PROVE CountTypes' BY <1>14 DEF Push
<1>15. ASSUME NEW c \in Client, Notify(c) PROVE CountTypes' BY <1>15 DEF Notify
<1>16. ASSUME NEW t \in Stopper, TestJoinable(t) PROVE CountTypes' BY <1>16 DEF TestJoinable
<1>17. ASSUME NEW t \in Stopper, RaiseStopping(t) PROVE CountTypes' BY <1>17 DEF RaiseStopping
<1>18. ASSUME NEW t \in Stopper, NotifyStop(t) PROVE CountTypes' BY <1>18 DEF NotifyStop
<1>19. ASSUME NEW t \in Stopper, Join(t) PROVE CountTypes' BY <1>19 DEF Join
<1>20. ASSUME NEW t \in Stopper, Close(t) PROVE CountTypes' BY <1>20 DEF Close
<1>21. ASSUME NEW t \in Stopper, Exit(t) PROVE CountTypes' BY <1>21 DEF Exit
<1>22. ASSUME NEW t \in Stopper, Clash(t) PROVE CountTypes' BY <1>22 DEF Clash
<1> QED
  BY <1>1, <1>2, <1>3, <1>4, <1>5, <1>6, <1>7, <1>8, <1>9, <1>10, <1>11,
     <1>12, <1>13, <1>14, <1>15, <1>16, <1>17, <1>18, <1>19, <1>20, <1>21, <1>22
     DEF Next, Enqueuing, Writer, Stop

LEMMA LineTypesStep == ThreadTypes /\ LineTypes /\ SaidInv /\ [Next]_vars => LineTypes'
<1> SUFFICES ASSUME ThreadTypes, LineTypes, SaidInv, [Next]_vars PROVE LineTypes'
  OBVIOUS
<1> USE DEF LineTypes, clients, stops, sqlite
<1>1. CASE UNCHANGED vars BY <1>1 DEF vars
<1>2. CASE Start BY <1>2 DEF Start
<1>3. CASE Interrupt BY <1>3 DEF Interrupt
<1>4. CASE LeaveLoop BY <1>4 DEF LeaveLoop
<1>5. CASE Take
  <2>1. batch' \in Seq(Line) /\ queue' \in Seq(Line) /\ Len(queue') <= Len(queue)
    BY <1>5, TakeFacts DEF Line
  <2> QED BY <1>5, <2>1 DEF Take
<1>6. CASE SpuriousWake BY <1>6 DEF SpuriousWake
<1>7. CASE Begin
  <2>1. Lines(batch) \subseteq Line BY LinesAreLines
  <2>6. queue' \in Seq(Line) /\ Len(queue') <= kMaxQueuedEntries BY <1>7 DEF Begin
  <2>7. batch' \in Seq(Line) BY <1>7, <2>1, EmptySeq DEF Begin
  <2>8. txn' \in Seq(Line) BY <1>7, <2>1, EmptySeq DEF Begin
  <2>9. rows' \in Seq(Line) BY <1>7, <2>1, EmptySeq DEF Begin
  <2>10. owed' \subseteq Line /\ lost' \subseteq Line BY <1>7, <2>1, EmptySeq DEF Begin
  <2> QED BY <2>6, <2>7, <2>8, <2>9, <2>10
<1>8. CASE Insert
  <2>1. Head(batch) \in Line /\ Tail(batch) \in Seq(Line) BY <1>8 DEF Insert
  <2>2. Append(txn, Head(batch)) \in Seq(Line) /\ Append(rows, Head(batch)) \in Seq(Line)
    BY <2>1, AppendProperties
  <2>6. queue' \in Seq(Line) /\ Len(queue') <= kMaxQueuedEntries BY <1>8 DEF Insert
  <2>7. batch' \in Seq(Line) BY <1>8, <2>1, <2>2 DEF Insert
  <2>8. txn' \in Seq(Line) BY <1>8, <2>2 DEF Insert
  <2>9. rows' \in Seq(Line) BY <1>8, <2>2 DEF Insert
  <2>10. owed' \subseteq Line /\ lost' \subseteq Line BY <1>8, <2>2 DEF Insert
  <2> QED BY <2>6, <2>7, <2>8, <2>9, <2>10
<1>9. CASE InsertFails
  <2>1. Head(batch) \in Line /\ Tail(batch) \in Seq(Line) BY <1>9 DEF InsertFails
  <2>2. Lines(txn) \subseteq Line BY LinesAreLines
  <2>6. queue' \in Seq(Line) /\ Len(queue') <= kMaxQueuedEntries BY <1>9 DEF InsertFails
  <2>7. batch' \in Seq(Line) BY <1>9, <2>1, <2>1, <2>2, EmptySeq DEF InsertFails
  <2>8. txn' \in Seq(Line) BY <1>9, <2>1, <2>2, EmptySeq DEF InsertFails
  <2>9. rows' \in Seq(Line) BY <1>9, <2>1, <2>2, EmptySeq DEF InsertFails
  <2>10. owed' \subseteq Line /\ lost' \subseteq Line BY <1>9, <2>1, <2>2, EmptySeq DEF InsertFails
  <2> QED BY <2>6, <2>7, <2>8, <2>9, <2>10
<1>10. CASE Commit
  <2>1. rows \o txn \in Seq(Line) OBVIOUS
  <2> QED BY <1>10, <2>1 DEF Commit
<1>11. CASE CommitFails
  <2>1. Lines(txn) \subseteq Line BY LinesAreLines
  <2> QED BY <1>11, <2>1 DEF CommitFails
<1>12. CASE Ended BY <1>12 DEF Ended, vars
<1>13. ASSUME NEW c \in Client, Enqueue(c) PROVE LineTypes' BY <1>13 DEF Enqueue
<1>14. ASSUME NEW c \in Client, Push(c) PROVE LineTypes'
  <2>1. TheLine(c) \in Line BY <1>14 DEF Push, TheLine, Line, SaidInv, ThreadTypes
  <2>2. CASE Len(queue) < kMaxQueuedEntries
    <3>1. queue' = Append(queue, TheLine(c)) /\ owed' \subseteq owed \cup {TheLine(c)}
      BY <1>14, <2>2 DEF Push
    <3>2. queue' \in Seq(Line) /\ Len(queue') = Len(queue) + 1 BY <2>1, <3>1
    <3> QED BY <1>14, <2>1, <2>2, <3>1, <3>2 DEF Push
  <2>3. CASE ~(Len(queue) < kMaxQueuedEntries) BY <1>14, <2>3 DEF Push
  <2> QED BY <2>2, <2>3
<1>15. ASSUME NEW c \in Client, Notify(c) PROVE LineTypes' BY <1>15 DEF Notify
<1>16. ASSUME NEW t \in Stopper, TestJoinable(t) PROVE LineTypes' BY <1>16 DEF TestJoinable
<1>17. ASSUME NEW t \in Stopper, RaiseStopping(t) PROVE LineTypes' BY <1>17 DEF RaiseStopping
<1>18. ASSUME NEW t \in Stopper, NotifyStop(t) PROVE LineTypes' BY <1>18 DEF NotifyStop
<1>19. ASSUME NEW t \in Stopper, Join(t) PROVE LineTypes' BY <1>19 DEF Join
<1>20. ASSUME NEW t \in Stopper, Close(t) PROVE LineTypes' BY <1>20 DEF Close
<1>21. ASSUME NEW t \in Stopper, Exit(t) PROVE LineTypes' BY <1>21 DEF Exit
<1>22. ASSUME NEW t \in Stopper, Clash(t) PROVE LineTypes' BY <1>22 DEF Clash
<1> QED
  BY <1>1, <1>2, <1>3, <1>4, <1>5, <1>6, <1>7, <1>8, <1>9, <1>10, <1>11,
     <1>12, <1>13, <1>14, <1>15, <1>16, <1>17, <1>18, <1>19, <1>20, <1>21, <1>22
     DEF Next, Enqueuing, Writer, Stop

LEMMA ThreadStep == ThreadTypes /\ ThreadInv /\ SaidInv /\ [Next]_vars => ThreadInv'
<1> SUFFICES ASSUME ThreadTypes, ThreadInv, SaidInv, [Next]_vars PROVE ThreadInv'
  OBVIOUS
<1> USE DEF ThreadTypes, ThreadInv, clients, stops, sqlite
<1>1. CASE UNCHANGED vars BY <1>1 DEF vars
<1>2. CASE Start BY <1>2 DEF Start
<1>3. CASE Interrupt BY <1>3 DEF Interrupt
<1>4. CASE LeaveLoop BY <1>4 DEF LeaveLoop
<1>5. CASE Take BY <1>5 DEF Take, SaidInv
<1>6. CASE SpuriousWake BY <1>6 DEF SpuriousWake
<1>7. CASE Begin BY <1>7 DEF Begin
<1>8. CASE Insert BY <1>8 DEF Insert
<1>9. CASE InsertFails BY <1>9 DEF InsertFails
<1>10. CASE Commit BY <1>10 DEF Commit
<1>11. CASE CommitFails BY <1>11 DEF CommitFails
<1>12. CASE Ended BY <1>12 DEF Ended, vars
<1>13. ASSUME NEW c \in Client, Enqueue(c) PROVE ThreadInv' BY <1>13 DEF Enqueue, SaidInv
<1>14. ASSUME NEW c \in Client, Push(c) PROVE ThreadInv' BY <1>14 DEF Push, SaidInv
<1>15. ASSUME NEW c \in Client, Notify(c) PROVE ThreadInv' BY <1>15 DEF Notify, Wake
<1>16. ASSUME NEW t \in Stopper, TestJoinable(t) PROVE ThreadInv' BY <1>16 DEF TestJoinable
<1>17. ASSUME NEW t \in Stopper, RaiseStopping(t) PROVE ThreadInv' BY <1>17 DEF RaiseStopping
<1>18. ASSUME NEW t \in Stopper, NotifyStop(t) PROVE ThreadInv' BY <1>18 DEF NotifyStop, Wake
<1>19. ASSUME NEW t \in Stopper, Join(t) PROVE ThreadInv' BY <1>19 DEF Join
<1>20. ASSUME NEW t \in Stopper, Close(t) PROVE ThreadInv' BY <1>20 DEF Close
<1>21. ASSUME NEW t \in Stopper, Exit(t) PROVE ThreadInv' BY <1>21 DEF Exit
<1>22. ASSUME NEW t \in Stopper, Clash(t) PROVE ThreadInv' BY <1>22 DEF Clash
<1> QED
  BY <1>1, <1>2, <1>3, <1>4, <1>5, <1>6, <1>7, <1>8, <1>9, <1>10, <1>11,
     <1>12, <1>13, <1>14, <1>15, <1>16, <1>17, <1>18, <1>19, <1>20, <1>21, <1>22
     DEF Next, Enqueuing, Writer, Stop

LEMMA BatchStep == CountTypes /\ LineTypes /\ ThreadInv /\ BatchInv /\ [Next]_vars => BatchInv'
<1> SUFFICES ASSUME CountTypes, LineTypes, ThreadInv, BatchInv, [Next]_vars PROVE BatchInv'
  OBVIOUS
<1> USE DEF CountTypes, LineTypes, BatchInv, WrittenIsStored, clients, stops, sqlite
<1>1. CASE UNCHANGED vars BY <1>1 DEF vars
<1>2. CASE Start
  <2> QED BY <1>2 DEF Start, ThreadInv
<1>3. CASE Interrupt BY <1>3 DEF Interrupt
<1>4. CASE LeaveLoop BY <1>4 DEF LeaveLoop
<1>5. CASE Take
  <2>1. queue = <<>> => batch' = <<>> BY <1>5, TakeFacts
  <2> QED BY <1>5, <2>1 DEF Take
<1>6. CASE SpuriousWake BY <1>6 DEF SpuriousWake
<1>7. CASE Begin BY <1>7 DEF Begin
<1>8. CASE Insert BY <1>8 DEF Insert
<1>9. CASE InsertFails BY <1>9 DEF InsertFails
<1>10. CASE Commit BY <1>10 DEF Commit
<1>11. CASE CommitFails BY <1>11 DEF CommitFails
<1>12. CASE Ended BY <1>12 DEF Ended, vars
<1>13. ASSUME NEW c \in Client, Enqueue(c) PROVE BatchInv' BY <1>13 DEF Enqueue
<1>14. ASSUME NEW c \in Client, Push(c) PROVE BatchInv' BY <1>14 DEF Push
<1>15. ASSUME NEW c \in Client, Notify(c) PROVE BatchInv' BY <1>15 DEF Notify, Wake
<1>16. ASSUME NEW t \in Stopper, TestJoinable(t) PROVE BatchInv' BY <1>16 DEF TestJoinable
<1>17. ASSUME NEW t \in Stopper, RaiseStopping(t) PROVE BatchInv' BY <1>17 DEF RaiseStopping
<1>18. ASSUME NEW t \in Stopper, NotifyStop(t) PROVE BatchInv' BY <1>18 DEF NotifyStop, Wake
<1>19. ASSUME NEW t \in Stopper, Join(t) PROVE BatchInv' BY <1>19 DEF Join
<1>20. ASSUME NEW t \in Stopper, Close(t) PROVE BatchInv' BY <1>20 DEF Close
<1>21. ASSUME NEW t \in Stopper, Exit(t) PROVE BatchInv' BY <1>21 DEF Exit
<1>22. ASSUME NEW t \in Stopper, Clash(t) PROVE BatchInv' BY <1>22 DEF Clash
<1> QED
  BY <1>1, <1>2, <1>3, <1>4, <1>5, <1>6, <1>7, <1>8, <1>9, <1>10, <1>11,
     <1>12, <1>13, <1>14, <1>15, <1>16, <1>17, <1>18, <1>19, <1>20, <1>21, <1>22
     DEF Next, Enqueuing, Writer, Stop

-----------------------------------------------------------------------------
(* The lines on their way.                                               *)

\* A client that finds room adds its line to what is known; nothing else is known
\* or forgotten by that step.
LEMMA PushFacts ==
  ASSUME ThreadTypes, LineTypes, SaidInv, NEW c \in Client, Push(c)
  PROVE  /\ TheLine(c) \in Line /\ TheLine(c).by = c /\ TheLine(c).n = said[c]
         /\ \/ Known' = Known /\ owed' = owed
            \/ Known' = Known \cup {TheLine(c)} /\ ~stopping /\ owed' = owed \cup {TheLine(c)}
            \/ Known' = Known \cup {TheLine(c)} /\ stopping /\ owed' = owed
<1>1. TheLine(c) \in Line /\ TheLine(c).by = c /\ TheLine(c).n = said[c]
  BY DEF Push, TheLine, Line, SaidInv, ThreadTypes
<1>2. UNCHANGED <<rows, txn, batch, lost>> BY DEF Push, sqlite
<1>3. CASE Len(queue) >= kMaxQueuedEntries
  <2>1. queue' = queue /\ owed' = owed BY <1>3 DEF Push
  <2> QED BY <1>1, <1>2, <2>1 DEF Known, Settled, Lines
<1>4. CASE ~(Len(queue) >= kMaxQueuedEntries)
  <2>1. /\ queue' = Append(queue, TheLine(c))
        /\ owed' = IF stopping THEN owed ELSE owed \cup {TheLine(c)}
    BY <1>4 DEF Push
  <2>2. Lines(queue') = Lines(queue) \cup {TheLine(c)}
    BY <1>1, <2>1, LinesOfAppend DEF LineTypes
  <2>3. Known' = Known \cup {TheLine(c)} BY <1>2, <2>2 DEF Known, Settled, Lines
  <2> QED BY <1>1, <2>1, <2>3
<1> QED BY <1>3, <1>4

\* The writer moves lines along and loses some; it forgets none.
LEMMA WriterKeeps ==
  ASSUME ThreadTypes, CountTypes, LineTypes, BatchInv, Writer
  PROVE  /\ Known' = Known
         /\ Settled \subseteq Settled'
         /\ UNCHANGED <<owed, said, cpc, stopping>>
<1> USE DEF LineTypes, BatchInv, clients, stops
<1>1. CASE Take
  <2>1. Lines(queue) = Lines(batch') \cup Lines(queue') BY <1>1, TakeFacts
  <2>2. batch = <<>> /\ UNCHANGED <<rows, txn, lost>> BY <1>1 DEF Take
  <2>3. Lines(batch) = {} BY <2>2, LinesOfEmpty
  <2>4. Lines(rows)' = Lines(rows) /\ Lines(txn)' = Lines(txn) BY <2>2 DEF Lines
  <2> QED BY <1>1, <2>1, <2>2, <2>3, <2>4 DEF Take, Known, Settled
<1>2. CASE Begin
  <2>1. UNCHANGED <<rows, txn, queue>> BY <1>2 DEF Begin
  <2>2. \/ batch' = batch /\ lost' = lost
        \/ batch' = <<>> /\ lost' = lost \cup Lines(batch)
    BY <1>2 DEF Begin
  <2>3. \/ Lines(batch') = Lines(batch) /\ lost' = lost
        \/ Lines(batch') = {} /\ lost' = lost \cup Lines(batch)
    BY <2>2, LinesOfEmpty DEF Lines
  <2>4. /\ Lines(rows)' = Lines(rows) /\ Lines(txn)' = Lines(txn)
        /\ Lines(queue)' = Lines(queue)
    BY <2>1 DEF Lines
  <2> QED BY <1>2, <2>3, <2>4 DEF Begin, Known, Settled
<1>3. CASE Insert
  <2>1. Lines(batch) = {Head(batch)} \cup Lines(batch') /\ Head(batch) \in Line
    BY <1>3, LinesOfHeadTail DEF Insert
  <2>2. \/ txn' = Append(txn, Head(batch)) /\ rows' = rows
        \/ rows' = Append(rows, Head(batch)) /\ txn' = txn
    BY <1>3 DEF Insert
  <2>3. \/ Lines(txn') = Lines(txn) \cup {Head(batch)} /\ Lines(rows') = Lines(rows)
        \/ Lines(rows') = Lines(rows) \cup {Head(batch)} /\ Lines(txn') = Lines(txn)
    <3>1. CASE txn' = Append(txn, Head(batch)) /\ rows' = rows
      BY <2>1, <3>1, LinesOfAppend
    <3>2. CASE rows' = Append(rows, Head(batch)) /\ txn' = txn
      BY <2>1, <3>2, LinesOfAppend
    <3> QED BY <2>2, <3>1, <3>2
  <2>4. Lines(queue') = Lines(queue) /\ lost' = lost BY <1>3 DEF Insert
  <2> QED BY <1>3, <2>1, <2>3, <2>4 DEF Insert, Known, Settled
<1>4. CASE InsertFails
  <2>1. Lines(batch) = {Head(batch)} \cup Lines(batch') /\ Head(batch) \in Line
    BY <1>4, LinesOfHeadTail DEF InsertFails
  <2>2. \/ lost' = lost \cup {Head(batch)} /\ txn' = txn
        \/ lost' = lost \cup {Head(batch)} \cup Lines(txn) /\ txn' = <<>>
    BY <1>4 DEF InsertFails
  <2>3. \/ lost' = lost \cup {Head(batch)} /\ Lines(txn') = Lines(txn)
        \/ lost' = lost \cup {Head(batch)} \cup Lines(txn) /\ Lines(txn') = {}
    BY <2>2, LinesOfEmpty
  <2>4. Lines(queue') = Lines(queue) /\ Lines(rows') = Lines(rows) BY <1>4 DEF InsertFails
  <2> QED BY <1>4, <2>1, <2>3, <2>4 DEF InsertFails, Known, Settled
<1>5. CASE Commit
  <2>1. rows' = rows \o txn /\ txn' = <<>> /\ UNCHANGED <<queue, batch, lost>>
    BY <1>5 DEF Commit
  <2>2. Lines(rows') = Lines(rows) \cup Lines(txn) /\ Lines(txn') = {}
    BY <2>1, LinesOfConcat, LinesOfEmpty
  <2>3. Lines(queue') = Lines(queue) /\ Lines(batch') = Lines(batch) BY <2>1
  <2> QED BY <1>5, <2>1, <2>2, <2>3 DEF Commit, Known, Settled
<1>6. CASE CommitFails
  <2>1. lost' = lost \cup Lines(txn) /\ txn' = <<>> /\ UNCHANGED <<queue, batch, rows>>
    BY <1>6 DEF CommitFails
  <2>2. Lines(txn') = {} BY <2>1, LinesOfEmpty
  <2>3. /\ Lines(queue') = Lines(queue) /\ Lines(batch') = Lines(batch)
        /\ Lines(rows') = Lines(rows)
    BY <2>1
  <2> QED BY <1>6, <2>1, <2>2, <2>3 DEF CommitFails, Known, Settled
<1> QED BY <1>1, <1>2, <1>3, <1>4, <1>5, <1>6 DEF Writer

\* No other step touches the lines.
LEMMA KnownFrame ==
  ASSUME UNCHANGED <<rows, txn, batch, queue, lost>>
  PROVE  Known' = Known /\ Settled' = Settled
BY DEF Known, Settled, Lines

\* A client that goes on to the lock has queued nothing as late as its new line.
LEMMA EnqueueFacts ==
  ASSUME ThreadTypes, LineTypes, ThreadInv, SaidInv, NEW c \in Client, Enqueue(c),
         Known' = Known
  PROVE  SaidInv'
<1>1. /\ said' = [said EXCEPT ![c] = @ + 1] /\ wpc' = wpc
      /\ \/ cpc' = [cpc EXCEPT ![c] = "push"] /\ db = "open"
         \/ cpc' = cpc /\ cpc[c] = "out"
  BY DEF Enqueue, ThreadTypes
<1>2. said \in [Client -> 0..MaxLines] /\ cpc \in [Client -> {"out", "push", "notify"}]
  BY DEF ThreadTypes
<1>3. /\ said[c] \in Nat /\ said'[c] = said[c] + 1
      /\ \A d \in Client \ {c} : said'[d] = said[d]
  BY <1>1, <1>2
<1>4. Known \subseteq Line BY LinesAreLines DEF Known, Settled, LineTypes
<1>5. \A l \in Known : l.by \in Client /\ l.n \in Nat BY <1>4 DEF Line
<1>6. \A l \in Known : l.n <= said[l.by] BY DEF SaidInv
<1>7. ASSUME NEW l \in Known PROVE l.n <= said'[l.by] /\ (l.by = c => l.n < said'[c])
  <2>1. CASE l.by = c BY <1>3, <1>5, <1>6, <2>1
  <2>2. CASE l.by # c BY <1>3, <1>5, <1>6, <2>2
  <2> QED BY <2>1, <2>2
<1>8. /\ \A d \in Client \ {c} : cpc'[d] = cpc[d]
      /\ cpc'[c] # "out" => wpc # "none"
  BY <1>1, <1>2 DEF ThreadInv
<1>9. ASSUME NEW d \in Client
      PROVE  /\ cpc'[d] = "push" =>
                   said'[d] # 0 /\ \A l \in Known : l.by = d => l.n < said'[d]
             /\ cpc'[d] # "out" => wpc' # "none"
  <2>1. CASE d = c BY <1>1, <1>3, <1>7, <1>8, <2>1
  <2>2. CASE d # c BY <1>1, <1>3, <1>8, <2>2 DEF SaidInv
  <2> QED BY <2>1, <2>2
<1> QED BY <1>7, <1>9 DEF SaidInv

LEMMA SaidStep == ThreadTypes /\ CountTypes /\ LineTypes /\ BatchInv /\ ThreadInv /\ SaidInv /\ [Next]_vars => SaidInv'
<1> SUFFICES ASSUME ThreadTypes, CountTypes, LineTypes, BatchInv, ThreadInv, SaidInv, [Next]_vars PROVE SaidInv'
  OBVIOUS
<1> USE DEF ThreadTypes, SaidInv, clients, stops, sqlite
<1>1. CASE UNCHANGED vars
  <2>1. Known' = Known /\ Settled' = Settled
    BY <1>1, KnownFrame DEF vars
  <2> QED BY <1>1, <2>1 DEF vars
<1>2. CASE Start
  <2>1. Known' = Known /\ Settled' = Settled
    BY <1>2, KnownFrame DEF Start
  <2> QED BY <1>2, <2>1 DEF Start
<1>3. CASE Interrupt
  <2>1. Known' = Known /\ Settled' = Settled
    BY <1>3, KnownFrame DEF Interrupt
  <2> QED BY <1>3, <2>1 DEF Interrupt
<1>4. CASE LeaveLoop
  <2>1. Known' = Known /\ Settled' = Settled
    BY <1>4, KnownFrame DEF LeaveLoop
  <2> QED BY <1>4, <2>1 DEF LeaveLoop
<1>5. CASE Take
  <2>1. Writer BY <1>5 DEF Writer
  <2> QED BY <1>5, <2>1, WriterKeeps DEF Take
<1>6. CASE SpuriousWake
  <2>1. Known' = Known /\ Settled' = Settled
    BY <1>6, KnownFrame DEF SpuriousWake
  <2> QED BY <1>6, <2>1 DEF SpuriousWake
<1>7. CASE Begin
  <2>1. Writer BY <1>7 DEF Writer
  <2> QED BY <1>7, <2>1, WriterKeeps DEF Begin
<1>8. CASE Insert
  <2>1. Writer BY <1>8 DEF Writer
  <2> QED BY <1>8, <2>1, WriterKeeps DEF Insert
<1>9. CASE InsertFails
  <2>1. Writer BY <1>9 DEF Writer
  <2> QED BY <1>9, <2>1, WriterKeeps DEF InsertFails
<1>10. CASE Commit
  <2>1. Writer BY <1>10 DEF Writer
  <2> QED BY <1>10, <2>1, WriterKeeps DEF Commit
<1>11. CASE CommitFails
  <2>1. Writer BY <1>11 DEF Writer
  <2> QED BY <1>11, <2>1, WriterKeeps DEF CommitFails
<1>12. CASE Ended
  <2>1. Known' = Known BY <1>12, KnownFrame DEF Ended, vars
  <2> QED BY <1>12, <2>1 DEF Ended, vars
<1>13. ASSUME NEW c \in Client, Enqueue(c) PROVE SaidInv'
  <2>1. Known' = Known BY <1>13, KnownFrame DEF Enqueue
  <2> HIDE DEF SaidInv, ThreadTypes
  <2>2. Enqueue(c) BY <1>13
  <2> QED BY <2>1, <2>2, EnqueueFacts
<1>14. ASSUME NEW c \in Client, Push(c) PROVE SaidInv'
  <2>1. cpc[c] = "push" /\ UNCHANGED <<said, wpc>> /\ cpc'[c] # "push"
        /\ \A d \in Client \ {c} : cpc'[d] = cpc[d]
    BY <1>14 DEF Push
  <2> QED BY <1>14, <2>1, PushFacts
<1>15. ASSUME NEW c \in Client, Notify(c) PROVE SaidInv'
  <2>1. Known' = Known /\ Settled' = Settled
    BY <1>15, KnownFrame DEF Notify
  <2> QED BY <1>15, <2>1 DEF Notify, Wake
<1>16. ASSUME NEW t \in Stopper, TestJoinable(t) PROVE SaidInv'
  <2>1. Known' = Known /\ Settled' = Settled
    BY <1>16, KnownFrame DEF TestJoinable
  <2> QED BY <1>16, <2>1 DEF TestJoinable
<1>17. ASSUME NEW t \in Stopper, RaiseStopping(t) PROVE SaidInv'
  <2>1. Known' = Known /\ Settled' = Settled
    BY <1>17, KnownFrame DEF RaiseStopping
  <2> QED BY <1>17, <2>1 DEF RaiseStopping
<1>18. ASSUME NEW t \in Stopper, NotifyStop(t) PROVE SaidInv'
  <2>1. Known' = Known /\ Settled' = Settled
    BY <1>18, KnownFrame DEF NotifyStop
  <2> QED BY <1>18, <2>1 DEF NotifyStop, Wake
<1>19. ASSUME NEW t \in Stopper, Join(t) PROVE SaidInv'
  <2>1. Known' = Known /\ Settled' = Settled
    BY <1>19, KnownFrame DEF Join
  <2> QED BY <1>19, <2>1 DEF Join
<1>20. ASSUME NEW t \in Stopper, Close(t) PROVE SaidInv'
  <2>1. Known' = Known /\ Settled' = Settled
    BY <1>20, KnownFrame DEF Close
  <2> QED BY <1>20, <2>1 DEF Close
<1>21. ASSUME NEW t \in Stopper, Exit(t) PROVE SaidInv'
  <2>1. Known' = Known /\ Settled' = Settled
    BY <1>21, KnownFrame DEF Exit
  <2> QED BY <1>21, <2>1 DEF Exit
<1>22. ASSUME NEW t \in Stopper, Clash(t) PROVE SaidInv'
  <2>1. Known' = Known /\ Settled' = Settled
    BY <1>22, KnownFrame DEF Clash
  <2> QED BY <1>22, <2>1 DEF Clash
<1> QED
  BY <1>1, <1>2, <1>3, <1>4, <1>5, <1>6, <1>7, <1>8, <1>9, <1>10, <1>11,
     <1>12, <1>13, <1>14, <1>15, <1>16, <1>17, <1>18, <1>19, <1>20, <1>21, <1>22
     DEF Next, Enqueuing, Writer, Stop

LEMMA OwedStep == ThreadTypes /\ CountTypes /\ LineTypes /\ BatchInv /\ ThreadInv /\ SaidInv /\ OwedInv /\ [Next]_vars => OwedInv'
<1> SUFFICES ASSUME ThreadTypes, CountTypes, LineTypes, BatchInv, ThreadInv, SaidInv, OwedInv, [Next]_vars PROVE OwedInv'
  OBVIOUS
<1> USE DEF OwedInv, clients, stops, sqlite
<1>1. CASE UNCHANGED vars
  <2>1. Known' = Known /\ Settled' = Settled
    BY <1>1, KnownFrame DEF vars
  <2> QED BY <1>1, <2>1 DEF vars
<1>2. CASE Start
  <2>1. Known' = Known /\ Settled' = Settled
    BY <1>2, KnownFrame DEF Start
  <2> QED BY <1>2, <2>1 DEF Start
<1>3. CASE Interrupt
  <2>1. Known' = Known /\ Settled' = Settled
    BY <1>3, KnownFrame DEF Interrupt
  <2> QED BY <1>3, <2>1 DEF Interrupt
<1>4. CASE LeaveLoop
  <2>1. Known' = Known /\ Settled' = Settled
    BY <1>4, KnownFrame DEF LeaveLoop
  <2> QED BY <1>4, <2>1 DEF LeaveLoop
<1>5. CASE Take
  <2>1. Writer BY <1>5 DEF Writer
  <2>2. wpc' \in {"none", "ended"} => queue = <<>> BY <1>5 DEF Take
  <2>3. batch = <<>> /\ txn = <<>> BY <1>5 DEF Take, BatchInv
  <2>4. queue = <<>> => Known = Settled BY <2>3, LinesOfEmpty DEF Known
  <2> QED BY <1>5, <2>1, <2>2, <2>4, WriterKeeps
<1>6. CASE SpuriousWake
  <2>1. Known' = Known /\ Settled' = Settled
    BY <1>6, KnownFrame DEF SpuriousWake
  <2> QED BY <1>6, <2>1 DEF SpuriousWake
<1>7. CASE Begin
  <2>1. Writer BY <1>7 DEF Writer
  <2> QED BY <1>7, <2>1, WriterKeeps DEF Begin
<1>8. CASE Insert
  <2>1. Writer BY <1>8 DEF Writer
  <2> QED BY <1>8, <2>1, WriterKeeps DEF Insert
<1>9. CASE InsertFails
  <2>1. Writer BY <1>9 DEF Writer
  <2> QED BY <1>9, <2>1, WriterKeeps DEF InsertFails
<1>10. CASE Commit
  <2>1. Writer BY <1>10 DEF Writer
  <2> QED BY <1>10, <2>1, WriterKeeps DEF Commit
<1>11. CASE CommitFails
  <2>1. Writer BY <1>11 DEF Writer
  <2> QED BY <1>11, <2>1, WriterKeeps DEF CommitFails
<1>12. CASE Ended
  <2>1. Known' = Known /\ Settled' = Settled
    BY <1>12, KnownFrame DEF Ended, vars
  <2> QED BY <1>12, <2>1 DEF Ended, vars
<1>13. ASSUME NEW c \in Client, Enqueue(c) PROVE OwedInv'
  <2>1. Known' = Known /\ Settled' = Settled
    BY <1>13, KnownFrame DEF Enqueue
  <2> QED BY <1>13, <2>1 DEF Enqueue
<1>14. ASSUME NEW c \in Client, Push(c) PROVE OwedInv'
  <2>1. wpc' = wpc /\ wpc # "none" /\ cpc[c] = "push" BY <1>14 DEF Push, SaidInv
  <2>2. Settled' = Settled BY <1>14 DEF Push, Settled, Lines, sqlite
  <2>3. wpc = "ended" => stopping BY DEF ThreadInv
  <2> QED BY <1>14, <2>1, <2>2, <2>3, PushFacts
<1>15. ASSUME NEW c \in Client, Notify(c) PROVE OwedInv'
  <2>1. Known' = Known /\ Settled' = Settled
    BY <1>15, KnownFrame DEF Notify
  <2> QED BY <1>15, <2>1 DEF Notify, Wake
<1>16. ASSUME NEW t \in Stopper, TestJoinable(t) PROVE OwedInv'
  <2>1. Known' = Known /\ Settled' = Settled
    BY <1>16, KnownFrame DEF TestJoinable
  <2> QED BY <1>16, <2>1 DEF TestJoinable
<1>17. ASSUME NEW t \in Stopper, RaiseStopping(t) PROVE OwedInv'
  <2>1. Known' = Known /\ Settled' = Settled
    BY <1>17, KnownFrame DEF RaiseStopping
  <2> QED BY <1>17, <2>1 DEF RaiseStopping
<1>18. ASSUME NEW t \in Stopper, NotifyStop(t) PROVE OwedInv'
  <2>1. Known' = Known /\ Settled' = Settled
    BY <1>18, KnownFrame DEF NotifyStop
  <2> QED BY <1>18, <2>1 DEF NotifyStop, Wake
<1>19. ASSUME NEW t \in Stopper, Join(t) PROVE OwedInv'
  <2>1. Known' = Known /\ Settled' = Settled
    BY <1>19, KnownFrame DEF Join
  <2> QED BY <1>19, <2>1 DEF Join
<1>20. ASSUME NEW t \in Stopper, Close(t) PROVE OwedInv'
  <2>1. Known' = Known /\ Settled' = Settled
    BY <1>20, KnownFrame DEF Close
  <2> QED BY <1>20, <2>1 DEF Close
<1>21. ASSUME NEW t \in Stopper, Exit(t) PROVE OwedInv'
  <2>1. Known' = Known /\ Settled' = Settled
    BY <1>21, KnownFrame DEF Exit
  <2> QED BY <1>21, <2>1 DEF Exit
<1>22. ASSUME NEW t \in Stopper, Clash(t) PROVE OwedInv'
  <2>1. Known' = Known /\ Settled' = Settled
    BY <1>22, KnownFrame DEF Clash
  <2> QED BY <1>22, <2>1 DEF Clash
<1> QED
  BY <1>1, <1>2, <1>3, <1>4, <1>5, <1>6, <1>7, <1>8, <1>9, <1>10, <1>11,
     <1>12, <1>13, <1>14, <1>15, <1>16, <1>17, <1>18, <1>19, <1>20, <1>21, <1>22
     DEF Next, Enqueuing, Writer, Stop

-----------------------------------------------------------------------------
(* The invariant and what follows from it.                                 *)

LEMMA InitInv == Init => IInv
<1> SUFFICES ASSUME Init PROVE IInv
  OBVIOUS
<1>1. TypeOK
  <2>1. ThreadTypes
    <3>1. /\ alive = TRUE /\ joinable = FALSE /\ stopping = FALSE
          /\ db = "null" /\ wpc = "none"
          /\ cpc = [c \in Client |-> "out"] /\ said = [c \in Client |-> 0]
      BY DEF Init
    <3>2. spc \in [Stopper -> {"boot", "out"}] BY DEF Init
    <3>3. /\ cpc \in [Client -> {"out", "push", "notify"}]
          /\ said \in [Client -> 0..MaxLines]
      BY <3>1
    <3>4. spc \in [Stopper -> {"boot", "serve", "out", "test", "raise", "notify",
                               "join", "close", "exit"}]
      BY <3>2
    <3> QED BY <3>1, <3>3, <3>4, Zenon DEF ThreadTypes
  <2>2. CountTypes
    <3>1. inTxn = FALSE /\ okCount = 0 /\ written = 0 /\ dropped = 0 /\ faults = 0
      BY DEF Init
    <3>2. 0 \in Nat /\ 0 \in 0..MaxFaults /\ FALSE \in BOOLEAN OBVIOUS
    <3> QED BY <3>1, <3>2, Zenon DEF CountTypes
  <2>3. LineTypes BY EmptySeq DEF LineTypes, Init
  <2> QED BY <2>1, <2>2, <2>3 DEF TypeOK
<1>2. ThreadInv BY DEF ThreadInv, Init
<1>3. BatchInv BY DEF BatchInv, WrittenIsStored, Init
<1>4. SaidInv BY LinesOfEmpty DEF SaidInv, Known, Settled, Init
<1>5. OwedInv BY DEF OwedInv, Init
<1> QED BY <1>1, <1>2, <1>3, <1>4, <1>5 DEF IInv

LEMMA StepInv == IInv /\ [Next]_vars => IInv'
BY ThreadTypesStep, CountTypesStep, LineTypesStep, ThreadStep, BatchStep, SaidStep,
   OwedStep DEF IInv, TypeOK

\* Every reachable state satisfies the inductive invariant.
THEOREM Inductive == Spec => []IInv
<1>1. Init => IInv BY InitInv
<1>2. IInv /\ [Next]_vars => IInv' BY StepInv
<1> QED BY <1>1, <1>2, PTL DEF Spec

\* Types, and the limit of the queue.
THEOREM TypeCorrect == Spec => []TypeOK
<1>1. IInv => TypeOK BY DEF IInv
<1> QED BY <1>1, Inductive, PTL

\* The writer never meets a closed database, whoever calls Stop.
THEOREM WriterSafety == Spec => []WriterHasDb
<1>1. IInv => WriterHasDb BY DEF IInv, ThreadInv, WriterHasDb
<1> QED BY <1>1, Inductive, PTL

\* Stop loses nothing that was queued before it asked the writer to stop.
THEOREM DrainSafety == Spec => []StopDrains
<1>1. IInv => StopDrains
  <2> SUFFICES ASSUME IInv PROVE StopDrains
    OBVIOUS
  <2> USE DEF IInv, TypeOK, ThreadInv, OwedInv
  <2>1. ASSUME NEW t \in Stopper, spc[t] = "exit" PROVE owed \subseteq Settled
    <3>1. wpc \in {"none", "ended"} BY <2>1 DEF ThreadTypes
    <3> QED BY <3>1
  <2>2. ASSUME ~alive PROVE owed \subseteq Settled BY <2>2
  <2> QED BY <2>1, <2>2 DEF StopDrains
<1> QED BY <1>1, Inductive, PTL

\* No row is counted that is not in the table.
THEOREM CountSafety == Spec => []WrittenIsStored
<1>1. IInv => WrittenIsStored BY DEF IInv, BatchInv
<1> QED BY <1>1, Inductive, PTL

-----------------------------------------------------------------------------
(***************************************************************************)
(* ChatLog implements AsyncLog: the transaction, the batch and the queue   *)
(* together are the pending lines, and each step of the threads moves,     *)
(* stores or loses a run of them, or changes nothing.                      *)
(***************************************************************************)


-----------------------------------------------------------------------------
(* Cutting a concatenation.                                                *)

LEMMA CutConcat ==
  ASSUME NEW S, NEW a \in Seq(S), NEW b \in Seq(S)
  PROVE  /\ SubSeq(a \o b, 1, Len(a)) = a
         /\ SubSeq(a \o b, Len(a) + 1, Len(a \o b)) = b
<1> DEFINE p == a \o b
           x == SubSeq(p, 1, Len(a))
           y == SubSeq(p, Len(a) + 1, Len(p))
<1>1. /\ p \in Seq(S) /\ Len(p) = Len(a) + Len(b)
      /\ \A i \in 1..Len(p) : p[i] = IF i <= Len(a) THEN a[i] ELSE b[i - Len(a)]
  BY ConcatProperties
<1>2. Len(a) \in Nat /\ Len(b) \in Nat OBVIOUS
<1> HIDE DEF p
<1>3. x \in Seq(S) /\ Len(x) = Len(a) /\ \A i \in 1..Len(a) : x[i] = p[i]
  BY <1>1, <1>2, SubSeqProperties
<1>4. y \in Seq(S) /\ Len(y) = Len(b) /\ \A i \in 1..Len(b) : y[i] = p[Len(a) + i]
  BY <1>1, <1>2, SubSeqProperties
<1> HIDE DEF x, y
<1>5. \A i \in 1..Len(x) : x[i] = a[i] BY <1>1, <1>2, <1>3
<1>6. x = a BY <1>3, <1>5, SeqEqual
<1>7. ASSUME NEW i \in 1..Len(y) PROVE y[i] = b[i]
  <2>1. Len(a) + i \in 1..Len(p) /\ ~(Len(a) + i <= Len(a)) /\ Len(a) + i - Len(a) = i
    BY <1>1, <1>2, <1>4
  <2>2. p[Len(a) + i] = b[Len(a) + i - Len(a)] BY <1>1, <2>1
  <2>3. y[i] = p[Len(a) + i] BY <1>4
  <2> QED BY <2>1, <2>2, <2>3
<1>8. y = b BY <1>4, <1>7, SeqEqual
<1> QED BY <1>6, <1>8 DEF p, x, y

\* A run in the middle: what stands before it, the run, and what comes after.
LEMMA CutMiddle ==
  ASSUME NEW S, NEW a \in Seq(S), NEW b \in Seq(S), NEW c \in Seq(S)
  PROVE  LET p == a \o (b \o c) IN
         /\ SubSeq(p, 1, Len(a)) = a
         /\ SubSeq(p, Len(a) + 1, Len(a) + Len(b)) = b
         /\ SubSeq(p, Len(a) + Len(b) + 1, Len(p)) = c
         /\ Len(p) = Len(a) + Len(b) + Len(c)
<1> DEFINE p == a \o (b \o c)
<1>1. b \o c \in Seq(S) /\ a \o b \in Seq(S) /\ Len(b \o c) = Len(b) + Len(c)
      /\ Len(a \o b) = Len(a) + Len(b)
  BY ConcatProperties
<1>2. p \in Seq(S) /\ Len(p) = Len(a) + Len(b) + Len(c)
  BY <1>1, ConcatProperties
<1>3. p = (a \o b) \o c BY ConcatAssociative, SMTT(30)
<1>4. SubSeq(p, 1, Len(a)) = a BY <1>1, CutConcat
<1>5. SubSeq(p, Len(a) + Len(b) + 1, Len(p)) = c BY <1>1, <1>3, CutConcat
<1>6. SubSeq(p, Len(a) + 1, Len(a) + Len(b)) = b
  <2> DEFINE y == SubSeq(p, Len(a) + 1, Len(a) + Len(b))
  <2>1. \A i \in 1..Len(b) : p[Len(a) + i] = b[i]
    BY <1>1, ConcatProperties
  <2>2. y \in Seq(S) /\ Len(y) = Len(b) /\ \A i \in 1..Len(b) : y[i] = p[Len(a) + i]
    <3> HIDE DEF p
    <3> QED BY <1>2, SubSeqProperties
  <2>3. \A i \in 1..Len(y) : y[i] = b[i] BY <2>1, <2>2
  <2> HIDE DEF y, p
  <2>4. y = b BY <2>2, <2>3, SeqEqual
  <2> QED BY <2>4 DEF y
<1> QED BY <1>2, <1>4, <1>5, <1>6

\* Appending at the end of a concatenation, and moving the head across.
LEMMA AppendConcat ==
  ASSUME NEW S, NEW a \in Seq(S), NEW b \in Seq(S), NEW e \in S
  PROVE  a \o Append(b, e) = Append(a \o b, e)
<1>1. <<e>> \in Seq(S) OBVIOUS
<1>2. Append(b, e) = b \o <<e>> BY AppendIsConcat
<1>3. a \o b \in Seq(S) BY ConcatProperties
<1>4. Append(a \o b, e) = (a \o b) \o <<e>> BY <1>3, AppendIsConcat
<1>5. (a \o b) \o <<e>> = a \o (b \o <<e>>) BY <1>1, ConcatAssociative
<1> QED BY <1>2, <1>4, <1>5

LEMMA HeadFirst ==
  ASSUME NEW S, NEW b \in Seq(S), b # <<>>
  PROVE  /\ Head(b) \in S /\ <<Head(b)>> \in Seq(S) /\ Len(<<Head(b)>>) = 1
         /\ Tail(b) \in Seq(S) /\ b = <<Head(b)>> \o Tail(b)
<1>1. Head(b) \in S /\ Tail(b) \in Seq(S) /\ Len(Tail(b)) = Len(b) - 1
      /\ \A i \in 1..Len(Tail(b)) : Tail(b)[i] = b[i + 1]
  BY HeadTailProperties
<1>2. <<Head(b)>> \in Seq(S) /\ Len(<<Head(b)>>) = 1 /\ <<Head(b)>>[1] = b[1]
  BY <1>1
<1> DEFINE p == <<Head(b)>> \o Tail(b)
<1>3. /\ p \in Seq(S) /\ Len(p) = Len(b)
      /\ \A i \in 1..Len(p) : p[i] = IF i <= 1 THEN <<Head(b)>>[i] ELSE Tail(b)[i - 1]
  BY <1>1, <1>2, ConcatProperties
<1>4. ASSUME NEW i \in 1..Len(p) PROVE p[i] = b[i]
  <2>1. CASE i = 1 BY <1>2, <1>3, <2>1
  <2>2. CASE i # 1
    <3>1. i - 1 \in 1..Len(Tail(b)) BY <1>1, <1>3, <2>2
    <3> QED BY <1>1, <1>3, <2>2, <3>1
  <2> QED BY <2>1, <2>2
<1>5. p = b
  <2> HIDE DEF p
  <2> QED BY <1>3, <1>4, SeqEqual
<1> QED BY <1>1, <1>2, <1>5

-----------------------------------------------------------------------------
(* Steps of the abstract log.                                              *)

LEMMA StoreStep ==
  ASSUME NEW a \in Seq(Line), NEW b \in Seq(Line), a # <<>>,
         Pending = a \o b, Pending' = b, rows' = rows \o a, lost' = lost,
         db = "open", db' = db
  PROVE  Log!Next
<1>1. Len(a) \in 1..Len(Pending) BY ConcatProperties
<1>2. SubSeq(Pending, 1, Len(a)) = a /\ SubSeq(Pending, Len(a) + 1, Len(Pending)) = b
  BY CutConcat
<1>3. Log!Store(Len(a)) BY <1>2 DEF Log!Store
<1> QED BY <1>1, <1>3 DEF Log!Next

LEMMA LoseStep ==
  ASSUME NEW a \in Seq(Line), NEW b \in Seq(Line), NEW c \in Seq(Line), b # <<>>,
         Pending = a \o (b \o c), Pending' = a \o c, lost' = lost \cup Lines(b),
         rows' = rows, db = "open", db' = db
  PROVE  Log!Next
<1> DEFINE i == Len(a) + 1
           j == Len(a) + Len(b)
<1>1. /\ SubSeq(Pending, 1, Len(a)) = a
      /\ SubSeq(Pending, i, j) = b
      /\ SubSeq(Pending, j + 1, Len(Pending)) = c
      /\ Len(Pending) = Len(a) + Len(b) + Len(c)
  BY CutMiddle
<1>2. Len(a) \in Nat /\ Len(b) \in Nat \ {0} /\ Len(c) \in Nat OBVIOUS
<1>3. i \in 1..Len(Pending) /\ j \in i..Len(Pending) /\ i - 1 = Len(a) BY <1>1, <1>2
<1>4. Log!Lines(b) = Lines(b) BY DEF Log!Lines, Lines
<1>5. Log!Lose(i, j)
  <2> HIDE DEF i, j
  <2> QED BY <1>1, <1>3, <1>4 DEF Log!Lose
<1> QED BY <1>3, <1>5 DEF Log!Next

\* Steps that change none of the lines, nor whether the database is open.
LEMMA Invisible ==
  ASSUME UNCHANGED <<db, rows, txn, batch, queue, lost>>
  PROVE  UNCHANGED Log!vars
BY DEF Log!vars, Pending

\* The pending lines are those that are known and not settled.
LEMMA PendingLines ==
  ASSUME LineTypes
  PROVE  /\ Pending \in Seq(Line) /\ txn \o batch \in Seq(Line)
         /\ Log!Accepted = Known
<1>1. txn \o batch \in Seq(Line) /\ Pending \in Seq(Line)
  BY ConcatProperties DEF LineTypes, Pending
<1>2. Lines(Pending) = Lines(txn) \cup Lines(batch) \cup Lines(queue)
  <2>1. /\ txn \in Seq(Line) /\ batch \in Seq(Line) /\ queue \in Seq(Line)
    BY DEF LineTypes
  <2>2. Lines(txn \o batch) = Lines(txn) \cup Lines(batch) BY <2>1, LinesOfConcat
  <2> DEFINE a == txn \o batch
  <2>3. Lines(a \o queue) = Lines(a) \cup Lines(queue)
    <3>1. a \in Seq(Line) BY <1>1
    <3> HIDE DEF a
    <3> QED BY <2>1, <3>1, LinesOfConcat
  <2> QED BY <2>2, <2>3 DEF Pending
<1>3. Log!Lines(rows) = Lines(rows) /\ Log!Lines(Pending) = Lines(Pending)
  BY DEF Log!Lines, Lines
<1> QED BY <1>1, <1>2, <1>3 DEF Log!Accepted, Known, Settled

LEMMA InitRefines == Init => Log!Init
BY EmptySeq, ConcatEmptySeq DEF Init, Log!Init, Pending

LEMMA StepRefines == IInv /\ [Next]_vars => [Log!Next]_(Log!vars)
<1> SUFFICES ASSUME IInv, [Next]_vars PROVE [Log!Next]_(Log!vars)
  OBVIOUS
<1> USE DEF IInv, TypeOK, clients, stops, sqlite
<1>t. /\ queue \in Seq(Line) /\ batch \in Seq(Line) /\ txn \in Seq(Line) /\ rows \in Seq(Line)
  BY DEF LineTypes
<1>p. Pending = txn \o (batch \o queue)
  BY <1>t, ConcatAssociative, SMTT(30) DEF Pending
<1>1. CASE UNCHANGED vars BY <1>1, Invisible DEF vars
<1>2. CASE Start
  <2>1. Pending' = Pending /\ rows' = rows /\ lost' = lost BY <1>2 DEF Start, Pending
  <2>2. db = "null" BY <1>2 DEF Start, ThreadInv
  <2>3. db' = "open" \/ db' = db BY <1>2 DEF Start
  <2> QED BY <2>1, <2>2, <2>3 DEF Log!Next, Log!Open, Log!vars
<1>3. CASE Interrupt BY <1>3, Invisible DEF Interrupt
<1>4. CASE LeaveLoop BY <1>4, Invisible DEF LeaveLoop
<1>5. CASE Take
  <2> DEFINE take == IF Len(queue) < kMaxBatchRows THEN Len(queue) ELSE kMaxBatchRows
  <2>1. take \in 0..Len(queue) BY <1>t
  <2>2. batch' = SubSeq(queue, 1, take) /\ queue' = SubSeq(queue, take + 1, Len(queue))
    BY <1>5 DEF Take
  <2>3. batch = <<>> /\ txn = <<>> BY <1>5 DEF Take, BatchInv
  <2>4. batch' \in Seq(Line) /\ queue' \in Seq(Line) BY <1>5, TakeFacts
  <2>5. batch' \o queue' = queue
    <3> DEFINE p == batch' \o queue'
    <3>1. /\ Len(batch') = take /\ Len(queue') = Len(queue) - take
          /\ \A i \in 1..take : batch'[i] = queue[i]
          /\ \A i \in 1..(Len(queue) - take) : queue'[i] = queue[take + i]
      <4> HIDE DEF take
      <4> QED BY <1>t, <2>1, <2>2, SubSeqProperties
    <3>2. /\ p \in Seq(Line) /\ Len(p) = Len(queue)
          /\ \A i \in 1..Len(p) : p[i] = IF i <= take THEN batch'[i] ELSE queue'[i - take]
      <4> HIDE DEF take
      <4> QED BY <1>t, <2>1, <2>4, <3>1, ConcatProperties
    <3>3. ASSUME NEW i \in 1..Len(p) PROVE p[i] = queue[i]
      <4> HIDE DEF take, p
      <4>1. CASE i <= take BY <1>t, <2>1, <3>1, <3>2, <4>1
      <4>2. CASE ~(i <= take)
        <5>1. i - take \in 1..(Len(queue) - take) /\ take + (i - take) = i
          BY <1>t, <2>1, <3>2, <4>2
        <5>2. p[i] = queue'[i - take] BY <3>2, <4>2
        <5> QED BY <3>1, <5>1, <5>2
      <4> QED BY <4>1, <4>2
    <3> HIDE DEF p
    <3>4. p = queue BY <1>t, <3>2, <3>3, SeqEqual
    <3> QED BY <3>4 DEF p
  <2>6. txn' = <<>> /\ UNCHANGED <<rows, lost, db>> BY <1>5, <2>3 DEF Take
  <2>7. Pending = queue BY <1>t, <1>p, <2>3, ConcatEmptySeq
  <2>8. Pending' = queue
    <3>1. (txn \o batch)' = batch' BY <2>4, <2>6, ConcatEmptySeq
    <3> QED BY <2>5, <3>1 DEF Pending
  <2> QED BY <2>6, <2>7, <2>8 DEF Log!vars
<1>6. CASE SpuriousWake BY <1>6, Invisible DEF SpuriousWake
<1>7. CASE Begin
  <2>1. CASE UNCHANGED <<batch, lost>> BY <1>7, <2>1, Invisible DEF Begin
  <2>2. CASE lost' = lost \cup Lines(batch) /\ batch' = <<>>
    <3>1. UNCHANGED <<db, rows, txn, queue>> /\ txn = <<>> /\ db = "open"
      BY <1>7 DEF Begin, BatchInv, ThreadInv
    <3>2. Pending' = <<>> \o queue
      BY <1>t, <2>2, <3>1, ConcatEmptySeq DEF Pending
    <3>3. CASE batch = <<>>
      BY <2>2, <3>1, <3>3, LinesOfEmpty, Invisible
    <3>4. CASE batch # <<>>
      BY <1>t, <1>p, <2>2, <3>1, <3>2, <3>4, LoseStep
    <3> QED BY <3>3, <3>4
  <2> QED BY <1>7, <2>1, <2>2 DEF Begin
<1>8. CASE Insert
  <2>1. /\ batch # <<>> /\ batch' = Tail(batch) /\ UNCHANGED <<db, queue, lost>> /\ db = "open"
    BY <1>8 DEF Insert, ThreadInv
  <2>2. /\ Head(batch) \in Line /\ <<Head(batch)>> \in Seq(Line) /\ <<Head(batch)>> # <<>>
        /\ Tail(batch) \in Seq(Line) /\ batch = <<Head(batch)>> \o Tail(batch)
    BY <1>t, <2>1, HeadFirst
  <2>3. CASE inTxn
    <3>1. txn' = txn \o <<Head(batch)>> /\ rows' = rows
      BY <1>8, <1>t, <2>2, <2>3, AppendIsConcat DEF Insert
    <3>2. txn' \o batch' = txn \o batch
      <4>1. txn \in Seq(Line) /\ <<Head(batch)>> \in Seq(Line) /\ Tail(batch) \in Seq(Line)
        BY <1>t, <2>2
      <4>2. (txn \o <<Head(batch)>>) \o Tail(batch) = txn \o (<<Head(batch)>> \o Tail(batch))
        BY <4>1, ConcatAssociative
      <4> QED BY <2>1, <2>2, <3>1, <4>2
    <3>3. Pending' = Pending BY <2>1, <3>2 DEF Pending
    <3> QED BY <2>1, <3>1, <3>3 DEF Log!vars
  <2>4. CASE ~inTxn
    <3>1. rows' = rows \o <<Head(batch)>> /\ txn' = txn /\ txn = <<>>
      BY <1>8, <1>t, <2>2, <2>4, AppendIsConcat DEF Insert, BatchInv
    <3>2. Tail(batch) \o queue \in Seq(Line) BY <1>t, <2>2, ConcatProperties
    <3>3. Pending = batch \o queue
      BY <1>t, <1>p, <3>1, ConcatProperties, ConcatEmptySeq
    <3>4. batch \o queue = <<Head(batch)>> \o (Tail(batch) \o queue)
      BY <1>t, <2>2, ConcatAssociative
    <3>5. Pending' = Tail(batch) \o queue
      BY <2>1, <2>2, <3>1, ConcatEmptySeq DEF Pending
    <3> QED BY <2>1, <2>2, <3>1, <3>2, <3>3, <3>4, <3>5, StoreStep
  <2> QED BY <2>3, <2>4
<1>9. CASE InsertFails
  <2> DEFINE h == <<Head(batch)>>
  <2>1. /\ batch # <<>> /\ batch' = Tail(batch)
        /\ UNCHANGED <<db, rows, queue>> /\ db = "open"
    BY <1>9 DEF InsertFails, ThreadInv
  <2>2. /\ h \in Seq(Line) /\ h # <<>> /\ Lines(h) = {Head(batch)}
        /\ Tail(batch) \in Seq(Line) /\ batch = h \o Tail(batch)
    BY <1>t, <2>1, HeadFirst DEF Lines
  <2> DEFINE c == Tail(batch) \o queue
  <2>3. c \in Seq(Line) /\ batch \o queue = h \o c
    BY <1>t, <2>2, ConcatProperties, ConcatAssociative
  <2>4. CASE lost' = lost \cup {Head(batch)} /\ txn' = txn
    <3>1. Pending' = txn \o c
      <4>1. Pending' = (txn \o Tail(batch)) \o queue BY <2>1, <2>4 DEF Pending
      <4>2. txn \in Seq(Line) /\ Tail(batch) \in Seq(Line) /\ queue \in Seq(Line)
        BY <1>t, <2>2
      <4>3. (txn \o Tail(batch)) \o queue = txn \o (Tail(batch) \o queue)
        BY <4>2, ConcatAssociative
      <4> QED BY <4>1, <4>3
    <3> HIDE DEF c, h
    <3> QED BY <1>t, <1>p, <2>1, <2>2, <2>3, <2>4, <3>1, LoseStep
  <2>5. CASE lost' = lost \cup {Head(batch)} \cup Lines(txn) /\ txn' = <<>>
    <3> DEFINE b == txn \o h
    <3>1. b \in Seq(Line) /\ Lines(b) = Lines(txn) \cup {Head(batch)} /\ b # <<>>
      <4> HIDE DEF h
      <4>1. h \in Seq(Line) /\ txn \in Seq(Line) /\ Len(h) # 0 BY <1>t, <2>2
      <4>2. b \in Seq(Line) /\ Len(b) = Len(txn) + Len(h) BY <4>1, ConcatProperties
      <4>3. Lines(b) = Lines(txn) \cup Lines(h) BY <4>1, LinesOfConcat
      <4>4. b # <<>> BY <4>1, <4>2
      <4> QED BY <2>2, <4>2, <4>3, <4>4
    <3>2. Pending = <<>> \o (b \o c)
      <4> HIDE DEF c, h
      <4>0. h \in Seq(Line) /\ c \in Seq(Line) /\ txn \in Seq(Line) BY <1>t, <2>2, <2>3
      <4>1. b \o c = txn \o (h \o c) BY <4>0, ConcatAssociative
      <4>2. b \o c \in Seq(Line) BY <2>3, <3>1, ConcatProperties
      <4> QED BY <1>p, <2>3, <4>1, <4>2, ConcatEmptySeq
    <3>3. Pending' = <<>> \o c
      BY <2>1, <2>2, <2>3, <2>5, ConcatEmptySeq DEF Pending
    <3>4. <<>> \in Seq(Line) BY EmptySeq
    <3> HIDE DEF b, c, h
    <3> QED BY <2>1, <2>3, <2>5, <3>1, <3>2, <3>3, <3>4, LoseStep
  <2> QED BY <1>9, <2>4, <2>5 DEF InsertFails
<1>10. CASE Commit
  <2>1. /\ rows' = rows \o txn /\ txn' = <<>> /\ batch = <<>>
        /\ UNCHANGED <<db, batch, queue, lost>> /\ db = "open"
    BY <1>10 DEF Commit, ThreadInv
  <2>2. Pending = txn \o queue /\ Pending' = queue
    BY <1>t, <2>1, ConcatEmptySeq DEF Pending
  <2>3. CASE txn = <<>>
    BY <1>t, <2>1, <2>2, <2>3, ConcatEmptySeq DEF Log!vars
  <2>4. CASE txn # <<>> BY <1>t, <2>1, <2>2, <2>4, StoreStep
  <2> QED BY <2>3, <2>4
<1>11. CASE CommitFails
  <2>1. /\ lost' = lost \cup Lines(txn) /\ txn' = <<>> /\ batch = <<>>
        /\ UNCHANGED <<db, batch, queue, rows>> /\ db = "open"
    BY <1>11 DEF CommitFails, ThreadInv
  <2>2. Pending = txn \o queue /\ Pending' = queue
    BY <1>t, <2>1, ConcatEmptySeq DEF Pending
  <2>3. CASE txn = <<>>
    BY <2>1, <2>2, <2>3, LinesOfEmpty, Invisible
  <2>4. CASE txn # <<>>
    <3>1. <<>> \in Seq(Line) BY EmptySeq
    <3>2. Pending = <<>> \o (txn \o queue) /\ Pending' = <<>> \o queue
      BY <1>t, <2>2, ConcatProperties, ConcatEmptySeq
    <3> QED BY <1>t, <2>1, <2>4, <3>1, <3>2, LoseStep
  <2> QED BY <2>3, <2>4
<1>12. CASE Ended BY <1>12, Invisible DEF Ended, vars
<1>13. ASSUME NEW c \in Client, Enqueue(c) PROVE UNCHANGED Log!vars
  BY <1>13, Invisible DEF Enqueue
<1>14. ASSUME NEW c \in Client, Push(c) PROVE [Log!Next]_(Log!vars)
  <2>1. TheLine(c) \in Line /\ TheLine(c).by = c /\ TheLine(c).n = said[c]
    BY <1>14, PushFacts
  <2>2. UNCHANGED <<db, rows, txn, batch, lost>> /\ cpc[c] = "push" BY <1>14 DEF Push
  <2>3. CASE queue' = queue BY <2>2, <2>3, Invisible
  <2>4. CASE queue' = Append(queue, TheLine(c))
    <3>1. txn \o batch \in Seq(Line) /\ Log!Accepted = Known BY PendingLines
    <3>2. Pending' = Append(Pending, TheLine(c))
      BY <1>t, <2>1, <2>2, <2>4, <3>1, AppendConcat DEF Pending
    <3>3. \A m \in Known : m.by = c => m.n < said[c] BY <2>2 DEF SaidInv
    <3>4. Log!Accept(TheLine(c))
      BY <2>1, <2>2, <3>1, <3>2, <3>3 DEF Log!Accept
    <3>5. TheLine(c) \in Log!Line BY <2>1 DEF Line, Log!Line
    <3> QED BY <3>4, <3>5 DEF Log!Next
  <2> QED BY <1>14, <2>3, <2>4 DEF Push
<1>15. ASSUME NEW c \in Client, Notify(c) PROVE UNCHANGED Log!vars
  BY <1>15, Invisible DEF Notify
<1>16. ASSUME NEW t \in Stopper, TestJoinable(t) PROVE UNCHANGED Log!vars
  BY <1>16, Invisible DEF TestJoinable
<1>17. ASSUME NEW t \in Stopper, RaiseStopping(t) PROVE UNCHANGED Log!vars
  BY <1>17, Invisible DEF RaiseStopping
<1>18. ASSUME NEW t \in Stopper, NotifyStop(t) PROVE UNCHANGED Log!vars
  BY <1>18, Invisible DEF NotifyStop
<1>19. ASSUME NEW t \in Stopper, Join(t) PROVE UNCHANGED Log!vars
  BY <1>19, Invisible DEF Join
<1>20. ASSUME NEW t \in Stopper, Close(t) PROVE [Log!Next]_(Log!vars)
  <2>1. Pending' = Pending /\ rows' = rows /\ lost' = lost BY <1>20 DEF Close, Pending
  <2>2. db' = "null" /\ db \in {"null", "open"} BY <1>20 DEF Close, ThreadTypes
  <2> QED BY <2>1, <2>2 DEF Log!Next, Log!Close, Log!vars
<1>21. ASSUME NEW t \in Stopper, Exit(t) PROVE UNCHANGED Log!vars
  BY <1>21, Invisible DEF Exit
<1>22. ASSUME NEW t \in Stopper, Clash(t) PROVE UNCHANGED Log!vars
  BY <1>22, Invisible DEF Clash
<1> QED
  BY <1>1, <1>2, <1>3, <1>4, <1>5, <1>6, <1>7, <1>8, <1>9, <1>10, <1>11,
     <1>12, <1>13, <1>14, <1>15, <1>16, <1>17, <1>18, <1>19, <1>20, <1>21, <1>22
     DEF Next, Enqueuing, Writer, Stop

\* With its threads, batches and transactions the chat log does what AsyncLog
\* says: each line stored at most once, in order, while the log is open.
THEOREM Implementation == Spec => ImplementsLog
<1>1. Init => Log!Init BY InitRefines
<1>2. IInv /\ [Next]_vars => [Log!Next]_(Log!vars) BY StepRefines
<1> QED BY <1>1, <1>2, Inductive, PTL DEF Spec, ImplementsLog, Log!Spec

-----------------------------------------------------------------------------
(* The order of the lines.                                                 *)

\* What is left of an ordered sequence is ordered.
LEMMA OrderedCut ==
  ASSUME NEW p \in Seq(Line), Ordered(p),
         NEW u \in Nat, NEW v \in Nat, u + v <= Len(p),
         NEW q \in Seq(Line), Len(q) = Len(p) - v,
         \A x \in 1..Len(q) : q[x] = IF x <= u THEN p[x] ELSE p[x + v]
  PROVE  Ordered(q)
<1> SUFFICES ASSUME NEW x \in 1..Len(q), NEW y \in 1..Len(q),
                    x < y, q[x].by = q[y].by
             PROVE  q[x].n < q[y].n
  BY DEF Ordered
<1> DEFINE f(z) == IF z <= u THEN z ELSE z + v
<1>1. Len(p) \in Nat /\ Len(q) \in Nat OBVIOUS
<1>2. f(x) \in 1..Len(p) /\ f(y) \in 1..Len(p) /\ f(x) < f(y) BY <1>1
<1>3. q[x] = p[f(x)] /\ q[y] = p[f(y)] OBVIOUS
<1> HIDE DEF f
<1> QED BY <1>2, <1>3 DEF Ordered

\* An ordered sequence stays ordered when a later line comes last.
LEMMA OrderedAppend ==
  ASSUME NEW p \in Seq(Line), Ordered(p), NEW l \in Line,
         \A m \in Lines(p) : m.by = l.by => m.n < l.n
  PROVE  Ordered(Append(p, l))
<1> DEFINE q == Append(p, l)
<1>1. /\ Len(q) = Len(p) + 1 /\ Len(p) \in Nat
      /\ \A x \in 1..Len(p) : q[x] = p[x]
      /\ q[Len(p) + 1] = l
  BY AppendProperties
<1> HIDE DEF q
<1> SUFFICES ASSUME NEW x \in 1..Len(q), NEW y \in 1..Len(q),
                    x < y, q[x].by = q[y].by
             PROVE  q[x].n < q[y].n
  BY DEF Ordered, q
<1>2. x \in 1..Len(p) BY <1>1
<1>3. CASE y \in 1..Len(p) BY <1>1, <1>2, <1>3 DEF Ordered
<1>4. CASE y = Len(p) + 1 BY <1>1, <1>2, <1>4 DEF Lines
<1> QED BY <1>1, <1>3, <1>4

\* Moving the first k lines of d to the end of r changes nothing.
LEMMA CutPrefix ==
  ASSUME NEW S, NEW r \in Seq(S), NEW d \in Seq(S), NEW k \in 1..Len(d)
  PROVE  (r \o SubSeq(d, 1, k)) \o SubSeq(d, k + 1, Len(d)) = r \o d
<1> DEFINE a == SubSeq(d, 1, k)
           b == SubSeq(d, k + 1, Len(d))
<1>1. k \in Nat /\ Len(d) \in Nat /\ 1 <= k /\ k <= Len(d) OBVIOUS
<1>2. /\ a \in Seq(S) /\ Len(a) = k
      /\ \A x \in 1..k : a[x] = d[x]
  BY <1>1, SubSeqProperties
<1>3. /\ b \in Seq(S) /\ Len(b) = Len(d) - k
      /\ \A x \in 1..(Len(d) - k) : b[x] = d[k + x]
  BY <1>1, SubSeqProperties
<1>4. a \o b = d
  <2> DEFINE e == a \o b
  <2> HIDE DEF a, b
  <2>1. /\ e \in Seq(S) /\ Len(e) = Len(a) + Len(b)
        /\ \A x \in 1..Len(a) + Len(b) :
             e[x] = IF x <= Len(a) THEN a[x] ELSE b[x - Len(a)]
    BY <1>2, <1>3, ConcatProperties
  <2> HIDE DEF e
  <2>2. Len(e) = Len(d) BY <1>1, <1>2, <1>3, <2>1
  <2>3. ASSUME NEW x \in 1..Len(e) PROVE e[x] = d[x]
    <3>1. x \in 1..Len(a) + Len(b) BY <2>1
    <3>2. CASE x <= k
      <4>1. e[x] = a[x] BY <1>2, <2>1, <3>1, <3>2
      <4>2. x \in 1..k BY <1>1, <3>1, <3>2
      <4> QED BY <1>2, <4>1, <4>2
    <3>3. CASE ~(x <= k)
      <4>1. x - k \in 1..(Len(d) - k) /\ k + (x - k) = x BY <1>1, <2>2, <3>3
      <4>2. e[x] = b[x - k] BY <1>2, <2>1, <3>1, <3>3
      <4>3. b[x - k] = d[k + (x - k)] BY <1>3, <4>1
      <4> QED BY <4>1, <4>2, <4>3
    <3> QED BY <3>2, <3>3
  <2>4. e = d BY <2>1, <2>2, <2>3, SeqEqual
  <2> QED BY <2>4 DEF e
<1> HIDE DEF a, b
<1>5. (r \o a) \o b = r \o (a \o b)
  <2>1. a \in Seq(S) /\ b \in Seq(S) BY <1>2, <1>3
  <2> QED BY <2>1, ConcatAssociative, SMTT(30)
<1> QED BY <1>4, <1>5 DEF a, b

\* Cutting a run out of d keeps r \o d in order.
LEMMA CutRun ==
  ASSUME NEW r \in Seq(Line), NEW d \in Seq(Line),
         NEW i \in 1..Len(d), NEW j \in i..Len(d), Ordered(r \o d)
  PROVE  Ordered(r \o (SubSeq(d, 1, i - 1) \o SubSeq(d, j + 1, Len(d))))
<1> DEFINE a == SubSeq(d, 1, i - 1)
           b == SubSeq(d, j + 1, Len(d))
           e == a \o b
           p == r \o d
           q == r \o e
           v == j - i + 1
           u == Len(r) + i - 1
<1>1. /\ i \in Nat \ {0} /\ j \in Nat /\ i <= j /\ j <= Len(d)
      /\ Len(d) \in Nat /\ Len(r) \in Nat
  OBVIOUS
<1>2. /\ p \in Seq(Line) /\ Len(p) = Len(r) + Len(d)
      /\ \A x \in 1..Len(r) + Len(d) :
           p[x] = IF x <= Len(r) THEN r[x] ELSE d[x - Len(r)]
  BY ConcatProperties
<1>3. Ordered(p) OBVIOUS
<1>4. /\ a \in Seq(Line) /\ Len(a) = i - 1
      /\ \A x \in 1..(i - 1) : a[x] = d[x]
  BY <1>1, SubSeqProperties
<1>5. /\ b \in Seq(Line) /\ Len(b) = Len(d) - j
      /\ \A x \in 1..(Len(d) - j) : b[x] = d[j + x]
  BY <1>1, SubSeqProperties
<1> HIDE DEF a, b, p
<1>6. /\ e \in Seq(Line) /\ Len(e) = Len(a) + Len(b)
      /\ \A x \in 1..Len(a) + Len(b) :
           e[x] = IF x <= Len(a) THEN a[x] ELSE b[x - Len(a)]
  <2>1. a \in Seq(Line) /\ b \in Seq(Line) BY <1>4, <1>5
  <2> QED BY <2>1, ConcatProperties
<1> HIDE DEF e
<1>7. /\ q \in Seq(Line) /\ Len(q) = Len(r) + Len(e)
      /\ \A x \in 1..Len(r) + Len(e) :
           q[x] = IF x <= Len(r) THEN r[x] ELSE e[x - Len(r)]
  <2>1. e \in Seq(Line) BY <1>6
  <2> QED BY <2>1, ConcatProperties
<1> HIDE DEF q
<1>8. /\ Len(q) = Len(r) + (Len(d) - (j - i + 1)) /\ Len(a) = i - 1
      /\ Len(e) = Len(d) - (j - i + 1) /\ Len(p) = Len(r) + Len(d)
  <2>1. Len(e) = (i - 1) + (Len(d) - j) BY <1>4, <1>5, <1>6
  <2> QED BY <1>1, <1>2, <1>4, <1>7, <2>1
<1>9. Len(q) = Len(p) - v /\ u \in Nat /\ v \in Nat /\ u + v <= Len(p)
  BY <1>1, <1>8
<1>10. ASSUME NEW x \in 1..Len(q) PROVE q[x] = IF x <= u THEN p[x] ELSE p[x + v]
  <2>1. x \in 1..Len(r) + Len(e) /\ x \in Nat BY <1>7
  <2>2. CASE x <= Len(r)
    <3>1. x <= u /\ x \in 1..Len(r) + Len(d) BY <1>1, <2>1, <2>2
    <3>2. q[x] = r[x] BY <1>7, <2>1, <2>2
    <3>3. p[x] = r[x] BY <1>2, <2>2, <3>1
    <3> QED BY <3>1, <3>2, <3>3
  <2>3. CASE ~(x <= Len(r)) /\ x <= u
    <3> DEFINE z == x - Len(r)
    <3>1. /\ z \in 1..(i - 1) /\ z <= Len(a) /\ z \in 1..Len(a) + Len(b)
          /\ x \in 1..Len(r) + Len(d)
      <4>1. x > Len(r) /\ x <= Len(r) + i - 1 BY <1>1, <2>1, <2>3
      <4>2. Len(a) = i - 1 /\ Len(b) \in Nat BY <1>4, <1>5
      <4> QED BY <1>1, <2>1, <4>1, <4>2
    <3>2. q[x] = e[z] BY <1>7, <2>1, <2>3
    <3>3. p[x] = d[z] BY <1>2, <2>3, <3>1
    <3> HIDE DEF z
    <3>4. e[z] = a[z] BY <1>6, <3>1
    <3>5. a[z] = d[z] BY <1>4, <3>1
    <3> QED BY <2>3, <3>2, <3>3, <3>4, <3>5
  <2>4. CASE ~(x <= Len(r)) /\ ~(x <= u)
    <3> DEFINE z == x - Len(r) - (i - 1)
               w == x - Len(r)
               y == x + v
    <3>1. x > Len(r) + i - 1 /\ x <= Len(r) + Len(d) - (j - i + 1)
      BY <1>1, <1>8, <2>1, <2>4
    <3>2. /\ z \in 1..(Len(d) - j) /\ w - Len(a) = z
          /\ w \in 1..Len(a) + Len(b) /\ ~(w <= Len(a))
      <4>1. Len(a) = i - 1 /\ Len(b) = Len(d) - j BY <1>4, <1>5
      <4> QED BY <1>1, <2>1, <3>1, <4>1
    <3>3. y \in 1..Len(r) + Len(d) /\ ~(y <= Len(r)) /\ y - Len(r) = j + z
      BY <1>1, <2>1, <3>1
    <3>4. q[x] = e[w] BY <1>7, <2>1, <2>4
    <3> HIDE DEF w, y, z
    <3>5. e[w] = b[z] BY <1>6, <3>2
    <3>6. b[z] = d[j + z] BY <1>5, <3>2
    <3>7. p[y] = d[j + z] BY <1>2, <3>3
    <3> QED BY <2>4, <3>4, <3>5, <3>6, <3>7 DEF y
  <2> QED BY <2>2, <2>3, <2>4
<1> HIDE DEF u, v
<1>11. Ordered(q)
  <2>1. p \in Seq(Line) /\ q \in Seq(Line) BY <1>2, <1>7
  <2> QED BY <2>1, <1>3, <1>9, <1>10, OrderedCut
<1> QED BY <1>11 DEF q, e, a, b

LEMMA OrderStep == IInv /\ OrderKept /\ [Next]_vars => OrderKept'
<1> SUFFICES ASSUME IInv, OrderKept, [Next]_vars PROVE OrderKept'
  OBVIOUS
<1> DEFINE r == rows
           d == Pending
           p == r \o d
<1>1. r \in Seq(Line) /\ d \in Seq(Line)
  BY PendingLines DEF IInv, TypeOK, LineTypes
<1>2. /\ p \in Seq(Line) /\ Len(p) = Len(r) + Len(d)
      /\ \A x \in 1..Len(p) : p[x] = IF x <= Len(r) THEN r[x] ELSE d[x - Len(r)]
  BY <1>1, ConcatProperties
<1>3. Ordered(p) BY DEF OrderKept, Pipeline
<1>4. Pipeline' = rows' \o Pending' BY DEF Pipeline
<1>5. [Log!Next]_(Log!vars) BY StepRefines
<1>6. CASE UNCHANGED Log!vars
  BY <1>3, <1>4, <1>6 DEF Log!vars, OrderKept
<1>7. CASE Log!Open \/ Log!Close
  BY <1>3, <1>4, <1>7 DEF Log!Open, Log!Close, OrderKept
<1>8. ASSUME NEW l \in Log!Line, Log!Accept(l) PROVE OrderKept'
  <2>1. l \in Line BY DEF Log!Line, Line
  <2>2. \A m \in Known : m.by = l.by => m.n < l.n
    BY <1>8, PendingLines DEF Log!Accept, IInv, TypeOK
  <2>3. Lines(p) = Lines(r) \cup Lines(d) BY <1>1, LinesOfConcat
  <2>4. Lines(r) \cup Lines(d) \subseteq Known
    <3>1. Log!Accepted = Known BY PendingLines DEF IInv, TypeOK
    <3> QED BY <3>1 DEF Log!Accepted, Log!Lines, Lines
  <2>5. Pipeline' = Append(p, l)
    <3>1. rows' = r /\ Pending' = Append(d, l) BY <1>8 DEF Log!Accept
    <3> HIDE DEF r, d
    <3> QED BY <1>1, <1>4, <2>1, <3>1, AppendConcat
  <2> HIDE DEF p
  <2>6. Ordered(Append(p, l)) BY <1>2, <1>3, <2>1, <2>2, <2>3, <2>4, OrderedAppend
  <2> QED BY <2>5, <2>6 DEF OrderKept
<1>9. ASSUME NEW k \in 1..Len(Pending), Log!Store(k) PROVE OrderKept'
  <2> DEFINE a == SubSeq(d, 1, k)
             b == SubSeq(d, k + 1, Len(d))
  <2>1. rows' = r \o a /\ Pending' = b BY <1>9 DEF Log!Store
  <2>2. k \in 1..Len(d) OBVIOUS
  <2> HIDE DEF d, r
  <2>3. (r \o a) \o b = r \o d BY <1>1, <2>2, CutPrefix
  <2> QED BY <1>3, <1>4, <2>1, <2>3 DEF OrderKept
<1>10. ASSUME NEW i \in 1..Len(Pending), NEW j \in i..Len(Pending), Log!Lose(i, j)
       PROVE  OrderKept'
  <2> DEFINE e == SubSeq(d, 1, i - 1) \o SubSeq(d, j + 1, Len(d))
  <2>1. rows' = r /\ Pending' = e BY <1>10 DEF Log!Lose
  <2>2. i \in 1..Len(d) /\ j \in i..Len(d) OBVIOUS
  <2> HIDE DEF d, r
  <2>3. Ordered(r \o e) BY <1>1, <1>3, <2>2, CutRun
  <2> QED BY <1>4, <2>1, <2>3 DEF OrderKept
<1> QED BY <1>5, <1>6, <1>7, <1>8, <1>9, <1>10 DEF Log!Next

\* Each person's lines are stored, or wait, in the order they were said.
THEOREM OrderSafety == Spec => []OrderKept
<1>1. Init => OrderKept
  BY EmptySeq, ConcatEmptySeq DEF Init, OrderKept, Ordered, Pipeline, Pending
<1>2. IInv /\ OrderKept /\ [Next]_vars => OrderKept' BY OrderStep
<1> QED BY <1>1, <1>2, Inductive, PTL DEF Spec

-----------------------------------------------------------------------------
(* Every line is accounted for, in one place.                              *)

\* A sequence has at most as many lines as it is long; as many as that if no
\* line is in it twice, and in order none is.
LEMMA LinesCounted ==
  ASSUME NEW q \in Seq(Line)
  PROVE  /\ IsFiniteSet(Lines(q)) /\ Cardinality(Lines(q)) \in Nat
         /\ Cardinality(Lines(q)) <= Len(q)
         /\ Ordered(q) => Cardinality(Lines(q)) = Len(q)
<1> DEFINE at == [i \in 1..Len(q) |-> q[i]]
<1>1. at \in Surjection(1..Len(q), Lines(q)) BY DEF Surjection, Lines
<1>2. IsFiniteSet(1..Len(q)) /\ Cardinality(1..Len(q)) = Len(q) /\ Len(q) \in Nat
  <2>1. Len(q) \in Nat /\ (IF 1 > Len(q) THEN 0 ELSE Len(q) - 1 + 1) = Len(q) OBVIOUS
  <2> QED BY <2>1, FS_Interval
<1>3. /\ IsFiniteSet(Lines(q)) /\ Cardinality(Lines(q)) <= Len(q)
      /\ Cardinality(Lines(q)) = Len(q) <=> at \in Injection(1..Len(q), Lines(q))
  <2> HIDE DEF at
  <2>1. /\ IsFiniteSet(Lines(q)) /\ Cardinality(Lines(q)) <= Cardinality(1..Len(q))
        /\ (Cardinality(Lines(q)) = Cardinality(1..Len(q))) <=> (at \in Injection(1..Len(q), Lines(q)))
    BY <1>1, <1>2, FS_Surjection
  <2> QED BY <1>2, <2>1
<1>4. ASSUME Ordered(q) PROVE at \in Injection(1..Len(q), Lines(q))
  <2>1. at \in [1..Len(q) -> Lines(q)] BY DEF Lines
  <2>2. ASSUME NEW i \in 1..Len(q), NEW j \in 1..Len(q), i < j PROVE q[i] # q[j]
    <3>1. q[i] \in Line OBVIOUS
    <3>2. q[i].n \in Nat BY <3>1, LogAssumption DEF Line, LogAssumption
    <3> QED BY <1>4, <2>2, <3>2 DEF Ordered
  <2>3. ASSUME NEW i \in 1..Len(q), NEW j \in 1..Len(q), at[i] = at[j] PROVE i = j
    <3>1. q[i] = q[j] BY <2>3
    <3>2. ~(i < j) /\ ~(j < i) BY <2>2, <3>1
    <3> QED BY <1>2, <3>2
  <2> HIDE DEF at
  <2> QED BY <2>1, <2>3 DEF Injection, IsInjective
<1> QED BY <1>3, <1>4, FS_CardinalityType

LEMMA LinesFinite == IsFiniteSet(Line)
<1> DEFINE pairs == Client \X (1..MaxLines)
           line == [p \in pairs |-> [by |-> p[1], n |-> p[2]]]
<1>1. IsFiniteSet(1..MaxLines) BY FS_Interval DEF LogAssumption
<1>2. IsFiniteSet(pairs) BY <1>1, FS_Product DEF LogAssumption
<1>3. line \in Surjection(pairs, Line)
  <2>1. line \in [pairs -> Line] BY DEF Line
  <2>2. ASSUME NEW l \in Line PROVE \E p \in pairs : line[p] = l
    <3>1. <<l.by, l.n>> \in pairs /\ line[<<l.by, l.n>>] = l BY DEF Line
    <3> QED BY <3>1
  <2> HIDE DEF line, pairs
  <2> QED BY <2>1, <2>2 DEF Surjection
<1> QED
  <2> HIDE DEF line, pairs
  <2> QED BY <1>2, <1>3, FS_Surjection

\* What is known is in the pipeline or lost.
LEMMA KnownCounted ==
  ASSUME LineTypes
  PROVE  /\ Pipeline \in Seq(Line) /\ Len(Pipeline) \in Nat
         /\ Known = Lines(Pipeline) \cup lost /\ Known \subseteq Line
         /\ IsFiniteSet(Known) /\ Cardinality(Known) \in Nat
         /\ IsFiniteSet(lost) /\ Cardinality(lost) \in Nat
         /\ Cardinality(Known) <= Cardinality(Lines(Pipeline)) + Cardinality(lost)
         /\ Cardinality(Known) = Cardinality(Lines(Pipeline)) + Cardinality(lost)
              => Lines(Pipeline) \cap lost = {}
<1>1. rows \in Seq(Line) /\ Pending \in Seq(Line) /\ lost \subseteq Line
  BY PendingLines DEF LineTypes
<1>2. Pipeline \in Seq(Line) /\ Len(Pipeline) \in Nat
  BY <1>1, ConcatProperties DEF Pipeline
<1>3. Lines(Pipeline) = Lines(rows) \cup Lines(Pending)
  BY <1>1, LinesOfConcat DEF Pipeline
<1>4. Known = Lines(rows) \cup Lines(Pending) \cup lost
  BY PendingLines DEF Log!Accepted, Log!Lines, Lines
<1>5. Known = Lines(Pipeline) \cup lost BY <1>3, <1>4
<1>6. Known \subseteq Line BY <1>1, <1>2, <1>5, LinesAreLines
<1>7. IsFiniteSet(Known) /\ IsFiniteSet(lost) /\ IsFiniteSet(Lines(Pipeline))
  BY <1>1, <1>2, <1>6, LinesFinite, LinesCounted, FS_Subset
<1> DEFINE both == Lines(Pipeline) \cap lost
<1>8. /\ Cardinality(Known) \in Nat /\ Cardinality(lost) \in Nat
      /\ Cardinality(Lines(Pipeline)) \in Nat
      /\ IsFiniteSet(both) /\ Cardinality(both) \in Nat
  BY <1>7, FS_CardinalityType, FS_Intersection
<1>9. Cardinality(Known)
        = Cardinality(Lines(Pipeline)) + Cardinality(lost) - Cardinality(both)
  BY <1>5, <1>7, FS_Union
<1>10. Cardinality(both) = 0 => both = {} BY <1>8, FS_EmptySet
<1> HIDE DEF both
<1>11. Cardinality(Known) <= Cardinality(Lines(Pipeline)) + Cardinality(lost)
  BY <1>8, <1>9
<1>12. Cardinality(Known) = Cardinality(Lines(Pipeline)) + Cardinality(lost) => both = {}
  BY <1>8, <1>9, <1>10
<1> QED BY <1>2, <1>5, <1>6, <1>7, <1>8, <1>11, <1>12 DEF both

\* The lines said, and the clients that hold one that is not counted yet.
Uttered == {l \in Line : l.n <= said[l.by]}
Busy == {c \in Client : cpc[c] = "push"}

\* Accounting, in the form that a step preserves: the places overlap nowhere,
\* since together they have as many lines as they are long.
Counted == Cardinality(Uttered) = Cardinality(Busy) + dropped + Cardinality(Known)
Everything == Lines(Pipeline) \cup lost
Separate == Len(Pipeline) + Cardinality(lost) <= Cardinality(Everything)

LEMMA CountsAreFinite ==
  /\ IsFiniteSet(Uttered) /\ Cardinality(Uttered) \in Nat
  /\ IsFiniteSet(Busy) /\ Cardinality(Busy) \in Nat
<1>1. Uttered \in SUBSET Line /\ Busy \in SUBSET Client BY DEF Uttered, Busy
<1> QED BY <1>1, LinesFinite, FS_Subset, FS_CardinalityType DEF LogAssumption

LEMMA AccountingFollows ==
  ASSUME TypeOK, OrderKept, Counted, Separate PROVE Accounting
<1>1. /\ Pipeline \in Seq(Line) /\ Len(Pipeline) \in Nat
      /\ Cardinality(Known) \in Nat /\ Cardinality(lost) \in Nat
      /\ Cardinality(Known) <= Cardinality(Lines(Pipeline)) + Cardinality(lost)
      /\ Cardinality(Known) = Cardinality(Lines(Pipeline)) + Cardinality(lost)
           => Lines(Pipeline) \cap lost = {}
  BY KnownCounted DEF TypeOK
<1>2. Cardinality(Lines(Pipeline)) = Len(Pipeline)
  BY <1>1, LinesCounted DEF OrderKept
<1>3. Cardinality(Known) = Len(Pipeline) + Cardinality(lost)
  <2>1. Known = Everything BY KnownCounted DEF Everything, TypeOK
  <2>2. Len(Pipeline) + Cardinality(lost) <= Cardinality(Known) BY <2>1 DEF Separate
  <2> QED BY <1>1, <1>2, <2>2
<1>4. Cardinality(Uttered) = Cardinality(Busy) + dropped + Len(Pipeline) + Cardinality(lost)
  BY <1>1, <1>3, CountsAreFinite DEF Counted, TypeOK, CountTypes
<1> QED BY <1>1, <1>2, <1>3, <1>4 DEF Accounting, Uttered, Busy

\* A step that says nothing, drops nothing and keeps what is known.
LEMMA CountedFrame ==
  ASSUME Counted, UNCHANGED <<said, cpc, dropped>>, Known' = Known PROVE Counted'
BY DEF Counted, Uttered, Busy

LEMMA CountedEnqueue ==
  ASSUME ThreadTypes, CountTypes, LineTypes, Counted, NEW c \in Client, Enqueue(c),
         Known' = Known
  PROVE  Counted'
<1> DEFINE l == [by |-> c, n |-> said[c] + 1]
<1>1. /\ said[c] \in 0..MaxLines /\ said[c] < MaxLines /\ cpc[c] = "out"
      /\ said' = [said EXCEPT ![c] = @ + 1]
  BY DEF Enqueue, ThreadTypes
<1>2. l \in Line /\ l.by = c /\ l.n = said[c] + 1 BY <1>1 DEF Line, LogAssumption
<1> HIDE DEF l
<1>3. l \notin Uttered BY <1>1, <1>2 DEF Uttered
<1>4. ASSUME NEW m \in Line PROVE m.n <= said'[m.by] <=> m.n <= said[m.by] \/ m = l
  <2>1. m.by \in Client /\ m.n \in Nat BY DEF Line, LogAssumption
  <2>2. CASE m.by # c
    <3>1. m # l BY <1>2, <2>2
    <3>2. said'[m.by] = said[m.by] BY <1>1, <2>1, <2>2 DEF ThreadTypes
    <3> QED BY <3>1, <3>2
  <2>3. CASE m.by = c
    <3>1. said'[c] = said[c] + 1 BY <1>1 DEF ThreadTypes
    <3>2. m = [by |-> m.by, n |-> m.n] BY DEF Line
    <3>3. m = l <=> m.n = said[c] + 1 BY <1>2, <2>3, <3>2 DEF l
    <3> QED BY <1>1, <2>1, <2>3, <3>1, <3>3
  <2> QED BY <2>2, <2>3
<1>5. Uttered' = Uttered \cup {l} BY <1>2, <1>4 DEF Uttered
<1>6. Cardinality(Uttered') = Cardinality(Uttered) + 1
  BY <1>3, <1>5, CountsAreFinite, FS_AddElement
<1>7. CASE db = "null"
  <2>1. dropped' = dropped + 1 /\ Busy' = Busy BY <1>7 DEF Enqueue, Busy
  <2> QED BY <1>6, <2>1, CountsAreFinite, KnownCounted DEF Counted, CountTypes
<1>8. CASE db # "null"
  <2>1. dropped' = dropped /\ cpc' = [cpc EXCEPT ![c] = "push"] BY <1>8 DEF Enqueue
  <2>2. Busy' = Busy \cup {c} /\ c \notin Busy BY <1>1, <2>1 DEF Busy, ThreadTypes
  <2>3. Cardinality(Busy') = Cardinality(Busy) + 1
    BY <2>2, CountsAreFinite, FS_AddElement
  <2> QED BY <1>6, <2>1, <2>3, CountsAreFinite, KnownCounted DEF Counted, CountTypes
<1> QED BY <1>7, <1>8

LEMMA CountedPush ==
  ASSUME ThreadTypes, CountTypes, LineTypes, SaidInv, Counted, NEW c \in Client, Push(c)
  PROVE  Counted'
<1>1. /\ cpc[c] = "push" /\ said' = said /\ UNCHANGED <<rows, txn, batch, lost>>
  BY DEF Push, sqlite
<1>2. Uttered' = Uttered BY <1>1 DEF Uttered
<1>3. cpc'[c] # "push" /\ \A d \in Client \ {c} : cpc'[d] = cpc[d]
  BY DEF Push, ThreadTypes
<1>4. Busy' = Busy \ {c} /\ c \in Busy BY <1>1, <1>3 DEF Busy
<1>5. Cardinality(Busy') = Cardinality(Busy) - 1
  BY <1>4, CountsAreFinite, FS_RemoveElement
<1>6. CASE Full
  <2>1. dropped' = dropped + 1 /\ queue' = queue BY <1>6 DEF Push
  <2>2. Known' = Known BY <1>1, <2>1, KnownFrame
  <2> QED BY <1>2, <1>5, <2>1, <2>2, CountsAreFinite, KnownCounted DEF Counted, CountTypes
<1>7. CASE ~Full
  <2>1. dropped' = dropped /\ queue' = Append(queue, TheLine(c)) BY <1>7 DEF Push
  <2>2. TheLine(c) \in Line /\ TheLine(c).by = c /\ TheLine(c).n = said[c]
    BY PushFacts
  <2>3. Lines(queue') = Lines(queue) \cup {TheLine(c)}
    BY <2>1, <2>2, LinesOfAppend DEF LineTypes
  <2>4. Known' = Known \cup {TheLine(c)} BY <1>1, <2>3 DEF Known, Settled, Lines
  <2>5. TheLine(c) \notin Known
    <3>1. said[c] \in Nat BY DEF ThreadTypes, LogAssumption
    <3> QED BY <1>1, <2>2, <3>1 DEF SaidInv
  <2>6. Cardinality(Known') = Cardinality(Known) + 1
    BY <2>4, <2>5, KnownCounted, FS_AddElement
  <2> QED BY <1>2, <1>5, <2>1, <2>6, CountsAreFinite, KnownCounted DEF Counted, CountTypes
<1> QED BY <1>6, <1>7

LEMMA CountedStep ==
  ASSUME IInv, Counted, [Next]_vars PROVE Counted'
<1> USE DEF IInv, TypeOK
<1>1. ASSUME NEW c \in Client, Enqueue(c) PROVE Counted'
  <2>1. Known' = Known BY <1>1, KnownFrame DEF Enqueue, sqlite
  <2> QED BY <1>1, <2>1, CountedEnqueue
<1>2. ASSUME NEW c \in Client, Push(c) PROVE Counted' BY <1>2, CountedPush
<1>3. ASSUME NEW c \in Client, Notify(c) PROVE Counted'
  <2>1. Known' = Known BY <1>3, KnownFrame DEF Notify, sqlite
  <2>2. Busy' = Busy /\ Uttered' = Uttered
    BY <1>3 DEF Notify, Busy, Uttered, ThreadTypes
  <2>3. dropped' = dropped BY <1>3 DEF Notify
  <2> QED BY <2>1, <2>2, <2>3 DEF Counted
<1>4. CASE Writer
  <2>1. UNCHANGED <<said, cpc, dropped>>
    BY <1>4 DEF Writer, Take, Begin, Insert, InsertFails, Commit, CommitFails, clients
  <2> QED BY <1>4, <2>1, WriterKeeps, CountedFrame
<1>5. CASE UNCHANGED <<clients, queue, sqlite>>
  <2>1. UNCHANGED <<rows, txn, batch, queue, lost>> /\ UNCHANGED <<said, cpc, dropped>>
    BY <1>5 DEF clients, sqlite
  <2> QED BY <2>1, KnownFrame, CountedFrame
<1>6. CASE Start \/ Interrupt \/ LeaveLoop \/ SpuriousWake \/ UNCHANGED vars
  <2>1. UNCHANGED <<clients, queue, sqlite>>
    BY <1>6 DEF Start, Interrupt, LeaveLoop, SpuriousWake, vars, clients, sqlite
  <2> QED BY <1>5, <2>1
<1>7. ASSUME NEW t \in Stopper, Stop(t) PROVE Counted'
  <2>1. UNCHANGED <<clients, queue, sqlite>>
    BY <1>7 DEF Stop, TestJoinable, RaiseStopping, NotifyStop, Join, Close, Exit, Clash
  <2> QED BY <1>5, <2>1
<1> QED BY <1>1, <1>2, <1>3, <1>4, <1>6, <1>7 DEF Next, Enqueuing, Ended

\* A run that is lost leaves the pipeline, and no line of it stays behind: or
\* less would be known than before.
LEMMA SeparateStep ==
  ASSUME IInv, OrderKept, Separate, [Next]_vars PROVE Separate'
<1> DEFINE r == rows
           d == Pending
<1> USE DEF IInv, TypeOK
<1>1. /\ r \in Seq(Line) /\ d \in Seq(Line) /\ Len(r) \in Nat /\ Len(d) \in Nat
      /\ lost \subseteq Line
  BY PendingLines DEF LineTypes
<1>2. /\ Pipeline = r \o d /\ Len(Pipeline) = Len(r) + Len(d)
      /\ Pipeline' = rows' \o Pending'
      /\ Pipeline \in Seq(Line) /\ Lines(Pipeline) = Lines(r) \cup Lines(d)
  BY <1>1, ConcatProperties, LinesOfConcat DEF Pipeline
<1>3. /\ Cardinality(lost) \in Nat /\ IsFiniteSet(lost)
      /\ IsFiniteSet(Everything) /\ Cardinality(Everything) \in Nat
      /\ Known = Everything
  BY KnownCounted DEF Everything
<1>4. [Log!Next]_(Log!vars) BY StepRefines
<1>5. ASSUME Pipeline' = Pipeline, lost' = lost PROVE Separate'
  BY <1>5 DEF Separate, Everything
<1>6. CASE UNCHANGED Log!vars \/ Log!Open \/ Log!Close
  BY <1>2, <1>5, <1>6 DEF Log!vars, Log!Open, Log!Close
<1>7. ASSUME NEW l \in Log!Line, Log!Accept(l) PROVE Separate'
  <2>1. l \in Line BY DEF Log!Line, Line
  <2>2. rows' = r /\ Pending' = Append(d, l) /\ lost' = lost BY <1>7 DEF Log!Accept
  <2>3. l \notin Everything
    <3>1. l.n \in Nat BY <2>1 DEF Line, LogAssumption
    <3>2. Log!Accepted = Known BY PendingLines
    <3> QED BY <1>3, <1>7, <3>1, <3>2 DEF Log!Accept
  <2> HIDE DEF r, d
  <2>4. Pipeline' = Append(Pipeline, l)
    BY <1>1, <1>2, <2>1, <2>2, AppendConcat
  <2>5. Len(Pipeline') = Len(Pipeline) + 1 /\ Lines(Pipeline') = Lines(Pipeline) \cup {l}
    <3>1. Pipeline \in Seq(Line) BY <1>2
    <3>2. Lines(Append(Pipeline, l)) = Lines(Pipeline) \cup {l} BY <2>1, <3>1, LinesOfAppend
    <3>3. Len(Append(Pipeline, l)) = Len(Pipeline) + 1 BY <2>1, <3>1, AppendProperties
    <3>4. Lines(Pipeline)' = Lines(Pipeline') /\ Lines(Pipeline') = Lines(Append(Pipeline, l))
      BY <2>4 DEF Lines
    <3> QED BY <2>4, <3>2, <3>3, <3>4
  <2>6. Everything' = Everything \cup {l} BY <2>2, <2>5 DEF Everything
  <2>7. Cardinality(Everything') = Cardinality(Everything) + 1
    BY <1>3, <2>3, <2>6, FS_AddElement
  <2> QED BY <1>1, <1>2, <1>3, <2>2, <2>5, <2>7 DEF Separate
<1>8. ASSUME NEW k \in 1..Len(Pending), Log!Store(k) PROVE Separate'
  <2> DEFINE a == SubSeq(d, 1, k)
             b == SubSeq(d, k + 1, Len(d))
  <2>1. rows' = r \o a /\ Pending' = b /\ lost' = lost BY <1>8 DEF Log!Store
  <2>2. k \in 1..Len(d) OBVIOUS
  <2> HIDE DEF d, r
  <2>3. (r \o a) \o b = r \o d BY <1>1, <2>2, CutPrefix
  <2> QED BY <1>2, <1>5, <2>1, <2>3
<1>9. ASSUME NEW i \in 1..Len(Pending), NEW j \in i..Len(Pending), Log!Lose(i, j)
      PROVE  Separate'
  <2> DEFINE a == SubSeq(d, 1, i - 1)
             b == SubSeq(d, j + 1, Len(d))
             m == SubSeq(d, i, j)
             rest == SubSeq(d, i, Len(d))
  <2>1. rows' = r /\ Pending' = a \o b /\ lost' = lost \cup Lines(m)
    BY <1>9 DEF Log!Lose, Log!Lines, Lines
  <2>2. i \in Nat \ {0} /\ j \in Nat /\ i <= j /\ j <= Len(d) /\ i <= Len(d)
    BY <1>1
  <2> HIDE DEF d, r
  <2>3. /\ a \in Seq(Line) /\ Len(a) = i - 1 /\ b \in Seq(Line) /\ Len(b) = Len(d) - j
        /\ m \in Seq(Line) /\ Len(m) = j - i + 1
    <3>1. a \in Seq(Line) /\ Len(a) = i - 1 BY <1>1, <2>2, SubSeqProperties
    <3>2. b \in Seq(Line) /\ Len(b) = Len(d) - j BY <1>1, <2>2, SubSeqProperties
    <3>3. m \in Seq(Line) /\ Len(m) = j - i + 1 BY <1>1, <2>2, SubSeqProperties
    <3> QED BY <3>1, <3>2, <3>3
  <2>4. Lines(d) \subseteq Lines(a) \cup Lines(m) \cup Lines(b)
    <3>1. ASSUME NEW x \in 1..Len(d)
          PROVE  d[x] \in Lines(a) \cup Lines(m) \cup Lines(b)
      <4>1. CASE x < i
        <5>1. x \in 1..Len(a) /\ a[x] = d[x] BY <1>1, <2>2, <2>3, <4>1, SubSeqProperties
        <5> QED BY <5>1 DEF Lines
      <4>2. CASE i <= x /\ x <= j
        <5>1. x - i + 1 \in 1..Len(m) /\ m[x - i + 1] = d[x]
          BY <1>1, <2>2, <2>3, <4>2, SubSeqProperties
        <5> QED BY <5>1 DEF Lines
      <4>3. CASE j < x
        <5>1. x - j \in 1..Len(b) /\ b[x - j] = d[x]
          BY <1>1, <2>2, <2>3, <4>3, SubSeqProperties
        <5> QED BY <5>1 DEF Lines
      <4> QED BY <2>2, <4>1, <4>2, <4>3
    <3> QED BY <3>1 DEF Lines
  <2> HIDE DEF a, b, m
  <2>5. a \o b \in Seq(Line) /\ Len(a \o b) = Len(a) + Len(b)
        /\ Lines(a \o b) = Lines(a) \cup Lines(b)
    BY <2>3, ConcatProperties, LinesOfConcat
  <2> DEFINE c == a \o b
  <2>6. Pipeline' = r \o c /\ c \in Seq(Line) BY <1>2, <2>1, <2>5
  <2> HIDE DEF c
  <2>7. /\ Pipeline' \in Seq(Line) /\ Len(Pipeline') = Len(r) + Len(c)
        /\ Lines(Pipeline') = Lines(r) \cup Lines(c)
    BY <1>1, <2>6, ConcatProperties, LinesOfConcat
  <2>8. Everything \subseteq Everything'
    BY <1>2, <2>1, <2>4, <2>5, <2>7 DEF Everything, c
  <2>9. /\ IsFiniteSet(lost') /\ Cardinality(lost') \in Nat
        /\ Cardinality(lost') <= Cardinality(lost) + Len(m)
    <3>1. IsFiniteSet(Lines(m)) /\ Cardinality(Lines(m)) \in Nat /\ Cardinality(Lines(m)) <= Len(m)
      BY <2>3, LinesCounted
    <3>2. IsFiniteSet(lost \cap Lines(m)) /\ Cardinality(lost \cap Lines(m)) \in Nat
      BY <1>3, FS_Intersection, FS_CardinalityType
    <3>3. Cardinality(lost \cup Lines(m))
            = Cardinality(lost) + Cardinality(Lines(m)) - Cardinality(lost \cap Lines(m))
          /\ IsFiniteSet(lost \cup Lines(m))
      BY <1>3, <3>1, FS_Union
    <3>4. Cardinality(lost \cup Lines(m)) \in Nat BY <3>3, FS_CardinalityType
    <3>5. Len(m) \in Nat BY <2>3
    <3>6. Cardinality(lost \cup Lines(m)) <= Cardinality(lost) + Len(m)
      BY <1>3, <3>1, <3>2, <3>3, <3>4, <3>5
    <3> QED BY <2>1, <3>3, <3>4, <3>6
  <2>10. Cardinality(Everything) <= Cardinality(Everything') /\ Cardinality(Everything') \in Nat
    <3>1. IsFiniteSet(Lines(Pipeline')) BY <2>7, LinesCounted
    <3>2. IsFiniteSet(Everything') BY <2>9, <3>1, FS_Union DEF Everything
    <3> QED BY <2>8, <3>2, FS_Subset, FS_CardinalityType
  <2>11. Len(Pipeline') = Len(Pipeline) - Len(m)
    BY <1>1, <1>2, <2>2, <2>3, <2>5, <2>7 DEF c
  <2>12. Len(m) \in Nat /\ Len(Pipeline) \in Nat BY <1>2, <2>3
  <2>13. Len(Pipeline') + Cardinality(lost') <= Len(Pipeline) + Cardinality(lost)
    BY <1>3, <2>9, <2>11, <2>12
  <2>14. Len(Pipeline) + Cardinality(lost) <= Cardinality(Everything) BY DEF Separate
  <2> QED BY <1>3, <2>9, <2>10, <2>11, <2>12, <2>13, <2>14 DEF Separate
<1> QED BY <1>4, <1>6, <1>7, <1>8, <1>9 DEF Log!Next

\* Every line a client said is dropped, on its way, stored or lost to an error,
\* and in one of these places only.
THEOREM AccountingSafety == Spec => []Accounting
<1>1. Init => Counted /\ Separate
  <2> SUFFICES ASSUME Init PROVE Counted /\ Separate OBVIOUS
  <2>1. Uttered = {} /\ Busy = {} /\ Known = {} /\ Pipeline = <<>> /\ lost = {}
    <3>1. Uttered = {} BY DEF Init, Uttered, Line, LogAssumption
    <3>2. Busy = {} BY DEF Init, Busy
    <3>3. Known = {} BY LinesOfEmpty DEF Init, Known, Settled
    <3>4. Pipeline = <<>> BY EmptySeq, ConcatEmptySeq DEF Init, Pipeline, Pending
    <3> QED BY <3>1, <3>2, <3>3, <3>4 DEF Init
  <2>2. Cardinality({}) = 0 /\ Len(<<>>) = 0 BY FS_EmptySet
  <2>3. dropped = 0 BY DEF Init
  <2>4. Everything = {} BY <2>1, LinesOfEmpty DEF Everything
  <2> QED BY <2>1, <2>2, <2>3, <2>4 DEF Counted, Separate
<1>2. IInv /\ OrderKept /\ Counted /\ Separate /\ [Next]_vars => Counted' /\ Separate'
  BY CountedStep, SeparateStep
<1>3. IInv /\ OrderKept /\ Counted /\ Separate => Accounting
  BY AccountingFollows DEF IInv
<1> QED BY <1>1, <1>2, <1>3, Inductive, OrderSafety, PTL DEF Spec
=============================================================================
