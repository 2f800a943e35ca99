------------------------------ MODULE AsyncLog ------------------------------
(***************************************************************************)
(* What the chat log promises: lines are stored in the order in which they *)
(* were accepted, each once, and only while the log is open; a line that   *)
(* was accepted waits its turn or was lost to an error.                    *)
(***************************************************************************)
EXTENDS Naturals, Sequences

CONSTANTS Client, MaxLines   \* who says lines, and how many at most

VARIABLES open, pending, rows, lost

vars == <<open, pending, rows, lost>>

Line == [by : Client, n : 1..MaxLines]
Lines(q) == {q[i] : i \in 1..Len(q)}
Accepted == Lines(rows) \cup Lines(pending) \cup lost

Init ==
  /\ open = FALSE
  /\ pending = <<>>
  /\ rows = <<>>
  /\ lost = {}

Open == ~open /\ open' = TRUE /\ UNCHANGED <<pending, rows, lost>>

Close == open /\ open' = FALSE /\ UNCHANGED <<pending, rows, lost>>

\* A line comes after all that the same person said before.
Accept(l) ==
  /\ \A m \in Accepted : m.by = l.by => m.n < l.n
  /\ pending' = Append(pending, l)
  /\ UNCHANGED <<open, rows, lost>>

\* The k oldest lines are stored at one stroke.
Store(k) ==
  /\ open
  /\ rows' = rows \o SubSeq(pending, 1, k)
  /\ pending' = SubSeq(pending, k + 1, Len(pending))
  /\ UNCHANGED <<open, lost>>

\* A run of lines, from the ith to the jth, is lost at one stroke.
Lose(i, j) ==
  /\ open
  /\ pending' = SubSeq(pending, 1, i - 1) \o SubSeq(pending, j + 1, Len(pending))
  /\ lost' = lost \cup Lines(SubSeq(pending, i, j))
  /\ UNCHANGED <<open, rows>>

Next ==
  \/ Open \/ Close
  \/ \E l \in Line : Accept(l)
  \/ \E k \in 1..Len(pending) : Store(k)
  \/ \E i \in 1..Len(pending) : \E j \in i..Len(pending) : Lose(i, j)

Spec == Init /\ [][Next]_vars
=============================================================================
