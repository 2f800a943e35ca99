--------------------------- MODULE GameClient_proofs ---------------------------
(***************************************************************************)
(* The safety properties of GameClient, for every set of accounts and any  *)
(* number of connections, failed attempts and requests.                    *)
(***************************************************************************)
EXTENDS GameClient, SequenceTheorems, TLAPS

USE ClientAssumption DEF ClientAssumption

-----------------------------------------------------------------------------
(* Sequences and records.                                                  *)

LEMMA HeadTail ==
  ASSUME NEW S, NEW q \in Seq(S), q # <<>>
  PROVE  /\ Head(q) \in S /\ Head(q) = q[1] /\ 1 \in 1..Len(q)
         /\ Tail(q) \in Seq(S) /\ Len(Tail(q)) = Len(q) - 1
         /\ \A k \in 1..Len(Tail(q)) : Tail(q)[k] = q[k + 1] /\ k + 1 \in 1..Len(q)
<1>1. Len(q) \in Nat \ {0} OBVIOUS
<1>2. \A k \in 1..Len(Tail(q)) : Tail(q)[k] = q[k + 1] BY HeadTailProperties
<1> QED BY <1>1, <1>2, HeadTailProperties

LEMMA Appended ==
  ASSUME NEW S, NEW q \in Seq(S), NEW e \in S
  PROVE  /\ Append(q, e) \in Seq(S) /\ Len(Append(q, e)) = Len(q) + 1
         /\ Append(q, e)[Len(q) + 1] = e
         /\ \A k \in 1..Len(q) : Append(q, e)[k] = q[k]
BY AppendProperties

LEMMA RequestKinds ==
  ASSUME NEW r \in Request
  PROVE  /\ r # Nothing
         /\ r.op \in {"Login", "Register", "Chat"}
         /\ r.op = "Login" => r.cred \in Cred
BY DEF Request, Nothing

LEMMA AnswerKinds ==
  ASSUME NEW a \in Answer
  PROVE  /\ a.op \in {"LoginAck", "RegisterAck"} /\ a.ok \in BOOLEAN
         /\ a.op = "LoginAck" => a.who \in Account \cup {NoCred}
BY DEF Answer

LEMMA AnswerToEvent ==
  ASSUME NEW a \in Answer, NEW i \in Conn
  PROVE  /\ a.op = "LoginAck" => [type |-> "LoginAck", ok |-> a.ok, who |-> a.who, on |-> i] \in Event
         /\ [type |-> "RegisterAck", ok |-> a.ok] \in Event
BY AnswerKinds DEF Event

LEMMA EventKinds ==
  ASSUME NEW e \in Event
  PROVE  /\ e # Nothing
         /\ e.type \in {"LoginAck", "RegisterAck", "Disconnected"}
         /\ e.type # "Disconnected" => e.ok \in BOOLEAN
         /\ e.type = "LoginAck" => e.who \in Account \cup {NoCred} /\ e.on \in Conn
<1>1. CASE e \in [type : {"LoginAck"}, ok : BOOLEAN, who : Account \cup {NoCred}, on : Conn]
  BY <1>1 DEF Nothing
<1>2. CASE e \in [type : {"RegisterAck"}, ok : BOOLEAN] BY <1>2 DEF Nothing
<1>3. CASE e \in [type : {"Disconnected"}] BY <1>3 DEF Nothing
<1> QED BY <1>1, <1>2, <1>3 DEF Event

\* What is pushed and queued has its type.
LEMMA DisconnectedIsEvent == [type |-> "Disconnected"] \in Event
BY DEF Event

LEMMA VerdictType ==
  ASSUME NEW i \in Conn, NEW c PROVE LoginVerdict(i, c) \in Account \cup {NoCred}
BY DEF LoginVerdict

-----------------------------------------------------------------------------
(* Types.                                                                  *)

\* The game thread's variables.
LEMMA GameTypesStep == TypeOK /\ [Next]_vars => GameTypes'
<1> SUFFICES ASSUME TypeOK, [Next]_vars PROVE GameTypes'
  OBVIOUS
<1> USE DEF TypeOK, GameTypes, game, worker, net, shared, bounds
<1>0. CASE UNCHANGED vars BY <1>0 DEF vars
<1>1. CASE Poll
  <2>1. CASE events = <<>> BY <1>1, <2>1 DEF Poll
  <2>2. CASE events # <<>>
    <3> DEFINE e == Head(events)
    <3>1. e \in Event BY <2>2, HeadTail DEF QueueTypes
    <3>2. mode' \in {"Login", "Register"} /\ waiting' \in BOOLEAN /\ entering' \in BOOLEAN
      BY <1>1, <2>2, <3>1, EventKinds DEF Poll, OnNetEvent, FreshLogin
    <3>3. shown' \in Account \cup {NoCred} /\ shownOn' \in 0..MaxConn
      BY <1>1, <2>2, <3>1, EventKinds DEF Poll, Conn
    <3> QED BY <1>1, <2>2, <3>2, <3>3 DEF Poll
  <2> QED BY <2>1, <2>2
<1>2. CASE EnterMenu BY <1>2 DEF EnterMenu
<1>3. CASE Idle BY <1>3 DEF Idle
<1>4. CASE Enqueue BY <1>4 DEF Enqueue
<1>5. CASE FinishLogout BY <1>5 DEF FinishLogout, FreshLogin
<1>6. CASE Toggle BY <1>6 DEF Toggle, FreshLogin
<1>7. ASSUME NEW c \in Cred, SubmitLogin(c) PROVE GameTypes'
  <2>1. [op |-> "Login", cred |-> c] \in Request BY DEF Request
  <2> QED BY <1>7, <2>1 DEF SubmitLogin, MaySubmit
<1>8. CASE SubmitRegister
  <2>1. [op |-> "Register"] \in Request BY DEF Request
  <2> QED BY <1>8, <2>1 DEF SubmitRegister, MaySubmit
<1>9. CASE SubmitChat
  <2>1. [op |-> "Chat"] \in Request BY DEF Request
  <2> QED BY <1>9, <2>1 DEF SubmitChat
<1>10. CASE StartGame BY <1>10 DEF StartGame
<1>11. CASE Logout BY <1>11 DEF Logout
<1>12. CASE Quit BY <1>12 DEF Quit
<1>13. CASE Connect BY <1>13 DEF Connect
<1>14. CASE ConnectFails BY <1>14 DEF ConnectFails
<1>15. CASE ClearQueue BY <1>15 DEF ClearQueue
<1>16. CASE Relogin BY <1>16 DEF Relogin
<1>17. CASE Announce BY <1>17 DEF Announce
<1>18. CASE Pump BY <1>18 DEF Pump
<1>19. CASE Send BY <1>19 DEF Send
<1>20. CASE GoRecv BY <1>20 DEF GoRecv
<1>21. CASE RecvTimeout BY <1>21 DEF RecvTimeout
<1>22. CASE Receive BY <1>22 DEF Receive
<1>23. CASE PushEvent BY <1>23 DEF PushEvent
<1>24. CASE RecvFails BY <1>24 DEF RecvFails
<1>25. CASE Drop BY <1>25 DEF Drop
<1>26. CASE Tell BY <1>26 DEF Tell
<1>27. CASE End BY <1>27 DEF End
<1>28. CASE Break BY <1>28 DEF Break
<1>29. ASSUME NEW i \in Conn, Serve(i) PROVE GameTypes' BY <1>29 DEF Serve
<1>30. ASSUME NEW i \in Conn, Reap(i) PROVE GameTypes' BY <1>30 DEF Reap
<1>31. CASE Over BY <1>31 DEF Over, vars
<1> QED
  BY <1>0, <1>1, <1>2, <1>3, <1>4, <1>5, <1>6, <1>7, <1>8, <1>9, <1>10, <1>11,
     <1>12, <1>13, <1>14, <1>15, <1>16, <1>17, <1>18, <1>19, <1>20, <1>21, <1>22,
     <1>23, <1>24, <1>25, <1>26, <1>27, <1>28, <1>29, <1>30, <1>31
  DEF Next, GameThread, Player, Worker, Server

\* What the threads share, and where the worker is.
LEMMA NetTypesStep == TypeOK /\ PlacesAgree /\ [Next]_vars => NetTypes'
<1> SUFFICES ASSUME TypeOK, PlacesAgree, [Next]_vars PROVE NetTypes'
  OBVIOUS
<1> USE DEF TypeOK, NetTypes, game, worker, net, shared, bounds
<1>0. CASE UNCHANGED vars BY <1>0 DEF vars
<1>1. CASE Poll BY <1>1 DEF Poll
<1>2. CASE EnterMenu BY <1>2 DEF EnterMenu
<1>3. CASE Idle BY <1>3 DEF Idle
<1>4. CASE Enqueue BY <1>4 DEF Enqueue
<1>5. CASE FinishLogout BY <1>5 DEF FinishLogout
<1>6. CASE Toggle BY <1>6 DEF Toggle
<1>7. ASSUME NEW c \in Cred, SubmitLogin(c) PROVE NetTypes' BY <1>7 DEF SubmitLogin
<1>8. CASE SubmitRegister BY <1>8 DEF SubmitRegister
<1>9. CASE SubmitChat BY <1>9 DEF SubmitChat
<1>10. CASE StartGame BY <1>10 DEF StartGame
<1>11. CASE Logout BY <1>11 DEF Logout
<1>12. CASE Quit BY <1>12 DEF Quit
<1>13. CASE Connect BY <1>13 DEF Connect
<1>14. CASE ConnectFails BY <1>14 DEF ConnectFails
<1>15. CASE ClearQueue BY <1>15 DEF ClearQueue
<1>16. CASE Relogin BY <1>16 DEF Relogin
<1>17. CASE Announce BY <1>17 DEF Announce
<1>18. CASE Pump BY <1>18 DEF Pump
<1>19. CASE Send BY <1>19 DEF Send
<1>20. CASE GoRecv BY <1>20 DEF GoRecv
<1>21. CASE RecvTimeout BY <1>21 DEF RecvTimeout
<1>22. CASE Receive
  <2>1. conn \in Conn BY <1>22 DEF Receive, PlacesAgree, Attached, Conn
  <2>2. Head(down[conn]) \in Answer BY <1>22, <2>1, HeadTail DEF Receive, LinkTypes
  <2>3. credValid' \in BOOLEAN BY <1>22, <2>2, AnswerKinds DEF Receive
  <2> QED BY <1>22, <2>3 DEF Receive
<1>23. CASE PushEvent BY <1>23 DEF PushEvent
<1>24. CASE RecvFails BY <1>24 DEF RecvFails
<1>25. CASE Drop BY <1>25 DEF Drop
<1>26. CASE Tell BY <1>26 DEF Tell
<1>27. CASE End BY <1>27 DEF End
<1>28. CASE Break BY <1>28 DEF Break
<1>29. ASSUME NEW i \in Conn, Serve(i) PROVE NetTypes' BY <1>29 DEF Serve
<1>30. ASSUME NEW i \in Conn, Reap(i) PROVE NetTypes' BY <1>30 DEF Reap
<1>31. CASE Over BY <1>31 DEF Over, vars
<1> QED
  BY <1>0, <1>1, <1>2, <1>3, <1>4, <1>5, <1>6, <1>7, <1>8, <1>9, <1>10, <1>11,
     <1>12, <1>13, <1>14, <1>15, <1>16, <1>17, <1>18, <1>19, <1>20, <1>21, <1>22,
     <1>23, <1>24, <1>25, <1>26, <1>27, <1>28, <1>29, <1>30, <1>31
  DEF Next, GameThread, Player, Worker, Server

\* The queues between them.
LEMMA QueueTypesStep == TypeOK /\ PlacesAgree /\ ForgottenIsGone /\ [Next]_vars => QueueTypes'
<1> SUFFICES ASSUME TypeOK, PlacesAgree, ForgottenIsGone, [Next]_vars PROVE QueueTypes'
  OBVIOUS
<1> USE DEF TypeOK, QueueTypes, game, worker, net, shared, bounds
<1>0. CASE UNCHANGED vars BY <1>0 DEF vars
<1>1. CASE Poll BY <1>1, HeadTail DEF Poll
<1>2. CASE EnterMenu BY <1>2 DEF EnterMenu
<1>3. CASE Idle BY <1>3 DEF Idle
<1>4. CASE Enqueue
  <2>1. draft \in Request BY <1>4 DEF Enqueue, PlacesAgree, GameTypes
  <2> QED BY <1>4, <2>1, Appended DEF Enqueue
<1>5. CASE FinishLogout BY <1>5 DEF FinishLogout
<1>6. CASE Toggle BY <1>6 DEF Toggle
<1>7. ASSUME NEW c \in Cred, SubmitLogin(c) PROVE QueueTypes' BY <1>7 DEF SubmitLogin
<1>8. CASE SubmitRegister BY <1>8 DEF SubmitRegister
<1>9. CASE SubmitChat BY <1>9 DEF SubmitChat
<1>10. CASE StartGame BY <1>10 DEF StartGame
<1>11. CASE Logout BY <1>11 DEF Logout
<1>12. CASE Quit BY <1>12 DEF Quit
<1>13. CASE Connect BY <1>13 DEF Connect
<1>14. CASE ConnectFails BY <1>14, DisconnectedIsEvent, Appended DEF ConnectFails, Push
<1>15. CASE ClearQueue BY <1>15 DEF ClearQueue
<1>16. CASE Relogin
  <2>1. ASSUME credValid
        PROVE  [op |-> "Login", cred |-> cred] \in Request
    BY <2>1 DEF Request, NetTypes, ForgottenIsGone
  <2> QED BY <1>16, <2>1, Appended DEF Relogin
<1>17. CASE Announce BY <1>17 DEF Announce
<1>18. CASE Pump
  <2>1. <<>> \in Seq(Request) OBVIOUS
  <2> QED BY <1>18, <2>1 DEF Pump
<1>19. CASE Send
  <2>1. Tail(outbox) \in Seq(Request) /\ <<>> \in Seq(Request) BY <1>19, HeadTail DEF Send
  <2>2. outbox' \in Seq(Request) BY <1>19, <2>1 DEF Send
  <2> QED BY <1>19, <2>2 DEF Send
<1>20. CASE GoRecv BY <1>20 DEF GoRecv
<1>21. CASE RecvTimeout BY <1>21 DEF RecvTimeout
<1>22. CASE Receive
  <2>1. conn \in Conn BY <1>22 DEF Receive, PlacesAgree, Attached, Conn, NetTypes
  <2>2. Head(down[conn]) \in Answer BY <1>22, <2>1, HeadTail DEF Receive, LinkTypes
  <2>3. got' \in Event BY <1>22, <2>1, <2>2, AnswerToEvent DEF Receive
  <2> QED BY <1>22, <2>3 DEF Receive
<1>23. CASE PushEvent
  <2>1. got \in Event BY <1>23 DEF PushEvent, PlacesAgree
  <2> QED BY <1>23, <2>1, Appended DEF PushEvent, Push
<1>24. CASE RecvFails BY <1>24 DEF RecvFails
<1>25. CASE Drop BY <1>25 DEF Drop
<1>26. CASE Tell BY <1>26, DisconnectedIsEvent, Appended DEF Tell, Push
<1>27. CASE End BY <1>27 DEF End
<1>28. CASE Break BY <1>28 DEF Break
<1>29. ASSUME NEW i \in Conn, Serve(i) PROVE QueueTypes' BY <1>29 DEF Serve
<1>30. ASSUME NEW i \in Conn, Reap(i) PROVE QueueTypes' BY <1>30 DEF Reap
<1>31. CASE Over BY <1>31 DEF Over, vars
<1> QED
  BY <1>0, <1>1, <1>2, <1>3, <1>4, <1>5, <1>6, <1>7, <1>8, <1>9, <1>10, <1>11,
     <1>12, <1>13, <1>14, <1>15, <1>16, <1>17, <1>18, <1>19, <1>20, <1>21, <1>22,
     <1>23, <1>24, <1>25, <1>26, <1>27, <1>28, <1>29, <1>30, <1>31
  DEF Next, GameThread, Player, Worker, Server

\* The connections and the server's sessions.
LEMMA LinkTypesStep == TypeOK /\ PlacesAgree /\ [Next]_vars => LinkTypes'
<1> SUFFICES ASSUME TypeOK, PlacesAgree, [Next]_vars PROVE LinkTypes'
  OBVIOUS
<1> USE DEF TypeOK, LinkTypes, game, worker, net, shared, bounds
<1>0. CASE UNCHANGED vars BY <1>0 DEF vars
<1>1. CASE Poll BY <1>1 DEF Poll
<1>2. CASE EnterMenu BY <1>2 DEF EnterMenu
<1>3. CASE Idle BY <1>3 DEF Idle
<1>4. CASE Enqueue BY <1>4 DEF Enqueue
<1>5. CASE FinishLogout BY <1>5 DEF FinishLogout
<1>6. CASE Toggle BY <1>6 DEF Toggle
<1>7. ASSUME NEW c \in Cred, SubmitLogin(c) PROVE LinkTypes' BY <1>7 DEF SubmitLogin
<1>8. CASE SubmitRegister BY <1>8 DEF SubmitRegister
<1>9. CASE SubmitChat BY <1>9 DEF SubmitChat
<1>10. CASE StartGame BY <1>10 DEF StartGame
<1>11. CASE Logout BY <1>11 DEF Logout
<1>12. CASE Quit BY <1>12 DEF Quit
<1>13. CASE Connect BY <1>13 DEF Connect
<1>14. CASE ConnectFails BY <1>14 DEF ConnectFails
<1>15. CASE ClearQueue BY <1>15 DEF ClearQueue
<1>16. CASE Relogin BY <1>16 DEF Relogin
<1>17. CASE Announce BY <1>17 DEF Announce
<1>18. CASE Pump BY <1>18 DEF Pump
<1>19. CASE Send
  <2>1. conn \in Conn BY <1>19 DEF Send, PlacesAgree, Attached, Conn, NetTypes
  <2>2. Head(outbox) \in Request BY <1>19, HeadTail DEF Send, QueueTypes
  <2>3. Append(up[conn], Head(outbox)) \in Seq(Request) BY <2>1, <2>2, Appended
  <2>4. up' \in [Conn -> Seq(Request)] BY <1>19, <2>3 DEF Send
  <2> QED BY <1>19, <2>4 DEF Send
<1>20. CASE GoRecv BY <1>20 DEF GoRecv
<1>21. CASE RecvTimeout BY <1>21 DEF RecvTimeout
<1>22. CASE Receive
  <2>1. conn \in Conn BY <1>22 DEF Receive, PlacesAgree, Attached, Conn, NetTypes
  <2>2. Tail(down[conn]) \in Seq(Answer) BY <1>22, <2>1, HeadTail DEF Receive
  <2> QED BY <1>22, <2>1, <2>2 DEF Receive
<1>23. CASE PushEvent BY <1>23 DEF PushEvent
<1>24. CASE RecvFails BY <1>24 DEF RecvFails
<1>25. CASE Drop BY <1>25 DEF Drop
<1>26. CASE Tell BY <1>26 DEF Tell
<1>27. CASE End BY <1>27 DEF End
<1>28. CASE Break BY <1>28 DEF Break
<1>29. ASSUME NEW i \in Conn, Serve(i) PROVE LinkTypes'
  <2> DEFINE r == Head(up[i])
             w == LoginVerdict(i, r.cred)
  <2>1. r \in Request /\ Tail(up[i]) \in Seq(Request) BY <1>29, HeadTail DEF Serve
  <2>2. up' \in [Conn -> Seq(Request)] BY <1>29, <2>1 DEF Serve
  <2>3. ASSUME NEW a \in Answer PROVE Reply(i, a) \in [Conn -> Seq(Answer)]
    BY <2>3, Appended DEF Reply
  <2>4. CASE r.op = "Login"
    <3>1. w \in Account \cup {NoCred} BY VerdictType
    <3>2. [op |-> "LoginAck", ok |-> w # NoCred, who |-> w] \in Answer
      BY <3>1 DEF Answer
    <3>3. down' \in [Conn -> Seq(Answer)] BY <1>29, <2>3, <2>4, <3>2 DEF Serve
    <3>4. who' \in [Conn -> Account \cup {NoCred}] BY <1>29, <2>4, <3>1 DEF Serve
    <3>5. cut' = cut BY <1>29 DEF Serve
    <3> QED BY <2>2, <3>3, <3>4, <3>5
  <2>5. CASE r.op = "Register"
    <3>1. PICK ok \in BOOLEAN : down' = Reply(i, [op |-> "RegisterAck", ok |-> ok])
      BY <1>29, <2>5 DEF Serve
    <3>2. [op |-> "RegisterAck", ok |-> ok] \in Answer BY DEF Answer
    <3>3. down' \in [Conn -> Seq(Answer)] BY <2>3, <3>1, <3>2
    <3>4. UNCHANGED <<cut, who>> BY <1>29, <2>5 DEF Serve
    <3> QED BY <2>2, <3>3, <3>4
  <2>6. CASE r.op = "Chat"
    <3>1. UNCHANGED <<down, cut, who>> BY <1>29, <2>6 DEF Serve
    <3> QED BY <2>2, <3>1
  <2> QED BY <2>1, <2>4, <2>5, <2>6, RequestKinds
<1>30. ASSUME NEW i \in Conn, Reap(i) PROVE LinkTypes' BY <1>30 DEF Reap
<1>31. CASE Over BY <1>31 DEF Over, vars
<1> QED
  BY <1>0, <1>1, <1>2, <1>3, <1>4, <1>5, <1>6, <1>7, <1>8, <1>9, <1>10, <1>11,
     <1>12, <1>13, <1>14, <1>15, <1>16, <1>17, <1>18, <1>19, <1>20, <1>21, <1>22,
     <1>23, <1>24, <1>25, <1>26, <1>27, <1>28, <1>29, <1>30, <1>31
  DEF Next, GameThread, Player, Worker, Server

-----------------------------------------------------------------------------
(* Places and credentials.                                                 *)

\* The places of the two threads agree with what the threads hold.
LEMMA PlacesStep == TypeOK /\ PlacesAgree /\ [Next]_vars => PlacesAgree'
<1> SUFFICES ASSUME TypeOK, PlacesAgree, [Next]_vars PROVE PlacesAgree'
  OBVIOUS
<1> USE DEF PlacesAgree, Attached, game, worker, net, shared, bounds
<1>0. CASE UNCHANGED vars BY <1>0 DEF vars
<1>1. CASE Poll BY <1>1 DEF Poll
<1>2. CASE EnterMenu BY <1>2 DEF EnterMenu
<1>3. CASE Idle BY <1>3 DEF Idle
<1>4. CASE Enqueue BY <1>4 DEF Enqueue
<1>5. CASE FinishLogout BY <1>5 DEF FinishLogout
<1>6. CASE Toggle BY <1>6 DEF Toggle, AtLogin
<1>7. ASSUME NEW c \in Cred, SubmitLogin(c) PROVE PlacesAgree'
  <2>1. [op |-> "Login", cred |-> c] # Nothing BY DEF Nothing
  <2> QED BY <1>7, <2>1 DEF SubmitLogin, MaySubmit, AtLogin
<1>8. CASE SubmitRegister
  <2>1. [op |-> "Register"] # Nothing BY DEF Nothing
  <2> QED BY <1>8, <2>1 DEF SubmitRegister, MaySubmit, AtLogin
<1>9. CASE SubmitChat
  <2>1. [op |-> "Chat"] # Nothing BY DEF Nothing
  <2> QED BY <1>9, <2>1 DEF SubmitChat
<1>10. CASE StartGame BY <1>10 DEF StartGame
<1>11. CASE Logout BY <1>11 DEF Logout
<1>12. CASE Quit BY <1>12 DEF Quit
<1>13. CASE Connect BY <1>13 DEF Connect, TypeOK, NetTypes
<1>14. CASE ConnectFails BY <1>14 DEF ConnectFails
<1>15. CASE ClearQueue BY <1>15 DEF ClearQueue
<1>16. CASE Relogin BY <1>16 DEF Relogin
<1>17. CASE Announce BY <1>17 DEF Announce
<1>18. CASE Pump BY <1>18 DEF Pump
<1>19. CASE Send BY <1>19 DEF Send
<1>20. CASE GoRecv BY <1>20 DEF GoRecv
<1>21. CASE RecvTimeout BY <1>21 DEF RecvTimeout
<1>22. CASE Receive
  <2>1. conn \in Conn BY <1>22 DEF Receive, Conn, TypeOK, NetTypes
  <2>2. Head(down[conn]) \in Answer BY <1>22, <2>1, HeadTail DEF Receive, TypeOK, LinkTypes
  <2>3. got' \in Event /\ (got'.type = "LoginAck" => got'.on = conn)
    <3>1. CASE Head(down[conn]).op = "LoginAck"
      <4>1. got' = [type |-> "LoginAck", ok |-> Head(down[conn]).ok,
                    who |-> Head(down[conn]).who, on |-> conn]
        BY <1>22, <3>1 DEF Receive
      <4>2. conn' = conn BY <1>22 DEF Receive
      <4> QED BY <2>1, <2>2, <3>1, <4>1, <4>2, AnswerToEvent
    <3>2. CASE Head(down[conn]).op # "LoginAck"
      <4>1. got' = [type |-> "RegisterAck", ok |-> Head(down[conn]).ok]
        BY <1>22, <3>2 DEF Receive
      <4> QED BY <2>1, <2>2, <4>1, AnswerToEvent
    <3> QED BY <3>1, <3>2
  <2>4. got' # Nothing BY <2>3, EventKinds
  <2> QED BY <1>22, <2>3, <2>4 DEF Receive
<1>23. CASE PushEvent BY <1>23 DEF PushEvent
<1>24. CASE RecvFails BY <1>24 DEF RecvFails
<1>25. CASE Drop BY <1>25 DEF Drop
<1>26. CASE Tell BY <1>26 DEF Tell
<1>27. CASE End BY <1>27 DEF End
<1>28. CASE Break BY <1>28 DEF Break
<1>29. ASSUME NEW i \in Conn, Serve(i) PROVE PlacesAgree' BY <1>29 DEF Serve
<1>30. ASSUME NEW i \in Conn, Reap(i) PROVE PlacesAgree' BY <1>30 DEF Reap
<1>31. CASE Over BY <1>31 DEF Over, vars
<1> QED
  BY <1>0, <1>1, <1>2, <1>3, <1>4, <1>5, <1>6, <1>7, <1>8, <1>9, <1>10, <1>11,
     <1>12, <1>13, <1>14, <1>15, <1>16, <1>17, <1>18, <1>19, <1>20, <1>21, <1>22,
     <1>23, <1>24, <1>25, <1>26, <1>27, <1>28, <1>29, <1>30, <1>31
  DEF Next, GameThread, Player, Worker, Server

\* Without a request since the logout nothing can make the credentials valid.
LEMMA ForgottenStep == TypeOK /\ ForgottenIsGone /\ [Next]_vars => ForgottenIsGone'
<1> SUFFICES ASSUME TypeOK, ForgottenIsGone, [Next]_vars PROVE ForgottenIsGone'
  OBVIOUS
<1> USE DEF ForgottenIsGone, game, worker, net, shared, bounds
<1>0. CASE UNCHANGED vars BY <1>0 DEF vars
<1>1. CASE Poll BY <1>1 DEF Poll
<1>2. CASE EnterMenu BY <1>2 DEF EnterMenu
<1>3. CASE Idle BY <1>3 DEF Idle
<1>4. CASE Enqueue BY <1>4 DEF Enqueue
<1>5. CASE FinishLogout BY <1>5 DEF FinishLogout
<1>6. CASE Toggle BY <1>6 DEF Toggle
<1>7. ASSUME NEW c \in Cred, SubmitLogin(c) PROVE ForgottenIsGone'
  BY <1>7 DEF SubmitLogin
<1>8. CASE SubmitRegister BY <1>8 DEF SubmitRegister
<1>9. CASE SubmitChat BY <1>9 DEF SubmitChat
<1>10. CASE StartGame BY <1>10 DEF StartGame
<1>11. CASE Logout BY <1>11 DEF Logout
<1>12. CASE Quit BY <1>12 DEF Quit
<1>13. CASE Connect BY <1>13 DEF Connect
<1>14. CASE ConnectFails BY <1>14 DEF ConnectFails
<1>15. CASE ClearQueue BY <1>15 DEF ClearQueue
<1>16. CASE Relogin BY <1>16 DEF Relogin
<1>17. CASE Announce BY <1>17 DEF Announce
<1>18. CASE Pump BY <1>18 DEF Pump
<1>19. CASE Send BY <1>19 DEF Send
<1>20. CASE GoRecv BY <1>20 DEF GoRecv
<1>21. CASE RecvTimeout BY <1>21 DEF RecvTimeout
<1>22. CASE Receive BY <1>22 DEF Receive
<1>23. CASE PushEvent BY <1>23 DEF PushEvent
<1>24. CASE RecvFails BY <1>24 DEF RecvFails
<1>25. CASE Drop BY <1>25 DEF Drop
<1>26. CASE Tell BY <1>26 DEF Tell
<1>27. CASE End BY <1>27 DEF End
<1>28. CASE Break BY <1>28 DEF Break
<1>29. ASSUME NEW i \in Conn, Serve(i) PROVE ForgottenIsGone' BY <1>29 DEF Serve
<1>30. ASSUME NEW i \in Conn, Reap(i) PROVE ForgottenIsGone' BY <1>30 DEF Reap
<1>31. CASE Over BY <1>31 DEF Over, vars
<1> QED
  BY <1>0, <1>1, <1>2, <1>3, <1>4, <1>5, <1>6, <1>7, <1>8, <1>9, <1>10, <1>11,
     <1>12, <1>13, <1>14, <1>15, <1>16, <1>17, <1>18, <1>19, <1>20, <1>21, <1>22,
     <1>23, <1>24, <1>25, <1>26, <1>27, <1>28, <1>29, <1>30, <1>31
  DEF Next, GameThread, Player, Worker, Server

\* After a logout no login gets into the queue.
LEMMA StopsStep == TypeOK /\ PlacesAgree /\ ForgottenIsGone /\ LogoutStops /\ [Next]_vars => LogoutStops'
<1> SUFFICES ASSUME TypeOK, PlacesAgree, ForgottenIsGone, LogoutStops, [Next]_vars PROVE LogoutStops'
  OBVIOUS
<1> USE DEF LogoutStops, game, worker, net, shared, bounds
<1>0. CASE UNCHANGED vars BY <1>0 DEF vars
<1>1. CASE Poll BY <1>1 DEF Poll
<1>2. CASE EnterMenu BY <1>2 DEF EnterMenu
<1>3. CASE Idle BY <1>3 DEF Idle
<1>4. CASE Enqueue
  <2>1. draft \in Request /\ (draft.op = "Login" => asked)
    BY <1>4 DEF Enqueue, PlacesAgree, TypeOK, GameTypes
  <2>0. sendQueue \in Seq(Request) BY DEF TypeOK, QueueTypes
  <2>2. /\ Len(sendQueue') = Len(sendQueue) + 1
        /\ sendQueue'[Len(sendQueue) + 1] = draft
        /\ \A k \in 1..Len(sendQueue) : sendQueue'[k] = sendQueue[k]
    BY <1>4, <2>0, <2>1, Appended DEF Enqueue
  <2>3. ASSUME ~asked, NEW k \in 1..Len(sendQueue') PROVE sendQueue'[k].op # "Login"
    <3>1. CASE k = Len(sendQueue) + 1 BY <2>1, <2>2, <2>3, <3>1
    <3>2. CASE k \in 1..Len(sendQueue) BY <1>4, <2>2, <2>3, <3>2 DEF Enqueue
    <3>3. Len(sendQueue) \in Nat BY <2>0
    <3> QED BY <2>2, <3>1, <3>2, <3>3
  <2> QED BY <1>4, <2>3 DEF Enqueue
<1>5. CASE FinishLogout BY <1>5 DEF FinishLogout, ForgottenIsGone
<1>6. CASE Toggle BY <1>6 DEF Toggle, AtLogin
<1>7. ASSUME NEW c \in Cred, SubmitLogin(c) PROVE LogoutStops' BY <1>7 DEF SubmitLogin
<1>8. CASE SubmitRegister BY <1>8 DEF SubmitRegister, MaySubmit, AtLogin
<1>9. CASE SubmitChat BY <1>9 DEF SubmitChat
<1>10. CASE StartGame BY <1>10 DEF StartGame
<1>11. CASE Logout BY <1>11 DEF Logout
<1>12. CASE Quit BY <1>12 DEF Quit
<1>13. CASE Connect BY <1>13 DEF Connect
<1>14. CASE ConnectFails BY <1>14 DEF ConnectFails
<1>15. CASE ClearQueue BY <1>15 DEF ClearQueue
<1>16. CASE Relogin BY <1>16 DEF Relogin, ForgottenIsGone
<1>17. CASE Announce BY <1>17 DEF Announce
<1>18. CASE Pump BY <1>18 DEF Pump
<1>19. CASE Send BY <1>19 DEF Send
<1>20. CASE GoRecv BY <1>20 DEF GoRecv
<1>21. CASE RecvTimeout BY <1>21 DEF RecvTimeout
<1>22. CASE Receive BY <1>22 DEF Receive, ForgottenIsGone
<1>23. CASE PushEvent BY <1>23 DEF PushEvent
<1>24. CASE RecvFails BY <1>24 DEF RecvFails
<1>25. CASE Drop BY <1>25 DEF Drop
<1>26. CASE Tell BY <1>26 DEF Tell
<1>27. CASE End BY <1>27 DEF End
<1>28. CASE Break BY <1>28 DEF Break
<1>29. ASSUME NEW i \in Conn, Serve(i) PROVE LogoutStops' BY <1>29 DEF Serve
<1>30. ASSUME NEW i \in Conn, Reap(i) PROVE LogoutStops' BY <1>30 DEF Reap
<1>31. CASE Over BY <1>31 DEF Over, vars
<1> QED
  BY <1>0, <1>1, <1>2, <1>3, <1>4, <1>5, <1>6, <1>7, <1>8, <1>9, <1>10, <1>11,
     <1>12, <1>13, <1>14, <1>15, <1>16, <1>17, <1>18, <1>19, <1>20, <1>21, <1>22,
     <1>23, <1>24, <1>25, <1>26, <1>27, <1>28, <1>29, <1>30, <1>31
  DEF Next, GameThread, Player, Worker, Server

-----------------------------------------------------------------------------
(* The belief of being logged in.                                          *)

Current == AcksAreCurrent /\ LoggedInIsCurrent

\* A step of the worker on its connection, or of anybody else, that leaves the events
\* and the belief alone changes nothing.
LEMMA StillAttached ==
  ASSUME Current, UNCHANGED <<events, shown, shownOn, conn>>, Attached' = Attached
  PROVE  Current'
BY DEF Current, AcksAreCurrent, LoggedInIsCurrent, EndAnnounced

\* With the end of the connection queued last, everything is about to be taken back.
LEMMA EndPushed ==
  ASSUME TypeOK, events' = Append(events, [type |-> "Disconnected"])
  PROVE  AcksAreCurrent' /\ EndAnnounced'
<1>1. /\ Len(events') = Len(events) + 1 /\ Len(events) \in Nat
      /\ events'[Len(events) + 1].type = "Disconnected"
  BY DisconnectedIsEvent, Appended DEF TypeOK, QueueTypes
<1>2. ASSUME NEW k \in 1..Len(events'), events'[k].type = "LoginAck"
      PROVE  Len(events) + 1 \in k+1..Len(events')
  BY <1>1, <1>2
<1> QED BY <1>1, <1>2 DEF AcksAreCurrent, EndAnnounced

\* Every success queued, and the one believed, is current or about to be taken back.
LEMMA CurrentStep == TypeOK /\ PlacesAgree /\ Current /\ [Next]_vars => Current'
<1> SUFFICES ASSUME TypeOK, PlacesAgree, Current, [Next]_vars PROVE Current'
  OBVIOUS
<1> USE DEF game, worker, net, shared, bounds
<1>0. CASE UNCHANGED vars BY <1>0, StillAttached DEF vars, Attached
<1>1. CASE Poll
  <2>1. CASE events = <<>> BY <1>1, <2>1, StillAttached DEF Poll, Attached
  <2>2. CASE events # <<>>
    <3> DEFINE e == Head(events)
    <3>0. events \in Seq(Event) BY DEF TypeOK, QueueTypes
    <3>1. /\ events' = Tail(events) /\ e \in Event /\ e = events[1] /\ 1 \in 1..Len(events)
          /\ Len(events') = Len(events) - 1 /\ events' \in Seq(Event)
          /\ \A k \in 1..Len(events') : events'[k] = events[k + 1] /\ k + 1 \in 1..Len(events)
      BY <1>1, <2>2, <3>0, HeadTail DEF Poll
    <3>2. UNCHANGED <<wpc, conn>> BY <1>1 DEF Poll
    \* An end that was queued behind position k is still queued, one place nearer.
    <3>3. ASSUME NEW k \in 1..Len(events), NEW m \in k+1..Len(events),
                 events[m].type = "Disconnected"
          PROVE  m - 1 \in 1..Len(events') /\ m - 1 >= k /\ events'[m - 1].type = "Disconnected"
      BY <3>1, <3>3
    <3>4. AcksAreCurrent'
      <4> SUFFICES ASSUME NEW k \in 1..Len(events'),
                          events'[k].type = "LoginAck" /\ events'[k].ok
                   PROVE  \/ (Attached /\ events'[k].on = conn)
                          \/ \E m \in k+1..Len(events') : events'[m].type = "Disconnected"
        BY <3>2 DEF AcksAreCurrent, Attached
      <4>1. k + 1 \in 1..Len(events) /\ events'[k] = events[k + 1] BY <3>1
      <4>2. CASE Attached /\ events[k + 1].on = conn BY <4>1, <4>2
      <4>3. ASSUME NEW m \in k+2..Len(events), events[m].type = "Disconnected"
            PROVE  \E n \in k+1..Len(events') : events'[n].type = "Disconnected"
        <5>0. k \in Nat /\ Len(events) \in Nat /\ Len(events') \in Nat BY <3>0, <3>1
        <5>1. m \in (k+1)+1..Len(events) BY <4>3, <5>0
        <5>2. m - 1 \in 1..Len(events') /\ m - 1 >= k + 1 BY <3>3, <4>1, <4>3, <5>1
        <5>3. m - 1 \in k+1..Len(events') BY <5>0, <5>2
        <5>4. events'[m - 1].type = "Disconnected" BY <3>3, <4>1, <4>3, <5>1
        <5> QED BY <5>3, <5>4
      <4>4. (k + 1) + 1 = k + 2 BY <3>1
      <4> QED BY <4>1, <4>2, <4>3, <4>4 DEF Current, AcksAreCurrent
    <3>5. LoggedInIsCurrent'
      <4>1. CASE e.type = "Disconnected"
        BY <1>1, <2>2, <4>1 DEF Poll, LoggedInIsCurrent
      <4>2. CASE e.type = "LoginAck" /\ e.ok
        <5>1. shownOn' = e.on BY <1>1, <2>2, <4>2 DEF Poll
        <5>2. CASE Attached /\ e.on = conn
          BY <3>2, <5>1, <5>2 DEF LoggedInIsCurrent, Attached
        <5>3. ASSUME NEW m \in 2..Len(events), events[m].type = "Disconnected"
              PROVE  EndAnnounced'
          <6>1. m - 1 \in 1..Len(events') /\ events'[m - 1].type = "Disconnected"
            BY <3>1, <3>3, <5>3
          <6> QED BY <6>1 DEF EndAnnounced
        <5> QED BY <3>1, <4>2, <5>2, <5>3 DEF Current, AcksAreCurrent, LoggedInIsCurrent
      <4>3. CASE e.type # "Disconnected" /\ ~(e.type = "LoginAck" /\ e.ok)
        <5>1. UNCHANGED <<shown, shownOn>> BY <1>1, <2>2, <4>3 DEF Poll
        <5>2. ASSUME NEW m \in 1..Len(events), events[m].type = "Disconnected"
              PROVE  EndAnnounced'
          <6>1. m \in 2..Len(events) BY <3>1, <4>3, <5>2
          <6>2. m - 1 \in 1..Len(events') /\ events'[m - 1].type = "Disconnected"
            BY <3>1, <3>3, <5>2, <6>1
          <6> QED BY <6>2 DEF EndAnnounced
        <5> QED BY <3>2, <5>1, <5>2 DEF Current, EndAnnounced, LoggedInIsCurrent, Attached
      <4> QED BY <4>1, <4>2, <4>3
    <3> QED BY <3>4, <3>5 DEF Current
  <2> QED BY <2>1, <2>2
<1>2. CASE EnterMenu BY <1>2, StillAttached DEF EnterMenu, Attached
<1>3. CASE Idle BY <1>3, StillAttached DEF Idle, Attached
<1>4. CASE Enqueue BY <1>4, StillAttached DEF Enqueue, Attached
<1>5. CASE FinishLogout
  BY <1>5 DEF FinishLogout, Current, LoggedInIsCurrent, AcksAreCurrent, Attached
<1>6. CASE Toggle BY <1>6, StillAttached DEF Toggle, Attached
<1>7. ASSUME NEW c \in Cred, SubmitLogin(c) PROVE Current'
  BY <1>7, StillAttached DEF SubmitLogin, Attached
<1>8. CASE SubmitRegister BY <1>8, StillAttached DEF SubmitRegister, Attached
<1>9. CASE SubmitChat BY <1>9, StillAttached DEF SubmitChat, Attached
<1>10. CASE StartGame BY <1>10, StillAttached DEF StartGame, Attached
<1>11. CASE Logout BY <1>11, StillAttached DEF Logout, Attached
<1>12. CASE Quit BY <1>12, StillAttached DEF Quit, Attached
<1>13. CASE Connect
  BY <1>13 DEF Connect, Current, LoggedInIsCurrent, AcksAreCurrent, EndAnnounced, Attached
<1>14. CASE ConnectFails
  BY <1>14, DisconnectedIsEvent, EndPushed DEF ConnectFails, Push, Current, LoggedInIsCurrent
<1>15. CASE ClearQueue BY <1>15, StillAttached DEF ClearQueue, Attached
<1>16. CASE Relogin BY <1>16, StillAttached DEF Relogin, Attached
<1>17. CASE Announce BY <1>17, StillAttached DEF Announce, Attached
<1>18. CASE Pump BY <1>18, StillAttached DEF Pump, Attached
<1>19. CASE Send BY <1>19, StillAttached DEF Send, Attached
<1>20. CASE GoRecv BY <1>20, StillAttached DEF GoRecv, Attached
<1>21. CASE RecvTimeout BY <1>21, StillAttached DEF RecvTimeout, Attached
<1>22. CASE Receive BY <1>22, StillAttached DEF Receive, Attached
<1>23. CASE PushEvent
  <2>1. /\ got \in Event /\ (got.type = "LoginAck" => got.on = conn)
        /\ Attached /\ Attached' /\ conn' = conn
    BY <1>23 DEF PushEvent, PlacesAgree, Attached, TypeOK, QueueTypes
  <2>0. events \in Seq(Event) BY DEF TypeOK, QueueTypes
  <2>2. /\ Len(events') = Len(events) + 1 /\ events'[Len(events) + 1] = got
        /\ \A k \in 1..Len(events) : events'[k] = events[k]
        /\ Len(events) \in Nat
    BY <1>23, <2>0, <2>1, Appended DEF PushEvent, Push
  <2>3. AcksAreCurrent'
    <3> SUFFICES ASSUME NEW k \in 1..Len(events'), events'[k].type = "LoginAck",
                        events'[k].ok
                 PROVE  \/ (Attached /\ events'[k].on = conn)
                        \/ \E m \in k+1..Len(events') : events'[m].type = "Disconnected"
      BY <2>1 DEF AcksAreCurrent
    <3>1. CASE k = Len(events) + 1 BY <2>1, <2>2, <3>1
    <3>2. CASE k \in 1..Len(events) BY <2>2, <3>2 DEF Current, AcksAreCurrent
    <3> QED BY <2>2, <3>1, <3>2
  <2>4. LoggedInIsCurrent'
    <3>1. EndAnnounced => EndAnnounced' BY <2>2 DEF EndAnnounced
    <3>2. UNCHANGED <<shown, shownOn>> BY <1>23 DEF PushEvent
    <3> QED BY <2>1, <3>1, <3>2 DEF Current, LoggedInIsCurrent
  <2> QED BY <2>3, <2>4 DEF Current
<1>24. CASE RecvFails BY <1>24, StillAttached DEF RecvFails, Attached
<1>25. CASE Drop BY <1>25, StillAttached DEF Drop, Attached
<1>26. CASE Tell
  BY <1>26, DisconnectedIsEvent, EndPushed DEF Tell, Push, Current, LoggedInIsCurrent
<1>27. CASE End
  BY <1>27 DEF End, Current, LoggedInIsCurrent, AcksAreCurrent, EndAnnounced, Attached
<1>28. CASE Break BY <1>28, StillAttached DEF Break, Attached
<1>29. ASSUME NEW i \in Conn, Serve(i) PROVE Current'
  BY <1>29, StillAttached DEF Serve, Attached
<1>30. ASSUME NEW i \in Conn, Reap(i) PROVE Current'
  BY <1>30, StillAttached DEF Reap, Attached
<1>31. CASE Over BY <1>31, StillAttached DEF Over, vars, Attached
<1> QED
  BY <1>0, <1>1, <1>2, <1>3, <1>4, <1>5, <1>6, <1>7, <1>8, <1>9, <1>10, <1>11,
     <1>12, <1>13, <1>14, <1>15, <1>16, <1>17, <1>18, <1>19, <1>20, <1>21, <1>22,
     <1>23, <1>24, <1>25, <1>26, <1>27, <1>28, <1>29, <1>30, <1>31
  DEF Next, GameThread, Player, Worker, Server

-----------------------------------------------------------------------------
(* The theorems.                                                           *)

LEMMA InitInv == Init => IInv
<1> SUFFICES ASSUME Init PROVE IInv OBVIOUS
<1> USE DEF Init
<1>1. TypeOK
  <2>0. 0 \in 0..MaxConn /\ 0 \in 0..MaxFails /\ 0 \in 0..MaxRequests BY DEF ClientAssumption
  <2>1. GameTypes BY <2>0 DEF GameTypes
  <2>2. NetTypes BY <2>0 DEF NetTypes
  <2>3. QueueTypes BY DEF QueueTypes
  <2>4. LinkTypes BY DEF LinkTypes
  <2> QED BY <2>1, <2>2, <2>3, <2>4 DEF TypeOK
<1>2. PlacesAgree BY DEF PlacesAgree, Attached
<1>3. AcksAreCurrent /\ LoggedInIsCurrent /\ LogoutStops /\ ForgottenIsGone
  BY DEF AcksAreCurrent, LoggedInIsCurrent, LogoutStops, ForgottenIsGone
<1> QED BY <1>1, <1>2, <1>3 DEF IInv

LEMMA StepInv == IInv /\ [Next]_vars => IInv'
BY GameTypesStep, NetTypesStep, QueueTypesStep, LinkTypesStep, PlacesStep,
   ForgottenStep, StopsStep, CurrentStep DEF IInv, TypeOK, Current

\* The strengthened invariant holds in every reachable state.
THEOREM Inductive == Spec => []IInv
<1>1. Init => IInv BY InitInv
<1>2. IInv /\ [Next]_vars => IInv' BY StepInv
<1> QED BY <1>1, <1>2, PTL DEF Spec

\* Type correctness of the client's state.
THEOREM TypeCorrect == Spec => []TypeOK
<1>1. IInv => TypeOK BY DEF IInv
<1> QED BY <1>1, Inductive, PTL

\* The client never goes on believing in a login whose connection is gone.
THEOREM BeliefSafety == Spec => []LoggedInIsCurrent
<1>1. IInv => LoggedInIsCurrent BY DEF IInv
<1> QED BY <1>1, Inductive, PTL

\* After a logout no login is queued and no credentials are kept to log in with.
THEOREM LogoutSafety == Spec => []LogoutStops
<1>1. IInv => LogoutStops BY DEF IInv
<1> QED BY <1>1, Inductive, PTL
=============================================================================
