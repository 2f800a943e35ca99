----------------------------- MODULE GameClient -----------------------------
(***************************************************************************)
(* The game client's side of the account server: NetClient (a game thread  *)
(* and a worker thread that share a send queue, an event queue and the     *)
(* stored credentials), the screens that react to its events (App,         *)
(* LoginScreen, MainMenuScreen, GameScreen), and the sessions the server   *)
(* keeps for this client's connections.                                    *)
(*                                                                         *)
(* A step is one critical section of NetClient's mutexes, or one piece of  *)
(* work on data that only one thread touches.  Left out: events and        *)
(* packets that change no state kept here (Connecting, Connected, chat     *)
(* lines received, heartbeats), message texts, focus, packets too short to  *)
(* read, other clients, and the length of the waits.                       *)
(***************************************************************************)
EXTENDS Naturals, Sequences

CONSTANTS Account,      \* login id and password of accounts that exist
          Wrong,        \* a login id and password the server refuses
          NoCred,       \* no credentials; nobody logged in
          MaxConn,      \* bound: connections the worker opens
          MaxFails,     \* bound: attempts to connect that fail
          MaxRequests   \* bound: packets the player causes

Cred == Account \cup {Wrong}

ASSUME ClientAssumption ==
  /\ Wrong \notin Account
  /\ NoCred \notin Cred
  /\ MaxConn \in Nat /\ MaxFails \in Nat /\ MaxRequests \in Nat

VARIABLES
  \* the game thread
  gpc,        \* place in App::Frame
  draft,      \* the packet a request is about to enqueue
  screen,     \* the current Screen
  mode,       \* LoginScreen::m_mode
  waiting,    \* LoginScreen::m_waiting
  entering,   \* LoginScreen::m_pending is MainMenu
  shown,      \* m_nickname while m_loggedIn, NoCred otherwise
  \* NetClient, shared by both threads
  cred, credValid, connected, stop, sendQueue, events,
  \* the worker thread
  wpc,        \* place in Worker
  outbox,     \* the local deque `pending'
  got,        \* the event the worker is about to push
  \* connections, numbered, and the server's session at the end of each
  conn, up, down, cut, who,
  \* for the bounds and the properties
  fails, requests,
  asked,      \* RequestLogin was called since the last Logout
  shownOn     \* the connection on which shown was granted

game == <<gpc, draft, screen, mode, waiting, entering, shown, shownOn>>
worker == <<wpc, outbox, got, conn>>
net == <<up, down, cut, who>>
vars == <<game, cred, credValid, connected, stop, sendQueue, events, worker,
          net, fails, requests, asked>>

Conn == 1..MaxConn
Request == [op : {"Login"}, cred : Cred] \cup [op : {"Register", "Chat"}]
Answer == [op : {"LoginAck"}, ok : BOOLEAN, who : Account \cup {NoCred}]
            \cup [op : {"RegisterAck"}, ok : BOOLEAN]
Event == [type : {"LoginAck"}, ok : BOOLEAN, who : Account \cup {NoCred}, on : Conn]
           \cup [type : {"RegisterAck"}, ok : BOOLEAN] \cup [type : {"Disconnected"}]
Nothing == [op |-> "None"]

Init ==
  /\ gpc = "poll" /\ draft = Nothing
  /\ screen = "Login" /\ mode = "Login" /\ waiting = FALSE /\ entering = FALSE
  /\ shown = NoCred /\ shownOn = 0
  /\ cred = NoCred /\ credValid = FALSE
  /\ connected = FALSE /\ stop = FALSE
  /\ sendQueue = <<>> /\ events = <<>>
  /\ wpc = "down" /\ outbox = <<>> /\ got = Nothing
  /\ conn = 0
  /\ up = [i \in Conn |-> <<>>]
  /\ down = [i \in Conn |-> <<>>]
  /\ cut = [i \in Conn |-> FALSE]
  /\ who = [i \in Conn |-> NoCred]
  /\ fails = 0 /\ requests = 0
  /\ asked = FALSE

shared == <<cred, credValid, connected, stop, sendQueue, events>>
bounds == <<fails, requests>>

-----------------------------------------------------------------------------
(* The game thread: App::Frame drains the events, then updates the screen. *)

\* LoginScreen::SetMode, or a new LoginScreen: nothing is waited for.
FreshLogin(m) == mode' = m /\ waiting' = FALSE

\* Mutant: losing the connection does not end the wait.
OnNetEvent_Waiting(e) ==
  IF screen # "Login" THEN UNCHANGED <<mode, waiting, entering>>
  ELSE CASE e.type = "Disconnected" -> UNCHANGED <<mode, waiting, entering>>
         [] e.type = "LoginAck" ->
              /\ waiting' = FALSE
              /\ entering' = (entering \/ e.ok)
              /\ UNCHANGED mode
         [] e.type = "RegisterAck" ->
              /\ IF e.ok THEN FreshLogin("Login") ELSE waiting' = FALSE /\ UNCHANGED mode
              /\ UNCHANGED entering

\* LoginScreen::OnNetEvent; the other screens keep nothing of these events.
OnNetEvent(e) ==
  IF screen # "Login" THEN UNCHANGED <<mode, waiting, entering>>
  ELSE CASE e.type = "Disconnected" -> waiting' = FALSE /\ UNCHANGED <<mode, entering>>
         [] e.type = "LoginAck" ->
              /\ waiting' = FALSE
              /\ entering' = (entering \/ e.ok)
              /\ UNCHANGED mode
         [] e.type = "RegisterAck" ->
              /\ IF e.ok THEN FreshLogin("Login") ELSE waiting' = FALSE /\ UNCHANGED mode
              /\ UNCHANGED entering

\* Mutant: losing the connection does not take the login back.
Poll_Keeping ==
  /\ gpc = "poll"
  /\ IF events = <<>>
       THEN gpc' = "update" /\ UNCHANGED <<screen, mode, waiting, entering, shown, shownOn, events>>
       ELSE LET e == Head(events) IN
            /\ events' = Tail(events)
            /\ IF e.type = "LoginAck" /\ e.ok THEN shown' = e.who /\ shownOn' = e.on
                                              ELSE UNCHANGED <<shown, shownOn>>
            /\ OnNetEvent(e)
            /\ UNCHANGED <<gpc, screen>>
  /\ UNCHANGED <<draft, cred, credValid, connected, stop, sendQueue, worker, net, bounds, asked>>

\* NetClient::Poll updates the game thread's copies before the screen sees the
\* event: a success sets them, a failure leaves them as they are.
Poll ==
  /\ gpc = "poll"
  /\ IF events = <<>>
       THEN gpc' = "update" /\ UNCHANGED <<screen, mode, waiting, entering, shown, shownOn, events>>
       ELSE LET e == Head(events) IN
            /\ events' = Tail(events)
            /\ CASE e.type = "Disconnected" -> shown' = NoCred /\ UNCHANGED shownOn
                 [] e.type = "LoginAck" /\ e.ok -> shown' = e.who /\ shownOn' = e.on
                 [] OTHER -> UNCHANGED <<shown, shownOn>>
            /\ OnNetEvent(e)
            /\ UNCHANGED <<gpc, screen>>
  /\ UNCHANGED <<draft, cred, credValid, connected, stop, sendQueue, worker, net, bounds, asked>>

\* LoginScreen::Update returns the scene OnNetEvent asked for.
EnterMenu ==
  /\ gpc = "update" /\ screen = "Login" /\ entering
  /\ screen' = "MainMenu" /\ entering' = FALSE
  /\ gpc' = "poll"
  /\ UNCHANGED <<draft, mode, waiting, shown, shownOn, shared, worker, net, bounds, asked>>

AtLogin == gpc = "update" /\ screen = "Login" /\ ~entering

\* A frame in which the player does nothing that gets through, or one that stops at
\* the key setting overlay.
Idle ==
  /\ gpc = "update"
  /\ gpc' = "poll"
  /\ UNCHANGED <<draft, screen, mode, waiting, entering, shown, shownOn, shared,
                 worker, net, bounds, asked>>

\* The second button toggles between the login and the register form.
Toggle ==
  /\ AtLogin
  /\ FreshLogin(IF mode = "Login" THEN "Register" ELSE "Login")
  /\ gpc' = "poll"
  /\ UNCHANGED <<draft, screen, entering, shown, shownOn, shared, worker, net, bounds, asked>>

MaySubmit == AtLogin /\ ~waiting /\ connected /\ requests < MaxRequests

\* Submit, login form: RequestLogin stores the credentials as not yet accepted.
SubmitLogin(c) ==
  /\ MaySubmit /\ mode = "Login"
  /\ cred' = c /\ credValid' = FALSE
  /\ asked' = TRUE
  /\ draft' = [op |-> "Login", cred |-> c]
  /\ requests' = requests + 1
  /\ gpc' = "enqueue"
  /\ UNCHANGED <<screen, mode, waiting, entering, shown, shownOn, connected, stop,
                 sendQueue, events, worker, net, fails>>

SubmitRegister ==
  /\ MaySubmit /\ mode = "Register"
  /\ draft' = [op |-> "Register"]
  /\ requests' = requests + 1
  /\ gpc' = "enqueue"
  /\ UNCHANGED <<screen, mode, waiting, entering, shown, shownOn, shared, worker,
                 net, fails, asked>>

\* GameScreen::SubmitChat lets a line through only when it is logged in.
SubmitChat ==
  /\ gpc = "update" /\ screen = "InGame" /\ shown # NoCred /\ requests < MaxRequests
  /\ draft' = [op |-> "Chat"]
  /\ requests' = requests + 1
  /\ gpc' = "enqueue"
  /\ UNCHANGED <<screen, mode, waiting, entering, shown, shownOn, shared, worker,
                 net, fails, asked>>

\* NetClient::Enqueue; a request of the login screen is then waited for.
Enqueue ==
  /\ gpc = "enqueue"
  /\ sendQueue' = Append(sendQueue, draft)
  /\ waiting' = (waiting \/ draft.op \in {"Login", "Register"})
  /\ draft' = Nothing
  /\ gpc' = "poll"
  /\ UNCHANGED <<screen, mode, entering, shown, shownOn, cred, credValid, connected,
                 stop, events, worker, net, bounds, asked>>

StartGame ==
  /\ gpc = "update" /\ screen = "MainMenu"
  /\ screen' = "InGame"
  /\ gpc' = "poll"
  /\ UNCHANGED <<draft, mode, waiting, entering, shown, shownOn, shared, worker, net,
                 bounds, asked>>

\* The logout button: NetClient::Logout forgets the credentials ...
Logout ==
  /\ gpc = "update" /\ screen = "MainMenu"
  /\ cred' = NoCred /\ credValid' = FALSE
  /\ asked' = FALSE
  /\ gpc' = "clear"
  /\ UNCHANGED <<draft, screen, mode, waiting, entering, shown, shownOn, connected,
                 stop, sendQueue, events, worker, net, bounds>>

\* ... then the queue and the copies; App makes a new login screen.
FinishLogout ==
  /\ gpc = "clear"
  /\ sendQueue' = <<>>
  /\ shown' = NoCred
  /\ screen' = "Login" /\ entering' = FALSE /\ FreshLogin("Login")
  /\ gpc' = "poll"
  /\ UNCHANGED <<draft, shownOn, cred, credValid, connected, stop, events, worker,
                 net, bounds, asked>>

\* The window is closed, ESC, or the quit button: NetClient::Stop, which joins.
Quit ==
  /\ gpc = "update"
  /\ stop' = TRUE
  /\ gpc' = "join"
  /\ UNCHANGED <<draft, screen, mode, waiting, entering, shown, shownOn, cred,
                 credValid, connected, sendQueue, events, worker, net, bounds, asked>>

-----------------------------------------------------------------------------
(* The worker thread.                                                      *)

Push(e) == events' = Append(events, e)

\* ConnectWithTimeout gave a socket: a new connection.
Connect ==
  /\ wpc = "down" /\ ~stop
  /\ conn < MaxConn
  /\ conn' = conn + 1
  /\ wpc' = "clear"
  /\ UNCHANGED <<game, shared, outbox, got, net, bounds, asked>>

\* It did not: the screens take ConnectFailed as they take Disconnected.
ConnectFails ==
  /\ wpc = "down" /\ ~stop
  /\ fails < MaxFails
  /\ fails' = fails + 1
  /\ Push([type |-> "Disconnected"])
  /\ UNCHANGED <<game, cred, credValid, connected, stop, sendQueue, worker, net,
                 requests, asked>>

\* Nothing of the old connection may go out on the new one.
ClearQueue ==
  /\ wpc = "clear"
  /\ sendQueue' = <<>>
  /\ wpc' = "relogin"
  /\ UNCHANGED <<game, cred, credValid, connected, stop, events, outbox, got, conn,
                 net, bounds, asked>>

\* Automatic login, under the credentials' mutex and then the queue's.
Relogin ==
  /\ wpc = "relogin"
  /\ sendQueue' = IF credValid
                  THEN Append(sendQueue, [op |-> "Login", cred |-> cred])
                  ELSE sendQueue
  /\ wpc' = "announce"
  /\ UNCHANGED <<game, cred, credValid, connected, stop, events, outbox, got, conn,
                 net, bounds, asked>>

Announce ==
  /\ wpc = "announce"
  /\ connected' = TRUE
  /\ wpc' = "pump"
  /\ UNCHANGED <<game, cred, credValid, stop, sendQueue, events, outbox, got, conn,
                 net, bounds, asked>>

\* Mutant: the inner loop does not look at the flag.
Pump_Deaf ==
  /\ wpc = "pump"
  /\ wpc' = "send" /\ outbox' = sendQueue /\ sendQueue' = <<>>
  /\ UNCHANGED <<game, cred, credValid, connected, stop, events, got, conn, net,
                 bounds, asked>>

\* The inner loop takes the whole queue, unless it was asked to stop.
Pump ==
  /\ wpc = "pump"
  /\ IF stop THEN wpc' = "drop" /\ UNCHANGED <<outbox, sendQueue>>
             ELSE wpc' = "send" /\ outbox' = sendQueue /\ sendQueue' = <<>>
  /\ UNCHANGED <<game, cred, credValid, connected, stop, events, got, conn, net,
                 bounds, asked>>

\* SendAll of the next packet.  On a connection that is cut the packet is lost,
\* and the call may or may not notice; the rest of the deque goes with it.
Send ==
  /\ wpc = "send" /\ outbox # <<>>
  /\ \/ /\ outbox' = Tail(outbox)
        /\ up' = IF cut[conn] THEN up ELSE [up EXCEPT ![conn] = Append(@, Head(outbox))]
        /\ UNCHANGED wpc
     \/ /\ cut[conn]
        /\ outbox' = <<>>
        /\ wpc' = "drop"
        /\ UNCHANGED up
  /\ UNCHANGED <<game, shared, got, conn, down, cut, who, bounds, asked>>

\* All is sent, recv is next; or recv timed out with nothing to read.
GoRecv ==
  /\ wpc = "send" /\ outbox = <<>>
  /\ wpc' = "recv"
  /\ UNCHANGED <<game, shared, outbox, got, conn, net, bounds, asked>>

RecvTimeout ==
  /\ wpc = "recv"
  /\ down[conn] = <<>> /\ ~cut[conn]
  /\ wpc' = "pump"
  /\ UNCHANGED <<game, shared, outbox, got, conn, net, bounds, asked>>

\* Mutant: a success is believed even if nothing is stored.
Receive_Trusting ==
  /\ wpc \in {"recv", "more"}
  /\ down[conn] # <<>>
  /\ LET a == Head(down[conn]) IN
     /\ down' = [down EXCEPT ![conn] = Tail(@)]
     /\ IF a.op = "LoginAck"
          THEN /\ credValid' = a.ok
               /\ got' = [type |-> "LoginAck", ok |-> a.ok, who |-> a.who, on |-> conn]
          ELSE /\ UNCHANGED credValid
               /\ got' = [type |-> "RegisterAck", ok |-> a.ok]
  /\ wpc' = "push"
  /\ UNCHANGED <<game, cred, connected, stop, sendQueue, events, outbox, conn, up, cut,
                 who, bounds, asked>>

\* A packet of the last recv is handled.  A login answer marks the stored credentials, whichever
\* they are by now; the event follows.
Receive ==
  /\ wpc \in {"recv", "more"}
  /\ down[conn] # <<>>
  /\ LET a == Head(down[conn]) IN
     /\ down' = [down EXCEPT ![conn] = Tail(@)]
     /\ IF a.op = "LoginAck"
          THEN /\ credValid' = (a.ok /\ cred # NoCred)
               /\ got' = [type |-> "LoginAck", ok |-> a.ok, who |-> a.who, on |-> conn]
          ELSE /\ UNCHANGED credValid
               /\ got' = [type |-> "RegisterAck", ok |-> a.ok]
  /\ wpc' = "push"
  /\ UNCHANGED <<game, cred, connected, stop, sendQueue, events, outbox, conn, up, cut,
                 who, bounds, asked>>

\* The same recv may have brought more packets; if not, back to the send queue.
PushEvent ==
  /\ wpc = "push"
  /\ Push(got)
  /\ got' = Nothing
  /\ \/ down[conn] # <<>> /\ wpc' = "more"
     \/ wpc' = "pump"
  /\ UNCHANGED <<game, cred, credValid, connected, stop, sendQueue, outbox, conn, net,
                 bounds, asked>>

\* recv returned 0 or an error; what was not read is lost.
RecvFails ==
  /\ wpc = "recv" /\ cut[conn]
  /\ wpc' = "drop"
  /\ UNCHANGED <<game, shared, outbox, got, conn, net, bounds, asked>>

\* After the inner loop: connected falls, the socket is closed ...
Drop ==
  /\ wpc = "drop"
  /\ connected' = FALSE
  /\ cut' = [cut EXCEPT ![conn] = TRUE]
  /\ wpc' = "tell"
  /\ UNCHANGED <<game, cred, credValid, stop, sendQueue, events, outbox, got, conn, up,
                 down, who, bounds, asked>>

\* Mutant: the game thread is told only if the player quits.
Tell_Silent ==
  /\ wpc = "tell"
  /\ IF stop THEN Push([type |-> "Disconnected"]) ELSE UNCHANGED events
  /\ wpc' = "down"
  /\ UNCHANGED <<game, cred, credValid, connected, stop, sendQueue, outbox, got, conn,
                 net, bounds, asked>>

\* ... and the game thread is told.
Tell ==
  /\ wpc = "tell"
  /\ Push([type |-> "Disconnected"])
  /\ wpc' = "down"
  /\ UNCHANGED <<game, cred, credValid, connected, stop, sendQueue, outbox, got, conn,
                 net, bounds, asked>>

End ==
  /\ wpc = "down" /\ stop
  /\ wpc' = "ended"
  /\ UNCHANGED <<game, shared, outbox, got, conn, net, bounds, asked>>

-----------------------------------------------------------------------------
(* The network and the server, as far as this client's connections go.     *)

\* What the server sends on connection i; a cut connection delivers nothing new.
Reply(i, a) == IF cut[i] THEN down ELSE [down EXCEPT ![i] = Append(@, a)]

\* The connection breaks, or the server closes it.
Break ==
  /\ conn # 0 /\ ~cut[conn] /\ wpc \notin {"down", "ended"}
  /\ cut' = [cut EXCEPT ![conn] = TRUE]
  /\ UNCHANGED <<game, shared, worker, up, down, who, bounds, asked>>

\* HandleLoginReq: the session's own identity first, then the password, then the
\* other sessions of the account.
LoginVerdict(i, c) ==
  IF c \in Account /\ \A j \in Conn \ {i} : who[j] # c THEN c ELSE NoCred

\* HandlePacket on connection i, also for what was read before a cut.
Serve(i) ==
  /\ up[i] # <<>>
  /\ LET r == Head(up[i]) IN
     /\ up' = [up EXCEPT ![i] = Tail(@)]
     /\ CASE r.op = "Login" ->
               LET w == LoginVerdict(i, r.cred) IN
               /\ who' = [who EXCEPT ![i] = w]
               /\ down' = Reply(i, [op |-> "LoginAck", ok |-> w # NoCred, who |-> w])
          [] r.op = "Register" ->
               /\ \E ok \in BOOLEAN : down' = Reply(i, [op |-> "RegisterAck", ok |-> ok])
               /\ UNCHANGED who
          [] r.op = "Chat" -> UNCHANGED <<who, down>>
  /\ UNCHANGED <<game, shared, worker, cut, bounds, asked>>

\* The server notices that connection i is cut: its thread removes the session.
Reap(i) ==
  /\ cut[i] /\ (who[i] # NoCred \/ up[i] # <<>>)
  /\ who' = [who EXCEPT ![i] = NoCred]
  /\ up' = [up EXCEPT ![i] = <<>>]
  /\ UNCHANGED <<game, shared, worker, down, cut, bounds, asked>>

-----------------------------------------------------------------------------
Player == Toggle \/ (\E c \in Cred : SubmitLogin(c)) \/ SubmitRegister \/ SubmitChat
            \/ StartGame \/ Logout \/ Quit
GameThread == Poll \/ EnterMenu \/ Idle \/ Enqueue \/ FinishLogout \/ Player
Worker == Connect \/ ConnectFails \/ ClearQueue \/ Relogin \/ Announce \/ Pump \/ Send
            \/ GoRecv \/ RecvTimeout \/ Receive \/ PushEvent \/ RecvFails \/ Drop \/ Tell
            \/ End
Server == \E i \in Conn : Serve(i) \/ Reap(i)

\* The client has quit and its worker has ended.
Over == gpc = "join" /\ wpc = "ended" /\ UNCHANGED vars

Next == GameThread \/ Worker \/ Break \/ Server \/ Over

Spec == Init /\ [][Next]_vars

\* Both threads run, and the server's threads do; the player and the network owe
\* nothing.  The worker's send and its look-up of the host, which have no timeout,
\* are taken to return; the server's thread to read and to answer.
FairSpec ==
  /\ Spec
  /\ WF_vars(GameThread)
  /\ WF_vars(Worker)
  /\ \A i \in Conn : WF_vars(Serve(i)) /\ WF_vars(Reap(i))

-----------------------------------------------------------------------------
(* Properties.                                                             *)

\* Each variable has its type.
GameTypes ==
  /\ gpc \in {"poll", "update", "enqueue", "clear", "join"}
  /\ draft \in Request \cup {Nothing}
  /\ screen \in {"Login", "MainMenu", "InGame"}
  /\ mode \in {"Login", "Register"}
  /\ waiting \in BOOLEAN /\ entering \in BOOLEAN
  /\ shown \in Account \cup {NoCred} /\ shownOn \in 0..MaxConn
  /\ asked \in BOOLEAN /\ requests \in 0..MaxRequests
NetTypes ==
  /\ cred \in Cred \cup {NoCred} /\ credValid \in BOOLEAN
  /\ connected \in BOOLEAN /\ stop \in BOOLEAN
  /\ wpc \in {"down", "clear", "relogin", "announce", "pump", "send", "recv", "more",
              "push", "drop", "tell", "ended"}
  /\ conn \in 0..MaxConn /\ fails \in 0..MaxFails
QueueTypes ==
  /\ sendQueue \in Seq(Request) /\ outbox \in Seq(Request)
  /\ events \in Seq(Event) /\ got \in Event \cup {Nothing}
LinkTypes ==
  /\ up \in [Conn -> Seq(Request)] /\ down \in [Conn -> Seq(Answer)]
  /\ cut \in [Conn -> BOOLEAN] /\ who \in [Conn -> Account \cup {NoCred}]
TypeOK == GameTypes /\ NetTypes /\ QueueTypes /\ LinkTypes

\* The worker is on connection conn, and will announce its end.
Attached == wpc \notin {"down", "ended"}
EndAnnounced == \E k \in 1..Len(events) : events[k].type = "Disconnected"

\* The client never goes on believing that it is logged in once the connection it
\* logged in on is gone: either it is still attached to that connection, or the
\* event that takes the belief back is in its queue (NetClient::Poll).
LoggedInIsCurrent ==
  shown # NoCred => EndAnnounced \/ (Attached /\ shownOn = conn)

\* After a logout nothing logs in by itself: no stored credentials are valid and no
\* login waits in the queue, whatever the worker was doing meanwhile (Logout takes
\* two mutexes, one after the other; App.cpp: "or the worker would log in to the
\* old account").
LogoutStops ==
  ~asked /\ gpc # "clear" =>
    /\ ~credValid
    /\ \A k \in 1..Len(sendQueue) : sendQueue[k].op # "Login"

\* What makes the two inductive: a success still on its way to the screens belongs to
\* the connection the worker is on, or the end of its connection is queued behind it;
\* and after a logout there are no credentials left to send.
AcksAreCurrent ==
  \A k \in 1..Len(events) :
    events[k].type = "LoginAck" /\ events[k].ok =>
      \/ Attached /\ events[k].on = conn
      \/ \E m \in k+1..Len(events) : events[m].type = "Disconnected"
PlacesAgree ==
  /\ got # Nothing <=> wpc = "push"
  /\ wpc = "push" /\ got.type = "LoginAck" => got.on = conn
  /\ Attached => conn # 0
  /\ wpc = "ended" => stop
  /\ draft # Nothing <=> gpc = "enqueue"
  /\ gpc = "enqueue" /\ draft.op = "Login" => asked
ForgottenIsGone == (~asked => cred = NoCred) /\ (credValid => cred # NoCred)

\* The inductive invariant behind both.
IInv ==
  /\ TypeOK
  /\ LoggedInIsCurrent
  /\ LogoutStops
  /\ AcksAreCurrent
  /\ PlacesAgree
  /\ ForgottenIsGone

\* A login screen that waits for an answer does not wait for ever if the server goes
\* on reading and answering: the answer comes, or the end of the connection does.
WaitingFalls == waiting ~> (~waiting \/ gpc = "join")

\* NetClient::Stop returns: wherever the worker sleeps or waits with a timeout it
\* sees the flag (a send or a look-up that never returns would keep it).
WorkerEnds == stop ~> wpc = "ended"

\* App.cpp: back at the login screen means logged out; the client is logged in only
\* if the player asked for it since.
LoggedInIsAsked == shown # NoCred /\ gpc # "clear" => asked
=============================================================================
