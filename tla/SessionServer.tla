--------------------------- MODULE SessionServer ---------------------------
(***************************************************************************)
(* GuideStoryServer: one thread per connection (ClientThread), the session *)
(* list with its mutex (SessionManager) and the packet handlers of         *)
(* Server.cpp.  Every place where a thread takes the session-list lock, or *)
(* reads or writes a field of a session, is a step of its own, so threads  *)
(* interleave wherever the code lets them.                                 *)
(*                                                                         *)
(* The identity fields of a session (userId, nickname, authed) are written *)
(* by its own thread without the lock and read by every other thread       *)
(* inside ForEach.  The build (MSVC x64, plain stores in program order, a  *)
(* non-inlined string assignment between them) keeps the order of these    *)
(* writes, so each is one step in program order.                           *)
(***************************************************************************)
EXTENDS Naturals, FiniteSets

CONSTANTS Session,      \* the connections accept() may return, one each
          User,         \* the accounts (id and nickname are one-to-one)
          NoUser,       \* not an account: userId 0, or a nickname nobody has
          NoSession,    \* the session-list lock is free
          MaxRequests,  \* bound: packets a client sends on one connection
          Packets       \* the packets clients send (all of Request, or some)

VARIABLES
  registered,   \* accounts that exist in the database
  pc,           \* where each connection's thread is
  listed,       \* SessionManager::m_sessions (visited in any order)
  open,         \* sessions whose sock is a live handle
  authed,       \* ClientSession::authed
  ident,        \* ClientSession::userId / nickname
  req,          \* the packet the thread is handling
  turn,         \* how many packets the thread has taken
  lock,         \* holder of SessionManager::m_mutex inside a broadcast or a send
  todo,         \* sessions the holder has still to visit
  waiting,      \* the session whose client the holder's ::send waits for
  acked,        \* account named by the last LoginAck handed to the socket
  heard,        \* chat lines handed to the socket
  roster,       \* accounts the session was told joined and not told left
  logged        \* chat lines handed to chatlog::Enqueue

vars == <<registered, pc, listed, open, authed, ident, req, turn, lock, todo,
          waiting, acked, heard, roster, logged>>

Channel == {"All", "Whisper", "Other", "System"}
Target == User \cup {NoUser}

\* Packets as TryExtractPacket hands them over.  A BadLogin is too short,
\* carries another protocol version or misses fields; a BadChat announces a
\* text length its body does not have; Unknown stands for any other opcode and
\* for a frame TryExtractPacket calls malformed.
Request ==
  [op : {"Login", "Register"}, user : Target]
    \cup [op : {"Chat"}, ch : Channel, to : Target]
    \cup [op : {"BadLogin", "BadChat", "Heartbeat", "Unknown"}]
Nothing == [op |-> "None"]

ASSUME ServerAssumption ==
  /\ NoUser \notin User
  /\ NoSession \notin Session
  /\ MaxRequests \in Nat
  /\ Packets \subseteq Request

Broadcasting == {"bye", "joined", "left", "route"}   \* inside ForEach loops
Answering == {"hello", "reply", "notice", "result", "refuse", "ack"}   \* SendTo
Place == Broadcasting \cup Answering \cup
  {"absent", "recv", "auth", "check", "identify", "enter", "create", "log",
   "exit", "remove", "gone"}

Message == [by : Session, n : 1..MaxRequests, from : Target,
            ch : Channel, to : Target]

\* The chat line session s is routing: its head is filled from the session.
Said(s) == [by |-> s, n |-> turn[s], from |-> ident[s],
            ch |-> req[s].ch, to |-> req[s].to]

LockFree == lock = NoSession

\* Thread s is blocked in ::send, the lock held (Session.h, ForEach): there is no
\* timeout, so it stays there until the receiver reads on or its connection breaks.
Stuck(s) == lock = s /\ waiting # NoSession

Goto(s, p) == pc' = [pc EXCEPT ![s] = p]

\* The handler goes on to p; back at the recv loop, or past it, the packet it
\* handled is out of scope.
Step(s, p) ==
  /\ Goto(s, p)
  /\ req' = IF p \in {"recv", "exit", "remove"} THEN [req EXCEPT ![s] = Nothing] ELSE req

Init ==
  /\ registered \in SUBSET User
  /\ pc = [s \in Session |-> "absent"]
  /\ listed = {}
  /\ open = {}
  /\ authed = [s \in Session |-> FALSE]
  /\ ident = [s \in Session |-> NoUser]
  /\ req = [s \in Session |-> Nothing]
  /\ turn = [s \in Session |-> 0]
  /\ lock = NoSession
  /\ todo = {}
  /\ waiting = NoSession
  /\ acked = [s \in Session |-> NoUser]
  /\ heard = [s \in Session |-> {}]
  /\ roster = [s \in Session |-> {}]
  /\ logged = {}

-----------------------------------------------------------------------------
(* Connections come and go.                                                *)

walk == <<lock, todo, waiting>>
ghosts == <<acked, heard, roster, logged>>

\* main's accept loop: gSessions.Add, then the thread is started.
Accept(s) ==
  /\ pc[s] = "absent"
  /\ LockFree
  /\ listed' = listed \cup {s}
  /\ open' = open \cup {s}
  /\ Goto(s, "recv")
  /\ UNCHANGED <<registered, authed, ident, req, turn, walk, ghosts>>

\* recv returned 0 or an error: the loop ends.
Hangup(s) ==
  /\ pc[s] = "recv"
  /\ Goto(s, "exit")
  /\ UNCHANGED <<registered, listed, open, authed, ident, req, turn, walk, ghosts>>

\* Mutant: the session is announced as gone but stays in the room.
Exit_Lingering(s) ==
  /\ pc[s] = "exit"
  /\ Goto(s, IF authed[s] THEN "left" ELSE "remove")
  /\ UNCHANGED <<registered, listed, open, authed, ident, req, turn, walk, ghosts>>

\* Mutant: nobody is told.
Exit_Silent(s) ==
  /\ pc[s] = "exit"
  /\ Goto(s, "remove")
  /\ authed' = [authed EXCEPT ![s] = FALSE]
  /\ UNCHANGED <<registered, listed, open, ident, req, turn, walk, ghosts>>

\* After the loop: a session that had entered is lowered first, then announced.
Exit(s) ==
  /\ pc[s] = "exit"
  /\ Goto(s, IF authed[s] THEN "left" ELSE "remove")
  /\ authed' = [authed EXCEPT ![s] = FALSE]
  /\ UNCHANGED <<registered, listed, open, ident, req, turn, walk, ghosts>>

\* Mutant: the socket is closed without the lock.
Remove_Unlocked(s) ==
  /\ pc[s] = "remove"
  /\ listed' = listed \ {s}
  /\ open' = open \ {s}
  /\ Goto(s, "gone")
  /\ UNCHANGED <<registered, authed, ident, req, turn, walk, ghosts>>

\* SessionManager::Remove: off the list and closed under one lock.
Remove(s) ==
  /\ pc[s] = "remove"
  /\ LockFree
  /\ listed' = listed \ {s}
  /\ open' = open \ {s}
  /\ Goto(s, "gone")
  /\ UNCHANGED <<registered, authed, ident, req, turn, walk, ghosts>>

-----------------------------------------------------------------------------
(* HandlePacket: one packet out of the buffer, up to the first lock.       *)

\* Where HandleChatSend and the head of RouteChat send a well-formed chat.
ChatRoute(s, r) ==
  IF ~authed[s] \/ r.ch = "System" THEN "recv"
  ELSE IF r.ch = "Whisper" /\ r.to = ident[s] THEN "notice"
  ELSE "route"

Dispatch(s, r) ==
  CASE r.op = "Login"     -> IF authed[s] THEN "bye" ELSE "auth"
    [] r.op = "BadLogin"  -> "refuse"
    [] r.op = "Register"  -> "create"
    [] r.op = "Chat"      -> ChatRoute(s, r)
    [] r.op = "BadChat"   -> IF authed[s] THEN "exit" ELSE "recv"
    [] r.op = "Heartbeat" -> "reply"
    [] r.op = "Unknown"   -> "exit"

\* Mutant: a second login leaves the session in the room under the old name.
Receive_Keeping(s, r) ==
  /\ pc[s] = "recv"
  /\ turn[s] < MaxRequests
  /\ turn' = [turn EXCEPT ![s] = @ + 1]
  /\ Goto(s, Dispatch(s, r))
  /\ req' = [req EXCEPT ![s] = IF pc'[s] \in {"recv", "exit"} THEN Nothing ELSE r]
  /\ UNCHANGED <<registered, listed, open, authed, ident, walk, ghosts>>

\* A login on a session that is already in lowers it before anything else.
Receive(s, r) ==
  /\ pc[s] = "recv"
  /\ turn[s] < MaxRequests
  /\ turn' = [turn EXCEPT ![s] = @ + 1]
  /\ Goto(s, Dispatch(s, r))
  /\ req' = [req EXCEPT ![s] = IF pc'[s] \in {"recv", "exit"} THEN Nothing ELSE r]
  /\ authed' = [authed EXCEPT ![s] = @ /\ r.op # "Login"]
  /\ UNCHANGED <<registered, listed, open, ident, walk, ghosts>>

-----------------------------------------------------------------------------
(* Sends.  SendTo finds its target in the list under the lock; a broadcast *)
(* takes the lock, visits every session and lets go after the last one.    *)
(* A chat line or notice counts as handed over when ::send is called, for  *)
(* the receiver was chosen then; it may block before it returns.           *)

\* The target of a SendTo is still in the list and its socket is open.
Reachable(s) == s \in listed \cap open

\* Mutant: a whisper reaches everybody else.
Wanted_Anyone(s, r) ==
  /\ authed[r]
  /\ \/ pc[s] \in {"bye", "left"}
     \/ pc[s] = "joined" /\ r # s
     \/ pc[s] = "route" /\ req[s].ch = "All"
     \/ pc[s] = "route" /\ req[s].ch = "Whisper" /\ r # s

\* Does the loop of thread s send to session r when it visits it?
Wanted(s, r) ==
  /\ authed[r]
  /\ \/ pc[s] \in {"bye", "left"}
     \/ pc[s] = "joined" /\ r # s
     \/ pc[s] = "route" /\ req[s].ch = "All"
     \/ pc[s] = "route" /\ req[s].ch = "Whisper" /\ r # s /\ ident[r] = req[s].to

BeginForEach(s) ==
  /\ pc[s] \in Broadcasting
  /\ LockFree
  /\ lock' = s
  /\ todo' = listed
  /\ UNCHANGED <<registered, pc, listed, open, authed, ident, req, turn,
                 waiting, ghosts>>

\* Mutant: a whisper is not logged.
After_Unlogged(s) ==
  CASE pc[s] = "bye"    -> "auth"
    [] pc[s] = "joined" -> "hello"
    [] pc[s] = "left"   -> "remove"
    [] pc[s] = "route"  -> IF req[s].ch = "Whisper" THEN "notice" ELSE "log"

\* What is left to do once the loop is over.
After(s) ==
  CASE pc[s] = "bye"    -> "auth"
    [] pc[s] = "joined" -> "hello"
    [] pc[s] = "left"   -> "remove"
    [] pc[s] = "route"  -> IF req[s].ch = "Whisper" THEN "result" ELSE "log"

\* Mutant: the whisper result is sent from inside the loop, the lock still held.
Walk_Holding(s, left) ==
  /\ todo' = left
  /\ lock' = IF left = {} /\ After(s) # "result" THEN NoSession ELSE s
  /\ waiting' = NoSession
  /\ IF left = {} THEN Step(s, After(s)) ELSE UNCHANGED <<pc, req>>

\* The loop goes on to what is left of the list; after the last element the lock
\* is let go.
Walk(s, left) ==
  /\ todo' = left
  /\ lock' = IF left = {} THEN NoSession ELSE s
  /\ waiting' = NoSession
  /\ IF left = {} THEN Step(s, After(s)) ELSE UNCHANGED <<pc, req>>

\* The loop body for r.  A send to r may block on r's full window.
Visit(s, r) ==
  /\ lock = s /\ waiting = NoSession
  /\ r \in todo
  /\ heard' = IF pc[s] = "route" /\ Wanted(s, r)
              THEN [heard EXCEPT ![r] = @ \cup {Said(s)}] ELSE heard
  /\ roster' = IF pc[s] # "route" /\ Wanted(s, r)
               THEN [roster EXCEPT ![r] = IF pc[s] = "joined" THEN @ \cup {ident[s]}
                                                            ELSE @ \ {ident[s]}]
               ELSE roster
  /\ \/ Walk(s, todo \ {r})
     \/ /\ Wanted(s, r)
        /\ waiting' = r /\ todo' = todo \ {r}
        /\ UNCHANGED <<pc, req, lock>>
  /\ UNCHANGED <<registered, listed, open, authed, ident, turn, acked, logged>>

\* The send the loop was blocked in returns.
Return(s) ==
  /\ Stuck(s)
  /\ pc[s] \in Broadcasting
  /\ Walk(s, todo)
  /\ UNCHANGED <<registered, listed, open, authed, ident, turn, ghosts>>

\* A SendTo blocks on the full window of the thread's own client.
Stall(s) ==
  /\ pc[s] \in Answering
  /\ LockFree
  /\ Reachable(s)
  /\ lock' = s /\ waiting' = s
  /\ UNCHANGED <<registered, pc, listed, open, authed, ident, req, turn, todo, ghosts>>

\* A SendTo is over, at once or after it was blocked.
Sent(s) ==
  /\ LockFree \/ Stuck(s)
  /\ lock' = NoSession /\ waiting' = NoSession
  /\ UNCHANGED todo

\* A SendTo to the session itself that changes no state of ours: the register
\* answer, the heartbeat echo, the greeting, the whisper notices.
Tell(s) ==
  /\ pc[s] \in {"hello", "reply", "notice", "result"}
  /\ Sent(s)
  /\ Step(s, IF pc[s] = "result" THEN "log" ELSE "recv")
  /\ UNCHANGED <<registered, listed, open, authed, ident, turn, ghosts>>

-----------------------------------------------------------------------------
(* HandleLoginReq after the previous identity is cleaned up.               *)

\* accounts::Authenticate, under its own mutex.  It may refuse an account that
\* exists too: a wrong password, or a database error.
Authenticate(s) ==
  /\ pc[s] = "auth"
  /\ \/ /\ req[s].user \in registered
        /\ Goto(s, "check")
     \/ Goto(s, "refuse")
  /\ UNCHANGED <<registered, listed, open, authed, ident, req, turn, walk, ghosts>>

IsUserOnline(u) == \E s \in listed : authed[s] /\ ident[s] = u

CheckOnline(s) ==
  /\ pc[s] = "check"
  /\ LockFree
  /\ Goto(s, IF IsUserOnline(req[s].user) THEN "refuse" ELSE "ack")
  /\ UNCHANGED <<registered, listed, open, authed, ident, req, turn, walk, ghosts>>

\* SendLoginFailure.  A malformed login also ends the connection.
Refuse(s) ==
  /\ pc[s] = "refuse"
  /\ Sent(s)
  /\ acked' = IF Reachable(s) THEN [acked EXCEPT ![s] = NoUser] ELSE acked
  /\ Step(s, IF req[s].op = "BadLogin" THEN "exit" ELSE "recv")
  /\ UNCHANGED <<registered, listed, open, authed, ident, turn, heard, roster, logged>>

\* The LoginAck goes out before the session is visible to broadcasts.
Grant(s) ==
  /\ pc[s] = "ack"
  /\ Sent(s)
  /\ acked' = IF Reachable(s) THEN [acked EXCEPT ![s] = req[s].user] ELSE acked
  /\ Goto(s, "identify")
  /\ UNCHANGED <<registered, listed, open, authed, ident, req, turn, heard,
                 roster, logged>>

\* session->userId, session->nickname: no lock.
Identify(s) ==
  /\ pc[s] = "identify"
  /\ ident' = [ident EXCEPT ![s] = req[s].user]
  /\ Goto(s, "enter")
  /\ UNCHANGED <<registered, listed, open, authed, req, turn, walk, ghosts>>

\* session->authed = true: no lock.  Whoever enters has been told of nobody.
Enter(s) ==
  /\ pc[s] = "enter"
  /\ authed' = [authed EXCEPT ![s] = TRUE]
  /\ roster' = [roster EXCEPT ![s] = {}]
  /\ Goto(s, "joined")
  /\ UNCHANGED <<registered, listed, open, ident, req, turn, walk, acked, heard, logged>>

-----------------------------------------------------------------------------
(* Registration and the end of RouteChat.                                  *)

\* accounts::Create, under its own mutex; it may refuse for any reason.
Create(s) ==
  /\ pc[s] = "create"
  /\ \/ /\ req[s].user \in User \ registered
        /\ registered' = registered \cup {req[s].user}
     \/ UNCHANGED registered
  /\ Goto(s, "reply")
  /\ UNCHANGED <<listed, open, authed, ident, req, turn, walk, ghosts>>

\* chatlog::Enqueue, the last thing RouteChat does.
Log(s) ==
  /\ pc[s] = "log"
  /\ logged' = logged \cup {Said(s)}
  /\ Step(s, "recv")
  /\ UNCHANGED <<registered, listed, open, authed, ident, turn, walk, acked, heard, roster>>

-----------------------------------------------------------------------------
\* What the thread of s does by itself once a packet, or the end, has arrived.
Thread(s) ==
  \/ Exit(s) \/ Remove(s)
  \/ BeginForEach(s) \/ (\E r \in Session : Visit(s, r)) \/ Return(s) \/ Tell(s)
  \/ Authenticate(s) \/ CheckOnline(s) \/ Refuse(s)
  \/ Grant(s) \/ Identify(s) \/ Enter(s)
  \/ Create(s) \/ Log(s)

\* What its client does to it: the client may stop reading, too.
Client(s) == Accept(s) \/ Hangup(s) \/ Stall(s) \/ \E r \in Packets : Receive(s, r)

\* Every connection the model has was used and closed.
AllGone == (\A s \in Session : pc[s] = "gone") /\ UNCHANGED vars

Next == (\E s \in Session : Client(s) \/ Thread(s)) \/ AllGone

Spec == Init /\ [][Next]_vars

\* The scheduler runs every thread that can run, and a std::mutex that is free
\* is eventually acquired.  Clients owe nothing, so a thread blocked in a send
\* may stay there: nothing is assumed of its return.
FairSpec == Spec /\ \A s \in Session : WF_vars(~Stuck(s) /\ Thread(s))

-----------------------------------------------------------------------------
(* Properties.                                                             *)

\* Each variable has its type.
TypeOK ==
  /\ registered \subseteq User
  /\ pc \in [Session -> Place]
  /\ listed \subseteq Session
  /\ open \subseteq Session
  /\ authed \in [Session -> BOOLEAN]
  /\ ident \in [Session -> Target]
  /\ req \in [Session -> Request \cup {Nothing}]
  /\ turn \in [Session -> 0..MaxRequests]
  /\ lock \in Session \cup {NoSession}
  /\ todo \subseteq Session
  /\ waiting \in Session \cup {NoSession}
  /\ acked \in [Session -> Target]
  /\ heard \in [Session -> SUBSET Message]
  /\ roster \in [Session -> SUBSET Target]
  /\ logged \subseteq Message

\* No send goes to a socket that was closed or handed to somebody else: a
\* broadcast in progress has only live sessions left to visit, the socket that a
\* send is blocked on stays open for as long as that takes, and a thread that
\* may still send to its own client finds it in the list (Server.cpp: "no race
\* in which the peer leaves and its socket is closed meanwhile").
NoSendAfterClose ==
  /\ \A s \in Session : lock = s => todo \subseteq listed \cap open
  /\ waiting # NoSession => waiting \in listed \cap open
  /\ \A s \in Session : pc[s] \notin {"absent", "gone"} => Reachable(s)
  /\ \A s \in listed : authed[s] => s \in open

\* The server lets a session speak only as an existing account, the one the last
\* LoginAck on that socket named; a thread about to drop the connection over a
\* malformed login is the one exception, it has refused a client it still lists.
IdentityAgrees ==
  \A s \in Session : authed[s] =>
    /\ ident[s] \in registered
    /\ pc[s] # "exit" => acked[s] = ident[s]

\* Thread s is still going to tell o that its account left.
LeaveDue(s, o) ==
  /\ pc[s] \in {"bye", "left"}
  /\ lock = s => o \in todo

\* Nobody in the room goes on believing that an account is present after its last
\* session left: either a session of the account is in, or a notice that it left
\* is still on its way to that observer.
NoStalePresence ==
  \A o \in Session : authed[o] =>
    \A u \in roster[o] : \E s \in Session :
      ident[s] = u /\ (authed[s] \/ LeaveDue(s, o))

\* The strengthening of the invariants above that is inductive: what holds at each
\* place of a handler, and what the lock protects.
LockInv ==
  /\ lock # NoSession =>
       \/ pc[lock] \in Broadcasting
       \/ pc[lock] \in Answering /\ waiting = lock /\ todo = {}
  /\ lock = NoSession => todo = {} /\ waiting = NoSession
  /\ todo \subseteq listed
  /\ waiting # NoSession => waiting \in listed

ListInv ==
  /\ open = listed
  /\ \A s \in Session : s \in listed <=> pc[s] \notin {"absent", "gone"}

\* The packet a handler is at work on is of its kind.
PacketInv ==
  \A s \in Session :
    /\ pc[s] \in {"bye", "auth", "check", "ack", "identify", "enter"} => req[s].op = "Login"
    /\ pc[s] \in {"route", "result", "log"} => req[s].op = "Chat" /\ turn[s] # 0

\* How far a login has come.
LoginInv ==
  \A s \in Session :
    /\ pc[s] \in {"absent", "bye", "auth", "check", "ack", "identify", "enter",
                  "left", "remove", "gone"} => ~authed[s]
    /\ pc[s] = "refuse" /\ authed[s] => req[s].op = "BadLogin"
    /\ pc[s] = "joined" => authed[s]
    /\ pc[s] \in {"check", "ack", "identify", "enter"} => req[s].user \in registered
    /\ pc[s] \in {"identify", "enter"} => acked[s] = req[s].user
    /\ pc[s] = "enter" => ident[s] = req[s].user

\* A line said on a connection is new: the lines of that connection logged or
\* heard so far are of earlier turns, except what the loop already handed out.
HistoryInv ==
  /\ \A s \in Session : pc[s] \in {"route", "result", "log"} => authed[s]
  /\ \A m \in logged :
       /\ m.n <= turn[m.by]
       /\ pc[m.by] \in {"route", "result", "log"} => m.n # turn[m.by]
  /\ \A r \in Session : \A m \in heard[r] :
       /\ m.n <= turn[m.by]
       /\ m.n = turn[m.by] /\ pc[m.by] = "route" => lock = m.by /\ r \notin todo

\* All of it: an invariant that every step preserves by itself.
IInv ==
  /\ TypeOK /\ PacketInv /\ LockInv /\ ListInv /\ LoginInv
  /\ IdentityAgrees /\ NoStalePresence /\ HistoryInv

\* One account, at most one session (Session.h, Server.cpp: duplicate logins are
\* refused).
OneSessionPerAccount ==
  \A s, t \in Session :
    authed[s] /\ authed[t] /\ ident[s] = ident[t] => s = t

\* The server implements the service its clients see.
Speaking == {s \in Session : pc[s] \in {"route", "result", "log"}}
Service == INSTANCE ChatService WITH
  who <- [s \in Session |-> IF authed[s] THEN ident[s] ELSE NoUser],
  told <- acked,
  spoken <- logged \cup {Said(s) : s \in Speaking}
ImplementsService == Service!Spec

\* What the liveness below asks of the clients, and the code does not ensure (tech
\* debt D-009): no send stays blocked for ever, because every receiver reads on
\* or its connection breaks.
ReceiversRead == []<>(waiting = NoSession)

\* If every receiver reads, a handler always comes back to its client, or the
\* connection is gone: no handler blocks for ever on a lock that it already
\* holds, or that somebody else forgot to let go (Session.h, ForEach).
HandlersReturn ==
  ReceiversRead =>
    \A s \in Session :
      pc[s] \notin {"absent", "recv"} ~> pc[s] \in {"recv", "gone"}

\* If every receiver reads, a line that anybody heard is handed to the chat log
\* in the end, although sends of the loop that delivers it block in between and
\* its speaker and its hearers may hang up meanwhile (Server.cpp, RouteChat).
HeardIsLogged ==
  ReceiversRead =>
    \A s \in Session, n \in 1..MaxRequests :
      (\E r \in Session : \E m \in heard[r] : m.by = s /\ m.n = n)
        ~> (\E m \in logged : m.by = s /\ m.n = n)
=============================================================================
