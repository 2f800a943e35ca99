----------------------- MODULE SessionServer_proofs -----------------------
(***************************************************************************)
(* The safety invariants of SessionServer, for every set of connections    *)
(* and accounts and every bound on requests.                               *)
(***************************************************************************)
EXTENDS SessionServer, TLAPS

USE ServerAssumption DEF Target, Channel, Place, Broadcasting, Answering

-----------------------------------------------------------------------------
(* Types.                                                                  *)

\* A packet is of exactly one kind, and its kind says what fields it has.
LEMMA RequestKinds ==
  ASSUME NEW r \in Request \cup {Nothing}
  PROVE  /\ r.op \in {"Login", "Register", "Chat", "BadLogin", "BadChat",
                      "Heartbeat", "Unknown", "None"}
         /\ r.op \in {"Login", "Register"} => r.user \in Target
         /\ r.op = "Chat" => r.ch \in Channel /\ r.to \in Target
BY DEF Request, Nothing

\* Every packet sends its handler to some place of the thread.
LEMMA DispatchPlace ==
  ASSUME TypeOK, NEW s \in Session, NEW r \in Request
  PROVE  Dispatch(s, r) \in {"bye", "auth", "refuse", "create", "recv", "notice",
                             "route", "exit", "reply"}
BY RequestKinds DEF Request, Nothing, Dispatch, ChatRoute

\* What Dispatch promises about the packet and the session at each such place.
LEMMA DispatchFacts ==
  ASSUME TypeOK, NEW s \in Session, NEW r \in Request
  PROVE  /\ Dispatch(s, r) = "bye" => r.op = "Login" /\ authed[s]
         /\ Dispatch(s, r) = "auth" => r.op = "Login" /\ ~authed[s]
         /\ Dispatch(s, r) = "refuse" => r.op = "BadLogin"
         /\ Dispatch(s, r) = "route" => r.op = "Chat" /\ authed[s]
         /\ r.op = "Login" => Dispatch(s, r) \in {"bye", "auth"}
BY RequestKinds DEF Request, Nothing, Dispatch, ChatRoute

LEMMA AfterPlace ==
  ASSUME NEW s \in Session, pc[s] \in Broadcasting
  PROVE  /\ After(s) \in {"auth", "hello", "remove", "result", "log"}
         /\ After(s) = "auth" => pc[s] = "bye"
         /\ After(s) = "hello" => pc[s] = "joined"
         /\ After(s) = "remove" => pc[s] = "left"
         /\ After(s) \in {"result", "log"} => pc[s] = "route"
BY DEF After

\* The chat line a session is routing is a message.
LEMMA SaidType ==
  ASSUME TypeOK, PacketInv, NEW s \in Session, pc[s] \in {"route", "result", "log"}
  PROVE  Said(s) \in Message
<1>1. req[s].op = "Chat" /\ turn[s] # 0 BY DEF PacketInv
<1>2. req[s].ch \in Channel /\ req[s].to \in Target
  BY <1>1, RequestKinds DEF TypeOK
<1>3. turn[s] \in 1..MaxRequests /\ ident[s] \in Target BY <1>1 DEF TypeOK
<1> QED BY <1>2, <1>3 DEF Said, Message

LEMMA TypeStep == TypeOK /\ PacketInv /\ LockInv /\ [Next]_vars => TypeOK'
<1> SUFFICES ASSUME TypeOK, PacketInv, LockInv, [Next]_vars PROVE TypeOK'
  OBVIOUS
<1> USE DEF TypeOK, Goto, Step, ghosts, walk
<1>1. CASE UNCHANGED vars BY <1>1 DEF vars
<1>2. ASSUME NEW s \in Session, Accept(s) PROVE TypeOK' BY <1>2 DEF Accept
<1>3. ASSUME NEW s \in Session, Hangup(s) PROVE TypeOK' BY <1>3 DEF Hangup
<1>4. ASSUME NEW s \in Session, NEW r \in Packets, Receive(s, r) PROVE TypeOK'
  <2>1. r \in Request /\ Dispatch(s, r) \in Place BY DispatchPlace
  <2>2. turn' \in [Session -> 0..MaxRequests] BY <1>4 DEF Receive
  <2>3. authed' \in [Session -> BOOLEAN] BY <1>4 DEF Receive
  <2>4. pc' \in [Session -> Place] /\ req' \in [Session -> Request \cup {Nothing}]
    BY <1>4, <2>1 DEF Receive
  <2> QED BY <1>4, <2>2, <2>3, <2>4 DEF Receive
<1>5. ASSUME NEW s \in Session, Exit(s) PROVE TypeOK' BY <1>5 DEF Exit
<1>6. ASSUME NEW s \in Session, Remove(s) PROVE TypeOK' BY <1>6 DEF Remove
<1>7. ASSUME NEW s \in Session, BeginForEach(s) PROVE TypeOK' BY <1>7 DEF BeginForEach
<1>8. ASSUME NEW s \in Session, NEW r \in Session, Visit(s, r) PROVE TypeOK'
  <2>1. pc[s] \in Broadcasting BY <1>8 DEF Visit, Walk, LockInv
  <2>2. After(s) \in Place BY <2>1, AfterPlace
  <2>3. pc' \in [Session -> Place] /\ req' \in [Session -> Request \cup {Nothing}]
    BY <1>8, <2>2 DEF Visit, Walk
  <2>4. heard' \in [Session -> SUBSET Message]
    BY <1>8, SaidType DEF Visit, Walk
  <2>5. roster' \in [Session -> SUBSET Target]
    BY <1>8 DEF Visit, Walk
  <2>6. todo' \subseteq Session /\ lock' \in Session \cup {NoSession} BY <1>8 DEF Visit, Walk
  <2> QED BY <1>8, <2>3, <2>4, <2>5, <2>6 DEF Visit, Walk
<1>9. ASSUME NEW s \in Session, Tell(s) PROVE TypeOK' BY <1>9 DEF Tell, Sent, Stuck
<1>10. ASSUME NEW s \in Session, Authenticate(s) PROVE TypeOK' BY <1>10 DEF Authenticate
<1>11. ASSUME NEW s \in Session, CheckOnline(s) PROVE TypeOK' BY <1>11 DEF CheckOnline
<1>12. ASSUME NEW s \in Session, Refuse(s) PROVE TypeOK' BY <1>12 DEF Refuse, Sent, Stuck
<1>13. ASSUME NEW s \in Session, Grant(s) PROVE TypeOK'
  <2>1. req[s].user \in Target BY <1>13, RequestKinds DEF Grant, Sent, Stuck, PacketInv
  <2> QED BY <1>13, <2>1 DEF Grant, Sent, Stuck
<1>14. ASSUME NEW s \in Session, Identify(s) PROVE TypeOK'
  <2>1. req[s].user \in Target BY <1>14, RequestKinds DEF Identify, PacketInv
  <2> QED BY <1>14, <2>1 DEF Identify
<1>15. ASSUME NEW s \in Session, Enter(s) PROVE TypeOK' BY <1>15 DEF Enter
<1>16. ASSUME NEW s \in Session, Create(s) PROVE TypeOK' BY <1>16 DEF Create
<1>17. ASSUME NEW s \in Session, Log(s) PROVE TypeOK' BY <1>17, SaidType DEF Log
<1>18. ASSUME AllGone PROVE TypeOK' BY <1>18 DEF AllGone, vars
<1>19. ASSUME NEW s \in Session, Return(s) PROVE TypeOK'
  <2>1. pc[s] \in Broadcasting /\ lock = s BY <1>19 DEF Return, Stuck
  <2> QED BY <1>19, <2>1, AfterPlace DEF Return, Walk, Stuck
<1>20. ASSUME NEW s \in Session, Stall(s) PROVE TypeOK' BY <1>20 DEF Stall, LockFree
<1> QED
  BY <1>1, <1>2, <1>3, <1>4, <1>5, <1>6, <1>7, <1>8, <1>9, <1>10, <1>11, <1>12,
     <1>13, <1>14, <1>15, <1>16, <1>17, <1>18, <1>19, <1>20
     DEF Next, Client, Thread
LEMMA PacketStep == TypeOK /\ PacketInv /\ LockInv /\ [Next]_vars => PacketInv'
<1> SUFFICES ASSUME TypeOK, PacketInv, LockInv, [Next]_vars PROVE PacketInv'
  OBVIOUS
<1> USE DEF TypeOK, PacketInv, Goto, Step, ghosts, walk
<1>1. CASE UNCHANGED vars BY <1>1 DEF vars
<1>2. ASSUME NEW s \in Session, Accept(s) PROVE PacketInv' BY <1>2 DEF Accept
<1>3. ASSUME NEW s \in Session, Hangup(s) PROVE PacketInv' BY <1>3 DEF Hangup
<1>4. ASSUME NEW s \in Session, NEW r \in Packets, Receive(s, r) PROVE PacketInv'
  <2>1. r \in Request BY DEF Request
  <2> QED BY <1>4, <2>1, DispatchPlace, DispatchFacts DEF Receive
<1>5. ASSUME NEW s \in Session, Exit(s) PROVE PacketInv' BY <1>5 DEF Exit
<1>6. ASSUME NEW s \in Session, Remove(s) PROVE PacketInv' BY <1>6 DEF Remove
<1>7. ASSUME NEW s \in Session, BeginForEach(s) PROVE PacketInv' BY <1>7 DEF BeginForEach
<1>8. ASSUME NEW s \in Session, NEW r \in Session, Visit(s, r) PROVE PacketInv'
  <2>1. pc[s] \in Broadcasting BY <1>8 DEF Visit, Walk, LockInv
  <2>2. /\ After(s) \notin {"bye", "check", "ack", "identify", "enter", "route"}
        /\ After(s) = "auth" => req[s].op = "Login"
        /\ After(s) \in {"result", "log"} => req[s].op = "Chat" /\ turn[s] # 0
    BY <2>1, AfterPlace
  <2> QED BY <1>8, <2>1, <2>2 DEF Visit, Walk
<1>9. ASSUME NEW s \in Session, Tell(s) PROVE PacketInv' BY <1>9 DEF Tell, Sent, Stuck
<1>10. ASSUME NEW s \in Session, Authenticate(s) PROVE PacketInv' BY <1>10 DEF Authenticate
<1>11. ASSUME NEW s \in Session, CheckOnline(s) PROVE PacketInv' BY <1>11 DEF CheckOnline
<1>12. ASSUME NEW s \in Session, Refuse(s) PROVE PacketInv' BY <1>12 DEF Refuse, Sent, Stuck
<1>13. ASSUME NEW s \in Session, Grant(s) PROVE PacketInv' BY <1>13 DEF Grant, Sent, Stuck
<1>14. ASSUME NEW s \in Session, Identify(s) PROVE PacketInv' BY <1>14 DEF Identify
<1>15. ASSUME NEW s \in Session, Enter(s) PROVE PacketInv' BY <1>15 DEF Enter
<1>16. ASSUME NEW s \in Session, Create(s) PROVE PacketInv' BY <1>16 DEF Create
<1>17. ASSUME NEW s \in Session, Log(s) PROVE PacketInv' BY <1>17 DEF Log
<1>18. CASE AllGone BY <1>18 DEF AllGone, vars
<1>19. ASSUME NEW s \in Session, Return(s) PROVE PacketInv'
  <2>1. pc[s] \in Broadcasting /\ lock = s BY <1>19 DEF Return, Stuck
  <2> QED BY <1>19, <2>1, AfterPlace DEF Return, Walk, Stuck
<1>20. ASSUME NEW s \in Session, Stall(s) PROVE PacketInv' BY <1>20 DEF Stall, LockFree
<1> QED
  BY <1>1, <1>2, <1>3, <1>4, <1>5, <1>6, <1>7, <1>8, <1>9,
     <1>10, <1>11, <1>12, <1>13, <1>14, <1>15, <1>16, <1>17, <1>18, <1>19, <1>20
     DEF Next, Client, Thread

LEMMA LockStep == TypeOK /\ LockInv /\ ListInv /\ [Next]_vars => LockInv'
<1> SUFFICES ASSUME TypeOK, LockInv, ListInv, [Next]_vars PROVE LockInv'
  OBVIOUS
<1> USE DEF TypeOK, LockInv, ListInv, Goto, Step, ghosts, walk
<1>1. CASE UNCHANGED vars BY <1>1 DEF vars
<1>2. ASSUME NEW s \in Session, Accept(s) PROVE LockInv' BY <1>2 DEF Accept, LockFree
<1>3. ASSUME NEW s \in Session, Hangup(s) PROVE LockInv' BY <1>3 DEF Hangup, LockFree
<1>4. ASSUME NEW s \in Session, NEW r \in Packets, Receive(s, r) PROVE LockInv' BY <1>4 DEF Receive, LockFree
<1>5. ASSUME NEW s \in Session, Exit(s) PROVE LockInv' BY <1>5 DEF Exit, LockFree
<1>6. ASSUME NEW s \in Session, Remove(s) PROVE LockInv' BY <1>6 DEF Remove, LockFree
<1>7. ASSUME NEW s \in Session, BeginForEach(s) PROVE LockInv' BY <1>7 DEF BeginForEach, LockFree
<1>8. ASSUME NEW s \in Session, NEW r \in Session, Visit(s, r) PROVE LockInv' BY <1>8 DEF Visit, Walk, LockFree
<1>9. ASSUME NEW s \in Session, Tell(s) PROVE LockInv' BY <1>9 DEF Tell, Sent, Stuck, LockFree
<1>10. ASSUME NEW s \in Session, Authenticate(s) PROVE LockInv' BY <1>10 DEF Authenticate, LockFree
<1>11. ASSUME NEW s \in Session, CheckOnline(s) PROVE LockInv' BY <1>11 DEF CheckOnline, LockFree
<1>12. ASSUME NEW s \in Session, Refuse(s) PROVE LockInv' BY <1>12 DEF Refuse, Sent, Stuck, LockFree
<1>13. ASSUME NEW s \in Session, Grant(s) PROVE LockInv' BY <1>13 DEF Grant, Sent, Stuck, LockFree
<1>14. ASSUME NEW s \in Session, Identify(s) PROVE LockInv' BY <1>14 DEF Identify, LockFree
<1>15. ASSUME NEW s \in Session, Enter(s) PROVE LockInv' BY <1>15 DEF Enter, LockFree
<1>16. ASSUME NEW s \in Session, Create(s) PROVE LockInv' BY <1>16 DEF Create, LockFree
<1>17. ASSUME NEW s \in Session, Log(s) PROVE LockInv' BY <1>17 DEF Log, LockFree
<1>18. CASE AllGone BY <1>18 DEF AllGone, vars
<1>19. ASSUME NEW s \in Session, Return(s) PROVE LockInv'
  <2>1. pc[s] \in Broadcasting /\ lock = s BY <1>19 DEF Return, Stuck
  <2> QED BY <1>19, <2>1, AfterPlace DEF Return, Walk, Stuck, LockFree, Reachable
<1>20. ASSUME NEW s \in Session, Stall(s) PROVE LockInv' BY <1>20 DEF Stall, LockFree, Reachable
<1> QED
  BY <1>1, <1>2, <1>3, <1>4, <1>5, <1>6, <1>7, <1>8, <1>9,
     <1>10, <1>11, <1>12, <1>13, <1>14, <1>15, <1>16, <1>17, <1>18, <1>19, <1>20
     DEF Next, Client, Thread

LEMMA ListStep == TypeOK /\ LockInv /\ ListInv /\ [Next]_vars => ListInv'
<1> SUFFICES ASSUME TypeOK, LockInv, ListInv, [Next]_vars PROVE ListInv'
  OBVIOUS
<1> USE DEF TypeOK, LockInv, ListInv, Goto, Step, ghosts, walk
<1>1. CASE UNCHANGED vars BY <1>1 DEF vars
<1>2. ASSUME NEW s \in Session, Accept(s) PROVE ListInv' BY <1>2 DEF Accept
<1>3. ASSUME NEW s \in Session, Hangup(s) PROVE ListInv' BY <1>3 DEF Hangup
<1>4. ASSUME NEW s \in Session, NEW r \in Packets, Receive(s, r) PROVE ListInv'
  <2>1. r \in Request BY DEF Request
  <2> QED BY <1>4, <2>1, DispatchPlace DEF Receive
<1>5. ASSUME NEW s \in Session, Exit(s) PROVE ListInv' BY <1>5 DEF Exit
<1>6. ASSUME NEW s \in Session, Remove(s) PROVE ListInv' BY <1>6 DEF Remove
<1>7. ASSUME NEW s \in Session, BeginForEach(s) PROVE ListInv' BY <1>7 DEF BeginForEach
<1>8. ASSUME NEW s \in Session, NEW r \in Session, Visit(s, r) PROVE ListInv'
  <2>1. pc[s] \in Broadcasting BY <1>8 DEF Visit, Walk
  <2> QED BY <1>8, <2>1, AfterPlace DEF Visit, Walk
<1>9. ASSUME NEW s \in Session, Tell(s) PROVE ListInv' BY <1>9 DEF Tell, Sent, Stuck
<1>10. ASSUME NEW s \in Session, Authenticate(s) PROVE ListInv' BY <1>10 DEF Authenticate
<1>11. ASSUME NEW s \in Session, CheckOnline(s) PROVE ListInv' BY <1>11 DEF CheckOnline
<1>12. ASSUME NEW s \in Session, Refuse(s) PROVE ListInv' BY <1>12 DEF Refuse, Sent, Stuck
<1>13. ASSUME NEW s \in Session, Grant(s) PROVE ListInv' BY <1>13 DEF Grant, Sent, Stuck
<1>14. ASSUME NEW s \in Session, Identify(s) PROVE ListInv' BY <1>14 DEF Identify
<1>15. ASSUME NEW s \in Session, Enter(s) PROVE ListInv' BY <1>15 DEF Enter
<1>16. ASSUME NEW s \in Session, Create(s) PROVE ListInv' BY <1>16 DEF Create
<1>17. ASSUME NEW s \in Session, Log(s) PROVE ListInv' BY <1>17 DEF Log
<1>18. CASE AllGone BY <1>18 DEF AllGone, vars
<1>19. ASSUME NEW s \in Session, Return(s) PROVE ListInv'
  <2>1. pc[s] \in Broadcasting /\ lock = s BY <1>19 DEF Return, Stuck
  <2> QED BY <1>19, <2>1, AfterPlace DEF Return, Walk, Stuck, LockFree
<1>20. ASSUME NEW s \in Session, Stall(s) PROVE ListInv' BY <1>20 DEF Stall, LockFree
<1> QED
  BY <1>1, <1>2, <1>3, <1>4, <1>5, <1>6, <1>7, <1>8, <1>9,
     <1>10, <1>11, <1>12, <1>13, <1>14, <1>15, <1>16, <1>17, <1>18, <1>19, <1>20
     DEF Next, Client, Thread

LEMMA LoginStep == TypeOK /\ PacketInv /\ LockInv /\ ListInv /\ LoginInv /\ IdentityAgrees /\ [Next]_vars => (LoginInv /\ IdentityAgrees)'
<1> SUFFICES ASSUME TypeOK, PacketInv, LockInv, ListInv, LoginInv, IdentityAgrees, [Next]_vars PROVE (LoginInv /\ IdentityAgrees)'
  OBVIOUS
<1> USE DEF TypeOK, LoginInv, IdentityAgrees, Goto, Step, ghosts, walk
<1>1. CASE UNCHANGED vars BY <1>1 DEF vars
<1>2. ASSUME NEW s \in Session, Accept(s) PROVE (LoginInv /\ IdentityAgrees)' BY <1>2 DEF Accept
<1>3. ASSUME NEW s \in Session, Hangup(s) PROVE (LoginInv /\ IdentityAgrees)' BY <1>3 DEF Hangup
<1>4. ASSUME NEW s \in Session, NEW r \in Packets, Receive(s, r) PROVE (LoginInv /\ IdentityAgrees)'
  <2>1. r \in Request BY DEF Request
  <2>2. /\ pc' = [pc EXCEPT ![s] = Dispatch(s, r)]
        /\ authed' = [authed EXCEPT ![s] = @ /\ r.op # "Login"]
        /\ \A t \in Session \ {s} : req'[t] = req[t]
        /\ pc'[s] = "refuse" => req'[s] = r
        /\ UNCHANGED <<registered, ident, acked>>
    BY <1>4 DEF Receive
  <2>3. /\ pc'[s] \in {"bye", "auth", "refuse", "create", "recv", "notice", "route",
                       "exit", "reply"}
        /\ pc'[s] = "bye" => ~authed'[s]
        /\ pc'[s] = "auth" => ~authed'[s]
        /\ pc'[s] = "refuse" => req'[s].op = "BadLogin"
    <3>1. pc'[s] = Dispatch(s, r) /\ (authed'[s] <=> authed[s] /\ r.op # "Login")
      BY <2>2
    <3>2. Dispatch(s, r) \in {"bye", "auth"} => ~authed'[s]
      BY <2>1, <3>1, DispatchFacts
    <3>3. Dispatch(s, r) = "refuse" => req'[s].op = "BadLogin"
      BY <2>1, <2>2, <3>1, DispatchFacts
    <3> QED BY <2>1, <3>1, <3>2, <3>3, DispatchPlace
  <2> QED BY <1>4, <2>2, <2>3 DEF Receive
<1>5. ASSUME NEW s \in Session, Exit(s) PROVE (LoginInv /\ IdentityAgrees)' BY <1>5 DEF Exit
<1>6. ASSUME NEW s \in Session, Remove(s) PROVE (LoginInv /\ IdentityAgrees)' BY <1>6 DEF Remove
<1>7. ASSUME NEW s \in Session, BeginForEach(s) PROVE (LoginInv /\ IdentityAgrees)' BY <1>7 DEF BeginForEach
<1>8. ASSUME NEW s \in Session, NEW r \in Session, Visit(s, r) PROVE (LoginInv /\ IdentityAgrees)'
  <2>1. pc[s] \in Broadcasting BY <1>8 DEF Visit, Walk, LockInv
  <2>2. /\ After(s) \in {"auth", "remove"} => ~authed[s]
        /\ After(s) \in {"auth", "hello", "remove", "result", "log"}
    BY <2>1, AfterPlace
  <2>3. CASE pc' = [pc EXCEPT ![s] = After(s)] /\ Step(s, After(s))
    <3>1. pc' = [pc EXCEPT ![s] = After(s)] BY <2>3
    <3>2. /\ \A t \in Session \ {s} : pc'[t] = pc[t] /\ req'[t] = req[t]
          /\ UNCHANGED <<registered, authed, ident, acked>>
      BY <1>8, <2>3, <3>1 DEF Visit, Walk
    <3>3. /\ pc'[s] \in {"auth", "hello", "remove", "result", "log"}
          /\ pc'[s] \in {"auth", "remove"} => ~authed'[s]
          /\ pc[s] # "exit"
      BY <2>1, <2>2, <3>1, <3>2
    <3> QED BY <3>2, <3>3
  <2> QED BY <1>8, <2>3 DEF Visit, Walk
<1>9. ASSUME NEW s \in Session, Tell(s) PROVE (LoginInv /\ IdentityAgrees)' BY <1>9 DEF Tell, Sent, Stuck
<1>10. ASSUME NEW s \in Session, Authenticate(s) PROVE (LoginInv /\ IdentityAgrees)'
  <2> QED BY <1>10 DEF Authenticate, PacketInv
<1>11. ASSUME NEW s \in Session, CheckOnline(s) PROVE (LoginInv /\ IdentityAgrees)' BY <1>11 DEF CheckOnline
<1>12. ASSUME NEW s \in Session, Refuse(s) PROVE (LoginInv /\ IdentityAgrees)'
  <2> QED BY <1>12 DEF Refuse, Sent, Stuck, PacketInv
<1>13. ASSUME NEW s \in Session, Grant(s) PROVE (LoginInv /\ IdentityAgrees)'
  <2> QED BY <1>13 DEF Grant, Sent, Stuck, PacketInv, ListInv, Reachable
<1>14. ASSUME NEW s \in Session, Identify(s) PROVE (LoginInv /\ IdentityAgrees)' BY <1>14 DEF Identify
<1>15. ASSUME NEW s \in Session, Enter(s) PROVE (LoginInv /\ IdentityAgrees)' BY <1>15 DEF Enter
<1>16. ASSUME NEW s \in Session, Create(s) PROVE (LoginInv /\ IdentityAgrees)' BY <1>16 DEF Create
<1>17. ASSUME NEW s \in Session, Log(s) PROVE (LoginInv /\ IdentityAgrees)' BY <1>17 DEF Log
<1>18. CASE AllGone BY <1>18 DEF AllGone, vars
<1>19. ASSUME NEW s \in Session, Return(s) PROVE (LoginInv /\ IdentityAgrees)'
  <2>1. pc[s] \in Broadcasting /\ lock = s BY <1>19 DEF Return, Stuck
  <2> QED BY <1>19, <2>1, AfterPlace DEF Return, Walk, Stuck
<1>20. ASSUME NEW s \in Session, Stall(s) PROVE (LoginInv /\ IdentityAgrees)' BY <1>20 DEF Stall, LockFree
<1> QED
  BY <1>1, <1>2, <1>3, <1>4, <1>5, <1>6, <1>7, <1>8, <1>9,
     <1>10, <1>11, <1>12, <1>13, <1>14, <1>15, <1>16, <1>17, <1>18, <1>19, <1>20
     DEF Next, Client, Thread

-----------------------------------------------------------------------------
(* Presence.                                                               *)

\* u is accounted for, as far as observer o is concerned.
Accounted(u, o) ==
  \E w \in Session : ident[w] = u /\ (authed[w] \/ LeaveDue(w, o))

LEMMA PresenceStep ==
  TypeOK /\ PacketInv /\ LockInv /\ ListInv /\ LoginInv /\ NoStalePresence
    /\ [Next]_vars => NoStalePresence'
<1> SUFFICES ASSUME TypeOK, PacketInv, LockInv, ListInv, LoginInv, NoStalePresence,
                    [Next]_vars, NEW o \in Session, authed'[o], NEW u \in roster'[o]
             PROVE  Accounted(u, o)'
  BY DEF NoStalePresence, Accounted
<1> USE DEF TypeOK, LockInv, ghosts, walk, Goto, Step
\* A step that leaves o's presence and roster alone keeps its witness, unless the
\* witness itself is what the step moves.
<1>0. ASSUME authed[o], u \in roster[o],
             \A w \in Session : ident[w] = u /\ (authed[w] \/ LeaveDue(w, o))
               => ident'[w] = u /\ (authed'[w] \/ LeaveDue(w, o)')
      PROVE  Accounted(u, o)'
  BY <1>0 DEF NoStalePresence, Accounted
<1>1. CASE UNCHANGED vars BY <1>1, <1>0 DEF vars, LeaveDue
<1>2. ASSUME NEW s \in Session, Accept(s) PROVE Accounted(u, o)'
  BY <1>2, <1>0 DEF Accept, LeaveDue
<1>3. ASSUME NEW s \in Session, Hangup(s) PROVE Accounted(u, o)'
  BY <1>3, <1>0 DEF Hangup, LeaveDue
<1>4. ASSUME NEW s \in Session, NEW r \in Packets, Receive(s, r) PROVE Accounted(u, o)'
  <2>1. r \in Request BY DEF Request
  <2>2. authed[o] /\ roster' = roster /\ ident' = ident /\ lock' = lock /\ todo' = todo
    BY <1>4 DEF Receive
  <2>3. \A w \in Session \ {s} : authed'[w] = authed[w] /\ pc'[w] = pc[w]
    BY <1>4 DEF Receive
  <2>4. lock # s /\ pc[s] = "recv" BY <1>4 DEF Receive
  <2>5. authed[s] => authed'[s] \/ pc'[s] = "bye"
    <3>1. SUFFICES ASSUME authed[s], r.op = "Login" PROVE pc'[s] = "bye"
      BY <1>4 DEF Receive
    <3>2. Dispatch(s, r) = "bye" BY <2>1, <3>1, DispatchFacts
    <3> QED BY <1>4, <3>2 DEF Receive
  <2> QED BY <1>0, <2>2, <2>3, <2>4, <2>5 DEF LeaveDue
<1>5. ASSUME NEW s \in Session, Exit(s) PROVE Accounted(u, o)'
  BY <1>5, <1>0 DEF Exit, LeaveDue
<1>6. ASSUME NEW s \in Session, Remove(s) PROVE Accounted(u, o)'
  BY <1>6, <1>0 DEF Remove, LeaveDue
<1>7. ASSUME NEW s \in Session, BeginForEach(s) PROVE Accounted(u, o)'
  <2>1. o \in listed BY <1>7 DEF BeginForEach, LoginInv, ListInv
  <2> QED BY <1>7, <1>0, <2>1 DEF BeginForEach, LeaveDue, LockFree
<1>8. ASSUME NEW s \in Session, NEW r \in Session, Visit(s, r) PROVE Accounted(u, o)'
  <2>1. pc[s] \in Broadcasting /\ lock = s /\ r \in todo BY <1>8 DEF Visit, Walk
  <2>2. authed[o] /\ authed' = authed /\ ident' = ident BY <1>8 DEF Visit, Walk
  <2>3. \A w \in Session \ {s} : pc'[w] = pc[w] /\ lock # w /\ lock' # w
    BY <1>8, <2>1 DEF Visit, Walk
  <2>4. CASE pc[s] \in {"bye", "left"}
    <3>1. Wanted(s, o) BY <2>2, <2>4 DEF Wanted
    <3>2. u \in roster[o] /\ (r = o => u # ident[s])
      BY <1>8, <2>4, <3>1 DEF Visit, Walk
    <3>3. LeaveDue(s, o) /\ ident[s] = u => LeaveDue(s, o)'
      BY <1>8, <2>1, <2>4, <3>2 DEF Visit, Walk, LeaveDue
    <3> QED BY <1>0, <2>2, <2>3, <3>2, <3>3 DEF LeaveDue
  <2>5. CASE pc[s] = "joined" /\ u \notin roster[o]
    <3>1. u = ident[s] BY <1>8, <2>5 DEF Visit, Walk
    <3>2. authed[s] BY <2>5 DEF LoginInv
    <3> QED BY <2>2, <3>1, <3>2 DEF Accounted
  <2>6. CASE u \in roster[o] /\ pc[s] \notin {"bye", "left"}
    BY <1>0, <2>1, <2>2, <2>3, <2>6 DEF LeaveDue
  <2>7. pc[s] = "route" => u \in roster[o] BY <1>8 DEF Visit, Walk
  <2> QED BY <2>1, <2>4, <2>5, <2>6, <2>7
<1>9. ASSUME NEW s \in Session, Tell(s) PROVE Accounted(u, o)'
  BY <1>9, <1>0 DEF Tell, Sent, Stuck, LeaveDue
<1>10. ASSUME NEW s \in Session, Authenticate(s) PROVE Accounted(u, o)'
  BY <1>10, <1>0 DEF Authenticate, LeaveDue
<1>11. ASSUME NEW s \in Session, CheckOnline(s) PROVE Accounted(u, o)'
  BY <1>11, <1>0 DEF CheckOnline, LeaveDue
<1>12. ASSUME NEW s \in Session, Refuse(s) PROVE Accounted(u, o)'
  BY <1>12, <1>0 DEF Refuse, Sent, Stuck, LeaveDue
<1>13. ASSUME NEW s \in Session, Grant(s) PROVE Accounted(u, o)'
  BY <1>13, <1>0 DEF Grant, Sent, Stuck, LeaveDue
<1>14. ASSUME NEW s \in Session, Identify(s) PROVE Accounted(u, o)'
  <2>1. ~authed[s] /\ ~LeaveDue(s, o) BY <1>14 DEF Identify, LoginInv, LeaveDue
  <2> QED BY <1>14, <1>0, <2>1 DEF Identify, LeaveDue
<1>15. ASSUME NEW s \in Session, Enter(s) PROVE Accounted(u, o)'
  <2>1. o # s /\ authed[o] /\ u \in roster[o] BY <1>15 DEF Enter
  <2> QED BY <1>15, <1>0, <2>1 DEF Enter, LeaveDue
<1>16. ASSUME NEW s \in Session, Create(s) PROVE Accounted(u, o)'
  BY <1>16, <1>0 DEF Create, LeaveDue
<1>17. ASSUME NEW s \in Session, Log(s) PROVE Accounted(u, o)'
  BY <1>17, <1>0 DEF Log, LeaveDue
<1>18. CASE AllGone BY <1>18, <1>0 DEF AllGone, vars, LeaveDue
<1>19. ASSUME NEW s \in Session, Return(s) PROVE Accounted(u, o)'
  <2>1. pc[s] \in Broadcasting /\ lock = s BY <1>19 DEF Return, Stuck
  <2> QED BY <1>19, <2>1, AfterPlace, <1>0 DEF Return, Walk, Stuck, LeaveDue
<1>20. ASSUME NEW s \in Session, Stall(s) PROVE Accounted(u, o)' BY <1>20, <1>0 DEF Stall, LockFree, LeaveDue
<1> QED
  BY <1>1, <1>2, <1>3, <1>4, <1>5, <1>6, <1>7, <1>8, <1>9, <1>10, <1>11, <1>12,
     <1>13, <1>14, <1>15, <1>16, <1>17, <1>18, <1>19, <1>20
     DEF Next, Client, Thread

-----------------------------------------------------------------------------
(* Lines are new.                                                          *)

LEMMA HistoryStep == TypeOK /\ PacketInv /\ LockInv /\ LoginInv /\ HistoryInv /\ [Next]_vars => HistoryInv'
<1> SUFFICES ASSUME TypeOK, PacketInv, LockInv, LoginInv, HistoryInv, [Next]_vars PROVE HistoryInv'
  OBVIOUS
<1> USE DEF TypeOK, HistoryInv, Message, Goto, Step, ghosts, walk
<1>1. CASE UNCHANGED vars BY <1>1 DEF vars
<1>2. ASSUME NEW s \in Session, Accept(s) PROVE HistoryInv' BY <1>2 DEF Accept
<1>3. ASSUME NEW s \in Session, Hangup(s) PROVE HistoryInv' BY <1>3 DEF Hangup
<1>4. ASSUME NEW s \in Session, NEW r \in Packets, Receive(s, r) PROVE HistoryInv'
  <2>1. r \in Request BY DEF Request
  <2> QED BY <1>4, <2>1, DispatchPlace, DispatchFacts DEF Receive
<1>5. ASSUME NEW s \in Session, Exit(s) PROVE HistoryInv' BY <1>5 DEF Exit
<1>6. ASSUME NEW s \in Session, Remove(s) PROVE HistoryInv' BY <1>6 DEF Remove
<1>7. ASSUME NEW s \in Session, BeginForEach(s) PROVE HistoryInv' BY <1>7 DEF BeginForEach, LockFree, LockInv
<1>8. ASSUME NEW s \in Session, NEW r \in Session, Visit(s, r) PROVE HistoryInv'
  <2>1. pc[s] \in Broadcasting BY <1>8 DEF Visit, Walk, LockInv
  <2>2. /\ lock = s /\ r \in todo /\ todo' = todo \ {r}
        /\ UNCHANGED <<turn, logged, authed, ident>>
        /\ \A w \in Session \ {s} : pc'[w] = pc[w] /\ lock' # w
    BY <1>8, <2>1 DEF Visit, Walk
  <2>3. /\ pc'[s] = pc[s] /\ lock' = s
        \/ /\ pc[s] = "route"
           /\ pc'[s] \in {"result", "log"}
        \/ /\ pc[s] # "route"
           /\ pc'[s] \in {"auth", "hello", "remove"}
    BY <1>8, <2>1, AfterPlace DEF Visit, Walk
  <2>4. \A w \in Session : pc'[w] \in {"route", "result", "log"} => authed'[w]
    BY <2>2, <2>3
  <2>5. \A m \in logged' :
          /\ m.n <= turn'[m.by]
          /\ pc'[m.by] \in {"route", "result", "log"} => m.n # turn'[m.by]
    BY <2>2, <2>3
  <2>6. \A q \in Session : \A m \in heard'[q] :
          m \in heard[q] \/ (q = r /\ m = Said(s) /\ pc[s] = "route")
    BY <1>8 DEF Visit, Walk
  <2>7. Said(s).by = s /\ Said(s).n = turn[s] BY DEF Said
  <2>8. \A q \in Session : \A m \in heard'[q] :
          /\ m.n <= turn'[m.by]
          /\ m.n = turn'[m.by] /\ pc'[m.by] = "route" => lock' = m.by /\ q \notin todo'
    <3> SUFFICES ASSUME NEW q \in Session, NEW m \in heard'[q]
                 PROVE  /\ m.n <= turn'[m.by]
                        /\ m.n = turn'[m.by] /\ pc'[m.by] = "route"
                             => lock' = m.by /\ q \notin todo'
      OBVIOUS
    <3>1. CASE m \in heard[q]
      <4>1. m.by \in Session BY <3>1
      <4>2. CASE m.by = s BY <2>2, <2>3, <3>1, <4>2
      <4>3. CASE m.by # s BY <2>2, <3>1, <4>1, <4>3
      <4> QED BY <4>2, <4>3
    <3>2. CASE q = r /\ m = Said(s) /\ pc[s] = "route"
      BY <2>2, <2>3, <2>7, <3>2
    <3> QED BY <2>6, <3>1, <3>2
  <2> QED BY <2>4, <2>5, <2>8
<1>9. ASSUME NEW s \in Session, Tell(s) PROVE HistoryInv'
  <2>1. \A w \in Session : pc[w] = "route" => lock # w BY <1>9 DEF Tell, Sent, Stuck, LockFree
  <2> QED BY <1>9, <2>1 DEF Tell
<1>10. ASSUME NEW s \in Session, Authenticate(s) PROVE HistoryInv' BY <1>10 DEF Authenticate
<1>11. ASSUME NEW s \in Session, CheckOnline(s) PROVE HistoryInv' BY <1>11 DEF CheckOnline
<1>12. ASSUME NEW s \in Session, Refuse(s) PROVE HistoryInv'
  <2>1. \A w \in Session : pc[w] = "route" => lock # w BY <1>12 DEF Refuse, Sent, Stuck, LockFree
  <2> QED BY <1>12, <2>1 DEF Refuse
<1>13. ASSUME NEW s \in Session, Grant(s) PROVE HistoryInv'
  <2>1. \A w \in Session : pc[w] = "route" => lock # w BY <1>13 DEF Grant, Sent, Stuck, LockFree
  <2> QED BY <1>13, <2>1 DEF Grant
<1>14. ASSUME NEW s \in Session, Identify(s) PROVE HistoryInv' BY <1>14 DEF Identify
<1>15. ASSUME NEW s \in Session, Enter(s) PROVE HistoryInv' BY <1>15 DEF Enter
<1>16. ASSUME NEW s \in Session, Create(s) PROVE HistoryInv' BY <1>16 DEF Create
<1>17. ASSUME NEW s \in Session, Log(s) PROVE HistoryInv' BY <1>17 DEF Log, Said
<1>18. CASE AllGone BY <1>18 DEF AllGone, vars
<1>19. ASSUME NEW s \in Session, Return(s) PROVE HistoryInv'
  <2>1. pc[s] \in Broadcasting /\ lock = s BY <1>19 DEF Return, Stuck
  <2> QED BY <1>19, <2>1, AfterPlace DEF Return, Walk, Stuck
<1>20. ASSUME NEW s \in Session, Stall(s) PROVE HistoryInv' BY <1>20 DEF Stall, LockFree
<1> QED
  BY <1>1, <1>2, <1>3, <1>4, <1>5, <1>6, <1>7, <1>8, <1>9,
     <1>10, <1>11, <1>12, <1>13, <1>14, <1>15, <1>16, <1>17, <1>18, <1>19, <1>20
     DEF Next, Client, Thread

-----------------------------------------------------------------------------
(* The theorems.                                                           *)

LEMMA InitInv == Init => IInv
BY DEF Init, IInv, TypeOK, PacketInv, LockInv, ListInv, LoginInv,
       IdentityAgrees, NoStalePresence, HistoryInv, Nothing

LEMMA StepInv == IInv /\ [Next]_vars => IInv'
BY TypeStep, PacketStep, LockStep, ListStep, LoginStep, PresenceStep,
   HistoryStep DEF IInv

\* The strengthened invariant holds in every reachable state.
THEOREM Inductive == Spec => []IInv
<1>1. Init => IInv BY InitInv
<1>2. IInv /\ [Next]_vars => IInv' BY StepInv
<1> QED BY <1>1, <1>2, PTL DEF Spec

\* Type correctness of the server's state.
THEOREM TypeCorrect == Spec => []TypeOK
<1>1. IInv => TypeOK BY DEF IInv
<1> QED BY <1>1, Inductive, PTL

\* No thread ever sends to a session whose socket another thread closed.
THEOREM SocketSafety == Spec => []NoSendAfterClose
<1>1. IInv => NoSendAfterClose
  BY DEF IInv, NoSendAfterClose, LockInv, ListInv, LoginInv, Reachable, TypeOK
<1> QED BY <1>1, Inductive, PTL

\* Whoever the server lets speak is an existing account, the one its client was told.
THEOREM IdentitySafety == Spec => []IdentityAgrees
<1>1. IInv => IdentityAgrees BY DEF IInv
<1> QED BY <1>1, Inductive, PTL

\* Nobody in the room believes for good that somebody who left is still there.
THEOREM PresenceSafety == Spec => []NoStalePresence
<1>1. IInv => NoStalePresence BY DEF IInv
<1> QED BY <1>1, Inductive, PTL

-----------------------------------------------------------------------------
(***************************************************************************)
(* SessionServer implements ChatService: every step of a server thread is  *)
(* a step of the service its clients see, or changes nothing they see.     *)
(***************************************************************************)


\* The abstract state the refinement mapping computes.
Who == [s \in Session |-> IF authed[s] THEN ident[s] ELSE NoUser]
Spoken == logged \cup {Said(s) : s \in Speaking}

LEMMA InitRefines == Init => Service!Init
BY DEF Init, Service!Init, Speaking

\* Steps that change neither who is in the room nor what was answered, said or
\* heard are invisible to the clients.
LEMMA Invisible ==
  ASSUME UNCHANGED <<authed, ident, turn, acked, heard, logged>>,
         TypeOK,
         \A s \in Session : s \in Speaking <=> (s \in Speaking)',
         \A s \in Speaking : req'[s] = req[s]
  PROVE  UNCHANGED Service!vars
<1>1. Speaking' = Speaking BY DEF Speaking
<1>2. \A s \in Speaking : Said(s)' = Said(s) BY DEF Said
<1>3. {Said(s) : s \in Speaking}' = {Said(s) : s \in Speaking} BY <1>1, <1>2
<1> QED BY <1>3 DEF Service!vars
\* The lines in flight change only with the threads that speak.
LEMMA SpokenFrame ==
  ASSUME TypeOK, UNCHANGED <<ident, turn, logged>>,
         \A s \in Session : s \in Speaking <=> (s \in Speaking)',
         \A s \in Speaking : req'[s] = req[s]
  PROVE  Spoken' = Spoken
<1>1. Speaking' = Speaking BY DEF Speaking
<1>2. \A s \in Speaking : Said(s)' = Said(s) BY DEF Said
<1>3. {Said(s) : s \in Speaking}' = {Said(s) : s \in Speaking} BY <1>1, <1>2
<1> QED BY <1>3 DEF Spoken

LEMMA StepRefines == IInv /\ [Next]_vars => [Service!Next]_(Service!vars)
<1> SUFFICES ASSUME IInv, [Next]_vars PROVE [Service!Next]_(Service!vars)
  OBVIOUS
<1> USE DEF IInv, TypeOK, ghosts, walk, Goto, Step
<1>1. CASE UNCHANGED vars BY <1>1, Invisible DEF vars, Speaking
<1>2. ASSUME NEW s \in Session, Accept(s) PROVE UNCHANGED Service!vars
  BY <1>2, Invisible DEF Accept, Speaking
<1>3. ASSUME NEW s \in Session, Hangup(s) PROVE UNCHANGED Service!vars
  BY <1>3, Invisible DEF Hangup, Speaking
<1>4. ASSUME NEW s \in Session, NEW r \in Packets, Receive(s, r)
      PROVE  [Service!Next]_(Service!vars)
  <2>1. r \in Request BY DEF Request
  <2>2. pc[s] = "recv" /\ pc'[s] = Dispatch(s, r) /\ UNCHANGED <<ident, logged, heard, acked>>
    BY <1>4 DEF Receive
  <2>3. \A w \in Session \ {s} :
          pc'[w] = pc[w] /\ req'[w] = req[w] /\ turn'[w] = turn[w] /\ authed'[w] = authed[w]
    BY <1>4 DEF Receive
  <2>4. \A w \in Speaking : w # s /\ Said(w)' = Said(w)
    BY <2>2, <2>3 DEF Speaking, Said
  <2>5. CASE Dispatch(s, r) = "route"
    <3>1. r.op = "Chat" /\ authed[s] /\ authed'[s] /\ req'[s] = r /\ turn'[s] = turn[s] + 1
      BY <1>4, <2>1, <2>2, <2>5, DispatchFacts DEF Receive
    <3>2. r.ch \in Service!Channel /\ r.to \in Target
      BY <2>1, <2>5, <3>1, RequestKinds DEF Dispatch, ChatRoute, Service!Channel
    <3>3. DEFINE m == [by |-> s, n |-> turn[s] + 1, from |-> ident[s],
                       ch |-> r.ch, to |-> r.to]
    <3>4. Said(s)' = m BY <2>2, <3>1 DEF Said
    <3>5. Speaking' = Speaking \cup {s} BY <2>2, <2>3, <2>5 DEF Speaking
    <3>6. Spoken' = Spoken \cup {m} BY <2>2, <2>4, <3>4, <3>5 DEF Spoken
    <3>7. m \notin Spoken
      <4>1. m \notin logged BY DEF HistoryInv
      <4>2. \A w \in Speaking : Said(w).by = w BY DEF Said
      <4> QED BY <4>1, <4>2, <2>4 DEF Spoken
    <3>8. turn[s] + 1 \in 1..MaxRequests BY <1>4 DEF Receive
    <3>9. Who[s] = ident[s] /\ ident[s] \in User BY <3>1 DEF Who, IdentityAgrees
    <3>10. Who' = Who BY <1>4, <2>2, <2>3, <3>1 DEF Who
    <3>11. Service!Speak(s, turn[s] + 1, r.ch, r.to)
      BY <2>2, <3>6, <3>7, <3>9, <3>10 DEF Service!Speak, Who, Spoken
    <3> QED BY <3>2, <3>8, <3>11 DEF Service!Next, Service!Target
  <2>6. CASE Dispatch(s, r) # "route"
    <3>1. Speaking' = Speaking
      BY <2>1, <2>2, <2>3, <2>6, DispatchPlace DEF Speaking
    <3>2. Spoken' = Spoken BY <2>2, <2>4, <3>1 DEF Spoken
    <3>3. CASE authed[s] /\ r.op = "Login"
      <4>1. Who[s] # NoUser BY <3>3 DEF Who, IdentityAgrees
      <4>2. Who' = [Who EXCEPT ![s] = NoUser]
        BY <1>4, <2>2, <2>3, <3>3 DEF Who, Receive
      <4>3. Service!Leave(s)
        BY <2>2, <3>2, <4>1, <4>2 DEF Service!Leave, Who, Spoken
      <4> QED BY <4>3 DEF Service!Next
    <3>4. CASE ~(authed[s] /\ r.op = "Login")
      <4>1. Who' = Who BY <1>4, <2>2, <2>3, <3>4 DEF Who, Receive
      <4> QED BY <2>2, <3>2, <4>1 DEF Service!vars, Who, Spoken
    <3> QED BY <3>3, <3>4
  <2> QED BY <2>5, <2>6
<1>5. ASSUME NEW s \in Session, Exit(s) PROVE [Service!Next]_(Service!vars)
  <2>1. Spoken' = Spoken BY <1>5, SpokenFrame DEF Exit, Speaking
  <2>2. CASE authed[s]
    <3>1. Who[s] # NoUser BY <2>2 DEF Who, IdentityAgrees
    <3>2. Who' = [Who EXCEPT ![s] = NoUser] BY <1>5 DEF Who, Exit
    <3>3. Service!Leave(s)
      BY <1>5, <2>1, <3>1, <3>2 DEF Service!Leave, Who, Spoken, Exit
    <3> QED BY <3>3 DEF Service!Next
  <2>3. CASE ~authed[s] BY <1>5, <2>3, Invisible DEF Exit, Speaking
  <2> QED BY <2>2, <2>3
<1>6. ASSUME NEW s \in Session, Remove(s) PROVE UNCHANGED Service!vars
  BY <1>6, Invisible DEF Remove, Speaking
<1>7. ASSUME NEW s \in Session, BeginForEach(s) PROVE UNCHANGED Service!vars
  BY <1>7, Invisible DEF BeginForEach, Speaking
<1>8. ASSUME NEW s \in Session, NEW r \in Session, Visit(s, r)
      PROVE  [Service!Next]_(Service!vars)
  <2>1. pc[s] \in Broadcasting /\ r \in todo /\ lock = s BY <1>8 DEF Visit, Walk, LockInv
  <2>2. /\ UNCHANGED <<ident, turn, logged, authed, acked>>
        /\ \A w \in Session : w \in Speaking <=> (w \in Speaking)'
        /\ \A w \in Speaking : req'[w] = req[w]
    BY <1>8, <2>1, AfterPlace DEF Visit, Walk, Speaking
  <2>3. Spoken' = Spoken /\ Who' = Who BY <2>2, SpokenFrame DEF Who
  <2>4. CASE pc[s] = "route" /\ Wanted(s, r)
    <3>1. s \in Speaking /\ Said(s) \in Spoken BY <2>4 DEF Speaking, Spoken
    <3>2. Said(s) \notin heard[r] BY <2>1, <2>4 DEF HistoryInv, Said
    <3>3. authed[r] /\ Who[r] = ident[r] /\ Who[r] # NoUser
      BY <2>4 DEF Wanted, Who, IdentityAgrees
    <3>4. Who[s] = ident[s] BY <2>4 DEF Who, HistoryInv
    <3>5. \/ req[s].ch = "All"
          \/ req[s].ch = "Whisper" /\ r # s /\ Who[r] = req[s].to
      BY <2>4, <3>3 DEF Wanted
    <3>6. heard' = [heard EXCEPT ![r] = @ \cup {Said(s)}] BY <1>8, <2>4 DEF Visit, Walk
    <3>7. Service!Hear(r, Said(s))
      BY <2>2, <2>3, <3>2, <3>3, <3>4, <3>5, <3>6 DEF Service!Hear, Who, Spoken, Said
    <3> QED BY <3>1, <3>7 DEF Service!Next, Spoken
  <2>5. CASE ~(pc[s] = "route" /\ Wanted(s, r))
    <3>1. heard' = heard BY <1>8, <2>5 DEF Visit, Walk
    <3> QED BY <2>2, <2>3, <3>1 DEF Service!vars, Who, Spoken
  <2> QED BY <2>4, <2>5
<1>9. ASSUME NEW s \in Session, Tell(s) PROVE UNCHANGED Service!vars
  BY <1>9, Invisible DEF Tell, Sent, Stuck, Speaking
<1>10. ASSUME NEW s \in Session, Authenticate(s) PROVE UNCHANGED Service!vars
  BY <1>10, Invisible DEF Authenticate, Speaking
<1>11. ASSUME NEW s \in Session, CheckOnline(s) PROVE UNCHANGED Service!vars
  BY <1>11, Invisible DEF CheckOnline, Speaking
<1>12. ASSUME NEW s \in Session, Refuse(s) PROVE [Service!Next]_(Service!vars)
  <2>1. Spoken' = Spoken BY <1>12, SpokenFrame DEF Refuse, Sent, Stuck, Speaking
  <2>2. Reachable(s) BY <1>12 DEF Refuse, Sent, Stuck, ListInv, Reachable
  <2>3. Service!Answer(s, NoUser)
    BY <1>12, <2>1, <2>2 DEF Service!Answer, Refuse, Sent, Spoken
  <2> QED BY <2>3 DEF Service!Next, Service!Target
<1>13. ASSUME NEW s \in Session, Grant(s) PROVE [Service!Next]_(Service!vars)
  <2>1. Spoken' = Spoken BY <1>13, SpokenFrame DEF Grant, Sent, Stuck, Speaking
  <2>2. Reachable(s) /\ ~authed[s] BY <1>13 DEF Grant, Sent, Stuck, ListInv, Reachable, LoginInv
  <2>3. req[s].user \in User BY <1>13 DEF Grant, Sent, Stuck, LoginInv
  <2>4. Service!Answer(s, req[s].user)
    BY <1>13, <2>1, <2>2 DEF Service!Answer, Grant, Sent, Spoken
  <2> QED BY <2>3, <2>4 DEF Service!Next, Service!Target
<1>14. ASSUME NEW s \in Session, Identify(s) PROVE UNCHANGED Service!vars
  <2>1. ~authed[s] /\ s \notin Speaking BY <1>14 DEF Identify, LoginInv, Speaking
  <2>2. Who' = Who BY <1>14, <2>1 DEF Identify, Who
  <2>3. Speaking' = Speaking BY <1>14 DEF Identify, Speaking
  <2>4. \A w \in Speaking : Said(w)' = Said(w) BY <1>14, <2>1 DEF Identify, Said, Speaking
  <2>5. Spoken' = Spoken BY <1>14, <2>3, <2>4 DEF Identify, Spoken
  <2> QED BY <1>14, <2>2, <2>5 DEF Identify, Service!vars, Who, Spoken
<1>15. ASSUME NEW s \in Session, Enter(s) PROVE [Service!Next]_(Service!vars)
  <2>1. Spoken' = Spoken BY <1>15, SpokenFrame DEF Enter, Speaking
  <2>2. ~authed[s] /\ ident[s] = acked[s] /\ acked[s] \in User
    BY <1>15 DEF Enter, LoginInv
  <2>3. Who[s] = NoUser /\ Who' = [Who EXCEPT ![s] = acked[s]]
    BY <1>15, <2>2 DEF Enter, Who
  <2>4. Service!Enter(s)
    BY <1>15, <2>1, <2>2, <2>3 DEF Service!Enter, Enter, Who, Spoken
  <2> QED BY <2>4 DEF Service!Next
<1>16. ASSUME NEW s \in Session, Create(s) PROVE UNCHANGED Service!vars
  BY <1>16, Invisible DEF Create, Speaking
<1>17. ASSUME NEW s \in Session, Log(s) PROVE UNCHANGED Service!vars
  <2>1. s \in Speaking /\ Speaking' = Speaking \ {s} BY <1>17 DEF Log, Speaking
  <2>2. \A w \in Session \ {s} : Said(w)' = Said(w) BY <1>17 DEF Log, Said
  <2>3. logged' = logged \cup {Said(s)} BY <1>17 DEF Log
  <2>4. Spoken' = Spoken BY <2>1, <2>2, <2>3 DEF Spoken, Speaking
  <2> QED BY <1>17, <2>4 DEF Log, Service!vars, Spoken
<1>18. CASE AllGone BY <1>18, Invisible DEF AllGone, vars, Speaking
<1>19. ASSUME NEW s \in Session, Return(s) PROVE UNCHANGED Service!vars
  <2>1. pc[s] \in Broadcasting BY <1>19 DEF Return
  <2> QED BY <1>19, <2>1, Invisible, AfterPlace DEF Return, Walk, Stuck, Speaking
<1>20. ASSUME NEW s \in Session, Stall(s) PROVE UNCHANGED Service!vars
  BY <1>20, Invisible DEF Stall, Speaking
<1> QED
  BY <1>1, <1>2, <1>3, <1>4, <1>5, <1>6, <1>7, <1>8, <1>9, <1>10, <1>11, <1>12,
     <1>13, <1>14, <1>15, <1>16, <1>17, <1>18, <1>19, <1>20
     DEF Next, Client, Thread

\* What the clients of the server see is the service ChatService describes.
THEOREM Implementation == Spec => ImplementsService
<1>1. Init => Service!Init BY InitRefines
<1>2. IInv /\ [Next]_vars => [Service!Next]_(Service!vars) BY StepRefines
<1> QED BY <1>1, <1>2, Inductive, PTL DEF Spec, ImplementsService, Service!Spec
=============================================================================
