-------------------------- MODULE MCSessionServer --------------------------
(* The packets that the instances of SessionServer use.                    *)
EXTENDS SessionServer

\* Logins (again) of everybody.
LoginPackets == {r \in Request : r.op = "Login" /\ r.user # NoUser}

\* One packet of each kind, and the logins and whispers of everybody.
KindPackets == LoginPackets
  \cup {r \in Request : r.op = "Chat" /\ r.ch = "Whisper" /\ r.to # NoUser}
  \cup {[op |-> "Chat", ch |-> c, to |-> NoUser] : c \in {"All", "System"}}
  \cup {[op |-> "Register", user |-> NoUser]}
  \cup [op : {"BadLogin", "BadChat", "Heartbeat"}]
=============================================================================
