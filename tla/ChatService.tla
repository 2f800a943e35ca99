---------------------------- MODULE ChatService ----------------------------
(***************************************************************************)
(* What the account/chat server promises its clients, with no threads, no  *)
(* locks and no packets: who is in the room, what each client was told     *)
(* about its own login, what was said and who heard it.                    *)
(***************************************************************************)
EXTENDS Naturals

CONSTANTS Session,      \* connections
          User,         \* accounts (an account has exactly one nickname)
          NoUser,       \* "nobody": not logged in, or no such nickname
          MaxRequests   \* bound: packets a client sends on one connection

VARIABLES who,      \* who[s]: the account session s speaks as
          told,     \* told[s]: the account the last login answer on s named
          spoken,   \* the chat messages accepted from a client
          heard     \* heard[s]: the messages the server sent to s

vars == <<who, told, spoken, heard>>

Channel == {"All", "Whisper", "Other"}
Target == User \cup {NoUser}

\* A chat line: the connection and the turn it was said in, then what the
\* packet's head carries (sender account, channel, whisper target).
Message == [by : Session, n : 1..MaxRequests, from : User,
            ch : Channel, to : Target]

Init ==
  /\ who = [s \in Session |-> NoUser]
  /\ told = [s \in Session |-> NoUser]
  /\ spoken = {}
  /\ heard = [s \in Session |-> {}]

\* A login answer: a grant only to a session that is nobody; a refusal any time.
Answer(s, u) ==
  /\ who[s] = NoUser \/ u = NoUser
  /\ told' = [told EXCEPT ![s] = u]
  /\ UNCHANGED <<who, spoken, heard>>

\* A session enters the room only as the account its client was granted.
Enter(s) ==
  /\ who[s] = NoUser
  /\ told[s] # NoUser
  /\ who' = [who EXCEPT ![s] = told[s]]
  /\ UNCHANGED <<told, spoken, heard>>

Leave(s) ==
  /\ who[s] # NoUser
  /\ who' = [who EXCEPT ![s] = NoUser]
  /\ UNCHANGED <<told, spoken, heard>>

\* A line is accepted only from somebody in the room, and once.
Speak(s, n, ch, to) ==
  LET m == [by |-> s, n |-> n, from |-> who[s], ch |-> ch, to |-> to]
  IN  /\ who[s] # NoUser
      /\ m \notin spoken
      /\ spoken' = spoken \cup {m}
      /\ UNCHANGED <<who, told, heard>>

\* A message reaches somebody in the room, at most once, while its speaker is
\* still in the room under the name the message carries; a whisper reaches only
\* another session that carries the nickname it is addressed to.
Hear(s, m) ==
  /\ m \notin heard[s]
  /\ who[s] # NoUser
  /\ who[m.by] = m.from
  /\ \/ m.ch = "All"
     \/ m.ch = "Whisper" /\ s # m.by /\ who[s] = m.to
  /\ heard' = [heard EXCEPT ![s] = @ \cup {m}]
  /\ UNCHANGED <<who, told, spoken>>

Next ==
  \E s \in Session :
    \/ \E u \in Target : Answer(s, u)
    \/ Enter(s)
    \/ Leave(s)
    \/ \E n \in 1..MaxRequests, ch \in Channel, to \in Target : Speak(s, n, ch, to)
    \/ \E m \in spoken : Hear(s, m)

Spec == Init /\ [][Next]_vars
=============================================================================
