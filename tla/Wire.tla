--------------------------------- MODULE Wire ---------------------------------
(***************************************************************************)
(* The framing on a TCP connection (Framing.cpp) and the rule that makes   *)
(* it work on the server: every send happens under the lock of the session *)
(* list (Server.cpp, SendTo and BroadcastSystem; Session.h, ForEach).      *)
(*                                                                         *)
(* TCP is a stream of bytes: a send may take a part of what it is given, a *)
(* recv may return any part of what has arrived, and a send blocks while   *)
(* the receiver's window is full.  A byte is its packet and its place in   *)
(* it; the first one stands for BodySize.  Left out: Windows and Linux     *)
(* sockets, what opcodes mean, timeouts of recv (they only try again).     *)
(***************************************************************************)
EXTENDS Naturals, Sequences

CONSTANTS
  Thread,       \* the server's threads that send to this connection
  NoThread,
  HeaderSize,   \* sizeof(PacketHeader), in the model's bytes
  MaxBodySize,  \* what the receiver accepts
  SendLimit,    \* what BuildPacket accepts: each end passes its own limit
  Sizes,        \* the sizes that bodies are made in
  Window,       \* how many bytes are on their way at most
  MaxPackets    \* bounds the packets that are sent

VARIABLES
  lock,         \* the holder of the session list's mutex
  rest,         \* what SendAll still has to send
  net,          \* the bytes on their way
  recvBuf,      \* ClientSession::recvBuf, and its like in the client
  inbox,        \* the packets extracted, as their bytes
  started,      \* history: the packets in the order the lock was taken
  lost,         \* history: what a SendAll that failed did not send
  up            \* the connection lasts

vars == <<lock, rest, net, recvBuf, inbox, started, lost, up>>

Packet == [from : Thread, nr : 1..MaxPackets, size : Sizes]

ASSUME WireAssumption ==
  /\ NoThread \notin Thread /\ Sizes \subseteq Nat
  /\ HeaderSize \in Nat \ {0} /\ Window \in Nat \ {0}
  /\ SendLimit \in Nat /\ MaxBodySize \in Nat /\ MaxPackets \in Nat

Total(p) == HeaderSize + p.size
Bytes(p) == [i \in 1..Total(p) |-> <<p, i>>]

-----------------------------------------------------------------------------
(* Sending.                                                                *)

\* Mutant: the list is not locked.
Send_Unlocked(t, size) ==
  /\ up /\ rest[t] = <<>> /\ Len(started) < MaxPackets
  /\ size <= SendLimit
  /\ LET p == [from |-> t, nr |-> Len(started) + 1, size |-> size]
     IN  rest' = [rest EXCEPT ![t] = Bytes(p)] /\ started' = Append(started, p)
  /\ UNCHANGED <<lock, net, recvBuf, inbox, lost, up>>

\* ForEach and SendPacket2: a body that BuildPacket refuses is not sent.
Send(t, size) ==
  /\ up /\ lock = NoThread /\ Len(started) < MaxPackets
  /\ lock' = t
  /\ size <= SendLimit
  /\ LET p == [from |-> t, nr |-> Len(started) + 1, size |-> size]
     IN  rest' = [rest EXCEPT ![t] = Bytes(p)] /\ started' = Append(started, p)
  /\ UNCHANGED <<net, recvBuf, inbox, lost, up>>

\* One ::send of the loop in SendAll.
SendSome(t) ==
  /\ up /\ rest[t] # <<>>
  /\ \E k \in 1..Len(rest[t]) :
       /\ Len(net) + k <= Window
       /\ net' = net \o SubSeq(rest[t], 1, k)
       /\ rest' = [rest EXCEPT ![t] = SubSeq(@, k + 1, Len(@))]
  /\ UNCHANGED <<lock, recvBuf, inbox, started, lost, up>>

\* Mutant: SendAll sends once and does not look at what is left.
SendReturns_Partial(t) ==
  /\ lock = t
  /\ lock' = NoThread
  /\ rest' = [rest EXCEPT ![t] = <<>>]
  /\ UNCHANGED <<net, recvBuf, inbox, started, lost, up>>

\* SendAll returns: everything is out, or ::send failed.
SendReturns(t) ==
  /\ lock = t /\ (rest[t] = <<>> \/ ~up)
  /\ lock' = NoThread
  /\ rest' = [rest EXCEPT ![t] = <<>>]
  /\ lost' = rest[t]
  /\ UNCHANGED <<net, recvBuf, inbox, started, up>>

-----------------------------------------------------------------------------
(* Receiving: TryExtractPacket is called until it needs more.  What arrived *)
(* before the connection broke may still be received and extracted.        *)

BodySize == recvBuf[1][1].size
HeaderIsIn == Len(recvBuf) >= HeaderSize
Accepted == BodySize <= MaxBodySize
PacketIsIn == HeaderIsIn /\ Accepted /\ Len(recvBuf) >= HeaderSize + BodySize
NeedMore == HeaderIsIn => Accepted /\ ~PacketIsIn

Recv ==
  /\ NeedMore
  /\ \E k \in 1..Len(net) :
       /\ recvBuf' = recvBuf \o SubSeq(net, 1, k)
       /\ net' = SubSeq(net, k + 1, Len(net))
  /\ UNCHANGED <<lock, rest, inbox, started, lost, up>>

Extract ==
  /\ PacketIsIn
  /\ inbox' = Append(inbox, SubSeq(recvBuf, 1, HeaderSize + BodySize))
  /\ recvBuf' = SubSeq(recvBuf, HeaderSize + BodySize + 1, Len(recvBuf))
  /\ UNCHANGED <<lock, rest, net, started, lost, up>>

\* A length that the receiver does not accept ends the connection.
Malformed ==
  /\ up /\ HeaderIsIn /\ ~Accepted
  /\ up' = FALSE
  /\ UNCHANGED <<lock, rest, net, recvBuf, inbox, started, lost>>

\* The connection is lost, or the receiver leaves.
Break ==
  /\ up /\ up' = FALSE
  /\ UNCHANGED <<lock, rest, net, recvBuf, inbox, started, lost>>

-----------------------------------------------------------------------------
Init ==
  /\ lock = NoThread /\ rest = [t \in Thread |-> <<>>]
  /\ net = <<>> /\ recvBuf = <<>> /\ inbox = <<>> /\ started = <<>>
  /\ lost = <<>> /\ up = TRUE

Sender(t) == (\E size \in Sizes : Send(t, size)) \/ SendSome(t) \/ SendReturns(t)
Receiver == Recv \/ Extract \/ Malformed

Next == (\E t \in Thread : Sender(t)) \/ Receiver \/ Break

Spec == Init /\ [][Next]_vars

\* A thread in SendAll goes on, and the receiver reads while the connection
\* lasts: without that, the lock is held for as long as it does not (tech-debt
\* D-009; SessionServer has sends that block).
Fairness ==
  /\ \A t \in Thread : WF_vars(SendSome(t)) /\ WF_vars(SendReturns(t))
  /\ WF_vars(up /\ Receiver)
FairSpec == Spec /\ Fairness

-----------------------------------------------------------------------------
\* What an extracted packet is to the handlers: one that was sent, or not.
Garbled == [from |-> NoThread, nr |-> 0, size |-> 0]
Read(bytes) == IF bytes = Bytes(bytes[1][1]) THEN bytes[1][1] ELSE Garbled

\* Packets stay whole and in order however sends are split and threads are
\* interleaved (SendAll, TryExtractPacket).
Channel == INSTANCE PacketChannel WITH
  sent <- started, got <- [i \in DOMAIN inbox |-> Read(inbox[i])]
ChannelKept == Channel!Safety

\* And they arrive if the receiver keeps reading and the connection lasts.
ImplementsChannel == Channel!Spec

-----------------------------------------------------------------------------
(* What the lock amounts to, in a form that every step preserves.          *)

Byte == Packet \X (Nat \ {0})

TypeOK ==
  /\ lock \in Thread \cup {NoThread} /\ rest \in [Thread -> Seq(Byte)]
  /\ net \in Seq(Byte) /\ recvBuf \in Seq(Byte) /\ inbox \in Seq(Seq(Byte))
  /\ started \in Seq(Packet) /\ lost \in Seq(Byte) /\ up \in BOOLEAN

\* What was given to the connection and not extracted yet; a send that failed
\* took the end of it away.
Stream == recvBuf \o (net \o IF lock = NoThread THEN lost ELSE rest[lock])

\* How many bytes are in front of the packet that the ith byte belongs to.
Before(s, i) == i - s[i][2]
After(s, i) == Before(s, i) + Total(s[i][1])

\* A sequence of bytes is whole packets,
Whole(s) ==
  \A i \in 1..Len(s) :
    /\ Before(s, i) \in Nat /\ i <= After(s, i) /\ After(s, i) <= Len(s)
    /\ \A k \in 1..Total(s[i][1]) : s[Before(s, i) + k] = <<s[i][1], k>>
\* and the packets are those of ps from the first one on.
InTurn(s, first, ps) ==
  /\ s = <<>> <=> first > Len(ps)
  /\ s # <<>> => s[1] = <<ps[first], 1>> /\ s[Len(s)][1] = ps[Len(ps)]
  /\ \A i \in 1..Len(s) : After(s, i) < Len(s) =>
       LET next == s[i][1].nr + 1
       IN  next <= Len(ps) /\ s[After(s, i) + 1] = <<ps[next], 1>>

\* Only the holder of the lock sends; what came out is what went in first, and
\* the rest is on its way as whole packets in their turn.
LockInv == \A t \in Thread : rest[t] # <<>> => lock = t
Numbered(ps) == \A i \in 1..Len(ps) : ps[i].nr = i
OrderInv ==
  /\ Numbered(started)
  /\ Len(inbox) <= Len(started)
  /\ \A i \in 1..Len(inbox) : inbox[i] = Bytes(started[i])
StreamInv ==
  /\ up => lost = <<>>
  /\ Whole(Stream) /\ InTurn(Stream, Len(inbox) + 1, started)
IInv == TypeOK /\ LockInv /\ OrderInv /\ StreamInv
================================================================================
