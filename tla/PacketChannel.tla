----------------------------- MODULE PacketChannel -----------------------------
(***************************************************************************)
(* What the framing promises (Framing.h): packets given to a connection by *)
(* any number of threads come out whole, once, in the order they went in,  *)
(* and all of them as long as the connection lasts.  Those on their way    *)
(* when it ends may come out or not.                                       *)
(***************************************************************************)
EXTENDS Naturals, Sequences

CONSTANT Packet

VARIABLES
  sent,    \* the packets in the order they were given to the connection
  got,     \* the packets that came out
  up

vars == <<sent, got, up>>

Init == sent = <<>> /\ got = <<>> /\ up = TRUE

Send == up /\ \E p \in Packet : sent' = Append(sent, p) /\ UNCHANGED <<got, up>>

Deliver ==
  /\ Len(got) < Len(sent)
  /\ got' = Append(got, sent[Len(got) + 1])
  /\ UNCHANGED <<sent, up>>

Break == up /\ up' = FALSE /\ UNCHANGED <<sent, got>>

Next == Send \/ Deliver \/ Break

Safety == Init /\ [][Next]_vars

Spec == Safety /\ WF_vars(up /\ Deliver)
================================================================================
