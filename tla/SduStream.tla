------------------------------- MODULE SduStream -------------------------------
(***************************************************************************)
(* What an enhanced-retransmission-mode channel promises in one direction: *)
(* the service data units the sender's upper layer wrote reach the         *)
(* receiver's upper layer whole, in order, each once, and never before     *)
(* they were written.  One received frame may complete several of them,    *)
(* when it fills the gap before frames the receiver had put aside.  The    *)
(* promise says nothing of when: a channel may close with data undelivered.*)
(***************************************************************************)
EXTENDS Naturals, Sequences

VARIABLES sent,   \* what the upper layer of the sender wrote, in order
          rcvd    \* what the upper layer of the receiver was handed, in order

CONSTANT Units    \* the service data units there are

Init == sent = <<>> /\ rcvd = <<>>

Write(s) == sent' = Append(sent, s) /\ UNCHANGED rcvd

Deliver ==
  /\ \E n \in (Len(rcvd) + 1) .. Len(sent) : rcvd' = SubSeq(sent, 1, n)
  /\ UNCHANGED sent

Next == Deliver \/ \E s \in Units : Write(s)

Spec == Init /\ [][Next]_<<sent, rcvd>>
================================================================================
