-------------------------- MODULE PacketFragmenter --------------------------
(***************************************************************************)
(* hci/src/packet_fragmenter.cc: cutting an outgoing ACL packet into       *)
(* fragments the controller can hold, and putting incoming fragments       *)
(* together again.  Both are operators on one packet or one fragment; the  *)
(* module L2capLink runs them.                                             *)
(*                                                                         *)
(* A packet is the part of a BT_HDR that is still to be sent: its identity,*)
(* the payload bytes already sent (off), the ones left (len, without the   *)
(* ACL preamble) and layer_specific (segs), the number of fragments L2CAP  *)
(* allows for this pass, 0 when there is no limit.  Byte i of packet id is *)
(* written <<id, i>>.                                                      *)
(***************************************************************************)
EXTENDS Naturals, Sequences

CONSTANTS
  AclData,     \* get_acl_data_size_classic(): payload bytes of one fragment
  MaxBuffer    \* BT_DEFAULT_BUFFER_SIZE, as payload bytes of a whole packet

ASSUME FragmenterAssumption == AclData \in Nat \ {0} /\ MaxBuffer \in Nat

MinOf(a, b) == IF a < b THEN a ELSE b

(* fragment_and_dispatch: the condition of its loop. *)
More(p) == p.len > AclData

(* The fragment handed to fragmented().  Its boundary flag is "start" for  *)
(* the first bytes of a packet and "continuation" for all others, also     *)
(* when the rest of a packet is submitted again.  The length of the whole  *)
(* packet is in the L2CAP header, which only the first fragment carries.   *)
FragmentOf(p) ==
  [start |-> p.off = 0,
   total |-> p.off + p.len,
   data  |-> [i \in 1..MinOf(p.len, AclData) |-> <<p.id, p.off + i>>]]

(* The packet after one round of the loop: shortened from the front, one   *)
(* segment less to go when L2CAP set a limit.                              *)
Rest(p) ==
  [p EXCEPT !.off = @ + AclData, !.len = @ - AclData,
            !.segs = IF @ = 0 THEN 0 ELSE @ - 1]

(* The round that uses up the limit gives the rest back to L2CAP instead   *)
(* of going on (transmit_finished with all_fragments_sent = false).        *)
LimitReached(p) == More(p) /\ p.segs = 1

(* reassemble_and_dispatch.  partial is the entry of partial_packets for   *)
(* the handle; out is what is passed to reassembled(), <<>> for nothing.   *)
NoPartial == [need |-> 0, data |-> <<>>]

(* A start fragment drops an unfinished packet; a packet too large for a   *)
(* buffer is dropped; a packet that fits in its fragment goes up at once.  *)
ReassembleStart(f) ==
  IF f.total > MaxBuffer THEN [partial |-> NoPartial, out |-> <<>>]
  ELSE IF f.total <= Len(f.data) THEN [partial |-> NoPartial, out |-> f.data]
  ELSE [partial |-> [need |-> f.total, data |-> f.data], out |-> <<>>]

(* A continuation without an unfinished packet is dropped. *)
ReassembleContinuation(partial, f) ==
  LET joined == partial.data \o f.data IN
  IF partial = NoPartial THEN [partial |-> NoPartial, out |-> <<>>]
  ELSE IF Len(joined) = partial.need
       THEN [partial |-> NoPartial, out |-> joined]
       ELSE [partial |-> [partial EXCEPT !.data = joined], out |-> <<>>]

Reassemble(partial, f) ==
  IF f.start THEN ReassembleStart(f) ELSE ReassembleContinuation(partial, f)

(* A continuation that carries more bytes than the packet still needs is   *)
(* the one case the operators leave out (lines 213-221).                   *)
Fits(partial, f) ==
  ~f.start /\ partial # NoPartial => Len(partial.data) + Len(f.data) <= partial.need
=============================================================================
