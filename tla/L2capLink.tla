----------------------------- MODULE L2capLink ------------------------------
(***************************************************************************)
(* The ACL transmit path of the BR/EDR links: the link scheduler of        *)
(* stack/l2cap/l2c_link.cc, which runs on the BTU thread, the HCI thread   *)
(* that fragments what it is given (module PacketFragmenter, hci_layer.cc),*)
(* the controller with its few buffers, and the peer that puts the         *)
(* fragments together again with the same fragmenter.                      *)
(*                                                                         *)
(* The threads meet in two queues: hciq, the packets posted to the HCI     *)
(* thread, and up, what is posted back to the BTU thread (completed-packet *)
(* counts, the rest of a packet whose segment limit was reached, and       *)
(* disconnections).  One handler of the BTU thread is a sequence of steps  *)
(* (btu says which), because the HCI thread runs meanwhile.                *)
(*                                                                         *)
(* Links are the slots of lcb_pool.  A connection's handle is its slot and *)
(* its session, so a handle is not reused while something still refers to  *)
(* it.  The parked power mode and the LE transport (the same code on       *)
(* counters of its own) are left out; every link has one open basic-mode   *)
(* channel.  What a congestion callback does is what those of the          *)
(* repository do: write data to its own channel.                           *)
(***************************************************************************)
EXTENDS PacketFragmenter, FiniteSets, FiniteSetsExt

CONSTANTS
  NumLinks,     \* slots of lcb_pool (MAX_L2CAP_LINKS)
  HighPriMin,   \* L2CAP_HIGH_PRI_MIN_XMIT_QUOTA_A
  Lens,         \* payload lengths of the packets written
  Setups        \* what to start from, and how far to go:
                \*   bufs      num_lm_acl_bufs, the controller's ACL buffers
                \*   high      links that have high priority at first
                \*   packets   bound: packets that are written to the links
                \*   sessions  bound, per link: connections; 0 if never used
                \*   priority  bound: calls of L2CA_SetAclPriority
                \*   requests  bound: channels that the peers ask for
                \*   fixed     bound: fixed channels that come into use
                \*   reuse     links that may be lost with packets in flight
                \*             and reconnected in the same LCB

Links == 1..NumLinks

ASSUME LinkAssumption ==
  /\ NumLinks \in Nat \ {0} /\ HighPriMin \in Nat \ {0} /\ Lens \subseteq Nat \ {0}
  /\ Setups \subseteq [bufs : Nat \ {0}, high : SUBSET Links, packets : Nat,
                      sessions : [Links -> Nat], priority : Nat,
                      requests : Nat, fixed : Nat, reuse : SUBSET Links]

VARIABLES
  setup,      \* the chosen member of Setups
  lcb,        \* per link: state, high, quota, sent, partial, timer, linkq, chanq,
              \* session, if a channel that the peer asked for is to be answered
              \* (answer), and if a fixed channel stopped a timer that was set (stopped)
  window,     \* l2cb.controller_xmit_window
  rrQuota, rrUnacked, checkRR,   \* l2cb.round_robin_quota, .._unacked, check_round_robin
  btu,        \* what the BTU thread is doing
  hciq, up,   \* the two message queues
  handBack,   \* the HCI thread is about to return the rest of Head(hciq)
  held,       \* per link: fragments in the controller's buffers
  done,       \* per link: fragments completed and not yet reported
  rx,         \* per link: the peer's partial_packets entry
  delivered,  \* per link: the packets the peer reassembled
  written,    \* packets so far: link, length, queue, and if for a new link
  calls       \* what the bounds of the setup have been used for

l2cVars == <<lcb, window, rrQuota, rrUnacked, checkRR>>
peerVars == <<held, done, rx, delivered>>
hciVars == <<hciq, handBack>>
histVars == <<written, calls, setup>>
vars == <<l2cVars, btu, hciVars, up, peerVars, histVars>>

NumBufs == setup.bufs

Idle == [at |-> "idle"]
Serve(l, single, ack) == [at |-> "serve", link |-> l, single |-> single, ack |-> ack]
RoundRobin(l, single, ack) ==
  [at |-> "round", link |-> l, left |-> NumLinks, single |-> single, ack |-> ack]

Packets == [id : Nat \ {0}, link : Links, session : Nat,
            off : Nat, len : Nat \ {0}, segs : Nat]

(* The window stays within the controller's buffers, and no more fragments *)
(* are completed at once than it has.                                      *)
TypeOK ==
  /\ lcb \in [Links -> [state : {"free", "connecting", "connected"}, high : BOOLEAN,
                        quota : Nat, sent : Nat, partial : BOOLEAN, timer : BOOLEAN,
                        linkq : Seq(Packets), chanq : Seq(Packets),
                        session : Nat, answer : BOOLEAN, stopped : BOOLEAN]]
  /\ window \in 0..NumBufs
  /\ rrQuota \in Nat /\ rrUnacked \in Nat /\ checkRR \in BOOLEAN
  /\ hciq \in Seq(Packets) /\ handBack \in BOOLEAN
  /\ \A l \in Links : done[l] \in 0..NumBufs

-----------------------------------------------------------------------------
(* l2c_link_adjust_allocation: dividing the controller's buffers.          *)

InUse(c) == {l \in Links : c[l].state # "free"}
High(c) == {l \in InUse(c) : c[l].high}
Low(c) == InUse(c) \ High(c)

(* The result of the loop that lowers high_pri_link_quota until the high   *)
(* priority links, and one buffer for the others, fit.                     *)
HighQuota(c) ==
  LET spare == NumBufs - (IF Low(c) = {} THEN 0 ELSE 1) IN
  IF High(c) = {} THEN HighPriMin
  ELSE MinOf(HighPriMin, spare \div Cardinality(High(c)))

LowQuota(c) ==
  LET hi == Cardinality(High(c)) * HighQuota(c) IN
  IF hi < NumBufs THEN NumBufs - hi ELSE 1

Scarce(c) == Cardinality(Low(c)) > LowQuota(c)

(* qq and qq_remainder; the remainder goes to the first slots.  qq is      *)
(* never 0, so the correction of round_robin_unacked for it never applies. *)
QuotaOf(c, l) ==
  LET low  == Cardinality(Low(c))
      qq   == IF Scarce(c) THEN 1 ELSE LowQuota(c) \div low
      rem  == IF Scarce(c) THEN 1 ELSE LowQuota(c) % low
      rank == Cardinality({k \in Low(c) : k <= l})
  IN IF l \in High(c) THEN HighQuota(c)
     ELSE IF rank <= rem THEN qq + 1 ELSE qq

(* A connected link with something in its link queue and quota left gets   *)
(* its timer set.                                                          *)
Adjusted(c) ==
  [l \in Links |->
     IF l \notin InUse(c) THEN c[l]
     ELSE [c[l] EXCEPT
             !.quota = QuotaOf(c, l),
             !.timer = @ \/ (/\ c[l].state = "connected"
                             /\ c[l].linkq # <<>>
                             /\ c[l].sent < QuotaOf(c, l))]]

AdjustAllocation(c) ==
  /\ lcb' = Adjusted(c)
  /\ rrQuota' = IF Scarce(c) THEN LowQuota(c) ELSE 0
  /\ rrUnacked' = IF Scarce(c) THEN rrUnacked ELSE 0

-----------------------------------------------------------------------------
(* The state after the links have connected and their channels are open. *)
InitLcb ==
  [l \in Links |-> [state |-> IF setup.sessions[l] = 0 THEN "free" ELSE "connected",
                    high |-> l \in setup.high, quota |-> 0,
                    sent |-> 0, partial |-> FALSE, timer |-> FALSE,
                    linkq |-> <<>>, chanq |-> <<>>, session |-> MinOf(1, setup.sessions[l]),
                    answer |-> FALSE, stopped |-> FALSE]]

Init ==
  /\ setup \in Setups
  /\ lcb = Adjusted(InitLcb)
  /\ window = NumBufs
  /\ rrQuota = (IF Scarce(InitLcb) THEN LowQuota(InitLcb) ELSE 0)
  /\ rrUnacked = 0 /\ checkRR = FALSE
  /\ btu = Idle /\ hciq = <<>> /\ handBack = FALSE /\ up = <<>>
  /\ held = [l \in Links |-> <<>>]
  /\ done = [l \in Links |-> 0]
  /\ rx = [l \in Links |-> NoPartial]
  /\ delivered = [l \in Links |-> <<>>]
  /\ written = <<>> /\ calls = [priority |-> 0, requests |-> 0, fixed |-> 0]

-----------------------------------------------------------------------------
(* l2c_link_send_to_lower: the segments charged for a packet, and whether  *)
(* they are too few for it.                                                *)

Ceil(a, b) == (a + b - 1) \div b

Charge(l, p) ==
  IF p.len <= AclData \/ lcb[l].quota = 0 THEN 1
  ELSE MinOf(MinOf(Ceil(p.len, AclData), window), lcb[l].quota - lcb[l].sent)

(* As a bug would have it: a packet of which only a part is sent does not  *)
(* hold back the others.                                                   *)
NeverPartial(l, p) == FALSE

IsPartial(l, p) == Charge(l, p) < Ceil(p.len, AclData)

SendToLower(l, p, queue) ==
  LET n == Charge(l, p) IN
  /\ lcb' = [lcb EXCEPT ![l] = [@ EXCEPT !.sent = @ + n,
                                         !.partial = @ \/ IsPartial(l, p),
                                         !.stopped = FALSE,
                                         ![queue] = Tail(@)]]
  /\ window' = window - n
  /\ rrUnacked' = IF lcb[l].quota = 0 THEN rrUnacked + n ELSE rrUnacked
  /\ hciq' = Append(hciq, [p EXCEPT !.segs = IF p.len <= AclData THEN 0 ELSE n])
  /\ UNCHANGED <<rrQuota, checkRR, handBack>>

-----------------------------------------------------------------------------
(* l2c_link_check_send_pkts, entered from every handler below with btu set *)
(* by Check: a link with a quota of its own is served until it, or the     *)
(* window, is used up; without one all such links take turns.              *)

(* l2c_link_process_num_completed_pkts goes on after the check: for an     *)
(* acknowledgement on a high priority link (ack, 0 for other callers) the  *)
(* links without a quota may get their turn.                               *)
AfterCheck(ack) ==
  IF ack # 0 /\ lcb'[ack].high /\ checkRR' /\ rrUnacked' < rrQuota'
  THEN RoundRobin(1, FALSE, 0) ELSE Idle

Check(l, single, ack) ==
  IF lcb'[l].quota = 0
  THEN RoundRobin(IF single THEN l ELSE (l % NumLinks) + 1, single, ack)
  ELSE IF lcb'[l].partial \/ lcb'[l].state # "connected" THEN AfterCheck(ack)
  ELSE Serve(l, single, ack)

MaySend(l) == window # 0 /\ lcb[l].sent < lcb[l].quota

ServeLinkQueue ==
  /\ btu.at = "serve"
  /\ MaySend(btu.link) /\ lcb[btu.link].linkq # <<>>
  /\ SendToLower(btu.link, Head(lcb[btu.link].linkq), "linkq")
  /\ UNCHANGED <<btu, up, peerVars, histVars>>

ServeChannel ==
  /\ btu.at = "serve" /\ ~btu.single
  /\ MaySend(btu.link) /\ lcb[btu.link].linkq = <<>> /\ lcb[btu.link].chanq # <<>>
  /\ SendToLower(btu.link, Head(lcb[btu.link].chanq), "chanq")
  /\ UNCHANGED <<btu, up, peerVars, histVars>>

(* As a bug would have it: the timer is not set. *)
ServeDoneNoTimer ==
  /\ btu.at = "serve"
  /\ \/ ~MaySend(btu.link)
     \/ /\ lcb[btu.link].linkq = <<>>
        /\ btu.single \/ lcb[btu.link].chanq = <<>>
  /\ UNCHANGED <<l2cVars, hciVars, up, peerVars, histVars>>
  /\ btu' = AfterCheck(btu.ack)

(* Nothing more can be sent for the link.  Its timer is set if packets are *)
(* left in the link queue for another reason than the link's quota.        *)
ServeDone ==
  LET l == btu.link IN
  /\ btu.at = "serve"
  /\ \/ ~MaySend(l)
     \/ lcb[l].linkq = <<>> /\ (btu.single \/ lcb[l].chanq = <<>>)
  /\ lcb' = [lcb EXCEPT ![l].timer =
                @ \/ (lcb[l].linkq # <<>> /\ lcb[l].sent < lcb[l].quota)]
  /\ UNCHANGED <<window, rrQuota, rrUnacked, checkRR, hciVars, up, peerVars, histVars>>
  /\ btu' = AfterCheck(btu.ack)

-----------------------------------------------------------------------------
(* One visit of the loop over all slots. *)

RoundRobinOpen == window # 0 /\ rrUnacked < rrQuota

Takes(l) ==
  RoundRobinOpen /\ lcb[l].state = "connected" /\ ~lcb[l].partial /\ lcb[l].quota = 0

NextSlot == [btu EXCEPT !.link = (@ % NumLinks) + 1, !.left = @ - 1]

RoundSend ==
  LET l == btu.link IN
  /\ btu.at = "round" /\ btu.left > 0 /\ Takes(l)
  /\ \/ /\ lcb[l].linkq # <<>>
        /\ SendToLower(l, Head(lcb[l].linkq), "linkq")
     \/ /\ lcb[l].linkq = <<>> /\ ~btu.single /\ lcb[l].chanq # <<>>
        /\ SendToLower(l, Head(lcb[l].chanq), "chanq")
  /\ btu' = NextSlot
  /\ UNCHANGED <<up, peerVars, histVars>>

(* A slot that cannot send is passed; a single write gives up at the first *)
(* link that could send and has nothing in its link queue.                 *)
RoundSkip ==
  LET l == btu.link IN
  /\ btu.at = "round" /\ btu.left > 0
  /\ \/ ~Takes(l)
     \/ lcb[l].linkq = <<>> /\ (btu.single \/ lcb[l].chanq = <<>>)
  /\ btu' = IF Takes(l) /\ btu.single THEN [btu EXCEPT !.left = 0] ELSE NextSlot
  /\ UNCHANGED <<l2cVars, hciVars, up, peerVars, histVars>>

(* check_round_robin is cleared if quota is left, but only when the slot   *)
(* the loop ends on was used for BR/EDR: it may be an unused one, or the   *)
(* one past the pool, so either may happen.                                *)
RoundDone ==
  /\ btu.at = "round" /\ btu.left = 0
  /\ checkRR' \in (IF RoundRobinOpen THEN {checkRR, FALSE} ELSE {checkRR})
  /\ UNCHANGED <<lcb, window, rrQuota, rrUnacked, hciVars, up, peerVars, histVars>>
  /\ btu' = AfterCheck(btu.ack)

-----------------------------------------------------------------------------
(* The callers.  New packets are numbered in the order they are written.   *)

NewPacket(l, n) ==
  [id |-> Len(written) + 1, link |-> l, session |-> lcb[l].session,
   off |-> 0, len |-> n, segs |-> 0]

MayWrite == Cardinality({i \in DOMAIN written : ~written[i].signal}) < setup.packets

Called(what) ==
  /\ calls[what] < setup[what]
  /\ calls' = [calls EXCEPT ![what] = @ + 1]

(* A signalling packet, or with single set a data packet that              *)
(* l2cu_send_peer_disc_req moves to the link queue.                        *)
WriteLink(l, n, single) ==
  /\ btu = Idle /\ lcb[l].state = "connected" /\ MayWrite
  /\ lcb' = [lcb EXCEPT ![l].linkq = Append(@, NewPacket(l, n))]
  /\ checkRR' = (checkRR \/ lcb[l].quota = 0)
  /\ btu' = Check(l, single, 0)
  /\ written' = Append(written, [link |-> l, len |-> n, queue |-> "linkq", signal |-> FALSE])
  /\ UNCHANGED <<window, rrQuota, rrUnacked, hciVars, up, peerVars, calls, setup>>

(* l2c_enqueue_peer_data: data is appended to the channel's xmit_hold_q. *)
Enqueued(l, n) ==
  /\ lcb[l].state = "connected" /\ MayWrite
  /\ lcb' = [lcb EXCEPT ![l].chanq = Append(@, NewPacket(l, n))]
  /\ checkRR' = (checkRR \/ lcb[l].quota = 0)
  /\ written' = Append(written, [link |-> l, len |-> n, queue |-> "chanq", signal |-> FALSE])
  /\ UNCHANGED <<window, rrQuota, rrUnacked, hciVars, up, peerVars, calls, setup>>

(* Data from the upper layer: it is queued, and sent if it can be. *)
WriteChannel(l, n) ==
  /\ btu = Idle
  /\ Enqueued(l, n)
  /\ btu' = Check(l, FALSE, 0)

(* A packet is about to be taken from the channel's queue. *)
TakesFromChannel(l) ==
  /\ btu.at # "idle" /\ btu.link = l /\ ~btu.single /\ lcb[l].linkq = <<>>
  /\ \/ btu.at = "serve" /\ MaySend(l)
     \/ btu.at = "round" /\ btu.left > 0 /\ Takes(l)

(* l2cu_check_channel_congestion, as the queue is served or the channels'  *)
(* buffers are divided: the channel is told that it is no longer congested *)
(* and writes data.  Its call of l2c_link_check_send_pkts returns at once  *)
(* (is_cong_cback_context).                                                *)
WriteUncongested(l, n) ==
  /\ btu = Idle \/ TakesFromChannel(l)
  /\ lcb[l].chanq # <<>>
  /\ Enqueued(l, n)
  /\ UNCHANGED btu

(* l2cu_set_acl_priority *)
SetAclPriority(l) ==
  /\ btu = Idle /\ lcb[l].state # "free" /\ Called("priority")
  /\ AdjustAllocation([lcb EXCEPT ![l].high = ~@])
  /\ UNCHANGED <<window, checkRR, btu, hciVars, up, peerVars, written, setup>>

(* One signalling packet is written in a handler that leaves lcb as c. *)
Signal(l, c) ==
  /\ lcb' = [c EXCEPT ![l].linkq = Append(@, NewPacket(l, 1))]
  /\ checkRR' = (checkRR \/ lcb[l].quota = 0)
  /\ btu' = Check(l, FALSE, 0)
  /\ written' = Append(written, [link |-> l, len |-> 1, queue |-> "linkq", signal |-> TRUE])
  /\ UNCHANGED <<window, rrQuota, rrUnacked, hciVars, up, peerVars, setup>>

(* The peer asks for another channel: l2c_csm_closed stops the link timer, *)
(* and answers, be it with L2CAP_CONN_PENDING, at once or only when the    *)
(* security check or the upper layer is done.                              *)
ConnectReq(l) ==
  LET c == [lcb EXCEPT ![l].timer = FALSE] IN
  /\ btu = Idle /\ lcb[l].state = "connected" /\ Called("requests")
  /\ \/ Signal(l, c)
     \/ /\ lcb' = [c EXCEPT ![l].answer = TRUE]
        /\ UNCHANGED <<window, rrQuota, rrUnacked, checkRR, btu, hciVars, up, peerVars,
                       written, setup>>

ConnectRsp(l) ==
  /\ btu = Idle /\ lcb[l].state = "connected" /\ lcb[l].answer
  /\ Signal(l, [lcb EXCEPT ![l].answer = FALSE])
  /\ UNCHANGED calls

(* l2cu_initialize_fixed_ccb on a link that is up, for data that has come  *)
(* in on the fixed channel, stops the link timer, too.                     *)
InitializeFixedCcb(l) ==
  /\ btu = Idle /\ lcb[l].state = "connected" /\ Called("fixed")
  /\ lcb' = [lcb EXCEPT ![l] = [@ EXCEPT !.timer = FALSE,
                                         !.stopped = @ \/ lcb[l].timer]]
  /\ UNCHANGED <<window, rrQuota, rrUnacked, checkRR, btu, hciVars, up, peerVars,
                 written, setup>>

(* l2c_link_timeout of a connected link with a channel. *)
LinkTimeout(l) ==
  /\ btu = Idle /\ lcb[l].timer /\ lcb[l].state = "connected"
  /\ lcb' = [lcb EXCEPT ![l].timer = FALSE]
  /\ btu' = Check(l, FALSE, 0)
  /\ UNCHANGED <<window, rrQuota, rrUnacked, checkRR, hciVars, up, peerVars, histVars>>

-----------------------------------------------------------------------------
(* The messages from the HCI thread and the controller. *)

Less(a, b) == IF a > b THEN a - b ELSE 0

Known(m) == lcb[m.link].state = "connected" /\ lcb[m.link].session = m.session

(* l2c_link_process_num_completed_pkts *)
NumCompleted ==
  LET m == Head(up) l == m.link IN
  /\ btu = Idle /\ up # <<>> /\ m.type = "completed"
  /\ up' = Tail(up)
  /\ IF Known(m)
     THEN /\ lcb' = [lcb EXCEPT ![l].sent = Less(@, m.n)]
          /\ window' = window + m.n
          /\ rrUnacked' = IF lcb[l].quota = 0 THEN Less(rrUnacked, m.n) ELSE rrUnacked
          /\ UNCHANGED <<rrQuota, checkRR>>
          /\ btu' = Check(l, FALSE, l)
     ELSE UNCHANGED <<l2cVars, btu>>
  /\ UNCHANGED <<hciVars, peerVars, histVars>>

(* As a bug would have it: the queues are not looked at again. *)
SegmentsXmittedNoCheck ==
  LET m == Head(up) l == m.link IN
  /\ btu = Idle /\ up # <<>> /\ m.type = "rest"
  /\ up' = Tail(up)
  /\ lcb' = IF Known(m)
            THEN [lcb EXCEPT ![l].linkq = <<m.packet>> \o @, ![l].partial = FALSE]
            ELSE lcb
  /\ UNCHANGED <<window, rrQuota, rrUnacked, checkRR, btu, hciVars, peerVars, histVars>>

(* l2c_link_segments_xmitted: the rest of a packet goes back to the head   *)
(* of its link queue, unless the link is gone.                             *)
SegmentsXmitted ==
  LET m == Head(up) l == m.link IN
  /\ btu = Idle /\ up # <<>> /\ m.type = "rest"
  /\ up' = Tail(up)
  /\ IF Known(m)
     THEN /\ lcb' = [lcb EXCEPT ![l].linkq = <<m.packet>> \o @, ![l].partial = FALSE]
          /\ btu' = Check(l, FALSE, 0)
     ELSE UNCHANGED <<lcb, btu>>
  /\ UNCHANGED <<window, rrQuota, rrUnacked, checkRR, hciVars, peerVars, histVars>>

(* The link without its queues: its channels have got                      *)
(* L2CEVT_LP_DISCONNECT_IND.                                               *)
Dropped(l, state) ==
  [lcb EXCEPT ![l] = [@ EXCEPT !.state = state, !.timer = FALSE, !.answer = FALSE,
                               !.stopped = FALSE, !.linkq = <<>>, !.chanq = <<>>]]

(* As a bug would have it: what was in flight is not given back. *)
ReleaseKeepsWindow(l) ==
  /\ AdjustAllocation(Dropped(l, "free"))
  /\ UNCHANGED window

(* l2cu_release_lcb gives the window back what the link had not            *)
(* acknowledged, drops its queues and divides the buffers among the links  *)
(* that are left.                                                          *)
ReleaseLcb(l) ==
  LET c == Dropped(l, "free") IN
  IF InUse(c) = {}
  THEN lcb' = c /\ window' = NumBufs /\ rrQuota' = 0 /\ rrUnacked' = 0
  ELSE AdjustAllocation(c) /\ window' = MinOf(window + lcb[l].sent, NumBufs)

(* A channel was asked for in a disconnect callback: the LCB connects      *)
(* again, with what it had sent and not acknowledged.                      *)
ReuseLcb(l) ==
  /\ l \in setup.reuse \/ (lcb[l].sent = 0 /\ ~lcb[l].partial)
  /\ lcb' = [Dropped(l, "connecting") EXCEPT ![l].session = @ + 1]
  /\ UNCHANGED <<window, rrQuota, rrUnacked>>

(* l2c_link_hci_disc_comp *)
DiscComp ==
  /\ btu = Idle /\ up # <<>> /\ Head(up).type = "disconnected"
  /\ up' = Tail(up)
  /\ ReleaseLcb(Head(up).link) \/ ReuseLcb(Head(up).link)
  /\ UNCHANGED <<checkRR, btu, hciVars, peerVars, histVars>>

(* l2cu_allocate_lcb: the first free slot, wiped.  The buffers are divided *)
(* anew while the link is still connecting.                                *)
AllocateLcb(l) ==
  /\ btu = Idle /\ lcb[l].state = "free" /\ lcb[l].session < setup.sessions[l]
  /\ \A k \in Links : k < l => lcb[k].state # "free"
  /\ AdjustAllocation([lcb EXCEPT ![l] =
        [InitLcb[l] EXCEPT !.state = "connecting", !.high = FALSE,
                           !.session = lcb[l].session + 1]])
  /\ UNCHANGED <<window, checkRR, btu, hciVars, up, peerVars, histVars>>

(* l2c_link_hci_conn_comp: the information request is sent and the         *)
(* channel's FSM sends its connection request, both of one fragment.       *)
ConnComp(l) ==
  LET info == NewPacket(l, 1)
      conn == [info EXCEPT !.id = @ + 1]
  IN
  /\ btu = Idle /\ lcb[l].state = "connecting"
  /\ lcb' = [lcb EXCEPT ![l] = [@ EXCEPT !.state = "connected", !.timer = FALSE,
                                         !.linkq = <<info, conn>>]]
  /\ checkRR' = (checkRR \/ lcb[l].quota = 0)
  /\ btu' = Check(l, FALSE, 0)
  /\ written' = written \o [i \in 1..2 |->
       [link |-> l, len |-> 1, queue |-> "linkq", signal |-> TRUE]]
  /\ UNCHANGED <<window, rrQuota, rrUnacked, hciVars, up, peerVars, calls, setup>>

-----------------------------------------------------------------------------
(* The HCI thread: event_packet_ready, one round of fragment_and_dispatch. *)
(* A fragment for a connection that is gone is dropped by the controller.  *)
(* The rest of a packet is given back in a step of its own: the controller *)
(* may have completed its fragment by then.                                *)

Leaving(l) == \E i \in DOMAIN up : up[i].type = "disconnected" /\ up[i].link = l

Transmit ==
  LET p == Head(hciq)
      gone == \/ lcb[p.link].session # p.session \/ lcb[p.link].state = "free"
              \/ Leaving(p.link)
  IN
  /\ hciq # <<>> /\ ~handBack
  /\ held' = IF gone THEN held ELSE [held EXCEPT ![p.link] = Append(@, FragmentOf(p))]
  /\ hciq' = IF More(p) THEN <<Rest(p)>> \o Tail(hciq) ELSE Tail(hciq)
  /\ handBack' = LimitReached(p)
  /\ UNCHANGED <<l2cVars, btu, up, done, rx, delivered, histVars>>

TransmitFinished ==
  LET p == Head(hciq) IN
  /\ handBack
  /\ up' = Append(up, [type |-> "rest", link |-> p.link, session |-> p.session,
                       packet |-> p])
  /\ hciq' = Tail(hciq) /\ handBack' = FALSE
  /\ UNCHANGED <<l2cVars, btu, peerVars, histVars>>

(* The controller sends its oldest fragment of a link; the peer's          *)
(* reassemble_and_dispatch takes it.                                       *)
ControllerSends(l) ==
  LET r == Reassemble(rx[l], Head(held[l])) IN
  /\ held[l] # <<>> /\ Fits(rx[l], Head(held[l]))
  /\ held' = [held EXCEPT ![l] = Tail(@)]
  /\ done' = [done EXCEPT ![l] = @ + 1]
  /\ rx' = [rx EXCEPT ![l] = r.partial]
  /\ delivered' = IF r.out = <<>> THEN delivered
                  ELSE [delivered EXCEPT ![l] = Append(@, r.out)]
  /\ UNCHANGED <<l2cVars, btu, hciVars, up, histVars>>

ControllerReports(l) ==
  /\ done[l] > 0
  /\ up' = Append(up, [type |-> "completed", link |-> l, session |-> lcb[l].session,
                       n |-> done[l]])
  /\ done' = [done EXCEPT ![l] = 0]
  /\ UNCHANGED <<l2cVars, btu, hciVars, held, rx, delivered, histVars>>

(* The connection is lost: the controller forgets what it holds for it.    *)
(* The peer's partial packet stays in its map.                             *)
ControllerDisconnects(l) ==
  /\ lcb[l].state = "connected" /\ lcb[l].session < setup.sessions[l]
  /\ \A i \in DOMAIN up : up[i].type = "disconnected" => up[i].link # l
  /\ up' = Append(up, [type |-> "disconnected", link |-> l,
                       session |-> lcb[l].session])
  /\ held' = [held EXCEPT ![l] = <<>>]
  /\ done' = [done EXCEPT ![l] = 0]
  /\ UNCHANGED <<l2cVars, btu, hciVars, rx, delivered, histVars>>

-----------------------------------------------------------------------------
BtuContinues ==
  \/ ServeLinkQueue \/ ServeChannel \/ ServeDone
  \/ RoundSend \/ RoundSkip \/ RoundDone

BtuReceives == NumCompleted \/ SegmentsXmitted \/ DiscComp

Next ==
  \/ BtuContinues \/ BtuReceives \/ Transmit \/ TransmitFinished
  \/ \E l \in Links :
       \/ \E n \in Lens, single \in BOOLEAN : WriteLink(l, n, single)
       \/ \E n \in Lens : WriteChannel(l, n) \/ WriteUncongested(l, n)
       \/ ConnectReq(l) \/ ConnectRsp(l) \/ InitializeFixedCcb(l)
       \/ SetAclPriority(l) \/ LinkTimeout(l) \/ AllocateLcb(l) \/ ConnComp(l)
       \/ ControllerSends(l) \/ ControllerReports(l) \/ ControllerDisconnects(l)

Spec == Init /\ [][Next]_vars

(* The BTU thread goes on, and takes its messages and expired timers in    *)
(* turn; the HCI thread and the controller go on as long as one of them    *)
(* has something to send or to report.  A peer that asked for a channel is *)
(* answered (in the last resort by the timer of the channel).              *)
SenderStep ==
  \/ Transmit \/ TransmitFinished
  \/ \E l \in Links : ControllerSends(l) \/ ControllerReports(l)

FairSpec ==
  /\ Spec
  /\ WF_vars(BtuContinues) /\ SF_vars(BtuReceives)
  /\ SF_vars(\E l \in Links : LinkTimeout(l)) /\ WF_vars(SenderStep)
  /\ SF_vars(\E l \in Links : ConnectRsp(l))

-----------------------------------------------------------------------------
(* Safety *)

(* The host never has more fragments in the controller than it has         *)
(* buffers, whatever is charged, returned and divided anew in the meantime *)
(* (controller_xmit_window, l2c_link_send_to_lower).                       *)
ControllerNotOverrun ==
  MapThenSumSet(LAMBDA l : Len(held[l]), Links) <= NumBufs

(* Fragments that a packet in the HCI thread's queue will still become. *)
SegmentsLeft(i) ==
  IF i = 1 /\ handBack THEN 0 ELSE IF hciq[i].segs = 0 THEN 1 ELSE hciq[i].segs

InHciQueue(l) ==
  MapThenSumSet(SegmentsLeft,
    {i \in DOMAIN hciq : hciq[i].link = l /\ hciq[i].session = lcb[l].session})

Reported(l) ==
  MapThenSumSet(LAMBDA i : up[i].n,
    {i \in DOMAIN up : up[i].type = "completed" /\ up[i].link = l
                       /\ up[i].session = lcb[l].session})

(* sent_not_acked is, on a link that is up, what l2c_int.h calls it: "Num  *)
(* packets sent but not acked".  What l2c_link_send_to_lower charges is    *)
(* exactly what the fragmenter makes of the packets, so that every         *)
(* fragment is credited back once.                                         *)
SentNotAcked ==
  \A l \in Links : lcb[l].state = "connected" /\ ~Leaving(l) =>
    lcb[l].sent = InHciQueue(l) + Len(held[l]) + done[l] + Reported(l)

(* The window and the links account for all buffers of the controller. *)
WindowAccounts == window + MapThenSumSet(LAMBDA l : lcb[l].sent, InUse(lcb)) = NumBufs

(* Every packet the peer passes up consists of all bytes of one packet in  *)
(* their order: fragments of two packets of a link are never interleaved,  *)
(* although a packet may go down in several passes.                        *)
DeliveredIntact ==
  \A l \in Links : \A i \in DOMAIN delivered[l] :
    LET d == delivered[l][i] id == d[1][1] IN
    d = [k \in 1..written[id].len |-> <<id, k>>]

(* The peer never receives a continuation that is too long for the packet  *)
(* it is putting together.                                                 *)
ContinuationFits ==
  \A l \in Links : held[l] # <<>> => Fits(rx[l], Head(held[l]))

(* Packets of one queue of a link arrive in the order they were written. *)
DeliveredInOrder ==
  \A l \in Links : \A i, j \in DOMAIN delivered[l] :
    LET a == delivered[l][i][1][1] b == delivered[l][j][1][1] IN
    i < j /\ written[a].queue = written[b].queue => a < b

(* Every buffer is accounted for, and so none is used twice. *)
BuffersAccounted == TypeOK /\ ControllerNotOverrun /\ WindowAccounts /\ SentNotAcked

(* The peer gets the packets of a queue whole and in order. *)
PeerGetsPackets == DeliveredIntact /\ ContinuationFits /\ DeliveredInOrder

(* The link has a quota of its own and packets in its link queue. *)
Waits(l) ==
  /\ btu = Idle /\ lcb[l].state = "connected" /\ ~Leaving(l)
  /\ lcb[l].linkq # <<>> /\ lcb[l].quota # 0

(* The rest of a packet, an acknowledgement of its own, an answer that is  *)
(* to be written or the timer starts the link again.                       *)
HasWakeup(l) == lcb[l].partial \/ lcb[l].sent > 0 \/ lcb[l].answer \/ lcb[l].timer

(* A link that waits with packets in its link queue is woken up ("we may   *)
(* need a timer to kick off this link's transmissions",                    *)
(* l2c_link_check_send_pkts), unless a fixed channel that came into use    *)
(* stopped its timer.                                                      *)
LinkQueueHasWakeup == \A l \in Links : Waits(l) => HasWakeup(l) \/ lcb[l].stopped

(* The same without the exception, which is what the comment says:         *)
(* l2cu_initialize_fixed_ccb takes the timer away and leaves the link with *)
(* packets that nothing will send.                                         *)
TimerKept == \A l \in Links : Waits(l) => HasWakeup(l)

-----------------------------------------------------------------------------
(* Liveness *)

Gone(l) == lcb[l].state # "connected" \/ Leaving(l)

(* What is in the link queue is sent, unless the link is lost, is left     *)
(* without a quota of its own or has its timer stopped by a fixed channel: *)
(* the window may be used up by other links, and the link has then only    *)
(* its timer to wake it.                                                   *)
LinkQueueSent ==
  \A l \in Links :
    lcb[l].linkq # <<>> ~>
      (lcb[l].linkq = <<>> \/ Gone(l) \/ lcb[l].quota = 0 \/ lcb[l].stopped)

(* What is in the channel's queue is sent, or the link is lost. *)
ChannelQueueSent ==
  \A l \in Links : lcb[l].chanq # <<>> ~> (lcb[l].chanq = <<>> \/ Gone(l))
=============================================================================
