--------------------------------- MODULE Ertm ---------------------------------
(***************************************************************************)
(* L2CAP's enhanced retransmission mode (stack/l2cap/l2c_fcr.cc): the two  *)
(* ends of an open channel exchange I-frames, numbered modulo 64 and kept  *)
(* until acknowledged, and S-frames (RR, RNR, REJ, SREJ) that acknowledge, *)
(* stop and ask again.  A frame whose FCS is wrong is dropped, which is    *)
(* how frames get lost; the link itself keeps their order.                 *)
(*                                                                         *)
(* The state of an end is its tL2C_FCRB and the two or three fields of its *)
(* tL2C_CCB that the code reads with it.  Every handler is an operator     *)
(* from that record to the next one; `out` collects the frames the handler *)
(* puts on the link and `room` is how many I-frames the controller can     *)
(* take while it runs (L2capLink models where that number comes from).     *)
(***************************************************************************)
EXTENDS Integers, Sequences, FiniteSets, SequencesExt

CONSTANTS
  Scenarios,    \* records: `sdus`, what each upper layer writes, an SDU given by
                \* the number of segments it takes; `win`, the negotiated
                \* tx_win_sz; `busy`, the ends that flow their peer off
  MaxSdus,      \* no end writes more SDUs than this
  MaxTransmit,  \* peer_cfg.fcr.max_transmit, not 0
  StartSeq,     \* the sequence number an idle channel has got to
  MaxLoss,      \* bound: how many frames arrive with a wrong FCS
  MaxBusy,      \* bound: how many times an upper layer flows its peer off
  MaxEarly,     \* bound: how many timers go off with frames still on the link
  MaxRoom       \* bound: I-frames the controller takes at a time

End == {"A", "B"}
Peer(e) == IF e = "A" THEN "B" ELSE "A"

\* L2CAP_FCR_SEQ_MODULO is the mask 0x3F
FcrSeqModulo == 64

ASSUME ErtmAssumption ==
  /\ Scenarios \subseteq [sdus : [End -> Seq(Nat \ {0})],
                          win : 1 .. (FcrSeqModulo \div 2 - 1), busy : SUBSET End]
  /\ \A sc \in Scenarios, e \in End : Len(sc.sdus[e]) <= MaxSdus
  /\ MaxTransmit \in Nat \ {0}
  /\ StartSeq \in 0 .. (FcrSeqModulo - 1)
  /\ {MaxLoss, MaxBusy, MaxEarly, MaxRoom} \subseteq Nat

VARIABLES
  fcrb,    \* fcrb[e]: the channel and flow control block of end e
  link,    \* link[e]: the frames on their way from e to its peer
  case,    \* the scenario of this run
  used     \* how much of the bounds MaxLoss, MaxBusy and MaxEarly is used up

vars == <<fcrb, link, case, used>>

\* Op of the value v: one handler after another, v computed once
Then(v, Op(_)) == CHOOSE r \in {Op(x) : x \in {v}} : TRUE

Plus(s, n) == (s + n) % FcrSeqModulo
Minus(s, t) == (s - t) % FcrSeqModulo

--------------------------------------------------------------------------------
(* Frames *)

SFrame(type, req, pf) == [t |-> type, req |-> req, p |-> pf = "P", f |-> pf = "F"]

IFrame(seq, req, final, seg) ==
  [t |-> "I", tx |-> seq, req |-> req, p |-> FALSE, f |-> final, seg |-> seg]

\* L2CAP's own disconnection request, on the signalling channel of the same link
DiscReq == [t |-> "disc"]

\* SDU n of end e as its segments, and what reassembly makes of them
Segments(n, size) == [i \in 1 .. size |-> [sdu |-> n, num |-> i, of |-> size]]
Sdu(e, n) == Segments(n, case.sdus[e][n])

SarType(seg) == CASE seg.of = 1 -> "unseg"
                  [] seg.num = 1 /\ seg.of > 1 -> "start"
                  [] seg.num = seg.of /\ seg.of > 1 -> "end"
                  [] OTHER -> "cont"

--------------------------------------------------------------------------------
(* Sending *)

\* The timer is started only where it is not running: with BOOLEAN timers,
\* that is the same as making it run.
StartTimer(f) == [f EXCEPT !.timer = TRUE]

StopTimer(f) == [f EXCEPT !.timer = FALSE]

IsFlowControlled(f) == f.remote_busy \/ Len(f.waiting_for_ack_q) >= case.win

\* The frame as it goes out: the F bit is a debt to a poll, paid once, and
\* the acknowledgement is today's, also on a frame sent before.
PrepareIFrame(f, seq, seg) ==
  StartTimer([f EXCEPT !.out = Append(@, IFrame(seq, f.next_seq_expected, f.send_f_rsp, seg)),
                       !.send_f_rsp = FALSE,
                       !.last_ack_sent = f.next_seq_expected,
                       !.ack_timer = FALSE])

\* the channel has something the link may take now (l2cu_get_next_channel_in_rr)
HasFrame(f) ==
  /\ f.open /\ ~f.wait_ack /\ ~f.remote_busy
  /\ \/ f.retrans_q # <<>>
     \/ f.xmit_hold_q # <<>> /\ ~IsFlowControlled(f)

\* A retransmission goes first; otherwise the next segment of the first SDU
\* goes out and a copy of it waits for its acknowledgement.
NextXmitSduSeg(f) ==
  IF f.retrans_q # <<>>
  THEN LET b == Head(f.retrans_q)
       IN  PrepareIFrame([f EXCEPT !.retrans_q = Tail(@)], b.tx, b.seg)
  ELSE LET seg == Head(f.xmit_hold_q)
       IN  PrepareIFrame([f EXCEPT !.xmit_hold_q = Tail(@),
                                   !.next_tx_seq = Plus(@, 1),
                                   !.waiting_for_ack_q =
                                      Append(@, [tx |-> f.next_tx_seq, seg |-> seg])],
                         f.next_tx_seq, seg)

\* l2c_link_check_send_pkts, as far as this channel goes
CheckSendPkts(f) ==
  LET one(g) == IF g.room > 0 /\ HasFrame(g)
                THEN [NextXmitSduSeg(g) EXCEPT !.room = @ - 1] ELSE g
  IN  FoldLeft(LAMBDA g, i : Then(g, one), f, [i \in 1 .. f.room |-> i])

\* An S-frame takes the link before any I-frame that still waits, and those
\* follow it at once if there is room.
SendSFrame(f, type, pf) ==
  IF ~f.open THEN f
  ELSE LET g == IF pf = "P" THEN [StartTimer(f) EXCEPT !.wait_ack = TRUE] ELSE f
           h == CheckSendPkts([g EXCEPT !.out =
                                  Append(@, SFrame(type, f.next_seq_expected, pf))])
       IN  [h EXCEPT !.last_ack_sent = f.next_seq_expected, !.ack_timer = FALSE]

\* RNR while the upper layer has flowed the peer off, RR otherwise
SendReady(f, pf) == SendSFrame(f, IF f.local_busy THEN "RNR" ELSE "RR", pf)

AnswerPoll(f) == IF f.srej_sent THEN SendSFrame(f, "SREJ", "F") ELSE SendReady(f, "F")

\* The peer is told and the control block is released with all it holds.
DisconnectChnl(f, cause) ==
  [f EXCEPT !.open = FALSE, !.closed_by = cause, !.out = Append(@, DiscReq),
            !.timer = FALSE, !.ack_timer = FALSE,
            !.waiting_for_ack_q = <<>>, !.retrans_q = <<>>, !.xmit_hold_q = <<>>,
            !.srej_rcv_hold_q = <<>>, !.rx_sdu = <<>>]

\* L2C_FCR_RETX_ALL_PKTS, no sequence number
RetxAllPkts == 255

\* Mutant of RetransmitIFrames: the frames are moved, not copied.
RetransmitMoves(f, which) ==
  LET again(b) == which \in {RetxAllPkts, b.tx}
      kept(b) == ~again(b)
  IN  CheckSendPkts([f EXCEPT !.retrans_q = @ \o SelectSeq(f.waiting_for_ack_q, again),
                              !.waiting_for_ack_q = SelectSeq(@, kept)])

\* Retransmit what awaits an acknowledgement: all of it, or the one frame a
\* selective reject names.  The tries are counted here and in ProcTout.
RetransmitIFrames(f, which) ==
  IF f.waiting_for_ack_q # <<>> /\ f.num_tries >= MaxTransmit
  THEN DisconnectChnl(f, "tries")
  ELSE IF which # RetxAllPkts /\ f.waiting_for_ack_q = <<>> THEN f
  ELSE LET named == SelectSeq(f.waiting_for_ack_q, LAMBDA b : b.tx = which)
           again == IF which = RetxAllPkts THEN f.waiting_for_ack_q ELSE f.retrans_q \o named
           count(g) == IF g.waiting_for_ack_q = <<>> THEN g
                       ELSE StartTimer([g EXCEPT !.num_tries = @ + 1])
       IN  Then(CheckSendPkts([f EXCEPT !.retrans_q = again]), count)

--------------------------------------------------------------------------------
(* Receiving *)

\* Mutant of ProcessReqSeq: the timer is not restarted for what is left.
ReqSeqStopsTimer(f, m) ==
  LET acked == Minus(m.req, f.last_rx_ack)
  IN  IF (m.t = "SREJ" /\ ~m.p) \/ acked > Len(f.waiting_for_ack_q) THEN f
      ELSE [f EXCEPT !.last_rx_ack = m.req, !.num_tries = IF acked = 0 THEN @ ELSE 0,
                     !.waiting_for_ack_q = SubSeq(@, acked + 1, Len(@)),
                     !.timer = acked = 0 /\ @,
                     !.tx_complete = @ + Cardinality({i \in 1 .. acked :
                        f.waiting_for_ack_q[i].seg.num = f.waiting_for_ack_q[i].seg.of})]

\* ReqSeq acknowledges every frame before it, except in an unpolled SREJ,
\* which acknowledges none.  One that goes beyond what was sent closes the
\* channel.  `tx_complete` counts the SDUs whose last segment was
\* acknowledged, which is what pL2CA_TxComplete_Cb tells the upper layer.
ProcessReqSeq(f, m) ==
  LET acked == Minus(m.req, f.last_rx_ack)
      q == f.waiting_for_ack_q
      restart(g) == IF g.waiting_for_ack_q # <<>> THEN StartTimer(g) ELSE g
      last(i) == q[i].seg.num = q[i].seg.of
  IN  CASE m.t = "SREJ" /\ ~m.p -> restart(f)
        [] ~(m.t = "SREJ" /\ ~m.p) /\ acked > Len(q) -> DisconnectChnl(f, "reqseq")
        [] ~(m.t = "SREJ" /\ ~m.p) /\ acked = 0 -> restart(f)
        [] OTHER -> restart([f EXCEPT !.last_rx_ack = m.req,
                                      !.num_tries = 0,
                                      !.waiting_for_ack_q = SubSeq(q, acked + 1, Len(q)),
                                      !.timer = f.wait_ack /\ @,
                                      !.tx_complete = @ + Cardinality({i \in 1 .. acked : last(i)})])

\* Mutant of DoSarReassembly: a finished SDU is not taken off.
SarKeepsSdu(f, seg) ==
  [f EXCEPT !.rx_sdu = Append(@, seg),
            !.rcvd = IF seg.num = seg.of THEN Append(@, Segments(seg.sdu, seg.of)) ELSE @,
            !.open = f.rx_sdu = <<>> \/ seg.num > 1,
            !.closed_by = IF f.rx_sdu = <<>> \/ seg.num > 1 THEN @ ELSE "sar"]

\* The reassembly of an SDU from its segments; the new record is closed when
\* the segments do not fit.
DoSarReassembly(f, seg) ==
  LET sar == SarType(seg)
      sofar == Append(f.rx_sdu, seg)
      fits == /\ (sar \in {"unseg", "start"}) <=> (f.rx_sdu = <<>>)
              /\ Len(sofar) <= sofar[1].of
              /\ sar = "end" => Len(sofar) = sofar[1].of
  IN  IF ~fits THEN DisconnectChnl(f, "sar")
      ELSE IF sar \in {"unseg", "end"}
      THEN [f EXCEPT !.rx_sdu = <<>>, !.rcvd = Append(@, sofar)]
      ELSE [f EXCEPT !.rx_sdu = sofar]

\* Mutant of OutOfSequence: the frame that revealed the gap is not held.
OutOfSequenceNotHeld(f, m) ==
  IF f.srej_sent \/ f.local_busy THEN f
  ELSE SendSFrame([f EXCEPT !.srej_sent = TRUE], "SREJ", "")

\* An I-frame that is not the one expected: a duplicate, or frames before it
\* were lost.  One lost frame is asked for by itself and this one held;
\* more are asked for all together.
OutOfSequence(f, m) ==
  LET lost == Minus(m.tx, f.next_seq_expected)
      held == f.srej_rcv_hold_q
  IN  CASE f.local_busy -> SendSFrame(f, "RNR", "")
        [] ~f.local_busy /\ lost >= case.win -> f
        [] ~f.local_busy /\ lost < case.win /\ f.srej_sent ->
             IF m.tx = Plus(Last(held).tx, 1) /\ Len(held) < case.win
             THEN [f EXCEPT !.srej_rcv_hold_q = Append(@, m)]
             ELSE [f EXCEPT !.rej_after_srej = TRUE]
        [] ~f.local_busy /\ lost < case.win /\ ~f.srej_sent /\ f.rej_sent -> f
        [] OTHER ->
             [IF lost > 1
              THEN SendSFrame([f EXCEPT !.rej_sent = TRUE], "REJ", "")
              ELSE SendSFrame([f EXCEPT !.srej_sent = TRUE,
                                        !.srej_rcv_hold_q = Append(@, m)], "SREJ", "")
              EXCEPT !.ack_timer = FALSE]

\* The expected I-frame: it goes up, and is acknowledged later if the peer
\* may send on meanwhile, by the I-frame about to go if there is one, or else
\* by an RR or RNR of its own.
InSequence(f, m, delay) ==
  LET max_held_acks == case.win \div 3
      acknowledge(g) ==
        LET to_ack == Minus(g.next_seq_expected, g.last_ack_sent)
        IN  IF ~g.open \/ to_ack = 0 THEN g
            ELSE IF delay \/ (to_ack < max_held_acks /\ ~g.local_busy)
            THEN [g EXCEPT !.ack_timer = TRUE]
            ELSE IF /\ g.xmit_hold_q = <<>> \/ IsFlowControlled(g)
                    /\ g.srej_rcv_hold_q = <<>>
            THEN SendReady(g, "")
            ELSE g
  IN  Then(DoSarReassembly([f EXCEPT !.rej_sent = FALSE, !.srej_sent = FALSE,
                                     !.next_seq_expected = Plus(m.tx, 1)], m.seg),
           acknowledge)

\* Mutant of ProcessIFrame: the sequence number is not looked at.
ProcessIFrameAnySeq(f, m, final, delay) ==
  Then(IF final THEN RetransmitIFrames(f, RetxAllPkts) ELSE f,
       LAMBDA g : IF g.open THEN InSequence(g, m, delay) ELSE g)

\* `final` is the F bit of the control word the caller hands over with the
\* frame; the frame itself keeps the one it came with.
ProcessIFrame(f, m, final, delay) ==
  LET sort(g) == IF ~g.open THEN g
                 ELSE IF m.tx = g.next_seq_expected THEN InSequence(g, m, delay)
                 ELSE OutOfSequence(g, m)
  IN  Then(IF final THEN RetransmitIFrames(f, RetxAllPkts) ELSE f, sort)

ProcessSFrame(f, m) ==
  LET g == IF m.p THEN [f EXCEPT !.rej_sent = FALSE, !.send_f_rsp = TRUE] ELSE f
      free == [g EXCEPT !.remote_busy = FALSE]
      done == CASE m.t = "RR" -> IF m.f \/ f.remote_busy
                                 THEN RetransmitIFrames(free, RetxAllPkts) ELSE free
                [] m.t = "REJ" -> RetransmitIFrames(free, RetxAllPkts)
                [] m.t = "RNR" -> StopTimer([g EXCEPT !.remote_busy = TRUE])
                [] m.t = "SREJ" -> RetransmitIFrames(free, m.req)
      answer(h) == IF h.open /\ h.send_f_rsp
                   THEN [AnswerPoll(h) EXCEPT !.send_f_rsp = FALSE] ELSE h
  IN  Then(done, answer)

\* Once the frame a SREJ asked for has come, the frames held behind it are
\* processed, their control words read again from the frames, so that an F bit
\* that answered a poll long ago retransmits once more; then one RR
\* acknowledges them.
ProcessHeld(f) ==
  LET reject(h) ==
        IF h.rej_after_srej
        THEN SendSFrame([h EXCEPT !.rej_after_srej = FALSE, !.rej_sent = TRUE], "REJ", "")
        ELSE h
      one(g, m) == Then(IF g.open THEN ProcessIFrame(g, m, m.f, TRUE) ELSE g, reject)
      ready(g) == IF /\ ~g.local_busy /\ ~g.rej_sent /\ ~g.srej_sent
                     /\ g.next_seq_expected # g.last_ack_sent
                  THEN SendSFrame(g, "RR", "") ELSE g
  IN  IF f.local_busy \/ f.srej_sent \/ f.srej_rcv_hold_q = <<>> THEN f
      ELSE Then(FoldLeft(LAMBDA g, m : Then(g, LAMBDA h : one(h, m)),
                         [f EXCEPT !.srej_rcv_hold_q = <<>>], f.srej_rcv_hold_q),
                ready)

\* While a poll is unanswered only a final frame counts, and a poll of the
\* peer's is answered; at any other time the F bit means nothing.
ProcPdu(f, m) ==
  IF f.wait_ack /\ ~m.f
  THEN IF m.p THEN [AnswerPoll(f) EXCEPT !.timer = TRUE] ELSE f
  ELSE LET g == IF f.wait_ack
                THEN [f EXCEPT !.wait_ack = FALSE, !.timer = FALSE,
                               !.num_tries = IF f.waiting_for_ack_q = <<>> THEN 0 ELSE @]
                ELSE f
           c == IF f.wait_ack THEN [m EXCEPT !.p = FALSE] ELSE [m EXCEPT !.f = FALSE]
           process(h) == IF ~h.open THEN h
                         ELSE IF c.t = "I" THEN ProcessIFrame(h, m, c.f, FALSE)
                         ELSE ProcessSFrame(h, c)
           held(h) == IF h.open THEN ProcessHeld(h) ELSE h
           more(h) == IF h.open /\ ~IsFlowControlled(h) THEN CheckSendPkts(h) ELSE h
       IN  Then(Then(Then(ProcessReqSeq(g, c), process), held), more)

--------------------------------------------------------------------------------
(* The actions: each runs one handler of end e to its end on the main thread *)

Fresh == [open |-> TRUE, closed_by |-> "none", written |-> 0, rcvd |-> <<>>,
          tx_complete |-> 0, next_tx_seq |-> StartSeq, last_rx_ack |-> StartSeq,
          next_seq_expected |-> StartSeq, last_ack_sent |-> StartSeq, num_tries |-> 0,
          wait_ack |-> FALSE, rej_sent |-> FALSE, srej_sent |-> FALSE,
          rej_after_srej |-> FALSE, send_f_rsp |-> FALSE, local_busy |-> FALSE,
          remote_busy |-> FALSE, waiting_for_ack_q |-> <<>>, srej_rcv_hold_q |-> <<>>,
          retrans_q |-> <<>>, xmit_hold_q |-> <<>>, rx_sdu |-> <<>>, timer |-> FALSE,
          ack_timer |-> FALSE, out |-> <<>>, room |-> 0]

Init ==
  /\ fcrb = [e \in End |-> Fresh]
  /\ link = [e \in End |-> <<>>]
  /\ case \in Scenarios
  /\ used = [losses |-> 0, busies |-> 0, early |-> 0]

\* Handler of end e with some room at the controller, its frames put on the
\* link; `taken` is what the step takes off the link to e.
Run(e, Handler(_), taken) ==
  \E room \in 0 .. MaxRoom :
    \E f \in {Then([fcrb[e] EXCEPT !.room = room], Handler)} :
        /\ fcrb' = [fcrb EXCEPT ![e] = [f EXCEPT !.out = <<>>, !.room = 0]]
        /\ link' = [link EXCEPT ![e] = @ \o f.out,
                                ![Peer(e)] = SubSeq(@, taken + 1, Len(@))]

\* L2CA_DataWrite: the upper layer's next SDU joins the transmit queue.
DataWrite(e) ==
  LET n == fcrb[e].written + 1
      write(f) == CheckSendPkts([f EXCEPT !.written = n, !.xmit_hold_q = @ \o Sdu(e, n)])
  IN  /\ fcrb[e].open
      /\ n <= Len(case.sdus[e])
      /\ Run(e, write, 0)
      /\ UNCHANGED <<case, used>>

\* L2CA_FlowControl: the upper layer stops the peer, or lets it go on.  The
\* peer hears of it now, unless a poll of ours is unanswered.
FlowControl(e, on_off) ==
  LET flow(f) == LET g == [f EXCEPT !.local_busy = on_off]
                 IN  IF f.wait_ack THEN g
                     ELSE IF on_off THEN SendSFrame(g, "RNR", "")
                     ELSE SendSFrame(g, "RR", "P")
  IN  /\ fcrb[e].open
      /\ fcrb[e].local_busy # on_off
      /\ on_off => e \in case.busy /\ used.busies < MaxBusy
      /\ used' = IF on_off THEN [used EXCEPT !.busies = @ + 1] ELSE used
      /\ Run(e, flow, 0)
      /\ UNCHANGED case

\* Buffers came free at the controller: the link serves the channel.
LinkReady(e) ==
  /\ HasFrame(fcrb[e])
  /\ Run(e, CheckSendPkts, 0)
  /\ UNCHANGED <<case, used>>

\* A frame arrives whole.  A closed channel has no control block to find.
Receive(e) ==
  LET m == Head(link[Peer(e)])
      rcv(f) == CASE ~f.open -> f
                  [] f.open /\ m.t = "disc" -> [DisconnectChnl(f, "peer") EXCEPT !.out = <<>>]
                  [] OTHER -> ProcPdu(f, m)
  IN  /\ link[Peer(e)] # <<>>
      /\ Run(e, rcv, 1)
      /\ UNCHANGED <<case, used>>

\* A frame arrives with a wrong FCS and is dropped.
BadFcs(e) ==
  /\ link[Peer(e)] # <<>>
  /\ Head(link[Peer(e)]) # DiscReq
  /\ used.losses < MaxLoss
  /\ used' = [used EXCEPT !.losses = @ + 1]
  /\ link' = [link EXCEPT ![Peer(e)] = Tail(@)]
  /\ UNCHANGED <<fcrb, case>>

\* A timer goes off: long after the link fell silent, or, as often as
\* MaxEarly allows, while the answer it waited for is on its way.
Expire ==
  \/ link = [e \in End |-> <<>>] /\ UNCHANGED used
  \/ /\ link # [e \in End |-> <<>>]
     /\ used.early < MaxEarly
     /\ used' = [used EXCEPT !.early = @ + 1]

\* The retransmission or monitor timer expires: poll the peer, unless a
\* reject of ours is unanswered, or give up.
ProcTout(e) ==
  LET tout(f) == LET g == [f EXCEPT !.timer = FALSE, !.num_tries = @ + 1]
                 IN  IF g.num_tries > MaxTransmit THEN DisconnectChnl(g, "tries")
                     ELSE IF ~g.srej_sent /\ ~g.rej_sent THEN SendReady(g, "P")
                     ELSE g
  IN  /\ fcrb[e].timer
      /\ Expire
      /\ Run(e, tout, 0)
      /\ UNCHANGED case

\* The acknowledgement that was put off is due.
ProcAckTout(e) ==
  LET tout(f) == LET g == [f EXCEPT !.ack_timer = FALSE]
                 IN  IF ~f.wait_ack /\ f.last_ack_sent # f.next_seq_expected
                     THEN SendReady(g, "") ELSE g
  IN  /\ fcrb[e].ack_timer
      /\ Expire
      /\ Run(e, tout, 0)
      /\ UNCHANGED case

Next == \E e \in End :
  \/ DataWrite(e) \/ LinkReady(e) \/ Receive(e) \/ BadFcs(e)
  \/ ProcTout(e) \/ ProcAckTout(e)
  \/ \E on_off \in BOOLEAN : FlowControl(e, on_off)

Spec == Init /\ [][Next]_vars

\* The main thread runs what is queued to it, the controller frees its
\* buffers, alarms that are set go off, and an upper layer that stopped its
\* peer lets it go on some time: something of this happens while it can.
Progress == \E e \in End :
  \/ DataWrite(e) \/ Receive(e) \/ LinkReady(e)
  \/ ProcTout(e) \/ ProcAckTout(e) \/ FlowControl(e, FALSE)

FairSpec == Spec /\ WF_vars(Progress)

--------------------------------------------------------------------------------
(* What the channel must do *)

SeqNum == 0 .. (FcrSeqModulo - 1)

TypeOK ==
  /\ \A e \in End :
       LET f == fcrb[e] IN
       /\ {f.next_tx_seq, f.last_rx_ack, f.next_seq_expected, f.last_ack_sent} \subseteq SeqNum
       /\ f.num_tries \in 0 .. (MaxTransmit + 1)
       /\ f.closed_by \in {"none", "tries", "reqseq", "sar", "peer"}
       /\ f.out = <<>> /\ f.room = 0
  /\ case \in Scenarios
  /\ used \in [losses : 0 .. MaxLoss, busies : 0 .. MaxBusy, early : 0 .. MaxEarly]

\* Two ends that follow this code never close the channel over a ReqSeq out
\* of range or segments that do not fit, whatever is lost and however early
\* the timers go off: only the tries can run out.
NoProtocolError == TypeOK /\ \A e \in End : fcrb[e].closed_by \notin {"reqseq", "sar"}

\* While a SREJ is unanswered the frame that revealed the gap is held:
\* process_i_frame reads the last held frame without looking.
SrejHoldsFrame == \A e \in End : fcrb[e].srej_sent /\ fcrb[e].open => fcrb[e].srej_rcv_hold_q # <<>>

\* What the sender still keeps is exactly what it sent from last_rx_ack on, in
\* order, and the receiver has every frame before that: an SDU reported by
\* pL2CA_TxComplete_Cb is with the peer's upper layer.
AckedIsDelivered == \A e \in End :
  LET f == fcrb[e] IN
  /\ f.tx_complete <= Len(fcrb[Peer(e)].rcvd)
  /\ f.open => /\ Len(f.waiting_for_ack_q) = Minus(f.next_tx_seq, f.last_rx_ack)
               /\ \A i \in DOMAIN f.waiting_for_ack_q :
                    f.waiting_for_ack_q[i].tx = Plus(f.last_rx_ack, i - 1)

Written(e) == [n \in 1 .. fcrb[e].written |-> Sdu(e, n)]
AllSdus(e) == UNION {{Segments(n, sc.sdus[e][n]) : n \in DOMAIN sc.sdus[e]} : sc \in Scenarios}

AtoB == INSTANCE SduStream WITH
  Units <- AllSdus("A"), sent <- Written("A"), rcvd <- fcrb["B"].rcvd

BtoA == INSTANCE SduStream WITH
  Units <- AllSdus("B"), sent <- Written("B"), rcvd <- fcrb["A"].rcvd

\* What each end promises the other: its SDUs arrive whole, in order, once.
ImplementsStream == AtoB!Spec /\ BtoA!Spec

\* Everything written is delivered and acknowledged, or the channel closes: no
\* loss leaves both ends waiting for one another.  process_reqseq says "If
\* anything still waiting for ack, restart the timer if it was stopped".
SduDelivered == \A e \in End :
  \A n \in 1 .. MaxSdus :
    fcrb[e].written >= n ~> fcrb[e].tx_complete >= n \/ ~fcrb[e].open

\* An end with an unanswered reject of its own that waits, for the answer to a
\* poll or for an acknowledgement its peer is free to send, and has no timer
\* running to end the wait: l2c_fcr_proc_tout neither polls nor starts the
\* timer again while rej_sent or srej_sent is set.
TimerLost(e) ==
  LET f == fcrb[e]
  IN  /\ f.open /\ ~f.timer /\ (f.srej_sent \/ f.rej_sent)
      /\ f.wait_ack \/ (f.waiting_for_ack_q # <<>> /\ ~f.remote_busy)

\* Nothing else keeps SduDelivered from holding: every written SDU is delivered
\* and acknowledged, the channel closes, or from some time on an end is without
\* its timer because it expired while a reject of that end was unanswered.
StuckOnlyByReject == \A e \in End :
  \A n \in 1 .. MaxSdus :
    fcrb[e].written >= n ~> \/ fcrb[e].tx_complete >= n
                            \/ ~fcrb[e].open
                            \/ [](\E d \in End : TimerLost(d))
================================================================================
