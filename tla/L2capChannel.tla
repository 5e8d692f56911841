----------------------------- MODULE L2capChannel -----------------------------
(***************************************************************************)
(* L2CAP's connection-oriented channels between two devices: the link they *)
(* need is set up and lost (stack/l2cap/l2c_link.cc), BTM secures it       *)
(* (BtmSecurity), the signalling commands (l2c_main.cc, l2c_utils.cc) move *)
(* the channels through their states (l2c_csm.cc), and the upper layers    *)
(* call in through l2c_api.cc and are called back.                         *)
(*                                                                         *)
(* The state of an end is a record: its link control block, its pool of    *)
(* channel control blocks, its device record in BTM, and what its upper    *)
(* layer has been told.  L2CAP runs on one thread, so every handler is an  *)
(* operator from that record to the next one; `out` collects the commands  *)
(* it sends to the peer and `hci` those it gives the controller.           *)
(***************************************************************************)
EXTENDS Integers, Sequences, SequencesExt, FiniteSets, BtmSecurity

CONSTANTS
  Scenarios,    \* records: `connects`, the services end A connects to, in that
                \* order; `ccbs`, the size of each end's pool; `features`, what an
                \* end answers to an information request, "mute" if it answers
                \* nothing; `proposal`, what B makes of A's configuration;
                \* `closes`, how many channels an upper layer closes; `refuses`,
                \* whether B's upper layer may refuse; and how many links fail
                \* (`losses`), authentications and encryptions fail (`denials`),
                \* times the link is not encrypted for a while (`pauses`) and
                \* timers go off before an answer that is on its way (`early`)
  MaxCcbs       \* bound: no pool is larger

\* B has not registered the PSM of the last
Services == {"level0", "secured", "ertm_only", "unregistered"}

\* l2cu_process_peer_cfg_req's three results, and modes that turn out to differ
Proposals == {"ok", "unacceptable", "incompatible", "mismatched"}

End == {"A", "B"}
Peer(e) == IF e = "A" THEN "B" ELSE "A"
Cid == 1 .. MaxCcbs

ASSUME ChannelAssumption ==
  /\ MaxCcbs \in Nat \ {0}
  /\ Scenarios \subseteq
       [connects : Seq(Services), ccbs : [End -> Cid],
        features : [End -> SUBSET {"mute", "ertm", "fixed"}], proposal : Proposals,
        closes : Nat, refuses : BOOLEAN, losses : Nat, denials : Nat, pauses : Nat, early : Nat]

VARIABLES
  l2c,     \* l2c[e]: L2CAP, BTM and the upper layer of end e
  net,     \* net[e]: what the controller has for e, in order: connection events
           \* and the peer's commands
  lm,      \* the link manager: is there a link, is it encrypted, which
           \* authentications and encryption events it still owes
  case,    \* the scenario of this run
  used     \* how much of the scenario's bounds is used up

vars == <<l2c, net, lm, case, used>>

\* Op of the value v: one handler after another, v computed once
Then(v, Op(_)) == CHOOSE r \in {Op(x) : x \in {v}} : TRUE

--------------------------------------------------------------------------------
(* Control blocks, and what the upper layer knows of them *)

FreeCcb == [st |-> "free", service |-> "level0", remote_cid |-> 0, local_id |-> 0,
            remote_id |-> 0, timer |-> FALSE, no_retry |-> FALSE, sent_pending |-> FALSE,
            ib_done |-> FALSE, ob_done |-> FALSE]

\* what an upper layer knows of a channel, and the answers it owes
NoUser == [view |-> "idle", id |-> 0, todo |-> {}]

NoLcb(s) == [s EXCEPT !.link = "none", !.pending_ccb = None, !.lcb_timer = FALSE,
                      !.w4_info_rsp = FALSE, !.peer_ext_fea = FALSE,
                      !.idle_timeout_0 = FALSE, !.id = 1, !.disconnects = "no"]

Fresh(pool) ==
  NoLcb([link |-> "none", pending_ccb |-> None, lcb_timer |-> FALSE, w4_info_rsp |-> FALSE,
         peer_ext_fea |-> FALSE, idle_timeout_0 |-> FALSE, id |-> 1, disconnects |-> "no",
         queue |-> <<>>, free |-> [c \in 1 .. pool |-> c], ccb |-> [c \in Cid |-> FreeCcb],
         sec |-> NewRecord, user |-> [c \in Cid |-> NoUser], unexpected |-> FALSE,
         repeated |-> FALSE,
         out |-> <<>>, hci |-> {}])

InUse(s, c) == c \in ToSet(s.queue)

SetState(s, c, st) == [s EXCEPT !.ccb[c].st = st]
SetTimer(s, c) == [s EXCEPT !.ccb[c].timer = TRUE]
CancelTimer(s, c) == [s EXCEPT !.ccb[c].timer = FALSE]

\* A callback is expected in some views only; it changes the view.
Told(s, c, views, u) ==
  [s EXCEPT !.user[c] = u, !.unexpected = @ \/ s.user[c].view \notin views]

\* An indication that comes again before it is answered is noted apart.
ConnectInd(s, c) ==
  LET again == s.user[c].view = "connected" /\ s.user[c].todo = {"connect_rsp"}
  IN  Told([s EXCEPT !.repeated = @ \/ again], c,
           {"idle", "given_up"} \cup (IF again THEN {"connected"} ELSE {}),
           [view |-> "connected", id |-> s.ccb[c].remote_id, todo |-> {"connect_rsp"}])

ConnectCfm(s, c, ok) ==
  Told(s, c, {"connecting"},
       IF ok THEN [view |-> "connected", id |-> 0, todo |-> {"config_req"}] ELSE NoUser)

ConfigInd(s, c) ==
  Told(s, c, {"connected"}, [s.user[c] EXCEPT !.todo = @ \cup {"config_rsp"}])

\* A refused configuration makes the upper layer give up.
ConfigCfm(s, c, ok) ==
  Told(s, c, {"connected"},
       IF ok THEN s.user[c] ELSE [s.user[c] EXCEPT !.todo = @ \cup {"disconnect_req"}])

DisconnectInd(s, c, ack) ==
  Told(s, c, {"connecting", "connected", "answering"},
       IF ack THEN [view |-> "answering", id |-> 0, todo |-> {"disconnect_rsp"}] ELSE NoUser)

DisconnectCfm(s, c) == Told(s, c, {"closing"}, NoUser)

--------------------------------------------------------------------------------
(* Commands to the peer *)

Command(type, id, cid, src, arg) ==
  [t |-> type, id |-> id, cid |-> cid, src |-> src, arg |-> arg]

Send(s, cmd) == [s EXCEPT !.out = Append(@, cmd)]

\* a request gets an identifier of its own, a response repeats the request's
Request(s, c, type, arg) ==
  LET id == s.id + 1
  IN  Send([s EXCEPT !.id = id, !.ccb[c].local_id = id],
           Command(type, id, s.ccb[c].remote_cid, c, arg))

Respond(s, c, type, arg) ==
  Send(s, Command(type, s.ccb[c].remote_id, s.ccb[c].remote_cid, c, arg))

\* "pending" is said once only
SendConnectRsp(s, c, result) ==
  IF result = "pending" /\ s.ccb[c].sent_pending THEN s
  ELSE Respond([s EXCEPT !.ccb[c].sent_pending = @ \/ result = "pending"], c, "conn_rsp", result)

SendInfoReq(s, type) ==
  Send([s EXCEPT !.id = @ + 1, !.w4_info_rsp = TRUE], Command("info_req", s.id + 1, 0, 0, type))

--------------------------------------------------------------------------------
(* The blocks come and go *)

\* The identifiers and the peer's CID of an earlier channel stay in the block.
AllocateCcb(s, c, service) ==
  [s EXCEPT !.free = Tail(@), !.queue = Append(@, c),
            !.ccb[c] = [FreeCcb EXCEPT !.st = "closed", !.service = service,
                                       !.remote_cid = s.ccb[c].remote_cid,
                                       !.local_id = s.ccb[c].local_id,
                                       !.remote_id = s.ccb[c].remote_id]]

HciDisconnect(s, reason) == [s EXCEPT !.disconnects = IF @ = "no" THEN reason ELSE @]

\* the link is given up by way of BTM
SecDisconnect(s) ==
  IF s.sec.sec_state = "disconnecting" THEN [s EXCEPT !.link = "disconnecting"]
  ELSE HciDisconnect([s EXCEPT !.link = "disconnecting", !.sec = Disconnecting(@)], "peer_user")

\* The last channel is gone: drop the link at once, or after the idle time.
NoDynamicCcbs(s) ==
  LET t == [s EXCEPT !.lcb_timer = TRUE]
  IN  IF s.idle_timeout_0 THEN SecDisconnect(t)
      ELSE t

ReleaseCcb(s, c) ==
  LET t == [s EXCEPT !.queue = SelectSeq(@, LAMBDA d : d # c), !.free = Append(@, c),
                     !.ccb[c] = [FreeCcb EXCEPT !.remote_cid = s.ccb[c].remote_cid,
                                                !.local_id = s.ccb[c].local_id,
                                                !.remote_id = s.ccb[c].remote_id]]
  IN  IF ~InUse(s, c) THEN s
      ELSE IF s.link = "connected" /\ t.queue = <<>> THEN NoDynamicCcbs(t) ELSE t

CreateConn(s) ==
  [s EXCEPT !.link = "connecting", !.lcb_timer = TRUE, !.hci = @ \cup {"create_conn"}]

ReleaseLcb(s) == NoLcb(FoldLeft(LAMBDA t, c : ReleaseCcb(t, c), s, s.queue))

\* An event for every channel of the link; the successor is read first.
ForAllCcbs(s, Op(_, _)) ==
  FoldLeft(LAMBDA t, c : IF InUse(t, c) THEN Then(t, LAMBDA u : Op(u, c)) ELSE t, s, s.queue)

\* The same where the successor is read from the block after the event: a
\* block that was released has none.
ForCcbsInQueue(s, Op(_, _)) ==
  LET step(a, c) == IF a.end THEN a
                    ELSE Then(Op(a.s, c), LAMBDA t : [s |-> t, end |-> ~InUse(t, c)])
  IN  FoldLeft(step, [s |-> s, end |-> FALSE], s.queue).s

--------------------------------------------------------------------------------
(* Security *)

\* l2c_fcr_chk_chan_modes: a channel that insists on retransmission mode
\* needs a peer that has it
ChkChanModes(s, c) == s.ccb[c].service = "ertm_only" => s.peer_ext_fea

\* Ask the peer, or give the channel up.
StartConnection(s, c) ==
  IF ChkChanModes(s, c) THEN Request(SetTimer(s, c), c, "conn_req", s.ccb[c].service)
  ELSE ConnectCfm(ReleaseCcb(s, c), c, FALSE)

\* L2CEVT_SEC_COMP and L2CEVT_SEC_COMP_NEG in the states that wait for them
OrigSecComp(s, c) ==
  LET t == SetState(s, c, "w4_l2cap_connect_rsp")
  IN  IF s.w4_info_rsp THEN t ELSE StartConnection(t, c)

OrigSecCompNeg(s, c) ==
  LET last == s.ccb[c].st = "orig_w4_sec_comp" /\ s.queue = <<c>>
      t == [s EXCEPT !.idle_timeout_0 = @ \/ last]
  IN  ConnectCfm(ReleaseCcb(t, c), c, FALSE)

TermSecComp(s, c) ==
  LET t == SetState(s, c, "w4_l2ca_connect_rsp")
  IN  IF s.w4_info_rsp THEN SendConnectRsp(t, c, "pending")
      ELSE ConnectInd(SetTimer(t, c), c)

TermSecCompNeg(s, c) == ReleaseCcb(SendConnectRsp(s, c, "security_block"), c)

\* l2c_link_sec_comp2: the channel is found by BTM's reference, if it is
\* still there
SecComp(s, c, told) ==
  LET orig == s.ccb[c].st \in {"closed", "orig_w4_sec_comp"}
      term == s.ccb[c].st = "term_w4_sec_comp"
  IN  IF c = None \/ told = "nothing" THEN s
      ELSE IF ~InUse(s, c) THEN s
      ELSE IF told = "delay_check" THEN SetTimer(s, c)
      ELSE IF orig THEN IF told = "success" THEN OrigSecComp(s, c) ELSE OrigSecCompNeg(s, c)
      ELSE IF term THEN IF told = "success" THEN TermSecComp(s, c) ELSE TermSecCompNeg(s, c)
      ELSE s

\* BTM's outcome: its command goes out and the owner is told
Apply(s, o, c) ==
  LET t == [s EXCEPT !.sec = o.dev, !.hci = IF o.cmd = "nothing" THEN @ ELSE @ \cup {o.cmd}]
  IN  SecComp(t, c, o.told)

Asks(s, c, orig) == L2capAccessReq(s.sec, c, orig, s.ccb[c].service # "secured")

AccessReq(s, c, orig) == Apply(s, Asks(s, c, orig), c)

AccessReqStarts(s, c, orig) == Asks(s, c, orig).told = "nothing"

\* Mutant: the requests that were only noted are forgotten.
ResubmitNothing(s) == s

\* l2cu_resubmit_pending_sec_req: L2CEVT_SEC_RE_SEND_CMD for every channel
ResubmitPendingSecReq(s) ==
  ForAllCcbs(s, LAMBDA t, c :
                  IF t.ccb[c].st = "orig_w4_sec_comp" THEN AccessReq(t, c, TRUE)
                  ELSE IF t.ccb[c].st = "term_w4_sec_comp" THEN AccessReq(t, c, FALSE)
                  ELSE t)

\* An event of the controller has reached BTM.
SecEvent(s, o) ==
  LET t == Apply(s, o, s.sec.ref_data)
  IN  IF o.resubmit THEN Then(t, ResubmitPendingSecReq) ELSE t

Abort(s) == [s EXCEPT !.sec = AbortAccessReq(@)]

--------------------------------------------------------------------------------
(* The states of a channel.  `ev` is the event without its prefix, `arg`   *)
(* what comes with it: the reason a link was lost, a peer's CID.           *)

\* Mutant: the upper layer is not told.
DroppedSilently(s, c) == ReleaseCcb(s, c)

\* the channel ends and the upper layer hears of it
Dropped(s, c) == DisconnectInd(ReleaseCcb(s, c), c, FALSE)

\* An upper layer that waits to be told of the channel hears of its end: it
\* does not know the CID and takes no notice.
DroppedBeforeInd(s, c) ==
  IF s.user[c].view = "connected" THEN Dropped(s, c)
  ELSE Told(ReleaseCcb(s, c), c, {"idle", "given_up"}, s.user[c])

\* l2cu_disconnect_chnl: the peer is asked, and its answer is not waited for
DisconnectChnl(s, c) == Dropped(Request(s, c, "disc_req", "none"), c)

Closed(s, c, ev) ==
  CASE ev = "lp_disconnect_ind" -> Dropped(s, c)
    [] ev = "lp_connect_cfm"    -> AccessReq(SetState(s, c, "orig_w4_sec_comp"), c, TRUE)
    [] ev = "lp_connect_cfm_neg" -> ConnectCfm(ReleaseCcb(s, c), c, FALSE)
    [] ev = "l2ca_connect_req"  ->
         IF AccessReqStarts(s, c, TRUE)
         THEN SetState(AccessReq(s, c, TRUE), c, "orig_w4_sec_comp")
         ELSE AccessReq(s, c, TRUE)
    [] ev = "l2cap_connect_req" ->
         LET t == SetState([s EXCEPT !.lcb_timer = FALSE], c, "term_w4_sec_comp")
         IN  IF AccessReqStarts(t, c, FALSE)
             THEN SendConnectRsp(AccessReq(t, c, FALSE), c, "pending")
             ELSE AccessReq(t, c, FALSE)
    [] ev = "timeout"           -> ConnectCfm(ReleaseCcb(s, c), c, FALSE)
    [] ev = "l2ca_disconnect_req" -> ReleaseCcb(s, c)
    [] OTHER -> s

OrigW4SecComp(s, c, ev) ==
  CASE ev = "lp_disconnect_ind"   -> Dropped(s, c)
    [] ev = "lp_connect_cfm"      -> AccessReq(s, c, TRUE)
    [] ev = "l2ca_disconnect_req" -> ReleaseCcb(Abort(s), c)
    [] OTHER -> s

TermW4SecComp(s, c, ev) ==
  CASE ev = "lp_disconnect_ind"    -> ReleaseCcb(Abort(s), c)
    [] ev = "l2ca_disconnect_req"  -> ReleaseCcb(s, c)
    [] ev = "l2cap_disconnect_req" -> ReleaseCcb(Abort(Respond(s, c, "disc_rsp", "ok")), c)
    [] ev = "timeout"              -> HciDisconnect(s, "auth_failure")
    [] OTHER -> s

\* A link that the peer closed while the answer was awaited is set up once
\* more: the channel waits for it in the state CLOSED.
W4L2capConnectRsp(s, c, ev, arg) ==
  CASE ev = "lp_disconnect_ind" ->
         IF s.ccb[c].no_retry \/ arg # "peer_user" THEN Dropped(s, c)
         ELSE [s EXCEPT !.ccb[c].st = "closed", !.ccb[c].no_retry = TRUE]
    [] ev = "l2cap_connect_rsp" ->
         ConnectCfm(SetTimer([s EXCEPT !.ccb[c].st = "config", !.ccb[c].remote_cid = arg], c),
                    c, TRUE)
    [] ev = "l2cap_connect_rsp_pnd" -> SetTimer([s EXCEPT !.ccb[c].remote_cid = arg], c)
    [] ev \in {"l2cap_connect_rsp_neg", "timeout"} -> ConnectCfm(ReleaseCcb(s, c), c, FALSE)
    [] ev = "l2ca_disconnect_req" ->
         IF s.ccb[c].remote_cid # 0
         THEN SetTimer(SetState(Request(s, c, "disc_req", "none"), c, "w4_l2cap_disconnect_rsp"), c)
         ELSE DisconnectCfm(ReleaseCcb(s, c), c)
    [] ev = "l2cap_info_rsp" -> StartConnection(s, c)
    [] OTHER -> s

W4L2caConnectRsp(s, c, ev) ==
  CASE ev = "lp_disconnect_ind" -> DroppedBeforeInd(s, c)
    [] ev = "l2ca_connect_rsp" ->
         SetTimer(SetState(SendConnectRsp(s, c, "ok"), c, "config"), c)
    [] ev = "l2ca_connect_rsp_neg" -> ReleaseCcb(SendConnectRsp(s, c, "refused"), c)
    [] ev = "timeout" -> DroppedBeforeInd(SendConnectRsp(s, c, "refused"), c)
    [] ev = "l2ca_disconnect_req" ->
         SetTimer(SetState(Request(s, c, "disc_req", "none"), c, "w4_l2cap_disconnect_rsp"), c)
    [] ev = "l2cap_info_rsp" -> ConnectInd(SetTimer(s, c), c)
    [] OTHER -> s

Configured(s, c) == s.ccb[c].ib_done /\ s.ccb[c].ob_done

\* Both directions are configured; `more` is what is done besides, unless
\* the modes differ.
MayOpen(s, c, More(_)) ==
  IF ~Configured(s, c) THEN More(s)
  ELSE IF case.proposal = "mismatched" THEN DisconnectChnl(s, c)
  ELSE More(CancelTimer(SetState(s, c, "open"), c))

\* What the peer proposes is put to the upper layer, refused at once, or
\* reason enough to give the channel up.
Config(s, c, ev, arg) ==
  CASE ev = "lp_disconnect_ind" -> Dropped(s, c)
    [] ev = "l2cap_config_req"  ->
         CASE arg = "incompatible" -> DisconnectChnl(s, c)
           [] arg = "unacceptable" -> Respond(s, c, "config_rsp", "refused")
           [] OTHER                -> ConfigInd(s, c)
    [] ev = "l2cap_config_rsp"  ->
         MayOpen([s EXCEPT !.ccb[c].ob_done = TRUE], c, LAMBDA t : ConfigCfm(t, c, TRUE))
    [] ev = "l2cap_config_rsp_neg" -> ConfigCfm(CancelTimer(s, c), c, FALSE)
    [] ev = "l2cap_disconnect_req" ->
         DisconnectInd(SetTimer(SetState(s, c, "w4_l2ca_disconnect_rsp"), c), c, TRUE)
    [] ev = "l2ca_config_req"   -> SetTimer(Request(s, c, "config_req", arg), c)
    [] ev = "l2ca_config_rsp"   ->
         MayOpen([s EXCEPT !.ccb[c].ib_done = TRUE], c,
                 LAMBDA t : Respond(t, c, "config_rsp", "ok"))
    [] ev = "l2ca_config_rsp_neg" -> SetTimer(Respond(s, c, "config_rsp", "refused"), c)
    [] ev = "l2ca_disconnect_req" ->
         SetTimer(SetState(Request(s, c, "disc_req", "none"), c, "w4_l2cap_disconnect_rsp"), c)
    [] ev = "timeout" -> DisconnectChnl(s, c)
    [] OTHER -> s

Open(s, c, ev, arg) ==
  CASE ev = "lp_disconnect_ind" -> Dropped(s, c)
    [] ev = "l2cap_config_req"  ->
         CASE arg = "incompatible" -> DisconnectChnl(s, c)
           [] arg = "unacceptable" -> CancelTimer(Respond(s, c, "config_rsp", "refused"), c)
           [] OTHER -> ConfigInd(SetTimer([s EXCEPT !.ccb[c].st = "config",
                                                    !.ccb[c].ib_done = FALSE], c), c)
    [] ev = "l2cap_disconnect_req" ->
         DisconnectInd(SetTimer(SetState(s, c, "w4_l2ca_disconnect_rsp"), c), c, TRUE)
    [] ev = "l2ca_disconnect_req" ->
         SetTimer(SetState(Request(s, c, "disc_req", "none"), c, "w4_l2cap_disconnect_rsp"), c)
    [] OTHER -> s

W4L2capDisconnectRsp(s, c, ev) ==
  CASE ev \in {"l2cap_disconnect_rsp", "lp_disconnect_ind", "timeout"} ->
         DisconnectCfm(ReleaseCcb(s, c), c)
    [] ev = "l2cap_disconnect_req" ->
         DisconnectCfm(ReleaseCcb(Respond(s, c, "disc_rsp", "ok"), c), c)
    [] OTHER -> s

W4L2caDisconnectRsp(s, c, ev) ==
  CASE ev = "lp_disconnect_ind" -> Dropped(s, c)
    [] ev = "timeout" -> Dropped(Respond(s, c, "disc_rsp", "ok"), c)
    [] ev \in {"l2ca_disconnect_req", "l2ca_disconnect_rsp"} ->
         ReleaseCcb(Respond(s, c, "disc_rsp", "ok"), c)
    [] OTHER -> s

Execute(s, c, ev, arg) ==
  LET st == s.ccb[c].st
  IN  CASE ~InUse(s, c)                   -> s
        [] st = "closed"                  -> Closed(s, c, ev)
        [] st = "orig_w4_sec_comp"        -> OrigW4SecComp(s, c, ev)
        [] st = "term_w4_sec_comp"        -> TermW4SecComp(s, c, ev)
        [] st = "w4_l2cap_connect_rsp"    -> W4L2capConnectRsp(s, c, ev, arg)
        [] st = "w4_l2ca_connect_rsp"     -> W4L2caConnectRsp(s, c, ev)
        [] st = "config"                  -> Config(s, c, ev, arg)
        [] st = "open"                    -> Open(s, c, ev, arg)
        [] st = "w4_l2cap_disconnect_rsp" -> W4L2capDisconnectRsp(s, c, ev)
        [] st = "w4_l2ca_disconnect_rsp"  -> W4L2caDisconnectRsp(s, c, ev)
        [] OTHER                          -> s

--------------------------------------------------------------------------------
(* The peer's commands: process_l2cap_cmd.  A channel is found by the CID  *)
(* the peer names; a response must also repeat the request's identifier.   *)

ConnReq(s, m) ==
  LET c == Head(s.free)
      t == AllocateCcb(s, c, m.arg)
      reject(result) == Send(s, Command("conn_rsp", m.id, m.src, 0, result))
  IN  IF m.arg = "unregistered" THEN reject("no_psm")
      ELSE IF s.free = <<>> THEN reject("no_resources")
      ELSE Execute([t EXCEPT !.ccb[c].remote_id = m.id, !.ccb[c].remote_cid = m.src],
                   c, "l2cap_connect_req", 0)

ConnRsp(s, m) ==
  IF ~InUse(s, m.cid) \/ s.ccb[m.cid].local_id # m.id THEN s
  ELSE Execute(s, m.cid, CASE m.arg = "ok"      -> "l2cap_connect_rsp"
                           [] m.arg = "pending" -> "l2cap_connect_rsp_pnd"
                           [] OTHER             -> "l2cap_connect_rsp_neg", m.src)

ConfigReq(s, m) ==
  IF ~InUse(s, m.cid) THEN Send(s, Command("reject", m.id, 0, 0, "none"))
  ELSE Execute([s EXCEPT !.ccb[m.cid].remote_id = m.id], m.cid, "l2cap_config_req", m.arg)

ConfigRsp(s, m) ==
  IF ~InUse(s, m.cid) \/ s.ccb[m.cid].local_id # m.id THEN s
  ELSE Execute(s, m.cid, IF m.arg = "ok" THEN "l2cap_config_rsp" ELSE "l2cap_config_rsp_neg", 0)

\* Mutant: the peer's CID is not compared.
DiscReqAnySource(s, m) ==
  IF ~InUse(s, m.cid) THEN Send(s, Command("disc_rsp", m.id, m.src, m.cid, "ok"))
  ELSE Execute([s EXCEPT !.ccb[m.cid].remote_id = m.id], m.cid, "l2cap_disconnect_req", 0)

DiscReq(s, m) ==
  IF ~InUse(s, m.cid) THEN Send(s, Command("disc_rsp", m.id, m.src, m.cid, "ok"))
  ELSE IF s.ccb[m.cid].remote_cid # m.src THEN s
  ELSE Execute([s EXCEPT !.ccb[m.cid].remote_id = m.id], m.cid, "l2cap_disconnect_req", 0)

DiscRsp(s, m) ==
  IF ~InUse(s, m.cid) \/ s.ccb[m.cid].remote_cid # m.src \/ s.ccb[m.cid].local_id # m.id THEN s
  ELSE Execute(s, m.cid, "l2cap_disconnect_rsp", 0)

InfoReq(s, m, features) ==
  IF "mute" \in features THEN s
  ELSE Send(s, Command("info_rsp", m.id, 0, 0, m.arg))

\* The channels go on once the peer's last information is there.
InfoRspEvent(s, c) == Execute(s, c, "l2cap_info_rsp", 0)

InfoRsp(s, m, features) ==
  LET t == [s EXCEPT !.w4_info_rsp = FALSE,
                     !.peer_ext_fea = IF m.arg = "ext" THEN "ertm" \in features ELSE @]
  IN  IF m.arg = "ext" /\ "fixed" \in features THEN SendInfoReq(t, "fixed")
      ELSE ForCcbsInQueue(t, InfoRspEvent)

--------------------------------------------------------------------------------
(* The controller's events and the timers *)

\* One link at a time: a request that crosses ours does not happen here.
HciConnReq(s) ==
  IF s.link # "none" THEN s
  ELSE [s EXCEPT !.link = "connecting", !.lcb_timer = TRUE, !.hci = @ \cup {"accept"}]

LpConnectCfm(s, c) == Execute(s, c, "lp_connect_cfm", 0)
LpConnectCfmNeg(s, c) == Execute(s, c, "lp_connect_cfm_neg", 0)

\* l2c_link_hci_conn_comp.  With one link at a time the completion finds the
\* link connecting or gone: the failed completion of a link that is up, and the
\* errors of a crossing or one-too-many connection, do not arise.
HciConnComp(s, ok) ==
  LET up   == SendInfoReq([s EXCEPT !.link = "connected", !.lcb_timer = FALSE], "ext")
      down == ForAllCcbs([s EXCEPT !.link = "disconnecting"], LpConnectCfmNeg)
  IN  IF s.link # "connecting" THEN s
      ELSE IF ok THEN Then(ForCcbsInQueue(up, LpConnectCfm),
                           LAMBDA t : IF t.queue = <<>> THEN [t EXCEPT !.lcb_timer = TRUE] ELSE t)
      ELSE IF down.queue = <<>> THEN ReleaseLcb(down) ELSE CreateConn(down)

\* The link is gone.  A channel that asked for it while it went down, or
\* whose peer closed it too early, makes a new one; then BTM hears of it.
HciDiscComp(s, reason) ==
  LET ind(t, c) == IF c = s.pending_ccb THEN t ELSE Execute(t, c, "lp_disconnect_ind", reason)
      again(t)  == LET u == [t EXCEPT !.pending_ccb = None, !.disconnects = "no"]
                   IN  IF t.queue # <<>> \/ t.pending_ccb # None
                       THEN CreateConn(u) ELSE ReleaseLcb(u)
      btm(t)    == Apply(t, Disconnected(t.sec), t.sec.ref_data)
  IN  Then(ForAllCcbs([s EXCEPT !.link = "disconnecting"], ind), LAMBDA t : btm(again(t)))

\* l2c_link_timeout on a link that is up: nobody uses it
LinkTimeout(s) ==
  IF s.queue # <<>> THEN [s EXCEPT !.lcb_timer = FALSE]
  ELSE SecDisconnect(s)

\* The peer has not told: go on without, once no channel waits for security.
InfoRespTimeout(s) ==
  LET t == [s EXCEPT !.w4_info_rsp = FALSE]
  IN  IF \E c \in ToSet(s.queue) : s.ccb[c].st \in {"orig_w4_sec_comp", "term_w4_sec_comp"} THEN s
      ELSE IF s.link = "disconnecting" THEN t
      ELSE ForCcbsInQueue(t, InfoRspEvent)

CcbTimeout(s, c) == Execute(CancelTimer(s, c), c, "timeout", 0)

--------------------------------------------------------------------------------
(* The calls of the upper layer: l2c_api.cc.  Every call but the first     *)
(* finds its channel by the CID, and nothing happens if it is gone.        *)

ConnectReq(s, service) ==
  LET linked == IF s.link = "none" THEN CreateConn(s) ELSE s
      c == Head(s.free)
      t == [AllocateCcb(linked, c, service) EXCEPT !.user[c] = [NoUser EXCEPT !.view = "connecting"]]
  IN  IF s.free = <<>> THEN linked
      ELSE IF t.link = "connected" THEN Execute(t, c, "l2ca_connect_req", 0)
      ELSE IF t.link = "disconnecting" THEN [t EXCEPT !.pending_ccb = c]
      ELSE t

\* accepted, and its own configuration proposed in the same breath
ConnectRsp(s, c) ==
  LET t == [s EXCEPT !.user[c].todo = @ \ {"connect_rsp"}]
      answered == IF s.ccb[c].remote_id = s.user[c].id THEN Execute(t, c, "l2ca_connect_rsp", 0) ELSE t
  IN  Execute(answered, c, "l2ca_config_req", "ok")

ConnectRspNeg(s, c) ==
  LET t == [s EXCEPT !.user[c] = NoUser]
  IN  IF s.ccb[c].remote_id = s.user[c].id THEN Execute(t, c, "l2ca_connect_rsp_neg", 0) ELSE t

\* A channel its peer has not heard of is given up without a confirmation.
DisconnectReq(s, c) ==
  LET unknown == s.ccb[c].st \in {"closed", "orig_w4_sec_comp", "term_w4_sec_comp"}
      view == IF unknown THEN "given_up" ELSE "closing"
  IN  Execute([s EXCEPT !.user[c] = [NoUser EXCEPT !.view = view]], c, "l2ca_disconnect_req", 0)

DisconnectRsp(s, c) ==
  Execute([s EXCEPT !.user[c] = NoUser], c, "l2ca_disconnect_rsp", 0)

Answers(s, c, todo) ==
  LET t == [s EXCEPT !.user[c].todo = @ \ {todo}]
  IN  CASE todo = "connect_rsp"    -> ConnectRsp(s, c)
        [] todo = "config_req"     -> Execute(t, c, "l2ca_config_req", case.proposal)
        [] todo = "config_rsp"     -> Execute(t, c, "l2ca_config_rsp", 0)
        [] todo = "disconnect_req" -> DisconnectReq(s, c)
        [] todo = "disconnect_rsp" -> DisconnectRsp(s, c)

Refuses(s, c, todo) ==
  IF todo = "connect_rsp" THEN ConnectRspNeg(s, c)
  ELSE Execute([s EXCEPT !.user[c].todo = @ \ {todo}], c, "l2ca_config_rsp_neg", 0)

--------------------------------------------------------------------------------
(* The two ends, their controllers and the link between them *)

\* `encrypt`: the ends that asked for encryption; `paused`: switched off by one
\* who will switch it on again; `owes[e]`: the changes e has not been told of
NoLink == [up |-> FALSE, page |-> FALSE, auth |-> [e \in End |-> 0], encrypt |-> {},
           encrypted |-> FALSE, paused |-> FALSE, owes |-> [e \in End |-> <<>>]]

HciEvent(type, arg) == Command(type, 0, 0, 0, arg)

IsEvent(m) == m.t \in {"hci_conn_req", "hci_conn_comp", "hci_disc_comp"}

Init ==
  /\ case \in Scenarios
  /\ l2c = [e \in End |-> Fresh(case.ccbs[e])]
  /\ net = [e \in End |-> <<>>]
  /\ lm = NoLink
  /\ used = [connects |-> 0, closes |-> 0, losses |-> 0, denials |-> 0, pauses |-> 0, early |-> 0]

\* End e has gone from l2c[e] to `after`, with what the controller already did: its
\* commands reach the controller, and the peer if there is a link.
Becomes(e, after, net1, lm1) ==
  \E s \in {after} :
    LET accepts == "accept" \in s.hci
        comp == <<HciEvent("hci_conn_comp", "ok")>>
    IN  /\ l2c' = [l2c EXCEPT ![e] = [s EXCEPT !.out = <<>>, !.hci = {}]]
        /\ net' = IF accepts THEN [x \in End |-> net1[x] \o comp]
                  ELSE IF lm1.up THEN [net1 EXCEPT ![Peer(e)] = @ \o s.out]
                  ELSE net1
        /\ lm' = [lm1 EXCEPT !.up = @ \/ accepts,
                             !.page = @ \/ "create_conn" \in s.hci,
                             !.auth[e] = IF "auth" \in s.hci /\ lm1.up THEN @ + 1 ELSE @,
                             !.encrypt = IF "encrypt" \in s.hci /\ lm1.up THEN @ \cup {e} ELSE @]
        /\ UNCHANGED case

Uses(bound) ==
  /\ used[bound] < case[bound]
  /\ used' = [used EXCEPT ![bound] = @ + 1]

Unused == UNCHANGED used

\* What has reached e and waits for its thread
Handles(e, s, m) ==
  CASE m.t = "hci_conn_req"  -> HciConnReq(s)
    [] m.t = "hci_conn_comp" -> HciConnComp(s, m.arg = "ok")
    [] m.t = "hci_disc_comp" -> HciDiscComp(s, m.arg)
    [] m.t = "conn_req"      -> ConnReq(s, m)
    [] m.t = "conn_rsp"      -> ConnRsp(s, m)
    [] m.t = "config_req"    -> ConfigReq(s, m)
    [] m.t = "config_rsp"    -> ConfigRsp(s, m)
    [] m.t = "disc_req"      -> DiscReq(s, m)
    [] m.t = "disc_rsp"      -> DiscRsp(s, m)
    [] m.t = "info_req"      -> InfoReq(s, m, case.features[e])
    [] m.t = "info_rsp"      -> InfoRsp(s, m, case.features[Peer(e)])
    [] m.t = "reject"        -> s

Deliver(e) ==
  /\ net[e] # <<>>
  /\ Becomes(e, Handles(e, l2c[e], Head(net[e])), [net EXCEPT ![e] = Tail(@)], lm)
  /\ Unused

\* The peer is paged: it is asked, or it does not answer.
Page ==
  /\ lm.page
  /\ net' = [net EXCEPT !["B"] = Append(@, HciEvent("hci_conn_req", "none"))]
  /\ lm' = [lm EXCEPT !.page = FALSE]
  /\ UNCHANGED <<l2c, case, used>>

PageFails ==
  /\ lm.page
  /\ Uses("losses")
  /\ net' = [net EXCEPT !["A"] = Append(@, HciEvent("hci_conn_comp", "failed"))]
  /\ lm' = [lm EXCEPT !.page = FALSE]
  /\ UNCHANGED <<l2c, case>>

\* The link ends.  What was on its way may be lost, the events are not.
LinkEnds(reason) ==
  /\ lm.up
  /\ \E kept \in [End -> 0 .. 4] :
       /\ \A e \in End : /\ kept[e] <= Len(net[e])
                         /\ \A i \in kept[e] + 1 .. Len(net[e]) : ~IsEvent(net[e][i])
       /\ net' = [e \in End |-> Append(SubSeq(net[e], 1, kept[e]),
                                       HciEvent("hci_disc_comp", reason[e]))]
  /\ lm' = NoLink
  /\ UNCHANGED <<l2c, case>>

LinkLost == LinkEnds([e \in End |-> "timeout"]) /\ Uses("losses")

\* An end has asked for it.
LinkClosed(e) ==
  /\ l2c[e].disconnects # "no"
  /\ LinkEnds([x \in End |-> IF x = e THEN "local_host" ELSE l2c[e].disconnects])
  /\ Unused

Authenticated(e, ok) ==
  /\ lm.auth[e] > 0
  /\ Becomes(e, SecEvent(l2c[e], AuthComplete(l2c[e].sec, ok)), net, [lm EXCEPT !.auth[e] = @ - 1])
  /\ IF ok THEN Unused ELSE Uses("denials")

\* The link's encryption goes on or off; each controller tells its host in
\* its own time.
Encryption(on) ==
  lm' = [lm EXCEPT !.encrypt = IF on THEN {} ELSE @, !.encrypted = on, !.paused = ~on,
                   !.owes = [e \in End |-> Append(@[e], IF on THEN "on" ELSE "off")]]

Encrypted ==
  /\ lm.encrypt # {} \/ lm.paused
  /\ Encryption(TRUE)
  /\ UNCHANGED <<l2c, net, case, used>>

\* As for a role switch
EncryptionPaused ==
  /\ lm.encrypted
  /\ Encryption(FALSE)
  /\ Uses("pauses")
  /\ UNCHANGED <<l2c, net, case>>

\* The one who asked for it hears that it failed.
EncryptionFails(e) ==
  /\ e \in lm.encrypt
  /\ Becomes(e, SecEvent(l2c[e], EncryptChange(l2c[e].sec, "failed")), net,
             [lm EXCEPT !.encrypt = @ \ {e}])
  /\ Uses("denials")

EncryptionChange(e) ==
  /\ lm.owes[e] # <<>>
  /\ Becomes(e, SecEvent(l2c[e], EncryptChange(l2c[e].sec, Head(lm.owes[e]))), net,
             [lm EXCEPT !.owes[e] = Tail(@)])
  /\ Unused

UserAnswers(e, c) ==
  /\ \E todo \in l2c[e].user[c].todo : Becomes(e, Answers(l2c[e], c, todo), net, lm)
  /\ Unused

UserRefuses(c) ==
  /\ case.refuses
  /\ \E todo \in l2c["B"].user[c].todo \cap {"connect_rsp", "config_rsp"} :
       Becomes("B", Refuses(l2c["B"], c, todo), net, lm)
  /\ Unused

UserConnects ==
  /\ used.connects < Len(case.connects)
  /\ Becomes("A", ConnectReq(l2c["A"], case.connects[used.connects + 1]), net, lm)
  /\ used' = [used EXCEPT !.connects = @ + 1]

UserCloses(e, c) ==
  /\ l2c[e].user[c].view \in {"connecting", "connected"}
  /\ Becomes(e, DisconnectReq(l2c[e], c), net, lm)
  /\ Uses("closes")

\* Nothing is on its way and nobody owes an answer.
Quiet ==
  /\ ~lm.page /\ lm.encrypt = {} /\ ~lm.paused
  /\ \A e \in End : /\ net[e] = <<>> /\ lm.auth[e] = 0 /\ lm.owes[e] = <<>>
                    /\ lm.up => l2c[e].disconnects = "no"
                    /\ \A c \in Cid : l2c[e].user[c].todo = {}

\* Timers are long: they go off when nothing else is left to wait for, and
\* now and then before the answer.
InTime == IF Quiet THEN Unused ELSE Uses("early")

ChannelTimeout(e, c) ==
  /\ l2c[e].ccb[c].timer
  /\ Becomes(e, CcbTimeout(l2c[e], c), net, lm)
  /\ InTime

IdleTimeout(e) ==
  /\ l2c[e].lcb_timer /\ l2c[e].link = "connected"
  /\ Becomes(e, LinkTimeout(l2c[e]), net, lm)
  /\ InTime

InfoTimeout(e) ==
  /\ l2c[e].w4_info_rsp
  /\ Becomes(e, InfoRespTimeout(l2c[e]), net, lm)
  /\ InTime

Progress ==
  \/ Page \/ Encrypted
  \/ \E e \in End :
       \/ Deliver(e) \/ LinkClosed(e) \/ Authenticated(e, TRUE) \/ EncryptionChange(e)
       \/ \E c \in Cid : UserAnswers(e, c)

Timeouts == \E e \in End : IdleTimeout(e) \/ InfoTimeout(e) \/ \E c \in Cid : ChannelTimeout(e, c)

Next ==
  \/ Progress \/ Timeouts
  \/ UserConnects \/ PageFails \/ LinkLost \/ EncryptionPaused
  \/ \E e \in End : Authenticated(e, FALSE) \/ EncryptionFails(e) \/ \E c \in Cid : UserCloses(e, c)
  \/ \E c \in Cid : UserRefuses(c)

Fairness == WF_vars(Progress \/ (Timeouts /\ Quiet))

Spec == Init /\ [][Next]_vars /\ Fairness

--------------------------------------------------------------------------------
(* Properties *)

TypeOK ==
  /\ lm.up \in BOOLEAN /\ lm.encrypt \subseteq End
  /\ \A e \in End :
       /\ l2c[e].link \in {"none", "connecting", "connected", "disconnecting"}
       /\ l2c[e].pending_ccb \in Cid \cup {None}
       /\ ToSet(l2c[e].queue) \cap ToSet(l2c[e].free) = {}

\* no channel waits for anything any more
Settled == Quiet /\ \A e \in End, c \in Cid : ~l2c[e].ccb[c].timer

\* When everything has settled, a channel that is open on an end is open on
\* the other and each points at the other, whatever was lost, closed or
\* timed out before, and although a CONFIG_REQ of an abandoned channel can be
\* taken for one of the channel that has its CID now (l2c_csm.cc with the CID
\* and identifier checks of l2c_main.cc).
OpenAgrees ==
  Settled /\ lm.up =>
    \A e \in End : \A c \in ToSet(l2c[e].queue) :
      l2c[e].ccb[c].st = "open" =>
        LET d == l2c[e].ccb[c].remote_cid
            o == l2c[Peer(e)]
        IN  d \in ToSet(o.queue) /\ o.ccb[d].st = "open" /\ o.ccb[d].remote_cid = c

\* The upper layer can trust its callbacks: none comes for a channel it does
\* not have, and every channel it believes in has a control block in use.  In
\* particular a disconnection the peer was asked for is confirmed, once, when
\* the block is released.  (ConnectIndOnce is apart.)
CallbacksMatch ==
  /\ TypeOK
  /\ \A e \in End :
       /\ ~l2c[e].unexpected
       /\ \A c \in Cid : l2c[e].user[c].view \in {"connecting", "connected", "answering", "closing"}
                         => InUse(l2c[e], c)

\* The upper layer is told of a connection once: "We have feature info, so now
\* give the upper layer connect IND" says l2c_csm_w4_l2ca_connect_rsp.
ConnectIndOnce == \A e \in End : ~l2c[e].repeated

\* past the states that wait for security
Past(e, c) ==
  /\ InUse(l2c[e], c)
  /\ l2c[e].ccb[c].st \in {"w4_l2cap_connect_rsp", "w4_l2ca_connect_rsp", "config", "open"}

\* A channel of a service that asks for security gets past the security
\* states only while its end believes the link encrypted, even when another
\* channel owned the procedure, it failed, or encryption was switched off
\* meanwhile (btm_sec.cc, l2cu_resubmit_pending_sec_req).
SecuredChannels ==
  [][\A e \in End, c \in Cid :
        Past(e, c)' /\ ~Past(e, c) /\ l2c'[e].ccb[c].service = "secured"
        => l2c'[e].sec.encrypted]_vars

Connecting(c) == l2c["A"].user[c].view = "connecting"

\* Every connection an upper layer asks for comes to an end: it is confirmed,
\* refused, dropped, or closed by the upper layer itself.
ConnectAnswered == \A c \in Cid : Connecting(c) ~> ~Connecting(c)

\* A channel that waits for L2CEVT_L2CAP_INFO_RSP, which the link had.
Skipped(c) ==
  /\ l2c["A"].ccb[c].st = "w4_l2cap_connect_rsp"
  /\ ~l2c["A"].ccb[c].timer /\ ~l2c["A"].w4_info_rsp

\* Nothing but a loop that ended early keeps ConnectAnswered from holding:
\* every connection asked for comes to an end, or the channel was left out when
\* the peer's information came.
AnsweredUnlessSkipped == \A c \in Cid : Connecting(c) ~> ~Connecting(c) \/ []Skipped(c)

================================================================================
