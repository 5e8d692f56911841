------------------------------ MODULE BtmSecurity ------------------------------
(***************************************************************************)
(* What BTM's security manager (stack/btm/btm_sec.cc) does for L2CAP       *)
(* before a channel may be used: one device record, which one request at a *)
(* time owns through its callback, while further requests are only noted   *)
(* and submitted again later.  Both devices use secure simple pairing      *)
(* (SM4), names are known, the link key is good enough, services are       *)
(* trusted, and no pairing is going on.                                    *)
(*                                                                         *)
(* Every operator takes the record `d` and returns an outcome: the new     *)
(* record, what the owner of the record is told (TOLD), the command that   *)
(* goes to the controller, and whether L2CAP is to submit the requests it  *)
(* still has.                                                              *)
(***************************************************************************)
EXTENDS Integers

None == 0    \* no channel

\* the device record while nothing is connected
NewRecord ==
  [sec_state |-> "idle", callback |-> FALSE, ref_data |-> None,
   authenticated |-> FALSE, encrypted |-> FALSE, sec_req_pending |-> FALSE]

Outcome(d, told, cmd, resubmit) ==
  [dev |-> d, told |-> told, cmd |-> cmd, resubmit |-> resubmit]

Quietly(d) == Outcome(d, "nothing", "nothing", FALSE)

Secure(d) == d.authenticated /\ d.encrypted

\* The next procedure the link still needs; "success" if it needs none.
ExecuteProcedure(d) ==
  IF d.sec_state # "idle" THEN Quietly(d)
  ELSE IF ~d.authenticated
       THEN Outcome([d EXCEPT !.sec_state = "authenticating"], "nothing", "auth", FALSE)
  ELSE IF ~d.encrypted
       THEN Outcome([d EXCEPT !.sec_state = "encrypting"], "nothing", "encrypt", FALSE)
  ELSE Outcome(d, "success", "nothing", FALSE)

\* Mutant of L2capAccessReq: a link somebody is securing counts as secure.
AccessReqTrustsOwner(d, c, isOriginator, level0) ==
  IF level0 \/ d.callback THEN Outcome(d, "success", "nothing", FALSE)
  ELSE IF ~isOriginator /\ ~Secure(d)
  THEN Outcome([d EXCEPT !.ref_data = c, !.callback = TRUE, !.sec_state = "delay_for_enc"],
               "delay_check", "nothing", FALSE)
  ELSE LET next == ExecuteProcedure([d EXCEPT !.ref_data = c, !.callback = TRUE])
       IN  IF next.told = "success" THEN [next EXCEPT !.dev.callback = FALSE] ELSE next

\* A channel asks for access.  The acceptor never starts a procedure: it
\* waits for the peer's encryption, of which the controller may tell it
\* after the request itself.
L2capAccessReq(d, c, isOriginator, level0) ==
  LET owned == [d EXCEPT !.ref_data = c, !.callback = TRUE]
      next  == ExecuteProcedure(owned)
  IN  IF level0 THEN Outcome(d, "success", "nothing", FALSE)
      ELSE IF d.callback
           THEN IF d.encrypted THEN Outcome(d, "success", "nothing", FALSE)
                ELSE Quietly([d EXCEPT !.sec_req_pending = TRUE])
      ELSE IF ~isOriginator /\ ~Secure(d)
           THEN Outcome([owned EXCEPT !.sec_state = "delay_for_enc"], "delay_check", "nothing", FALSE)
      ELSE IF next.told = "success"
           THEN [next EXCEPT !.dev.callback = FALSE]
      ELSE next

\* The owner gives up: only a procedure that is still authenticating stops.
AbortAccessReq(d) ==
  IF d.sec_state = "authenticating"
  THEN [d EXCEPT !.sec_state = "idle", !.callback = FALSE] ELSE d

\* btm_sec_dev_rec_cback_event: the owner is told, and then the requests
\* that came in the meantime may try
CbackEvent(d, res) ==
  Outcome([d EXCEPT !.callback = FALSE, !.sec_req_pending = FALSE],
          IF d.callback THEN res ELSE "nothing", "nothing", d.sec_req_pending)

NextProcedure(d) ==
  LET next == ExecuteProcedure(d)
  IN  IF next.told = "success" THEN CbackEvent(next.dev, "success") ELSE next

AuthComplete(d, ok) ==
  IF d.sec_state # "authenticating" THEN Quietly(d)
  ELSE IF ~ok THEN CbackEvent([d EXCEPT !.sec_state = "idle"], "failure")
  ELSE NextProcedure([d EXCEPT !.sec_state = "idle", !.authenticated = TRUE])

\* `status`: encryption is "on" or "off", or switching it on has "failed".  A
\* channel that is past its security check is not looked at again.
EncryptChange(d, status) ==
  LET e == CASE status = "on"     -> [d EXCEPT !.authenticated = TRUE, !.encrypted = TRUE]
             [] status = "off"    -> [d EXCEPT !.encrypted = FALSE]
             [] status = "failed" -> d
  IN  IF d.sec_state = "delay_for_enc"
      THEN Outcome([e EXCEPT !.sec_state = "idle", !.callback = FALSE], "nothing", "nothing", TRUE)
      ELSE IF d.sec_state # "encrypting" THEN Quietly(e)
      ELSE IF status = "failed" THEN CbackEvent([e EXCEPT !.sec_state = "idle"], "failure")
      ELSE NextProcedure([e EXCEPT !.sec_state = "idle"])

\* btm_sec_disconnect: a procedure that is under way is forgotten, its owner
\* is not
Disconnecting(d) == [d EXCEPT !.sec_state = "disconnecting"]

\* The link is gone; sec_req_pending is not the record's and stays.
Disconnected(d) ==
  Outcome([d EXCEPT !.sec_state = "idle", !.callback = FALSE,
                    !.authenticated = FALSE, !.encrypted = FALSE],
          IF d.callback THEN "failure" ELSE "nothing", "nothing", FALSE)

================================================================================
