----------------------------- MODULE MCL2capChannel -----------------------------
(* Instances of L2capChannel for TLC. *)
EXTENDS L2capChannel

Ends(a, b) == [e \in End |-> IF e = "A" THEN a ELSE b]

Plain == [connects |-> <<"level0">>, ccbs |-> Ends(1, 1), features |-> Ends({"ertm"}, {"ertm"}),
          proposal |-> "ok", closes |-> 0, refuses |-> FALSE, losses |-> 0, denials |-> 0,
          pauses |-> 0, early |-> 0]

\* one channel: refused, closed, its timers early, the link lost
Faults == [Plain EXCEPT !.closes = 1, !.refuses = TRUE, !.losses = 1, !.early = 1]

\* a second channel gets the CID of the first, which the peer may still have
Reused == [Plain EXCEPT !.connects = <<"level0", "level0">>, !.ccbs = Ends(1, 2),
                        !.losses = 1, !.early = 1]

\* two channels wait for one security procedure
Secured == [Plain EXCEPT !.connects = <<"secured", "secured">>, !.ccbs = Ends(2, 2),
                         !.losses = 1, !.denials = 1]

\* a channel given up while the link is secured for it
Abandoned == [Plain EXCEPT !.connects = <<"secured", "secured">>, !.closes = 1, !.early = 1]

\* the peer has one block only
Scarce == [Plain EXCEPT !.connects = <<"level0", "secured">>, !.ccbs = Ends(2, 1), !.closes = 1]

\* the peer has fixed channels but no retransmission; the peer says nothing
Modes == [Plain EXCEPT !.connects = <<"ertm_only", "level0">>, !.ccbs = Ends(2, 2),
                       !.features = Ends({"ertm", "fixed"}, {"fixed"})]
Mute == [Plain EXCEPT !.connects = <<"level0", "secured">>, !.ccbs = Ends(2, 2),
                      !.features = Ends({"ertm"}, {"mute"})]

\* The acceptor waits for a second INFO_RSP when the CONN_REQ comes, and its
\* timer for it may be early.
Late == [Plain EXCEPT !.features = Ends({"ertm", "fixed"}, {"ertm"}), !.losses = 1, !.early = 1]

\* nobody registered the service; the configurations do not fit
Unknown == [Plain EXCEPT !.connects = <<"unregistered">>, !.closes = 1]
Misfit(proposal) == [Plain EXCEPT !.proposal = proposal, !.losses = 1, !.early = 1]

\* encryption is off for a while, and a second channel asks
Paused == [Plain EXCEPT !.connects = <<"secured", "secured">>, !.ccbs = Ends(2, 1), !.pauses = 1]

\* a channel released by the loop over the link's channels, one that comes after
\* it, and one that asks later and keeps the link up
Third == [Plain EXCEPT !.connects = <<"ertm_only", "level0", "level0">>, !.ccbs = Ends(3, 2),
                       !.features = Ends({"ertm"}, {})]

Usual == {Faults, Reused, Secured, Abandoned, Scarce, Modes, Mute, Late, Unknown, Paused, Third}
         \cup {Misfit(p) : p \in {"unacceptable", "incompatible", "mismatched"}}

LateInfo == {Late}

Skips == {Third}

================================================================================
