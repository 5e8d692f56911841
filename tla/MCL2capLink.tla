---------------------------- MODULE MCL2capLink -----------------------------
(* Setups of L2capLink for TLC. *)
EXTENDS L2capLink

Basic == [bufs |-> 2, high |-> {}, packets |-> 2, sessions |-> <<1, 1, 0>>, priority |-> 0,
          requests |-> 0, fixed |-> 0, reuse |-> {}]

\* Two links share two buffers, one of them is lost and comes back; three links
\* share one, the third by round robin as long as it has high priority; the peers
\* of two links ask for channels, and a fixed channel comes into use.
Usual == {[Basic EXCEPT !.sessions = <<2, 1, 0>>],
          [Basic EXCEPT !.bufs = 1, !.high = {3}, !.sessions = <<1, 1, 1>>, !.priority = 1],
          [Basic EXCEPT !.bufs = 1, !.requests = 1],
          [Basic EXCEPT !.bufs = 1, !.fixed = 1]}

\* A fixed channel comes into use on one of two links.
WithFixed == {[Basic EXCEPT !.bufs = 1, !.fixed = 1]}

\* A link is lost with packets in flight, and reconnected in its LCB.
WithReuse == {[Basic EXCEPT !.sessions = <<2, 1, 0>>, !.reuse = {1}]}
=============================================================================
