-------------------------------- MODULE MCErtm --------------------------------
(* Scenarios of Ertm for TLC. *)
EXTENDS Ertm

Scenario(a, b, win, busy) == [sdus |-> [A |-> a, B |-> b], win |-> win, busy |-> busy]

\* Two SDUs one way, the first of two segments, to an end that may be busy:
\* with a window of 2 the third frame has to wait; with one of 6, two lost
\* frames call for a REJ and acknowledgements are put off.  And both ends
\* sending, so that acknowledgements ride on I-frames.
Usual == {Scenario(<<2, 1>>, <<>>, 2, {"B"}), Scenario(<<2, 1>>, <<>>, 6, {"B"}),
          Scenario(<<2>>, <<1>>, 6, {})}
================================================================================
