----------------------------- MODULE MCFixedQueue -----------------------------
(***************************************************************************)
(* The ways the stack uses its queues, for three threads.                  *)
(***************************************************************************)
EXTENDS FixedQueue

CONSTANTS t1, t2, t3

Uses(enqueuers, tryEnqueuers, dequeuers, tryDequeuers) ==
  [wait |-> [enqueue_sem |-> enqueuers, dequeue_sem |-> dequeuers],
   try |-> [enqueue_sem |-> tryEnqueuers, dequeue_sem |-> tryDequeuers]]

MCThreads == {t1, t2, t3}

MCUsages ==
  { \* work queues: any thread enqueues, one waits and tries
    Uses(MCThreads, {}, {t1}, {t1}),
    \* several threads wait for elements
    Uses(MCThreads, {}, MCThreads, {}),
    \* tx_audio_queue: several threads try and flush
    Uses({t1, t2}, {}, {}, {t2, t3}),
    \* nobody waits, for a place or an element
    Uses({}, {t1, t2}, {}, {t1, t3}) }

=============================================================================
