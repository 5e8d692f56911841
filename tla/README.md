# A TLA+ verification of the Bluetooth stack

This directory holds TLA+ models of the core of the Bluetooth stack in this
repository (Fluoride, `system/bt`), the TLC configurations that check them on
small instances, and theorems that TLAPS proves for all instances.  Paths in
this document are relative to the root of the repository.  `PROJECT.json`
lists components, runs, hazards, findings and theorems, and gives, for every definition
that models code, the lines it stands for.

Contents

1. The system and its parts
2. How the parts interact, and what is hard about them
3. Modules: state and actions against the code
4. Runs: what is asked, and what the answer is
5. Bounds
6. Fairness
7. Proofs
8. Findings
9. What is not modelled
10. Plan

## 1. The system and its parts

The stack is a daemon of about ten threads.  From the bottom:

| part | source | state | operations |
|---|---|---|---|
| semaphore | `osi/src/semaphore.cc` | an eventfd and the flags of its description | `new`, `wait`, `try_wait`, `post` |
| fixed_queue | `osi/src/fixed_queue.cc` | a list under a mutex and two semaphores (places, elements) | `enqueue`, `dequeue`, `try_enqueue`, `try_dequeue`, `try_remove_from_queue`, `flush`, `length` |
| reactor | `osi/src/reactor.cc` | an epoll set, the invalidation list, `object_removed`, one mutex per object | `start`, `run_once`, `stop`, `register`, `unregister` |
| thread | `osi/src/thread.cc` | a reactor, a work queue, `is_joined` | `post`, `stop`, `join`, the body `run_thread` |
| alarm | `osi/src/alarm.cc` | the sorted list of alarms, a timer that needs a wakelock, a wake-up timer, the dispatcher and its semaphore, a callback mutex per alarm | `alarm_set`, `alarm_set_on_mloop`, `alarm_cancel`, `alarm_cleanup`, `callback_dispatch`, `alarm_ready_generic` |
| future | `osi/src/future.cc` | result, semaphore, `ready_can_be_called` | `future_ready`, `future_await` |
| HCI layer | `hci/src/hci_layer.cc` | `command_queue`, `command_credits`, `commands_pending_response`, the response timer, the start-up future and timer | `transmit_command`, `event_command_ready`, `filter_incoming_event`, start-up and shutdown |
| packet fragmenter | `hci/src/packet_fragmenter.cc` | `partial_packets` by handle | `fragment_and_dispatch`, `reassemble_and_dispatch` |
| L2CAP link scheduler | `stack/l2cap/l2c_link.cc`, `l2c_utils.cc` | the link control blocks, `controller_xmit_window`, quotas, round robin | `l2c_link_check_send_pkts`, `l2c_link_send_to_lower`, `l2c_link_process_num_completed_pkts`, `l2c_link_segments_xmitted`, `l2c_link_adjust_allocation`, link creation and release |
| L2CAP retransmission mode | `stack/l2cap/l2c_fcr.cc` | one `tL2C_FCRB` per channel: sequence numbers, what waits for acknowledgement, for retransmission or behind a gap, two timers | `l2c_fcr_proc_pdu`, `l2c_fcr_proc_tout`, `l2c_fcr_proc_ack_tout`, `l2c_fcr_get_next_xmit_sdu_seg`, `L2CA_FlowControl` |
| L2CAP channels | `stack/l2cap/l2c_csm.cc`, `l2c_main.cc`, `l2c_link.cc`, `l2c_api.cc` | link and channel control blocks, their states and timers | `l2c_csm_execute`, one handler per signalling command, link events and timers, the calls of the upper layers |
| BTM security | `stack/btm/btm_sec.cc` | one device record: state, owner, what the link has been secured to | `btm_sec_l2cap_access_req`, `btm_sec_auth_complete`, `btm_sec_encrypt_change`, `btm_sec_disconnected` |
| the rest of BTM, SMP, GATT, SDP, RFCOMM, BNEP, AVDTP, AVCTP, ... | `stack/*` | protocol state machines on the BTU thread | one handler per event |
| BTA | `bta/*` | profile state machines on the BTU thread | one handler per event |
| btif | `btif/src/*` | the interface to the framework: JNI thread, socket thread, profile queue, configuration file | callbacks and calls between threads |
| btcore, stack manager | `btcore/src/module.cc`, `btif/src/stack_manager.cc` | life cycle of the modules | init, start up, shut down, clean up |
| audio HALs, UIPC | `udrv/ulinux/uipc.cc`, `audio_a2dp_hw/` | control and data sockets | open, start, suspend, close |
| service daemon, tools, codecs, test vendor library | `service/`, `tools/`, `embdrv/`, `vendor_libs/` | | |

Every layer above `osi` rests on `fixed_queue`, `thread` and `alarm`; every
command goes through the HCI layer and every byte of BR/EDR data through the
link scheduler.  These parts are modelled first.

What makes each of them correct:

* **semaphore**: success means the counter was decremented; `try_wait` does not
  sleep unless it is raced; nobody sleeps while the counter is positive.
* **fixed_queue**: a bounded FIFO; a thread with a token finds an element; the
  capacity holds; the tokens agree with the list when nobody is inside.
* **reactor**: no freed object is touched, no callback runs after `unregister`
  returned, no event of an earlier registration reaches the next object at
  the same address, ready descriptors are served.
* **thread**: what was posted before `thread_stop` runs before the thread
  exits, in order; `thread_join` returns after the thread has exited.
* **alarm**: after `alarm_cancel` the callback is not running and will not
  run; no call before its time; one instance per alarm; the first deadline has a
  wake-up pending; the wakelock is held exactly while the timer is set; every
  alarm fires or is canceled.
* **HCI layer**: flow control; each answer reaches its command; buffers are
  not freed while used; the response timer runs exactly while commands are
  pending; a queued command is eventually sent; start-up ends exactly once.
* **link scheduler and fragmenter**: the controller's buffers are never
  overrun and none is lost from the accounts; the peer gets each packet whole and in
  order; a link with data has something that will wake it.
* **retransmission mode**: SDUs arrive whole, in order and once; what is
  acknowledged has been delivered; two ends that follow this code never close
  over a protocol error; what is written is delivered or the channel closes.
* **channels and their security**: when nothing moves any more, both ends agree
  on the channels that are open; the upper layers get callbacks they wait for and no
  others; a channel that asks for security is used on an encrypted link only; every
  request to connect is answered.

## 2. How the parts interact, and what is hard about them

* *Semaphore in fixed_queue in thread in alarm.*  Each is used by the next
  through calls that are several steps long.  A queue operation is a semaphore
  step, a section under the mutex, and a semaphore step; other operations fall
  in between.  `WorkThread` is built on the actions of `FixedQueue`, so it sees
  these gaps.
* *A batch of events.*  `epoll_wait` returns addresses.  Until the loop comes
  to an event its object may have been unregistered, freed and registered
  again by another thread, or by an earlier callback of the same batch.
* *Cancel against call.*  `alarm_cancel` races the dispatcher, the callback
  thread and the message loop, which have the alarm in hand at different
  stages; it is called from callbacks as well, for their own alarm and others.
* *Timers that may not fire.*  A deadline that is already past, or a wakelock
  that is refused, must not lose the wake-up.
* *Credits.*  The HCI layer recomputes its credits on the receiving thread
  while commands are posted to the message loop by any thread, and the link
  scheduler charges for fragments before the HCI thread makes them.
* *Hand-back.*  A packet that needs more fragments than are allowed goes down in
  parts.  The rest travels back from the HCI thread to the BTU thread while
  acknowledgements, disconnections and new writes arrive.
* *Lost frames.*  SREJ asks for one missing frame and puts later ones aside, REJ
  asks for all, a poll asks where the peer is, RNR stops it; any of them may be
  lost, and timers go off while answers are on their way.
* *Names that outlive their owners.*  A CID, a signalling identifier and a reference BTM keeps
  name a control block that may have been released and given to another channel.
* *One owner at a time.*  Several channels need the link secured; BTM works for one
  and has the others ask again later.  The controllers report encryption to the two hosts in
  their own time, before or after the request that relies on it.
* *Static state.*  The queues and credits of the HCI layer live through
  a shutdown and the next start-up.

`PROJECT.json`, "hazards", lists these one by one with the line where each
bites and the properties that would notice it going wrong.

## 3. Modules: state and actions against the code

Names of variables and actions follow the code.  An action is what one thread
does between two points at which others may intervene: a system call, a
section under a mutex, or a message handler.  Each module's header says where
the cuts are.  Operators whose comment begins "Mutant of" or "As a bug
would have it" are deliberately wrong variants, used only to show that the properties can fail; they
are not part of any specification.

**CountingSemaphore** (abstract) and **Semaphore** (`semaphore.cc`).
`Semaphore` has one step per system call: `F_GETFL`, `F_SETFL`, `read`,
`F_SETFL` for `try_wait`; `read` for `wait`.  A read decrements, fails with
`EAGAIN`, or sleeps and is woken by a later `post` (`ReadDecrements`,
`ReadFails`, `ReadSleeps`), according to the counter and to `nonblock`, the
flag of the file description that all threads share.  `use`, fixed in the initial state,
says which threads wait and which try.  Those of the stack come in three kinds: semaphores that
any number of threads wait on and none tries (the places of a queue, `alarm_expired`, which
`alarm.cc:621` reads with `semaphore_wait`, the semaphore of a future); one that is waited on and
tried by one thread (the elements of a work queue, `thread.cc`); and one that several threads
try (the elements of `tx_audio_queue`, `btif_a2dp_source.cc` 949, 973, 1026 and 1043).  In none of
them does a thread wait on what another one tries; `Mixed` allows that, too.  Try-waits overlap in
any way; `raced` and `clashed` record it.  The refinement mapping to `CountingSemaphore` forgets the flags.

**BoundedFifo** (abstract) and **FixedQueue** (`fixed_queue.cc`).  All eight
operations, each cut at its semaphore calls and its mutex sections.
The semaphores are counters whose operations take effect in one step: this is what `Semaphore` is
shown to provide where no thread waits on what another one tries (`Unmixed`, an assumption on
`Usages`).  A try-wait that finds no unit returns false, or, if another thread tries the same
semaphore (`Contended`), may sleep until a unit comes, as it can in the code.
The mapping to `BoundedFifo` is the list; the appending step is
`Insert`, the removing step `Take` or `Extract`.

**Reactor** (`reactor.cc`).  The loop clears the invalidation list, waits,
takes events in any order the kernel may report them, checks the invalidation list, moves from the
list mutex to the object mutex, calls `read_ready` and `write_ready`, and frees the
object if `object_removed`.  Clients register and unregister; callbacks
unregister their own object or, with `UnregisterOthers`, another one.
Addresses are reused; `life` tells the registrations apart.

**WorkThread** (`thread.cc`) composes `FixedQueue` through `INSTANCE`: a
`thread_post` is an enqueue, the worker's event is a dequeue, the draining
loop after `thread_stop` is a run of try-dequeues with its count.

**Alarm** (`alarm.cc`).  The record `mon` is what `alarms_mutex` protects.
The sections under that mutex are operators on `mon` (`ScheduleNext`, `RescheduleRoot`,
`RemovePending`, ...), and one action applies each.  `list_remove` takes one instance out of the list, the loop over the
queue every one, as in the code.  Besides the mutex
there are the callback mutexes, taken where
`alarm_ready_generic` and `alarm_cancel` take them.  `Kinds` says what alarms are
made for (once or periodic, on the default thread or on the message loop); each alarm
gets its kind in the initial state and does not change it.  Any thread sets and cancels any alarm: `Users`, a
callback, the message loop between two alarms.  `raced` records the alarms that were set or
canceled in the message loop's hand, that is after their closure began and before it had
`alarms_mutex` (`InHand`).  An interval may be 0.  The two posix timers and
the clock are external: `Tick` lets time pass and a due timer post.

**HciLayer** (`hci_layer.cc`): `transmit_command` and its decision on credits, the
closure on the message loop, transmission, the receiving thread with
`get_waiting_command` and `process_command_credits`, the response timer,
`hci_module_shut_down` and the next start-up.  The controller is external: it
answers commands of one opcode in order, by command complete or by command status, may use another vendor opcode for
vendor commands (the code has a work-around for this), and reports its
window, one of `Windows` and fixed for a behaviour, in each event.  `answered` are the commands whose
callback was called or future readied; `untold` the futured ones that a command status took off the
list and freed without either.

**HciStartup** (`hci_layer.cc`, `future.cc`): the HAL's report, the message
loop's `event_finish_startup`, the alarm thread's `startup_timer_expired` and
the caller's `future_await`, with the mutex and the `CHECK`s of
`future_ready`.

**PacketFragmenter** (`packet_fragmenter.cc`): operators for cutting the next fragment, the
segment limit and the peer's reassembly.  The case of a continuation longer than the packet
needs is not modelled; `ContinuationFits` shows that the modelled sender never
produces one.

**L2capLink** (`l2c_link.cc`, `l2c_utils.cc`, parts of `hci_layer.cc`)
extends `PacketFragmenter`: writes to the link queue and to a channel,
`l2c_link_check_send_pkts` in its three ways (a given buffer, round robin,
own quota), `l2c_link_send_to_lower` with whole and partial packets, the HCI
thread that fragments and hands back the rest, the controller, completed
packets, the link timer, priorities, loss of a link and its return.  A handler
of the BTU thread is several steps (`btu`), because the HCI thread goes on meanwhile.  In a
congestion callback (`WriteUncongested`) a write is queued and `l2c_link_check_send_pkts` returns at once
(`is_cong_cback_context`).  The link timer is the one of the code: a connection request of the peer (`ConnectReq`) and a
fixed channel that comes into use (`InitializeFixedCcb`) stop it; the request is answered then or later
(`answer`, `ConnectRsp`), which serves the link queue, the fixed channel is not (`stopped`).  A link that is lost is
released (`ReleaseLcb`) or its block is used again for a connection that waited for it
(`ReuseLcb`).  One of `Setups` is chosen in the initial state: how many buffers there are, which links have high
priority, how often each is connected, how many channels are asked for.

**SduStream** (abstract) and **Ertm** (`l2c_fcr.cc`).  The state of an end is the record
`fcrb[e]`, with the fields of `tL2C_FCRB`; every function of the file is an operator from
that record to the next, and one action runs a handler of the BTU thread to its end
(`DataWrite`, `Receive`, `ProcTout`, `ProcAckTout`, `FlowControl`, `LinkReady`).  `Run` chooses how many I-frames the controller has room for meanwhile, the
only thing the link scheduler decides here.  Frames keep their order on the link and are lost by a
wrong FCS (`BadFcs`).  Payload is abstracted to (SDU, segment number, number of segments); a
reassembly that does not fit closes the channel as in the code.  A frame that is held behind a gap keeps its F bit and is
read again with it (`ProcessHeld`).  The mapping to `SduStream`, once per direction, is what has been written and what has
been handed up.

**BtmSecurity** (`btm_sec.cc`): operators on the device record, each returning the new
record, what the owner's callback is told, the command for the controller and whether L2CAP
is to submit its requests again.  Encryption may come up, fail, or be switched off and on again.

**L2capChannel** (`l2c_csm.cc`, `l2c_main.cc`, `l2c_link.cc`, `l2c_utils.cc`, `l2c_api.cc`)
extends `BtmSecurity` and puts two devices together.  `l2c[e]` is the link control block, the pool of
channel control blocks (`free`, in the order of the code's free list), the device record and the upper layer's view of each
CID.  There is an operator per state function of `l2c_csm.cc`, per case of
`process_l2cap_cmd`, per link event and per API call; an action applies one of them and hands
`out` to the peer and `hci` to the controllers.  External: the
controllers (`lm`: paging, one link, authentication, encryption) and the upper layers, which answer every
indication.  A `Told` callback that an upper layer cannot expect sets `unexpected`; a second
`pL2CA_ConnectInd_Cb` for one channel sets `repeated`.  An upper layer that disconnects a channel of which the
peer does not know yet is told nothing more (view `given_up`), one whose peer is asked waits for `pL2CA_DisconnectCfm_Cb`
(`closing`).  The information timer may go off with the INFO_RSP on its way, as the other timers may.

## 4. Runs: what is asked, and what the answer is

| run | question | answer |
|---|---|---|
| `Semaphore` | Try-waits and waits that overlap in every way the stack's can: does success mean a decrement, does a `try_wait` sleep only if another one raced it, does nobody sleep on a positive counter, is the eventfd a counting semaphore? | yes |
| `FixedQueue` | The four ways the stack's queues are used: is the queue a bounded FIFO; are tokens, places and elements in step; does `flush` return, if no other thread tries to take from the queue? | yes |
| `Reactor` | Can the loop use freed memory, serve an object with an older event, free an object that is still registered, call back after `unregister`; does `unregister` return; is a ready descriptor served? | safe and live |
| `WorkThread` | Do items posted before `thread_stop` run, in order, also when items post items; does the thread exit, unless an item waits for a place in its own full queue; does a join mean it has? | yes |
| `Alarm` | Two alarms, once or periodic, of both threads, with `alarm_cleanup` at any moment: cancel guarantee, no early call, one instance, service order, pending wake-up, balanced wakelock, periods kept, nothing running after the cleanup; does a one-time alarm fire or get canceled, does each cancel return, also from the alarm's own callback? | yes, but for alarms raced in the message loop's hand, and two callbacks that cancel each other's alarm |
| `HciLayer` | Windows 1 and 2, equal opcodes, a futured command, answers by complete or status, a vendor command with another opcode, empty events, shutdown at any moment and another start: one command at a time with window 1, answers to the right command, no buffer freed in use, timer, order, no stall, every command's callback called or future readied | yes, but for a futured command answered by a status |
| `HciStartup` | Is the future alive when used, its result what happened, the start-up bounded in time? | yes |
| `HciStartup_late` | Is the future completed once, also by a late HAL? | violated |
| `L2capLink` | Two links, packets of two fragments, links lost and connected again with packets on their way; peers that ask for channels, a fixed channel, congestion callbacks; and three links with one buffer, a round robin and a priority change: no overrun, accounts balance, whole and in order at the peer, a wake-up for each waiting link, and what is in the link queue of a link with a quota is sent | yes; the last two but for a link whose timer a fixed channel stopped |
| `Ertm` | Frames lost, timers early, a busy receiver, windows of 2 and 6, sequence numbers that wrap: does each direction implement `SduStream`; is what was acknowledged delivered; does no end see a protocol error; is a frame held while a SREJ is out; is the lost timer (next row) all that can keep SDUs from being delivered? | yes |
| `Ertm_timer` | Is everything that is written delivered, or the channel closed? | violated |
| `L2capChannel` | Refusals, closing at any moment, early timers, lost links, failing authentication and encryption, encryption switched off, configurations that do not fit, unregistered services, a full pool, a mute peer, reused CIDs: do open channels agree, callbacks match, channels wait for encryption, requests get answers? | yes, but that a channel that was skipped by a loop over the link's channels may not be answered |

Some properties are conjunctions whose parts have names of their own:
`IInv` in `Semaphore` and `FixedQueue` (section 7), `CalledOnTime` (`NotEarly`,
`PeriodicOnGrid`), `PendingInOrder` (`OneInstance`, `ServedInOrder`) and `TimersRight`
(`WakeupPending`, `WakelockBalanced`) in `Alarm`, `BuffersAccounted`
(`ControllerNotOverrun`, `WindowAccounts`, `SentNotAcked`) and `PeerGetsPackets`
(`DeliveredIntact`, `ContinuationFits`, `DeliveredInOrder`) in `L2capLink`,
`EventReachesItsCommand` (which includes `SentInOrder`) in `HciLayer`.
The type invariant `TypeOK` of a module is a conjunct of one of its
invariants: `NoUseAfterFree`, `TeardownItemRuns`, `TimersRight`, `TimerTracksPending`, `FutureAlive`,
`BuffersAccounted`, `NoProtocolError`, `CallbacksMatch`, and the `IInv`s.

`HciStartup_late` and `Ertm_timer` end in *violation*: they check a statement that a
header or a comment of the repository makes and that the code does not keep.  Where a passing run's
property has an exception, section 8 says why, and names the configuration that shows it.

All runs switch TLC's deadlock check off: each system may come to rest, when
the bounded number of calls has been made or when a thread has exited.  Where being stuck would be
wrong there is a liveness property (`StopExits`, `UnregisterReturns`,
`CancelCompletes`, `EveryCommandAnswered`, `StartupBounded`, ...).

## 5. Bounds

Every bound is a constant whose comment says "bound".

* *Threads.*  The races of `Semaphore` and `FixedQueue` are between pairs of calls;
  three threads allow a third to intervene (take the last unit, remove from the
  middle).  `MCFixedQueue` lists the four ways queues are used.  For the properties proved in section 7 no bound is left.
* *Objects, `MaxLives`.*  Two addresses, each registered twice: an event for
  the first registration can meet the second, with another object
  unregistered in the same batch.
* *Queue capacity.*  2, with more items than that, so that posters block, an
  item can meet its own full queue, and the draining loop's count matters.
* *Time in `Alarm`.*  Intervals 0, 1 and 2, `Threshold` 2, so that both timers
  are used and the alarm that is set later may be due earlier, or at once; two settings are enough to set an
  alarm again while it is pending, or to have two alarms pending at once; the clock stops at `MaxTime`, so that a
  periodic alarm is served late and comes round.  `MCAlarm` has three pairs of kinds and gives each alarm one
  interval; `MaxPosts` bounds the semaphore.  That other threads (`Users`) set and cancel as well is left to the
  proofs and to `Alarm_crossed.cfg`.
* *Commands.*  Two commands with one opcode, one of them futured, and a vendor command.
  With window 1 or 2 some wait in `command_queue`, some in the loop.  Two sessions, so that
  what the first leaves behind meets the second.
* *L2CAP links.*  A fragment carries 2 units; a packet of 3 needs two fragments,
  and buffers are fewer than the fragments written.  Two packets let a link use up the
  window while another waits or reconnects.  Two links
  compete, three where the round robin needs a neighbour to pass over.  One request for a channel, or one fixed
  channel, meets a timer that is set.
* *ERTM.*  `StartSeq = 62`, so that the numbers wrap in the middle of an SDU.  A window of 2
  is smaller than the three frames of `<<2, 1>>`; one of 6 makes `max_held_acks` 2, so that
  acknowledgements are put off and a second gap calls for REJ.  `MaxLoss = 2` loses a frame
  and the request for it; `MaxEarly = 1` lets one timer run ahead of its answer; `MaxTransmit = 2`
  lets one retransmission fail before the channel closes.
* *Channels.*  `MCL2capChannel` has fourteen scenarios, each with up to three connections and the
  faults it is about, instead of all faults at once: one channel with everything that can happen to
  it, a CID that is used again, two channels that need security, one that is given up during it,
  a pool of one block, differing features, a peer that answers no information request or answers it late, a service
  nobody registered, three configurations that do not fit, encryption that is switched off, and three channels of which
  the first is released when the information comes.

## 6. Fairness

* A thread that can run does run: weak fairness of each thread's step.  The
  threads of the stack are ordinary or real-time threads of the kernel's
  scheduler.  No thread is assumed to make a call it need not make.
* A mutex is granted to a waiter that asks again and again: strong fairness for
  the clients of the reactor (`list_mutex`, object mutex), for the parties to
  `alarms_mutex` and `callback_mutex`, and for BTU-thread
  messages and link timers, which share the thread with other
  handlers.  POSIX mutexes do not promise this in theory; the
  critical sections are short and the contenders few, and without the
  assumption no lock-based program has a liveness property.
* The dispatcher of `Alarm`: strong fairness, with the guards of its steps written out
  (`DispatcherCanStep`) in place of `ENABLED`.
* Time passes (`Tick`), and a start-up timer that is not canceled expires.
* The controller answers each command it holds and reports completed packets.
  The HAL, on the other hand, need not report `initialization_complete`: that
  is what the start-up timer is for.
* Callbacks and work items return.
* `Ertm`: the BTU thread handles what arrives, the controller frees buffers, alarms go off, and an upper
  layer that stopped its peer lets it go on.  One weak fairness (of `Progress`) says that some such step
  happens while one can; none is singled out.  Loss is bounded by `MaxLoss`.  This supposes that the link scheduler
  serves the channel (`LinkReady`); it does when the link is alone, while data of a channel may wait for ever when another link
  has used up the window (`ChannelQueueSent`, section 8).
* `L2capLink`: a peer that asked for a channel is answered (strong fairness of `ConnectRsp`): the
  security check ends, the upper layer answers, or the channel's timer does.
* `L2capChannel`: something that can happen without a new request happens: delivery,
  the controller's events, the upper layers' answers, and, when nothing of that is left, a timer
  that is set.  One weak fairness for all of it is enough, because no such step can be repeated for ever.
  Losing links, failing authentication, refusing and closing are never required.

## 7. Proofs

The theorems are in modules of their own, next to the component they are about:
`SemaphoreProofs`, `FixedQueueProofs`, `ReactorProofs`, `WorkThreadProofs`,
`AlarmProofs`, `HciLayerProofs` and `HciStartupProofs`; `ListLemmas` holds what they
use about sequences.  They hold for any number of threads, objects, items and commands and for
any capacity or bound on calls.  Each proof has the same shape: an inductive invariant `IInv`, a
conjunction of named parts; one lemma per action or per part saying that it is kept; and the
property as a consequence of `IInv`.  TLC has checked every `IInv` on
the instance of the component's configuration too.

Assumptions on the constants are in the component's module, where the runs evaluate them: finitely
many threads, a capacity that is not zero (`CHECK`ed by the code), and that
`NULL` and the markers of the model are not objects, items or commands.  What a theorem assumes
beyond this stands in its `ASSUME`, and section 8 says what happens without.

**Semaphore**, for calls that overlap in any way:

* `SemaphoreInvariant`: `Spec => []IInv`.  `IInv` adds to the type invariant and
  the safety properties that every overlap of a try-wait is on record (`Recorded`), and what becomes of the flag
  (`FlagsRestored`): until two try-waits overlap, the description is non-blocking only during a try-wait,
  and what a try-wait puts back is blocking mode; whatever happens, a try-wait about to read finds the mode it has set or
  has been raced.
* `SemaphoreSafety`: `try_wait` tells truly whether it decremented, and sleeps only if another one raced it;
  a `wait` returns without a unit only if a try-wait overlapped it or two had overlapped before, and never if no
  thread waits on what another one tries.
* `SemaphoreRefines`, under that last condition (`~Mixed`): each step is a step of `CountingSemaphore` or a stutter,
  also when try-waits overlap and are made to sleep.

**FixedQueue**, assuming finitely many threads, that NULL is not an item, and of the callers that no
thread waits on a semaphore of the queue that another one tries (`Unmixed`).  The last is what lets a semaphore operation be one
step, by `SemaphoreRefines`; a contended try-wait may sleep.

* `QueueInvariant`: `Spec => []IInv`.  `WithinCapacity` and `FrontExists` are
  not inductive: whether the list may grow depends on who holds a token.
  `IInv` counts the threads by what they hold.  *Places*: free ones, those
  taken by a thread about to append, elements, and those about to be released
  add up to the capacity.  *Elements*: tokens, threads about to remove and
  threads about to post add up to the length of the list.  Each step
  moves one unit from one term to another.  `CountMove`, `CountsMove` and
  `CountsStay` say how the cardinalities change when one thread moves,
  `BalanceStep` what that does to the sums.  `OneSleeper`: a `try_remove_from_queue` that was made to
  sleep does so under the mutex, alone, and its element stays in the list.
* `QueueSafety`: capacity, and an element for every token.
* `QueueNoLostWakeup`: when every call has returned or blocked, both semaphores are
  what the list says.
* `QueueRefines`: each step is a step of `BoundedFifo` or a stutter.

**Reactor**, when callbacks unregister only the object they are called for (`~UnregisterOthers`):

* `ReactorInvariant`.  The property speaks of the object the loop is serving; why it is alive depends on
  how the loop came to it.  `BatchValid`: an event of the batch is for a
  registration that is still allocated, or the address is on the invalidation list, and it is on the
  list as soon as the client is past `list_append`.  `ClientOwns` and `LoopOwns`: an object that
  was detached has one owner, who alone frees it.  `ServedAlive`: the
  mutex of the list, then the object's own, hold back a client that unregisters the object being served.
* `ReactorNoUseAfterFree` and `ReactorNoCallbackAfterUnregister` follow.

**WorkThread**:

* `WorkThreadInvariant`, without assumptions on the callers; the two parts that need one state it as their premise.
  `Phases` says where worker and posters can be in the queue, `Balance` counts its tokens as in
  `FixedQueue` (the operators of an `INSTANCE` are not those of the proved module, so the counting is done again).
  `LineOrder`: the items stand in one line, dispatched, removed, in the list, waiting for a place, and
  any two of one poster are in the order of their numbers.  `Numbers`: the item of a `thread_post` in
  progress is the last one of its thread, and not yet among those whose call returned.
  `Drained`: such items are kept until they are dispatched, and in the draining loop each of them stands at
  a position of the list that the loop reaches before its count runs out: position plus count is at most the capacity.
* `WorkThreadPostingOrder`: the order of dispatch, with no assumption.
* `WorkThreadTeardown`: under `Quiet` (no other thread is inside `thread_post` at `thread_stop`) and
  with at most one joiner, what had been posted before `thread_stop` has run when the thread exits.  The loop tests
  `count <= capacity`, so it dispatches one item more than the queue can hold at
  `thread_stop`; the proof shows that the capacity itself would do.

**Alarm**, for alarms that any threads set and cancel, as long as none is set or canceled in the message loop's hand
(`raced = {}`, the window of section 8) and none moves between the two kinds of thread:

* `AlarmInvariant`: `Spec => [](raced = {} => IInv)`, for any alarms, threads, intervals, wakelock threshold and numbers of calls, with
  `alarm_cleanup` at any moment and whether or not `wakelock_acquire` fails.  None of the four properties is inductive.
  `Places`: an alarm is in the list, in the queue, in the message loop or just taken out of it, in each at most once, and
  only a periodic one is in the list and waiting at once; wherever it is, its callback is set and its parameters are those of the
  call for its kind, which is what `remove_pending_alarm` goes by.  `Punctual`: a deadline in the list is not before
  the end of the interval, and an alarm that waits for its thread is due, since the dispatcher moved it at its deadline and
  only `alarm_set` changes `creation_time`, which takes the alarm out of the queue.  `Undone`: `SetSince` says
  that an alarm that is set was set after every cancel of it that has returned or is waiting for the callback mutex, `CalledSince`
  the same of a callback that has been read; a callback at `cb_lock` keeps new cancels out by
  `alarms_mutex`, and one that is running keeps them from returning by the callback mutex.  `Line`: one-time alarms of the default thread
  stand in one line, queue then list, and those in the queue have deadlines that have passed, so that a new one goes behind them.
  `Stopping`: the phases of `alarm_cleanup`.
* The steps: `Rescheduling`, `Unpending`, `Inserting`, `Scheduling`, `Setting`, `Canceling` and `Dispatching` say what each function under
  `alarms_mutex` does to the lists, the alarms and the timers.  `Attended` is why the timers stay right: a function either
  ends in `reschedule_root_alarm`, which arms a timer or posts for the first deadline, or leaves the head of the list and its deadline alone.
  `Effects` sums up every step as one of seven effects on the lists, and one lemma per part of `IInv` goes through them.
* `AlarmCancelGuarantee`, `AlarmCalledOnTime`, `AlarmPendingInOrder` follow; `AlarmTimersRight` if `wakelock_acquire` does not fail, and
  `AlarmWakelock` (types and a balanced wakelock) also if it does.

**HciStartup**:

* `StartupInvariant`: `Fresh`, `HalfReady`, `PointerTells` and `Waiter` describe the future before it is
  completed, between the two halves of `future_ready`, after it, and after `future_await` freed it;
  `MutexHeld` keeps the loop and the timer from being in their critical sections at once.
* `StartupFutureAlive` and `StartupHonestResult` follow.

**HciLayer**, if a controller that answers vendor commands with an improper opcode has one vendor command
at a time (`ProperAnswers`; with two the code cannot tell them apart):

* `HciInvariant`.  `Places`: a command is in one place at a time, in a queue, posted, pending, with the
  receiving thread or freed, and while it is pending it is being transmitted, with the controller or
  answered.  `AnswerOrder`: of two pending commands with one opcode, the one that comes
  first in `commands_pending_response` is answered first.  From these follows `Matching`: the first entry
  that `get_waiting_command` finds is the command the event is about.  `LineOrder` and `Births`: commands
  of a session go from queue to controller in the order they were enqueued, and credits are left only when
  no command of this session is in the queue, which a new one could overtake.  `OneToken`: with a window of one, credits and
  what is under way make at most one.
* `HciNotFreedInUse`, `HciTimerTracksPending`, `HciEventReachesItsCommand`, `HciOneAtATime` follow.

**ListLemmas**: what `Append`, `Tail`, concatenation, `SubSeq`, `RemoveAt`, `RemoveFirst`, `InsertAt` and moving a prefix do to the
elements of a list, to their being different, and to their order.

Only model-checked:

* all liveness properties (the proof system does not handle fairness and `ENABLED`);
* `L2capLink`: its accounts are sums over links, whose laws need induction; and with it `PacketFragmenter`;
* `L2capChannel` and `BtmSecurity`: an event for all channels of a link is a fold over its queue, and what a fold keeps needs
  induction too; `OpenAgrees` besides relates two ends and the commands between them;
* `Ertm`, whose invariants relate two ends and the frames between them and have not been made inductive.

## 8. Findings

Statements of the repository that the code does not keep, shown by a run:

* `HciStartup_late`: a HAL that reports after the start-up timer has expired
  makes `event_finish_startup` call `future_ready(NULL)`, which aborts;
  `future.h` says "|future| may not be NULL".
* `Ertm_timer` (`SduDelivered`): `process_reqseq` (`stack/l2cap/l2c_fcr.cc:996`) says "If anything still waiting for
  ack, restart the timer if it was stopped", but `l2c_fcr_proc_tout` (line 937) neither polls nor starts the timer
  while a SREJ or REJ of its own is unanswered.  Two lost frames and a receiver that was busy leave both ends with frames
  and without a timer, for ever.  `StuckOnlyByReject`, in the passing run, says that nothing else keeps SDUs from being delivered.

Further configurations are kept beside the runs; each ends in the violation described here
(`tlc -config X.cfg M`, with the module `M` in brackets).  The first five are the exceptions of passing runs.

* `Semaphore_contended.cfg` (`Semaphore`), `TryWaitNeverSleeps`: `semaphore_try_wait` sets `O_NONBLOCK` on a descriptor that all users
  share and restores the flags it read before (`osi/src/semaphore.cc:82`): of two that overlap, one clears the flag before
  the other has read, and that one sleeps on a counter of 0.  `osi/include/semaphore.h:40` says "This function never blocks.",
  and `osi/include/fixed_queue.h:95` so of `fixed_queue_flush`.  `btif_a2dp_source.cc` flushes and try-dequeues
  `tx_audio_queue` on one thread (949, 973, 1026) and try-dequeues it on another (1043).  This is why `FlushReturns` leaves
  contended queues out.
* `Alarm_crossed.cfg` (`Alarm`), `CancelPromise`: a closure of a message-loop alarm that has begun cannot be taken back, and waits
  for `alarms_mutex` without the alarm's callback mutex (`osi/src/alarm.cc:597`).  An `alarm_cancel` of another thread returns meanwhile, and the
  callback is called after it; an alarm that is set again meanwhile is called early.  `osi/include/alarm.h:84` promises "a
  guarantee that the callback is not in progress and will not be called if it hasn't already been called".  Such alarms are canceled
  or set from other threads in `hearing_aid_audio_source.cc` (110, 164), `btif_rc.cc` (2980-3061), `btif_hh.cc:414`,
  `btif_av.cc:1379` and `btif_hl.cc:308`.
* `L2capLink_fixed.cfg` (`MCL2capLink`), `TimerKept`: `l2cu_initialize_fixed_ccb` (`stack/l2cap/l2c_utils.cc:2556`) stops the link
  timer, also on a link that is up (data for a fixed channel without a block, `l2c_main.cc:194`).  The same timer is what
  `l2c_link.cc:1082` sets because "we may need a timer to kick off this link's transmissions".  Nothing sets it again, and a link with
  nothing unacknowledged waits with a packet in its queue and buffers free.
* `L2capChannel_skipped.cfg` (`MCL2capChannel`), `ConnectAnswered`: the loop that gives `L2CEVT_L2CAP_INFO_RSP` to the channels of a link
  (`stack/l2cap/l2c_main.cc:775`) reads the successor from a block that the event may have released, and ends there.  The channels
  behind it have no timer; while another channel keeps the link up they are never answered.  `l2c_link.cc:636` says "Notify
  active channels that peer info is finished".  If no other channel does, the idle link times out on the other side and its loss answers
  them.
* `L2capChannel_info.cfg` (`MCL2capChannel`), `ConnectIndOnce`: the information timer (`stack/l2cap/l2c_link.cc:611`) stands in for an answer
  that may come late, and the event is then given a second time: a second CONN_REQ, or a second `pL2CA_ConnectInd_Cb`.
  `l2c_csm.cc:699` says "We have feature info, so now give the upper layer connect IND".  `CallbacksMatch` takes no account of the repetition.
* `L2capLink_reuse.cfg` (`MCL2capLink`), `SentNotAcked`: `l2c_link_hci_disc_comp` uses the block again for a channel that waits for the
  disconnection (`stack/l2cap/l2c_link.cc:397`, `l2c_api.cc:382`) and resets neither `sent_not_acked` nor
  `partial_segment_being_sent`, though the packets of the old link are never acknowledged: the new link starts with its quota used
  up, or waits for a rest that never comes.  `l2c_int.h:404` says of the counter "Num packets sent but not acked".  In the
  passing run a block is used again only if nothing was in flight.

Two more that the models show:

* `process_command_credits` (`hci/src/hci_layer.cc:587`) subtracts the commands in
  `commands_pending_response`, under the comment "Subtract commands in flight", but not those posted to the
  message loop that have not run yet.  With a window of 2 and five commands `Len(chip) <= window` fails
  in `HciLayer`; for a window of 1 and no empty events it holds (`OneAtATime`).
* A command sent with `transmit_command_futured` that is answered by a command status event (`hci/src/hci_layer.cc:653`) is
  taken off the list and freed, its future never readied; whoever awaits it (`device/src/controller.cc:86`) waits for ever.  `EveryCommandAnswered`
  excepts it (`untold`).

The properties of the passing runs hold under conditions on the callers.
These are the limits; each can be reproduced by changing the named constant, or
by checking the named property, in the configuration of the component.

* `Mixed = TRUE`: if a thread waits on a semaphore that another one tries, the wait may return without a unit
  (`ImplementsCounting`).  No semaphore of the stack is used so.
* `NullOnlyWhenEmpty`: `fixed_queue_try_dequeue` may return NULL for a queue
  whose element is not announced yet.
* `UnregisterOthers = TRUE`: a callback that unregisters another object makes
  `run_reactor` free the one it serves, through the single flag `object_removed`
  (`NoUseAfterFree`).
* `Quiet = FALSE`: a `thread_post` in progress at `thread_stop` may be missed
  by the draining loop (`TeardownItemRuns`).  When the loop's count runs out it
  drops the item it has just taken (`TakenItemRuns`), which takes more items than the capacity.
* Two `Joiners`: a second `thread_join` returns at once although the thread
  still runs (`TeardownItemRuns`).
* `CleanupCompletes`: `alarm_cleanup` unregisters the callback queue, and so
  waits for the callback in progress, under the mutex that this callback wants.
* Callbacks on the two threads that cancel each other's alarm wait for each other (`MutualCancel`);
  `AlarmFires` and `CancelCompletes` except it.
* An alarm set with `alarm_set` at one time and with `alarm_set_on_mloop` at another could be pending on both
  threads.  No alarm of the repository is, and `Set` leaves it out.
* `WakelockFails = TRUE`: an alarm whose wakelock is refused never fires (`AlarmFires`).
* `SentInItsSession`: a command left in `command_queue` at a shutdown is sent
  in the next session.
* `ChannelQueueSent`: channel data of a link that found the window empty is not
  looked at when the window opens; the timer is set for the link queue only.
* A link without a quota of its own waits for the round robin, which may not
  come back to it: with a setup of one buffer and `high = {1, 2}` nothing is ever sent.  This is
  why `LinkQueueSent` leaves such links out.
* ERTM, flow control: `L2CA_FlowControl` that lets the peer go on while a poll of its own is
  unanswered sends nothing (`stack/l2cap/l2c_api.cc:1331`); the peer hears of it with the next frame
  this end sends.
* Channels, a CONFIG_REQ is matched by its CID alone (`stack/l2cap/l2c_main.cc:569`): one that was
  sent for an abandoned channel is taken by the channel that has the CID now.  The configuration timers
  clear this up, so `OpenAgrees` speaks of states in which nothing is on its way and no
  channel timer runs.
* Channels, `l2c_link_hci_conn_comp` reads the successor from a block that the event may have released, as the loop
  of `L2capChannel_skipped.cfg` does.
* `L2capLink`: a congestion callback writes to its own channel, as those of the repository do.  One that wrote a signalling
  command for another link would leave it without service and timer (`is_cong_cback_context`, `l2c_link.cc:981`).
* Security, the reference BTM keeps may be to a block that has another channel by now, which then gets the
  answer.  `SecuredChannels` holds because `btm_sec_disconnect` leaves the state
  `DISCONNECTING`, so that no procedure goes on for a link that is given up.
* A channel that is still connecting may be told `pL2CA_DisconnectInd_Cb` instead of
  `pL2CA_ConnectCfm_Cb` when its link is lost; `CallbacksMatch` allows it.  An acceptor may be told `pL2CA_DisconnectInd_Cb` for
  a channel it has not heard of, which the layers ignore, and there is no `pL2CA_DisconnectCfm_Cb` for a channel given up before
  the peer was asked.
* `SecuredChannels` speaks of getting past the security states.  That the link stays encrypted it does not say: encryption may be
  switched off (`btm_sec.cc:3966`) with the channel open.

## 9. What is not modelled

`PROJECT.json`, "components", has each part's status.  In the modelled parts:
logging and statistics; freeing of whole queues, threads and reactors;
`reactor_change_registration`; thread names and priorities; failure of `fcntl`
and `epoll_ctl`; `command_timed_out`, which ends the process; parked links, LE buffers
(the same code on other counters) and reuse of connection handles in the
scheduler; streaming mode, negotiation of the ERTM options, LE credits, statistics; in
`L2capChannel` connections that both devices start at once, the timers of a link that is being set up or taken
down, outcomes of `btm_sec_disconnect` other than `BTM_CMD_STARTED` in the link timeout, a connection request of a second
link (there is one link at a time), renegotiation of a refused configuration (the outcome, an open channel or a
disconnection, is chosen by the scenario), reconfiguration of an open channel by its own upper layer, fixed and LE channels, echo, CONNECT_RSP
"pending" by the upper layer, malformed commands; in `BtmSecurity` pairing, authorisation, remote names, role
switch, legacy devices and LE.  Not begun: the rest of BTM, SMP, GATT, SDP, RFCOMM, AVDTP,
BTA, btif, UIPC, module life cycle.  Left out for good: packet layout, codecs,
the snoop log, the service daemon, test tools.

## 10. Plan

The part below the profiles is modelled: threads, timers, HCI, links, channels, their security
and their retransmission mode.  In this order:

1. Proofs: in `Ertm`, `SrejHoldsFrame` and the part of `AckedIsDelivered` about one end.
2. `L2capChannel`: connections from both sides at once; `LeCredits` (`l2c_ble.cc`).
3. `HciLayer`: the command timeout against a late answer, `transmit_fragment` cut into steps, and the futures of
   `transmit_command_futured` when closures are dropped at shutdown.
   `L2capLink`: reuse of connection handles, and the LE counters.
4. `ModuleLifecycle`: `btcore/src/module.cc` and `btif/src/stack_manager.cc`, the
   order of start-up and shutdown and the events posted between threads.
5. `RfcommPort` (credits, two multiplexers that connect at once), `GattClient`
   (command queue, indications and confirmations), `ProfileQueue`
   (`btif_profile_queue.cc`), `SocketThread` (`btif_sock_thread.cc`), `Uipc`
   with the audio HAL's control channel, `BtifConfig` (the configuration file across a crash).
