------------------------------ MODULE HciLayer ------------------------------
(***************************************************************************)
(* hci/src/hci_layer.cc: the command path of the HCI layer.  Threads of    *)
(* the stack enqueue commands; the message loop of the HCI thread moves a  *)
(* command to commands_pending_response and transmits it; the thread of    *)
(* the HAL receives the controller's events, matches them with the pending *)
(* commands and recomputes command_credits.  A shutdown may follow, and    *)
(* another start-up: the module's variables are static.                    *)
(*                                                                         *)
(* A step is a section under command_credits_mutex or under                *)
(* commands_pending_response_mutex.  The controller is external: it holds  *)
(* at most window commands, answers the commands of one opcode in order,   *)
(* and reports window in every event.                                      *)
(***************************************************************************)
EXTENDS Integers, Sequences, FiniteSets, FiniteSetsExt, SequencesExt

CONSTANTS Commands,      \* the commands the stack sends, each once
          Alike,         \* the commands that share one opcode
          Futured,       \* those sent with transmit_command_futured; the others
                         \* have a complete_callback and a status_callback
          Vendor,        \* the vendor specific commands
          ImproperVs,    \* TRUE: the controller may answer a vendor command
                         \* with another vendor opcode
          Windows,       \* the values a controller may give Num_HCI_Command_Packets
          MaxNops,       \* bound on the events with HCI_COMMAND_NONE
          MaxSessions,   \* bound on the calls of hci_module_start_up
          None

ASSUME HciAssumption ==
  /\ Alike \subseteq Commands /\ Vendor \subseteq Commands /\ Futured \subseteq Commands
  /\ Windows \subseteq Nat \ {0} /\ MaxSessions \in Nat \ {0} /\ MaxNops \in Nat
  /\ ImproperVs \in BOOLEAN
  /\ None \notin Commands
  /\ \A c \in Commands : c \notin {"quit", "alike", "improper", "none"}

VARIABLES lpc,                        \* where the module's life cycle is
          session,                    \* number of start-ups
          window,                     \* this controller's Num_HCI_Command_Packets
          command_credits, command_queue,
          tasks,                      \* closures posted to message_loop_
          commands_pending_response,
          timer,                      \* command_response_timer
          mpc, mcur,                  \* the message loop and its wait_entry
          chip,                       \* commands the controller works on
          events,                     \* events not yet received
          nops,                       \* number of HCI_COMMAND_NONE events
          rpc, rx,                    \* the HAL thread and its event
          enqueued, sent,             \* commands in the order of these steps
          born,                       \* born[c]: session c was enqueued in
          freed,                      \* command buffers freed
          answered,                   \* commands with a callback called or a future ready
          untold                      \* commands whose event called nothing

vars == <<lpc, session, window, command_credits, command_queue, tasks,
          commands_pending_response, timer, mpc, mcur, chip, events, nops, rpc, rx,
          enqueued, sent, born, freed, answered, untold>>

Quit == "quit"

\* The opcode: Alike commands have the same, and the vendor group is kept
\* when the controller uses an improper opcode.
Opcode(c) == [vendor |-> c \in Vendor, ocf |-> IF c \in Alike THEN "alike" ELSE c]
ImproperOpcode == [vendor |-> TRUE, ocf |-> "improper"]
NoneOpcode == [vendor |-> FALSE, ocf |-> "none"]     \* HCI_COMMAND_NONE

Event == [opcode: {Opcode(c) : c \in Commands} \cup {ImproperOpcode, NoneOpcode},
          credits: Windows, about: Commands \cup {None},
          status: BOOLEAN]            \* HCI_COMMAND_STATUS_EVT or HCI_COMMAND_COMPLETE_EVT
NoEvent == [entry |-> None, about |-> None, credits |-> 0, status |-> FALSE]

\* The types: in particular only commands are freed and answered.
TypeOK ==
  /\ lpc \in {"up", "quitting", "joining", "closing", "down"}
  /\ session \in 1..MaxSessions /\ window \in Windows
  /\ command_credits \in Int
  /\ command_queue \in Seq(Commands) /\ commands_pending_response \in Seq(Commands)
  /\ tasks \in Seq(Commands \cup {Quit})
  /\ timer \in {"off", "set", "null"}
  /\ mpc \in {"idle", "transmit", "update", "exited"} /\ mcur \in Commands \cup {None}
  /\ chip \in Seq(Commands) /\ events \in Seq(Event) /\ nops \in 0..MaxNops
  /\ rpc \in {"idle", "credits", "finish"}
  /\ rx \in [entry: Commands \cup {None}, about: Commands \cup {None}, credits: {0} \cup Windows,
             status: BOOLEAN]
  /\ enqueued \in Seq(Commands) /\ sent \in Seq(Commands)
  /\ born \in [Commands -> 0..MaxSessions]
  /\ freed \subseteq Commands /\ answered \subseteq Commands /\ untold \subseteq Commands

\* hci_module_start_up has returned and the message loop runs.
Init ==
  /\ lpc = "up" /\ session = 1 /\ window \in Windows
  /\ command_credits = 1 /\ command_queue = <<>> /\ tasks = <<>>
  /\ commands_pending_response = <<>> /\ timer = "off"
  /\ mpc = "idle" /\ mcur = None
  /\ chip = <<>> /\ events = <<>> /\ nops = 0
  /\ rpc = "idle" /\ rx = NoEvent
  /\ enqueued = <<>> /\ sent = <<>>
  /\ born = [c \in Commands |-> 0] /\ freed = {} /\ answered = {} /\ untold = {}

stackVars == <<enqueued, born>>
loopVars == <<mpc, mcur, sent>>
chipVars == <<chip, events, nops>>
rxVars == <<rpc, rx, answered, untold>>
lifeVars == <<lpc, session, window>>

\* message_loop_ != nullptr
LoopExists == mpc # "exited"

-----------------------------------------------------------------------------
\* Mutant of TransmitCommand: the credit is not used up.
TransmitKeepsCredit(c) ==
  /\ born[c] = 0
  /\ born' = [born EXCEPT ![c] = session]
  /\ enqueued' = Append(enqueued, c)
  /\ \/ command_credits > 0 /\ tasks' = Append(tasks, c) /\ UNCHANGED command_queue
     \/ command_credits <= 0 /\ command_queue' = Append(command_queue, c) /\ UNCHANGED tasks
  /\ UNCHANGED <<command_credits, freed, commands_pending_response, timer, loopVars, chipVars,
                 rxVars, lifeVars>>

\* transmit_command, transmit_command_futured: enqueue_command under
\* command_credits_mutex.
TransmitCommand(c) ==
  /\ born[c] = 0
  /\ born' = [born EXCEPT ![c] = session]
  /\ enqueued' = Append(enqueued, c)
  /\ \/ /\ command_credits > 0 /\ LoopExists
        /\ tasks' = Append(tasks, c)
        /\ command_credits' = command_credits - 1
        /\ UNCHANGED <<command_queue, freed>>
     \/ /\ command_credits > 0 /\ ~LoopExists    \* HCI Layer was shut down
        /\ freed' = freed \cup {c}
        /\ UNCHANGED <<command_queue, tasks, command_credits>>
     \/ /\ command_credits <= 0
        /\ command_queue' = Append(command_queue, c)
        /\ UNCHANGED <<tasks, command_credits, freed>>
  /\ UNCHANGED <<commands_pending_response, timer, loopVars, chipVars, rxVars, lifeVars>>

\* event_command_ready on the message loop: the command is pending before it is
\* transmitted.
CommandReady ==
  /\ mpc = "idle"
  /\ tasks # <<>> /\ Head(tasks) # Quit
  /\ tasks' = Tail(tasks)
  /\ mcur' = Head(tasks)
  /\ commands_pending_response' = Append(commands_pending_response, Head(tasks))
  /\ mpc' = "transmit"
  /\ UNCHANGED <<command_credits, command_queue, timer, sent, freed, chipVars, rxVars,
                 stackVars, lifeVars>>

\* Mutant of Transmit: the command is freed as other packets are.
TransmitAndFree ==
  /\ mpc = "transmit"
  /\ chip' = Append(chip, mcur)
  /\ sent' = Append(sent, mcur)
  /\ freed' = freed \cup {mcur}
  /\ mpc' = "update"
  /\ UNCHANGED <<command_credits, command_queue, tasks, commands_pending_response, timer,
                 mcur, events, nops, rxVars, stackVars, lifeVars>>

\* packet_fragmenter->fragment_and_dispatch, transmit_fragment, hci_transmit
Transmit ==
  /\ mpc = "transmit"
  /\ chip' = Append(chip, mcur)
  /\ sent' = Append(sent, mcur)
  /\ mpc' = "update"
  /\ UNCHANGED <<command_credits, command_queue, tasks, commands_pending_response, timer,
                 mcur, events, nops, freed, rxVars, stackVars, lifeVars>>

\* update_command_response_timer
TimerFor(pending) ==
  IF timer = "null" THEN "null" ELSE IF pending = <<>> THEN "off" ELSE "set"

TransmitDone ==
  /\ mpc = "update"
  /\ timer' = TimerFor(commands_pending_response)
  /\ mpc' = "idle" /\ mcur' = None
  /\ UNCHANGED <<command_credits, command_queue, tasks, commands_pending_response, sent,
                 freed, chipVars, rxVars, stackVars, lifeVars>>

-----------------------------------------------------------------------------
\* The controller answers a command, the oldest of its opcode, with a command
\* complete or a command status event.
ControllerAnswers(i) ==
  /\ i \in DOMAIN chip
  /\ \A j \in 1..(i - 1) : Opcode(chip[j]) # Opcode(chip[i])
  /\ \E op \in {Opcode(chip[i])} \cup
               (IF ImproperVs /\ chip[i] \in Vendor THEN {ImproperOpcode} ELSE {}),
        st \in BOOLEAN :
       events' = Append(events, [opcode |-> op, credits |-> window, about |-> chip[i],
                                 status |-> st])
  /\ chip' = RemoveAt(chip, i)
  /\ UNCHANGED <<nops, command_credits, command_queue, tasks, commands_pending_response, timer,
                 freed, loopVars, rxVars, stackVars, lifeVars>>

\* A command complete event that only reports the window.
ControllerReports ==
  /\ nops < MaxNops /\ lpc = "up"
  /\ nops' = nops + 1
  /\ events' = Append(events, [opcode |-> NoneOpcode, credits |-> window, about |-> None,
                                 status |-> FALSE])
  /\ UNCHANGED <<chip, command_credits, command_queue, tasks, commands_pending_response, timer,
                 freed, loopVars, rxVars, stackVars, lifeVars>>

\* Mutant of GetWaitingCommand: the newest command of the opcode is taken.
GetNewestCommand(opcode) ==
  LET same == {i \in DOMAIN commands_pending_response :
                 Opcode(commands_pending_response[i]) = opcode}
      vs   == {i \in DOMAIN commands_pending_response :
                 opcode.vendor /\ commands_pending_response[i] \in Vendor}
  IN IF same # {} THEN Max(same) ELSE IF vs # {} THEN Max(vs) ELSE 0

\* get_waiting_command: the position of the first pending command with the
\* opcode or, failing that, of the first vendor command for a vendor opcode.
GetWaitingCommand(opcode) ==
  LET same == {i \in DOMAIN commands_pending_response :
                 Opcode(commands_pending_response[i]) = opcode}
      vs   == {i \in DOMAIN commands_pending_response :
                 opcode.vendor /\ commands_pending_response[i] \in Vendor}
  IN IF same # {} THEN Min(same) ELSE IF vs # {} THEN Min(vs) ELSE 0

\* filter_incoming_event, a command complete or command status event.
EventReceived ==
  /\ rpc = "idle"
  /\ events # <<>>
  /\ events' = Tail(events)
  /\ LET e == Head(events)
         i == GetWaitingCommand(e.opcode)
     IN /\ rx' = [about |-> e.about, credits |-> e.credits, status |-> e.status,
                  entry |-> IF i = 0 THEN None ELSE commands_pending_response[i]]
        /\ commands_pending_response' = IF i = 0 THEN commands_pending_response
                                        ELSE RemoveAt(commands_pending_response, i)
  /\ rpc' = "credits"
  /\ UNCHANGED <<command_credits, command_queue, tasks, timer, chip, nops, answered, untold,
                 freed, loopVars, stackVars, lifeVars>>

\* process_command_credits, under command_credits_mutex and message_loop_mutex
ProcessCommandCredits ==
  /\ rpc = "credits"
  /\ \/ /\ LoopExists
        /\ LET credits == rx.credits - Len(commands_pending_response)
               n == Max({0, Min({credits, Len(command_queue)})})
           IN /\ tasks' = tasks \o SubSeq(command_queue, 1, n)
              /\ command_queue' = SubSeq(command_queue, n + 1, Len(command_queue))
              /\ command_credits' = credits - n
     \/ /\ ~LoopExists
        /\ UNCHANGED <<tasks, command_queue, command_credits>>
  /\ rpc' = "finish"
  /\ UNCHANGED <<commands_pending_response, timer, rx, answered, untold, freed, loopVars, chipVars,
                 stackVars, lifeVars>>

\* Mutant of EventDone: only the callbacks are called, no future is readied.
EventDoneNoFuture ==
  /\ rpc = "finish"
  /\ timer' = IF rx.entry = None THEN timer ELSE TimerFor(commands_pending_response)
  /\ answered' = answered \cup ({rx.entry} \ (Futured \cup {None}))
  /\ freed' = freed \cup ({rx.entry} \ {None})
  /\ rpc' = "idle" /\ rx' = NoEvent
  /\ UNCHANGED <<untold, command_credits, command_queue, tasks, commands_pending_response,
                 loopVars, chipVars, stackVars, lifeVars>>

\* Mutant of EventDone: the timer is left as it is.
EventDoneNoUpdate ==
  /\ rpc = "finish"
  /\ answered' = answered \cup ({rx.entry} \ {None})
  /\ freed' = freed \cup ({rx.entry} \ {None})
  /\ rpc' = "idle" /\ rx' = NoEvent
  /\ UNCHANGED <<untold, timer, command_credits, command_queue, tasks,
                 commands_pending_response, loopVars, chipVars, stackVars, lifeVars>>

\* A command complete event calls complete_callback or readies complete_future; a
\* command status event calls status_callback, which a futured command has not.
EventCalls == ~rx.status \/ rx.entry \notin Futured

\* The rest of filter_incoming_event: the timer, the callback or future, and
\* the buffers are freed (by the callback, if it has them).
EventDone ==
  /\ rpc = "finish"
  /\ \/ /\ rx.entry # None
        /\ timer' = TimerFor(commands_pending_response)
        /\ \/ EventCalls /\ answered' = answered \cup {rx.entry} /\ UNCHANGED untold
           \/ ~EventCalls /\ untold' = untold \cup {rx.entry} /\ UNCHANGED answered
        /\ freed' = freed \cup {rx.entry}
     \/ rx.entry = None /\ UNCHANGED <<timer, answered, untold, freed>>
  /\ rpc' = "idle" /\ rx' = NoEvent
  /\ UNCHANGED <<command_credits, command_queue, tasks, commands_pending_response, loopVars,
                 chipVars, stackVars, lifeVars>>

-----------------------------------------------------------------------------
\* hci_module_shut_down: the timers are freed, the quit closure is posted, ...
ShutDown ==
  /\ lpc = "up" /\ session < MaxSessions
  /\ timer' = "null"
  /\ lpc' = "quitting"
  /\ UNCHANGED <<session, window, command_credits, command_queue, tasks, commands_pending_response,
                 freed, loopVars, chipVars, rxVars, stackVars>>

ShutDownQuits ==
  /\ lpc = "quitting"
  /\ tasks' = Append(tasks, Quit)
  /\ lpc' = "joining"
  /\ UNCHANGED <<session, window, command_credits, command_queue, commands_pending_response, timer,
                 freed, loopVars, chipVars, rxVars, stackVars>>

\* ... the message loop ends and is deleted with the closures behind the quit, ...
LoopQuits ==
  /\ mpc = "idle"
  /\ tasks # <<>> /\ Head(tasks) = Quit
  /\ tasks' = <<>>
  /\ mpc' = "exited"
  /\ UNCHANGED <<command_credits, command_queue, commands_pending_response, timer, mcur, sent,
                 freed, chipVars, rxVars, stackVars, lifeVars>>

\* ... the thread is joined, hci_close ends the callbacks ...
ShutDownCloses ==
  /\ lpc = "joining"
  /\ mpc = "exited" /\ rpc = "idle"
  /\ chip' = <<>> /\ events' = <<>> /\ UNCHANGED nops
  /\ lpc' = "closing"
  /\ UNCHANGED <<session, window, command_credits, command_queue, tasks, commands_pending_response,
                 timer, freed, loopVars, rxVars, stackVars>>

\* ... and the list is freed (its commands are not).
ShutDownEnds ==
  /\ lpc = "closing"
  /\ commands_pending_response' = <<>>
  /\ lpc' = "down"
  /\ UNCHANGED <<session, window, command_credits, command_queue, tasks, timer, freed, loopVars,
                 chipVars, rxVars, stackVars>>

\* hci_module_start_up, up to the message loop's hci_initialize.
StartUp ==
  /\ lpc = "down"
  /\ session' = session + 1
  /\ command_credits' = 1
  /\ timer' = "off"
  /\ mpc' = "idle"
  /\ lpc' = "up"
  /\ UNCHANGED <<window, command_queue, tasks, commands_pending_response, mcur, sent, freed,
                 chipVars, rxVars, stackVars>>

LoopStep == CommandReady \/ Transmit \/ TransmitDone \/ LoopQuits
RxStep == EventReceived \/ ProcessCommandCredits \/ EventDone
ControllerStep == \E i \in DOMAIN chip : ControllerAnswers(i)
LifeStep == ShutDownQuits \/ ShutDownCloses \/ ShutDownEnds \/ StartUp

Next == \/ \E c \in Commands : TransmitCommand(c)
        \/ LoopStep \/ RxStep \/ ControllerStep \/ ControllerReports
        \/ ShutDown \/ LifeStep

Spec == Init /\ [][Next]_vars

\* The threads run and the controller answers every command it has.
FairSpec == Spec /\ WF_vars(LoopStep) /\ WF_vars(RxStep) /\ WF_vars(ControllerStep)
                 /\ WF_vars(LifeStep)

-----------------------------------------------------------------------------
\* A controller that takes one command at a time, and reports credits only with
\* its answers, is never sent a second command before it has answered the
\* first, whichever threads enqueue meanwhile and across a restart.
OneAtATime == window = 1 /\ nops = 0 => Len(chip) <= 1

\* The commands of a session reach the controller in the order they were
\* enqueued, whether or not they had to wait for credits.
SentInOrder ==
  LET place(c) == CHOOSE i \in DOMAIN enqueued : enqueued[i] = c
  IN \A i, j \in DOMAIN sent :
       i < j /\ born[sent[i]] = born[sent[j]] => place(sent[i]) < place(sent[j])

\* Commands are sent in order, and an event reaches the callback of the command
\* it answers, also when several commands with one opcode are pending and
\* others overtake them.
EventReachesItsCommand == SentInOrder /\ (rpc # "idle" => rx.entry = rx.about)

\* transmit_fragment: "HCI command packets are freed on a different thread when
\* the matching event is received."  A command is not freed while the message
\* loop or the controller still needs it.
NotFreedInUse ==
  /\ mpc = "transmit" => mcur \notin freed
  /\ \A i \in DOMAIN chip : chip[i] \notin freed
  /\ \A i \in DOMAIN tasks : tasks[i] \notin freed

\* The response timer runs exactly while commands are pending, except in the
\* moments where one of the threads is about to update it: a timer left running
\* would restart the Bluetooth process, a timer left off would hide a dead
\* controller.
TimerTracksPending ==
  /\ TypeOK
  /\ timer # "null" /\ mpc \notin {"transmit", "update"} /\ rpc = "idle"
       => (timer = "set" <=> commands_pending_response # <<>>)

\* Every command is answered: unless the layer is shut down first, a callback of
\* it is called or its future readied.  The one exception is a futured command
\* that the controller answers with a command status event: its entry is freed,
\* no one is told, and future_await in its caller never returns.
EveryCommandAnswered ==
  \A c \in Commands :
    born[c] = session /\ lpc = "up"
      ~> lpc # "up" \/ c \in answered \/ c \in untold \cap Futured

\* enqueue_command: "HCI Layer was shut down", and the command is freed.  A
\* command is sent in the session it was enqueued in.
SentInItsSession == mpc = "transmit" => born[mcur] = session

=============================================================================
