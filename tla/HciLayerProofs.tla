---------------------------- MODULE HciLayerProofs ----------------------------
(***************************************************************************)
(* Proofs about the command path of hci/src/hci_layer.cc for any set of    *)
(* commands, any opcodes shared between them, any credits of the           *)
(* controller and any number of restarts.  The argument: a command is in   *)
(* one place at a time, and the commands of one opcode are pending in the  *)
(* order in which the controller answers them.                             *)
(***************************************************************************)
EXTENDS HciLayer, ListLemmas

\* A controller that answers a vendor command with an improper opcode is
\* understood only if no other vendor command can be pending.
ProperAnswers == ImproperVs => \A c, d \in Vendor : c = d

\* Where a command can be.
Queued == Range(command_queue)
Posted == Range(tasks)
Transmitting == IF mpc = "transmit" THEN {mcur} ELSE {}
OnChip == Range(chip)
Answered == {events[i].about : i \in DOMAIN events} \ {None}
Receiving == {rx.entry} \ {None}
Pending == Range(commands_pending_response)

-----------------------------------------------------------------------------
\* The life cycle of the module: which threads still run in which phase.
LifeCycle ==
  /\ lpc \in {"up", "quitting"} => mpc # "exited"
  /\ lpc \in {"closing", "down"} =>
       mpc = "exited" /\ rpc = "idle" /\ chip = <<>> /\ events = <<>>
  /\ lpc = "down" => commands_pending_response = <<>>
  /\ timer = "null" <=> lpc # "up"
  /\ lpc # "up" => session < MaxSessions
  /\ mpc = "exited" => tasks = <<>>
  /\ mpc = "transmit" => mcur \in Commands
  /\ Quit \in Posted <=> lpc = "joining" /\ mpc # "exited"
  /\ rpc = "idle" => rx = NoEvent

\* No list holds a command twice.
Once ==
  /\ NoRepeat(command_queue) /\ NoRepeat(tasks)
  /\ NoRepeat(commands_pending_response) /\ NoRepeat(chip)
  /\ \A i, j \in DOMAIN events :
       events[i].about = events[j].about => events[i].about = None \/ i = j

\* A command is in one place at a time: waiting, pending, with the HAL thread or
\* freed; while pending it is being transmitted, with the controller or
\* answered.  A command that was not enqueued yet is nowhere.
Places ==
  /\ Queued \cap Posted = {}
  /\ (Queued \cup Posted) \cap (Pending \cup Receiving \cup freed) = {}
  /\ Pending \cap (Receiving \cup freed) = {}
  /\ Receiving \cap freed = {}
  /\ Transmitting \cap (OnChip \cup Answered) = {}
  /\ OnChip \cap Answered = {}
  /\ Transmitting \cup OnChip \cup Answered \subseteq Pending
  /\ lpc \notin {"closing", "down"} => Pending \subseteq Transmitting \cup OnChip \cup Answered
  /\ \A c \in Commands :
       born[c] = 0 => c \notin Queued \cup Posted \cup Pending \cup Receiving \cup freed

\* If y is answered, or with the controller, then x was answered before it or is
\* ahead of it.
AnsweredFirst(x, y) ==
  /\ \A m \in DOMAIN events :
       events[m].about = y => \E k \in DOMAIN events : k < m /\ events[k].about = x
  /\ \A m \in DOMAIN chip :
       chip[m] = y => x \in Answered \/ \E k \in DOMAIN chip : k < m /\ chip[k] = x

\* The commands of one opcode are pending in the order of their answers.
AnswerOrder ==
  \A i, j \in DOMAIN commands_pending_response :
    \A x, y \in Commands :
      /\ i < j /\ Opcode(x) = Opcode(y)
      /\ x = commands_pending_response[i] /\ y = commands_pending_response[j]
      => AnsweredFirst(x, y)

\* An event says which command it answers, and reports the window.
EventsFaithful ==
  /\ \A m \in DOMAIN events :
       LET e == events[m]
       IN /\ e.credits = window
          /\ \/ e.about = None /\ e.opcode = NoneOpcode
             \/ e.about \in Commands /\ e.opcode = Opcode(e.about)
             \/ e.about \in Vendor /\ ImproperVs /\ e.opcode = ImproperOpcode
  /\ rpc # "idle" => rx.credits = window
  /\ rx.entry = rx.about

\* The timer is right whenever no thread is about to update it; an event that
\* matched no command changes nothing.
TimerRight ==
  timer # "null" /\ mpc \notin {"transmit", "update"} /\ (rpc = "idle" \/ rx.entry = None)
    => (timer = "set" <=> commands_pending_response # <<>>)

\* The commands were enqueued once, in the sessions so far, and sent later.
Births ==
  /\ \A c \in Commands : born[c] <= session /\ (born[c] # 0 <=> c \in Range(enqueued))
  /\ NoRepeat(enqueued)
  /\ Range(sent) \subseteq Range(enqueued)

Line == Commands \cup {Quit}

\* x was enqueued before y.
EnqueuedFirst(x, y) ==
  \A a, b \in DOMAIN enqueued : enqueued[a] = x /\ enqueued[b] = y => a < b

\* The pairs whose order is right: commands of different sessions (or not both
\* commands), or the first was enqueued first.
Earlier ==
  {p \in Line \X Line :
     p[1] \in Commands /\ p[2] \in Commands /\ born[p[1]] = born[p[2]] =>
       EnqueuedFirst(p[1], p[2])}

\* The commands of a session are in the order they were enqueued, along their
\* way from the queue to the controller; credits are left only when the queue
\* holds no command of this session, which a new one could overtake.
LineOrder ==
  /\ InOrder(Earlier, sent) /\ InOrder(Earlier, tasks) /\ InOrder(Earlier, command_queue)
  /\ AllBefore(Earlier, Range(sent), Transmitting \cup Posted \cup Queued)
  /\ AllBefore(Earlier, Transmitting, Posted \cup Queued)
  /\ AllBefore(Earlier, Posted, Queued)
  /\ command_credits > 0 => \A c \in Queued : born[c] < session

\* The commands and answers under way; the quit closure is not a command.
Quits == IF lpc = "joining" /\ mpc # "exited" THEN 1 ELSE 0
Transmits == IF mpc = "transmit" THEN 1 ELSE 0
Receives == IF rpc = "credits" THEN 1 ELSE 0
UnderWay == (Len(tasks) - Quits) + Transmits + Len(chip) + Len(events) + Receives

\* With a window of one there is one credit or one command under way.
OneToken ==
  window = 1 /\ nops = 0 => UnderWay <= 1 /\ command_credits + UnderWay <= 1

IInv == /\ TypeOK /\ LifeCycle /\ Once /\ Places /\ AnswerOrder /\ EventsFaithful
        /\ TimerRight /\ Births /\ LineOrder /\ OneToken

-----------------------------------------------------------------------------
\* The lists of the module have the elements of their positions.
LEMMA Lists ==
  ASSUME TypeOK
  PROVE  /\ Listed(Commands, command_queue) /\ Listed(Line, tasks)
         /\ Listed(Commands, commands_pending_response) /\ Listed(Commands, chip)
         /\ Listed(Event, events) /\ Listed(Commands, enqueued) /\ Listed(Commands, sent)
  BY ElementsOf DEF TypeOK, Line

LEMMA ListsNext ==
  ASSUME TypeOK'
  PROVE  /\ Listed(Commands, command_queue') /\ Listed(Line, tasks')
         /\ Listed(Commands, commands_pending_response') /\ Listed(Commands, chip')
         /\ Listed(Event, events') /\ Listed(Commands, enqueued') /\ Listed(Commands, sent')
  BY ElementsOf DEF TypeOK, Line

\* What a step leaves alone.
LEMMA UnchangedTypes ==
  ASSUME TypeOK,
         chip' \in Seq(Commands) /\ events' \in Seq(Event),
         tasks' \in Seq(Commands \cup {Quit}) /\ command_queue' \in Seq(Commands),
         command_credits' \in Int /\ freed' \subseteq Commands,
         enqueued' \in Seq(Commands) /\ born' \in [Commands -> 0..MaxSessions],
         /\ lpc' = lpc /\ session' = session /\ window' = window /\ nops' = nops
         /\ commands_pending_response' = commands_pending_response /\ timer' = timer
         /\ mpc' = mpc /\ mcur' = mcur /\ sent' = sent /\ rpc' = rpc /\ rx' = rx
         /\ answered' = answered /\ untold' = untold
  PROVE  TypeOK'
<1>1. /\ lpc' \in {"up", "quitting", "joining", "closing", "down"}
      /\ session' \in 1..MaxSessions /\ window' \in Windows /\ nops' \in 0..MaxNops
      /\ timer' \in {"off", "set", "null"} /\ rpc' \in {"idle", "credits", "finish"}
  BY Zenon DEF TypeOK
<1>2. /\ mpc' \in {"idle", "transmit", "update", "exited"} /\ mcur' \in Commands \cup {None}
      /\ commands_pending_response' \in Seq(Commands) /\ sent' \in Seq(Commands)
      /\ answered' \subseteq Commands /\ untold' \subseteq Commands
  BY Zenon DEF TypeOK
<1>3. rx' \in [entry: Commands \cup {None}, about: Commands \cup {None}, credits: {0} \cup Windows,
                 status: BOOLEAN]
  BY Zenon DEF TypeOK
<1> QED
  BY <1>1, <1>2, <1>3, Zenon DEF TypeOK

LEMMA SameEarlier ==
  ASSUME UNCHANGED stackVars
  PROVE  Earlier' = Earlier
  BY DEF stackVars, Earlier, EnqueuedFirst

LEMMA EarlierPair ==
  ASSUME NEW x \in Line, NEW y \in Line
  PROVE  <<x, y>> \in Earlier <=>
           (x \in Commands /\ y \in Commands /\ born[x] = born[y] => EnqueuedFirst(x, y))
  BY DEF Earlier

LEMMA EmptyList ==
  /\ Range(<<>>) = {} /\ NoRepeat(<<>>) /\ \A R : InOrder(R, <<>>)
  /\ Len(<<>>) = 0 /\ DOMAIN <<>> = {}
<1>1. Len(<<>>) = 0 /\ DOMAIN <<>> = {}
  OBVIOUS
<1>2. NoRepeat(<<>>) /\ \A R : InOrder(R, <<>>)
  BY <1>1, Zenon DEF NoRepeat, InOrder
<1>3. Range(<<>>) = {}
  BY <1>1 DEF Range
<1> QED
  BY <1>1, <1>2, <1>3, Zenon

LEMMA InitIInv == Init => IInv
<1> SUFFICES ASSUME Init PROVE IInv
  OBVIOUS
<1> USE HciAssumption
<1>1. TypeOK
  BY DEF Init, TypeOK, NoEvent
<1>2. /\ Queued = {} /\ Posted = {} /\ Transmitting = {} /\ OnChip = {} /\ Answered = {}
      /\ Receiving = {} /\ Pending = {}
  BY EmptyList DEF Init, Queued, Posted, Transmitting, OnChip, Answered, Receiving, Pending, NoEvent
<1>3. LifeCycle
  BY <1>2 DEF Init, LifeCycle, NoEvent
<1>4. Once
  BY EmptyList DEF Init, Once
<1>5. Places
  BY <1>2 DEF Places, Init
<1>6. AnswerOrder
  BY EmptyList DEF Init, AnswerOrder, AnsweredFirst
<1>7. EventsFaithful
  BY EmptyList DEF Init, EventsFaithful, NoEvent
<1>8. TimerRight
  BY DEF Init, TimerRight
<1>9. Births
  BY EmptyList DEF Init, Births
<1>10. LineOrder
  <2>1. InOrder(Earlier, sent) /\ InOrder(Earlier, tasks) /\ InOrder(Earlier, command_queue)
    BY EmptyList DEF Init
  <2> QED
    BY <1>2, <2>1, EmptyList DEF Init, LineOrder, AllBefore
<1>11. OneToken
  BY DEF Init, OneToken, UnderWay, Quits, Transmits, Receives
<1> QED
  BY <1>1, <1>3, <1>4, <1>5, <1>6, <1>7, <1>8, <1>9, <1>10, <1>11 DEF IInv

-----------------------------------------------------------------------------
\* event_command_ready: the command at the head of the message loop becomes
\* pending and is the one that is transmitted next.
LEMMA CommandReadyKeeps ==
  ASSUME IInv, CommandReady
  PROVE  IInv'
<1> USE HciAssumption
<1> DEFINE c == Head(tasks)
<1>1. TypeOK /\ Listed(Line, tasks) /\ TailOf(Line, tasks', tasks) /\ c \in Commands
  <2>1. TypeOK /\ Listed(Line, tasks) /\ tasks \in Seq(Line)
    BY Lists DEF IInv, TypeOK, Line
  <2>2. TailOf(Line, tasks', tasks)
    BY <2>1, Tailed DEF CommandReady
  <2> QED
    BY <2>1, <2>2 DEF TailOf, CommandReady, Line
<1>2. AppendedTo(Commands, commands_pending_response', commands_pending_response, c)
  BY <1>1, Appended DEF CommandReady, TypeOK
<1>3. TypeOK'
  BY <1>1, <1>2 DEF TypeOK, CommandReady, TailOf, AppendedTo, Line, chipVars, rxVars, stackVars, lifeVars
<1>4. /\ Queued' = Queued /\ Posted = Posted' \cup {c} /\ Transmitting = {}
      /\ Transmitting' = {c} /\ OnChip' = OnChip /\ Answered' = Answered
      /\ Receiving' = Receiving /\ Pending' = Pending \cup {c}
  BY <1>1, <1>2 DEF Queued, Posted, Transmitting, OnChip, Answered, Receiving, Pending,
     CommandReady, TailOf, AppendedTo, chipVars, rxVars
<1>5. c \in Posted /\ c \notin Posted' /\ NoRepeat(tasks')
  BY <1>1, <1>4 DEF IInv, Once, TailOf, Posted
<1>6. LifeCycle'
  BY <1>1, <1>4 DEF IInv, LifeCycle, CommandReady, chipVars, rxVars, lifeVars, NoEvent
<1>7. Places'
  BY <1>4, <1>5 DEF IInv, Places, CommandReady, stackVars, lifeVars
<1>8. Once'
  BY <1>2, <1>4, <1>5 DEF IInv, Once, Places, Pending, AppendedTo, CommandReady, chipVars
<1>9. AnswerOrder'
  <2>1. c \notin Answered /\ c \notin OnChip
    BY <1>4, <1>5 DEF IInv, Places
  <2>2. events' = events /\ chip' = chip
    BY DEF CommandReady, chipVars
  <2>3. (\A m \in DOMAIN events : events[m].about # c) /\ (\A m \in DOMAIN chip : chip[m] # c)
    BY <1>1, <2>1, Lists DEF Answered, OnChip, Listed
  <2>4. DOMAIN commands_pending_response = 1..Len(commands_pending_response)
        /\ DOMAIN commands_pending_response' = 1..(Len(commands_pending_response) + 1)
        /\ Len(commands_pending_response) \in Nat
    BY <1>1, <1>2, <1>3, Lists, ListsNext DEF Listed, AppendedTo
  <2> SUFFICES ASSUME NEW i \in DOMAIN commands_pending_response',
                      NEW j \in DOMAIN commands_pending_response',
                      NEW x \in Commands, NEW y \in Commands, i < j, Opcode(x) = Opcode(y),
                      x = commands_pending_response'[i], y = commands_pending_response'[j]
               PROVE  AnsweredFirst(x, y)'
    BY DEF AnswerOrder
  <2>5. CASE j = Len(commands_pending_response) + 1
    BY <1>2, <2>2, <2>3, <2>5 DEF AppendedTo, AnsweredFirst
  <2>6. CASE j # Len(commands_pending_response) + 1
    <3>1. i \in DOMAIN commands_pending_response /\ j \in DOMAIN commands_pending_response
      BY <2>4, <2>6
    <3>2. x = commands_pending_response[i] /\ y = commands_pending_response[j]
      BY <1>2, <2>4, <3>1 DEF AppendedTo
    <3>3. AnsweredFirst(x, y)
      BY <3>1, <3>2 DEF IInv, AnswerOrder
    <3> QED
      BY <1>4, <2>2, <3>3 DEF AnsweredFirst
  <2> QED
    BY <2>5, <2>6
<1>10. EventsFaithful'
  BY DEF IInv, EventsFaithful, CommandReady, chipVars, rxVars, lifeVars
<1>11. TimerRight'
  BY DEF IInv, TimerRight, CommandReady
<1>12. Births'
  BY DEF IInv, Births, CommandReady, stackVars, lifeVars
<1>13. LineOrder'
  <2>1. Earlier' = Earlier
    BY SameEarlier DEF CommandReady
  <2>2. InOrder(Earlier, tasks') /\ AllBefore(Earlier, {c}, Posted')
    BY <1>1, TailInOrder DEF IInv, LineOrder, CommandReady, TypeOK, Line, Posted
  <2> QED
    BY <1>4, <1>5, <2>1, <2>2 DEF IInv, LineOrder, AllBefore, CommandReady, stackVars, lifeVars
<1>14. OneToken'
  BY <1>1 DEF IInv, OneToken, UnderWay, Quits, Transmits, Receives, CommandReady, TailOf, chipVars, rxVars, lifeVars
<1> QED
  BY <1>3, <1>6, <1>7, <1>8, <1>9, <1>10, <1>11, <1>12, <1>13, <1>14 DEF IInv

\* fragment_and_dispatch: the command goes to the controller, behind every
\* pending command of its opcode.
LEMMA TransmitKeeps ==
  ASSUME IInv, Transmit
  PROVE  IInv'
<1> USE HciAssumption
<1>1. TypeOK /\ mcur \in Commands /\ lpc \notin {"closing", "down"}
  BY DEF IInv, Transmit, LifeCycle
<1>2. AppendedTo(Commands, chip', chip, mcur) /\ AppendedTo(Commands, sent', sent, mcur)
  BY <1>1, Appended DEF Transmit, TypeOK
<1>3. TypeOK'
  BY <1>1, <1>2 DEF TypeOK, Transmit, AppendedTo, rxVars, stackVars, lifeVars
<1>4. /\ Queued' = Queued /\ Posted' = Posted /\ Transmitting = {mcur}
      /\ Transmitting' = {} /\ OnChip' = OnChip \cup {mcur} /\ Answered' = Answered
      /\ Receiving' = Receiving /\ Pending' = Pending
  BY <1>1, <1>2 DEF Queued, Posted, Transmitting, OnChip, Answered, Receiving, Pending,
     Transmit, AppendedTo, rxVars
<1>5. mcur \in Pending /\ mcur \notin OnChip /\ mcur \notin Answered
  BY <1>4 DEF IInv, Places
<1>6. LifeCycle'
  BY <1>1, <1>4 DEF IInv, LifeCycle, Transmit, rxVars, lifeVars, NoEvent
<1>7. Places'
  BY <1>4, <1>5 DEF IInv, Places, Transmit, stackVars, lifeVars
<1>8. Once'
  BY <1>2, <1>5 DEF IInv, Once, OnChip, AppendedTo, Transmit
<1>9. AnswerOrder'
  <2>1. /\ DOMAIN chip = 1..Len(chip) /\ DOMAIN chip' = 1..(Len(chip) + 1)
        /\ Len(chip) \in Nat
    BY <1>1, <1>2, <1>3, Lists, ListsNext DEF Listed, AppendedTo
  <2> SUFFICES ASSUME NEW i \in DOMAIN commands_pending_response,
                      NEW j \in DOMAIN commands_pending_response,
                      NEW x \in Commands, NEW y \in Commands, i < j, Opcode(x) = Opcode(y),
                      x = commands_pending_response[i], y = commands_pending_response[j]
               PROVE  AnsweredFirst(x, y)'
    BY DEF AnswerOrder, Transmit
  <2>2. AnsweredFirst(x, y) /\ x # y
    <3>1. DOMAIN commands_pending_response = 1..Len(commands_pending_response)
      BY <1>1, Lists DEF Listed
    <3>2. i # j
      BY <3>1
    <3> QED
      BY <3>2 DEF IInv, AnswerOrder, Once, NoRepeat
  <2>3. x \in Pending
    BY <1>1, Lists DEF Listed, Pending
  <2>4. ASSUME NEW m \in DOMAIN chip', chip'[m] = y
        PROVE  x \in Answered \/ \E k \in DOMAIN chip' : k < m /\ chip'[k] = x
    <3>1. CASE m \in DOMAIN chip
      BY <1>2, <2>1, <2>2, <2>4, <3>1 DEF AppendedTo, AnsweredFirst
    <3>2. CASE m = Len(chip) + 1
      <4>1. x \in OnChip \/ x \in Answered
        BY <1>1, <1>2, <1>4, <2>2, <2>3, <2>4, <3>2 DEF IInv, Places, AppendedTo
      <4>2. CASE x \in OnChip
        <5>1. PICK k \in 1..Len(chip) : chip[k] = x
          BY <1>1, <4>2, Lists DEF Listed, OnChip
        <5>2. k \in DOMAIN chip' /\ k < m /\ chip'[k] = x
          BY <1>2, <2>1, <3>2, <5>1 DEF AppendedTo
        <5> QED
          BY <5>2
      <4> QED
        BY <4>1, <4>2
    <3> QED
      BY <2>1, <3>1, <3>2
  <2> QED
    BY <1>4, <2>2, <2>4 DEF AnsweredFirst, Transmit
<1>10. EventsFaithful'
  BY DEF IInv, EventsFaithful, Transmit, rxVars, lifeVars
<1>11. TimerRight'
  BY DEF IInv, TimerRight, Transmit
<1>12. Births'
  <2>1. mcur \in Range(enqueued)
    BY <1>1, <1>5 DEF IInv, Births, Places
  <2> QED
    BY <1>2, <2>1 DEF IInv, Births, Transmit, AppendedTo, stackVars, lifeVars
<1>13. LineOrder'
  <2>1. Earlier' = Earlier
    BY SameEarlier DEF Transmit
  <2>2. AllBefore(Earlier, Range(sent), {mcur})
    BY <1>4 DEF IInv, LineOrder, AllBefore
  <2>3. InOrder(Earlier, sent')
    BY <1>1, <2>2, AppendedInOrder DEF IInv, LineOrder, Transmit, TypeOK
  <2> QED
    BY <1>2, <1>4, <2>1, <2>3 DEF IInv, LineOrder, AllBefore, AppendedTo, Transmit, stackVars, lifeVars
<1>14. OneToken'
  BY <1>1, <1>2 DEF IInv, TypeOK, OneToken, UnderWay, Quits, Transmits, Receives, Transmit, AppendedTo, rxVars, lifeVars
<1> QED
  BY <1>3, <1>6, <1>7, <1>8, <1>9, <1>10, <1>11, <1>12, <1>13, <1>14 DEF IInv

\* update_command_response_timer, after the transmission.
LEMMA TransmitDoneKeeps ==
  ASSUME IInv, TransmitDone
  PROVE  IInv'
<1>1. TypeOK'
  BY DEF IInv, TypeOK, TransmitDone, TimerFor, chipVars, rxVars, stackVars, lifeVars
<1>2. /\ Queued' = Queued /\ Posted' = Posted /\ Transmitting = {}
      /\ Transmitting' = {} /\ OnChip' = OnChip /\ Answered' = Answered
      /\ Receiving' = Receiving /\ Pending' = Pending
  BY DEF Queued, Posted, Transmitting, OnChip, Answered, Receiving, Pending,
     TransmitDone, chipVars, rxVars
<1>3. LifeCycle' /\ TimerRight'
  BY <1>2 DEF IInv, TypeOK, LifeCycle, TimerRight, TimerFor, TransmitDone, chipVars, rxVars, lifeVars, NoEvent
<1>4. Places' /\ Once' /\ EventsFaithful'
  BY <1>2 DEF IInv, Places, Once, EventsFaithful, TransmitDone, chipVars, rxVars, stackVars, lifeVars
<1>5. AnswerOrder'
  BY <1>2 DEF IInv, AnswerOrder, AnsweredFirst, TransmitDone, chipVars
<1>6. Births' /\ LineOrder'
  BY <1>2, SameEarlier DEF IInv, Births, LineOrder, TransmitDone, stackVars, lifeVars
<1>7. OneToken'
  BY DEF IInv, OneToken, UnderWay, Quits, Transmits, Receives, TransmitDone, chipVars, rxVars, lifeVars
<1> QED
  BY <1>1, <1>3, <1>4, <1>5, <1>6, <1>7 DEF IInv

\* The message loop ends with the quit closure and drops the closures behind it.
LEMMA LoopQuitsKeeps ==
  ASSUME IInv, LoopQuits
  PROVE  IInv'
<1>1. TypeOK /\ Listed(Line, tasks) /\ tasks' = <<>> /\ Quit \in Posted /\ Len(tasks) >= 1
  <2>1. TypeOK /\ Listed(Line, tasks) /\ TailOf(Line, Tail(tasks), tasks)
    BY Lists, Tailed DEF IInv, TypeOK, LoopQuits, Line
  <2> QED
    BY <2>1 DEF LoopQuits, TailOf, Posted
<1>2. TypeOK'
  BY <1>1 DEF TypeOK, LoopQuits, chipVars, rxVars, stackVars, lifeVars
<1>3. /\ Queued' = Queued /\ Posted' = {} /\ Transmitting = {}
      /\ Transmitting' = {} /\ OnChip' = OnChip /\ Answered' = Answered
      /\ Receiving' = Receiving /\ Pending' = Pending
  BY <1>1, EmptyList DEF Queued, Posted, Transmitting, OnChip, Answered, Receiving, Pending,
     LoopQuits, chipVars, rxVars
<1>4. LifeCycle' /\ TimerRight'
  BY <1>1, <1>3 DEF IInv, TypeOK, LifeCycle, TimerRight, LoopQuits, chipVars, rxVars, lifeVars, NoEvent
<1>5. Places' /\ EventsFaithful'
  BY <1>3 DEF IInv, Places, EventsFaithful, LoopQuits, chipVars, rxVars, stackVars, lifeVars
<1>6. Once'
  BY <1>1, EmptyList DEF IInv, Once, LoopQuits, chipVars
<1>7. AnswerOrder'
  BY <1>3 DEF IInv, AnswerOrder, AnsweredFirst, LoopQuits, chipVars
<1>8. Births' /\ LineOrder'
  <2>1. Earlier' = Earlier /\ InOrder(Earlier, tasks')
    BY <1>1, EmptyList, SameEarlier DEF LoopQuits
  <2> QED
    BY <1>3, <2>1 DEF IInv, Births, LineOrder, AllBefore, LoopQuits, stackVars, lifeVars
<1>9. OneToken'
  <2>1. Len(tasks') = 0 /\ Len(tasks) \in Nat /\ lpc = "joining"
    BY <1>1, EmptyList DEF IInv, LifeCycle, Listed
  <2> QED
    BY <1>1, <2>1 DEF IInv, OneToken, UnderWay, Quits, Transmits, Receives, TypeOK, LoopQuits, chipVars, rxVars, lifeVars
<1> QED
  BY <1>2, <1>4, <1>5, <1>6, <1>7, <1>8, <1>9 DEF IInv

-----------------------------------------------------------------------------
\* hci_module_shut_down: the timer is freed.
LEMMA ShutDownKeeps ==
  ASSUME IInv, ShutDown
  PROVE  IInv'
<1>1. TypeOK'
  BY DEF IInv, TypeOK, ShutDown, loopVars, chipVars, rxVars, stackVars
<1>2. /\ Queued' = Queued /\ Posted' = Posted /\ Transmitting' = Transmitting
      /\ OnChip' = OnChip /\ Answered' = Answered
      /\ Receiving' = Receiving /\ Pending' = Pending
  BY DEF Queued, Posted, Transmitting, OnChip, Answered, Receiving, Pending,
     ShutDown, loopVars, chipVars, rxVars
<1>3. LifeCycle' /\ TimerRight'
  BY <1>2 DEF IInv, LifeCycle, TimerRight, ShutDown, loopVars, chipVars, rxVars, NoEvent
<1>4. Places' /\ Once' /\ EventsFaithful'
  BY <1>2 DEF IInv, Places, Once, EventsFaithful, ShutDown, chipVars, rxVars, stackVars
<1>5. AnswerOrder'
  BY <1>2 DEF IInv, AnswerOrder, AnsweredFirst, ShutDown, chipVars
<1>6. Births' /\ LineOrder'
  BY <1>2, SameEarlier DEF IInv, Births, LineOrder, ShutDown, loopVars, stackVars
<1>7. OneToken'
  BY DEF IInv, OneToken, UnderWay, Quits, Transmits, Receives, ShutDown, loopVars, chipVars, rxVars
<1> QED
  BY <1>1, <1>3, <1>4, <1>5, <1>6, <1>7 DEF IInv

\* The quit closure is posted, once.
LEMMA ShutDownQuitsKeeps ==
  ASSUME IInv, ShutDownQuits
  PROVE  IInv'
<1> USE HciAssumption
<1>1. TypeOK /\ AppendedTo(Line, tasks', tasks, Quit) /\ Quit \notin Posted
  BY Appended DEF IInv, TypeOK, LifeCycle, ShutDownQuits, Line
<1>2. TypeOK'
  BY <1>1 DEF TypeOK, ShutDownQuits, AppendedTo, Line, loopVars, chipVars, rxVars, stackVars
<1>3. /\ Queued' = Queued /\ Posted' = Posted \cup {Quit} /\ Transmitting' = Transmitting
      /\ OnChip' = OnChip /\ Answered' = Answered
      /\ Receiving' = Receiving /\ Pending' = Pending
  BY <1>1 DEF Queued, Posted, Transmitting, OnChip, Answered, Receiving, Pending, AppendedTo,
     ShutDownQuits, loopVars, chipVars, rxVars
<1>4. /\ Quit \notin Commands
      /\ Queued \cup Pending \cup Receiving \cup freed \cup Transmitting \cup Range(sent) \subseteq Commands
      /\ Posted \subseteq Line
  <2>1. Queued \cup Pending \cup Range(sent) \subseteq Commands /\ Posted \subseteq Line
    BY <1>1, Lists DEF Listed, Queued, Pending, Posted
  <2>2. Receiving \cup freed \cup Transmitting \subseteq Commands
    BY <1>1 DEF IInv, TypeOK, Receiving, Transmitting, LifeCycle
  <2> QED
    BY <2>1, <2>2 DEF Quit
<1>5. LifeCycle' /\ TimerRight'
  BY <1>1, <1>3 DEF IInv, LifeCycle, TimerRight, ShutDownQuits, loopVars, chipVars, rxVars, NoEvent
<1>6. Places' /\ EventsFaithful'
  BY <1>3, <1>4 DEF IInv, Places, EventsFaithful, ShutDownQuits, chipVars, rxVars, stackVars
<1>7. Once'
  BY <1>1 DEF IInv, Once, AppendedTo, Posted, ShutDownQuits, chipVars
<1>8. AnswerOrder'
  BY <1>3 DEF IInv, AnswerOrder, AnsweredFirst, ShutDownQuits, chipVars
<1>9. Births' /\ LineOrder'
  <2>1. \A x \in Line : <<x, Quit>> \in Earlier /\ <<Quit, x>> \in Earlier
    BY <1>4, EarlierPair DEF Line
  <2>2. InOrder(Earlier, tasks')
    <3>1. AllBefore(Earlier, Range(tasks), {Quit})
      BY <1>4, <2>1 DEF AllBefore, Posted
    <3>2. tasks \in Seq(Line) /\ Quit \in Line /\ InOrder(Earlier, tasks) /\ tasks' = Append(tasks, Quit)
      BY DEF IInv, TypeOK, LineOrder, ShutDownQuits, Line
    <3> QED
      BY <3>1, <3>2, AppendedInOrder
  <2>3. Earlier' = Earlier
    BY SameEarlier DEF ShutDownQuits
  <2>4. Births'
    BY DEF IInv, Births, ShutDownQuits, loopVars, stackVars
  <2>5. /\ AllBefore(Earlier, Range(sent), Transmitting \cup (Posted \cup {Quit}) \cup Queued)
        /\ AllBefore(Earlier, Transmitting, (Posted \cup {Quit}) \cup Queued)
        /\ AllBefore(Earlier, Posted \cup {Quit}, Queued)
    BY <1>4, <2>1 DEF IInv, LineOrder, AllBefore, Line
  <2>6. /\ InOrder(Earlier, sent) /\ InOrder(Earlier, command_queue)
        /\ sent' = sent /\ command_queue' = command_queue
        /\ command_credits' > 0 => \A c \in Queued' : born'[c] < session'
    BY <1>3 DEF IInv, LineOrder, ShutDownQuits, loopVars, stackVars
  <2> QED
    BY <1>3, <2>2, <2>3, <2>4, <2>5, <2>6, Zenon DEF LineOrder
<1>10. OneToken'
  <2>1. mpc # "exited" /\ Len(tasks') = Len(tasks) + 1 /\ Len(tasks) \in Nat
    BY <1>1, Lists DEF IInv, LifeCycle, ShutDownQuits, AppendedTo, Listed
  <2>2. Len(chip) \in Nat /\ Len(events) \in Nat
    BY <1>1, Lists DEF Listed
  <2>3. UnderWay' = UnderWay
    <3>1. /\ lpc = "quitting" /\ lpc' = "joining" /\ mpc' = mpc /\ chip' = chip
          /\ events' = events /\ rpc' = rpc
      BY DEF ShutDownQuits, loopVars, chipVars, rxVars
    <3>2. Quits = 0 /\ Quits' = 1
      BY <2>1, <3>1 DEF Quits
    <3>3. Transmits' = Transmits /\ Receives' = Receives /\ Transmits \in Nat /\ Receives \in Nat
      BY <3>1 DEF Transmits, Receives
    <3> QED
      BY <2>1, <2>2, <3>1, <3>2, <3>3 DEF UnderWay
  <2> QED
    BY <2>3 DEF IInv, OneToken, ShutDownQuits, chipVars
<1> QED
  BY <1>2, <1>5, <1>6, <1>7, <1>8, <1>9, <1>10 DEF IInv

\* hci_close: the controller's answers are lost.
LEMMA ShutDownClosesKeeps ==
  ASSUME IInv, ShutDownCloses
  PROVE  IInv'
<1>1. TypeOK /\ chip' = <<>> /\ events' = <<>> /\ tasks = <<>>
  BY DEF IInv, ShutDownCloses, LifeCycle
<1>2. TypeOK'
  BY <1>1 DEF TypeOK, ShutDownCloses, loopVars, rxVars, stackVars
<1>3. /\ Queued' = Queued /\ Posted' = Posted /\ Transmitting' = Transmitting
      /\ OnChip' = {} /\ Answered' = {}
      /\ Receiving' = Receiving /\ Pending' = Pending
  BY <1>1, EmptyList DEF Queued, Posted, Transmitting, OnChip, Answered, Receiving, Pending,
     ShutDownCloses, loopVars, rxVars
<1>4. LifeCycle' /\ TimerRight'
  BY <1>1, <1>3 DEF IInv, LifeCycle, TimerRight, ShutDownCloses, loopVars, rxVars, NoEvent
<1>5. Places'
  BY <1>3 DEF IInv, Places, ShutDownCloses, stackVars
<1>6. Once' /\ EventsFaithful'
  BY <1>1, EmptyList DEF IInv, Once, EventsFaithful, ShutDownCloses, rxVars
<1>7. AnswerOrder'
  BY <1>1, EmptyList DEF IInv, AnswerOrder, AnsweredFirst, ShutDownCloses
<1>8. Births' /\ LineOrder'
  BY <1>3, SameEarlier DEF IInv, Births, LineOrder, ShutDownCloses, loopVars, stackVars
<1>9. OneToken'
  BY <1>1, EmptyList, Lists DEF IInv, TypeOK, Listed, OneToken, UnderWay, Quits, Transmits, Receives, ShutDownCloses, loopVars, rxVars
<1> QED
  BY <1>2, <1>4, <1>5, <1>6, <1>7, <1>8, <1>9 DEF IInv

\* The list of pending commands is freed.
LEMMA ShutDownEndsKeeps ==
  ASSUME IInv, ShutDownEnds
  PROVE  IInv'
<1>1. TypeOK /\ chip = <<>> /\ events = <<>> /\ tasks = <<>> /\ commands_pending_response' = <<>>
  BY DEF IInv, ShutDownEnds, LifeCycle
<1>2. TypeOK'
  BY <1>1 DEF TypeOK, ShutDownEnds, loopVars, chipVars, rxVars, stackVars
<1>3. /\ Queued' = Queued /\ Posted' = Posted /\ Transmitting' = {}
      /\ OnChip' = {} /\ Answered' = {}
      /\ Receiving' = Receiving /\ Pending' = {}
  BY <1>1, EmptyList DEF IInv, LifeCycle, Queued, Posted, Transmitting, OnChip, Answered, Receiving, Pending,
     ShutDownEnds, loopVars, chipVars, rxVars
<1>4. LifeCycle' /\ TimerRight'
  BY <1>1, <1>3 DEF IInv, LifeCycle, TimerRight, ShutDownEnds, loopVars, chipVars, rxVars, NoEvent
<1>5. Places'
  BY <1>3 DEF IInv, Places, ShutDownEnds, stackVars
<1>6. Once' /\ EventsFaithful'
  BY <1>1, EmptyList DEF IInv, Once, EventsFaithful, ShutDownEnds, chipVars, rxVars
<1>7. AnswerOrder'
  BY <1>1, EmptyList DEF IInv, AnswerOrder, ShutDownEnds
<1>8. Births' /\ LineOrder'
  BY <1>1, <1>3, SameEarlier DEF IInv, LifeCycle, Transmitting, Births, LineOrder, AllBefore, ShutDownEnds, loopVars, stackVars
<1>9. OneToken'
  BY <1>1 DEF IInv, OneToken, UnderWay, Quits, Transmits, Receives, ShutDownEnds, loopVars, chipVars, rxVars
<1> QED
  BY <1>2, <1>4, <1>5, <1>6, <1>7, <1>8, <1>9 DEF IInv

\* hci_module_start_up: one credit, although commands of earlier sessions may
\* still be in the queue.
LEMMA StartUpKeeps ==
  ASSUME IInv, StartUp
  PROVE  IInv'
<1> USE HciAssumption
<1>1. /\ TypeOK /\ chip = <<>> /\ events = <<>> /\ tasks = <<>> /\ commands_pending_response = <<>>
      /\ mpc = "exited" /\ rpc = "idle" /\ session < MaxSessions
  BY DEF IInv, StartUp, LifeCycle
<1>2. TypeOK'
  BY <1>1 DEF TypeOK, StartUp, chipVars, rxVars, stackVars
<1>3. /\ Queued' = Queued /\ Posted' = Posted /\ Transmitting' = {} /\ Transmitting = {}
      /\ OnChip' = {} /\ Answered' = {}
      /\ Receiving' = Receiving /\ Pending' = {}
  BY <1>1, EmptyList DEF Queued, Posted, Transmitting, OnChip, Answered, Receiving, Pending,
     StartUp, chipVars, rxVars
<1>4. LifeCycle' /\ TimerRight'
  BY <1>1, <1>3 DEF IInv, LifeCycle, TimerRight, StartUp, chipVars, rxVars, NoEvent
<1>5. Places'
  BY <1>3, <1>1 DEF IInv, Places, StartUp, stackVars
<1>6. Once' /\ EventsFaithful'
  BY <1>1, EmptyList DEF IInv, Once, EventsFaithful, StartUp, chipVars, rxVars
<1>7. AnswerOrder'
  BY <1>1, EmptyList DEF IInv, AnswerOrder, StartUp
<1>8. Births' /\ LineOrder'
  <2>1. Queued \subseteq Commands
    BY <1>1, Lists DEF Listed, Queued
  <2>2. \A c \in Commands : born'[c] <= session' /\ born'[c] < session'
    BY <1>1 DEF IInv, TypeOK, Births, StartUp, stackVars
  <2>3. Births'
    BY <2>2 DEF IInv, Births, StartUp, stackVars
  <2> QED
    BY <1>3, <2>1, <2>2, <2>3, SameEarlier DEF IInv, LineOrder, StartUp, stackVars
<1>9. OneToken'
  BY <1>1, EmptyList DEF IInv, OneToken, UnderWay, Quits, Transmits, Receives, StartUp, chipVars, rxVars
<1> QED
  BY <1>2, <1>4, <1>5, <1>6, <1>7, <1>8, <1>9 DEF IInv

-----------------------------------------------------------------------------
\* A new event, about a command that was not answered yet or about none.
LEMMA EventAppended ==
  ASSUME TypeOK, Once, NEW e \in Event, e.about = None \/ e.about \notin Answered,
         events' = Append(events, e)
  PROVE  /\ AppendedTo(Event, events', events, e)
         /\ Listed(Event, events) /\ Listed(Event, events')
         /\ Answered' = Answered \cup ({e.about} \ {None})
         /\ \A i, j \in DOMAIN events' :
              events'[i].about = events'[j].about => events'[i].about = None \/ i = j
<1>1. AppendedTo(Event, events', events, e)
  BY Appended DEF TypeOK
<1>2. Listed(Event, events) /\ Listed(Event, events')
  BY <1>1, ElementsOf DEF TypeOK, AppendedTo
<1>3. /\ DOMAIN events = 1..Len(events) /\ DOMAIN events' = 1..(Len(events) + 1)
      /\ Len(events) \in Nat /\ events'[Len(events) + 1] = e
      /\ \A i \in DOMAIN events : i \in DOMAIN events' /\ events'[i] = events[i]
      /\ \A i \in DOMAIN events' : i \in DOMAIN events \/ i = Len(events) + 1
      /\ Len(events) + 1 \in DOMAIN events'
  BY <1>1, <1>2 DEF AppendedTo, Listed
<1>4. \A x : x \in Answered' <=> x \in Answered \/ (x = e.about /\ x # None)
  <2>1. \A x : x \in Answered <=> x # None /\ \E i \in DOMAIN events : events[i].about = x
    BY DEF Answered
  <2>2. \A x : x \in Answered' <=> x # None /\ \E i \in DOMAIN events' : events'[i].about = x
    BY DEF Answered
  <2> QED
    BY <1>3, <2>1, <2>2
<1>5. ASSUME NEW i \in DOMAIN events', NEW j \in DOMAIN events',
             events'[i].about = events'[j].about
      PROVE  events'[i].about = None \/ i = j
  <2>1. \A k \in DOMAIN events : events[k].about = None \/ events[k].about \in Answered
    BY DEF Answered
  <2> QED
    BY <1>3, <1>5, <2>1 DEF Once
<1> QED
  BY <1>1, <1>2, <1>4, <1>5

\* The controller reports its window only.
LEMMA ControllerReportsKeeps ==
  ASSUME IInv, ControllerReports
  PROVE  IInv'
<1> USE HciAssumption
<1> DEFINE e == [opcode |-> NoneOpcode, credits |-> window, about |-> None, status |-> FALSE]
<1>1. TypeOK /\ e \in Event /\ e.about = None /\ e.credits = window /\ e.opcode = NoneOpcode
      /\ events' = Append(events, e)
  BY DEF IInv, TypeOK, Event, ControllerReports
<1> HIDE DEF e
<1>2. /\ AppendedTo(Event, events', events, e)
      /\ Listed(Event, events) /\ Listed(Event, events')
      /\ Answered' = Answered \cup ({e.about} \ {None})
      /\ \A i, j \in DOMAIN events' :
           events'[i].about = events'[j].about => events'[i].about = None \/ i = j
  BY <1>1, EventAppended DEF IInv
<1>3. TypeOK'
  BY <1>1, <1>2 DEF TypeOK, ControllerReports, AppendedTo, loopVars, rxVars, stackVars, lifeVars
<1>4. /\ Queued' = Queued /\ Posted' = Posted /\ Transmitting' = Transmitting
      /\ OnChip' = OnChip /\ Answered' = Answered
      /\ Receiving' = Receiving /\ Pending' = Pending
  BY <1>1, <1>2 DEF Queued, Posted, Transmitting, OnChip, Receiving, Pending,
     ControllerReports, loopVars, rxVars
<1>5. LifeCycle' /\ TimerRight'
  BY <1>4 DEF IInv, LifeCycle, TimerRight, ControllerReports, loopVars, rxVars, lifeVars, NoEvent
<1>6. Places'
  BY <1>4 DEF IInv, Places, ControllerReports, stackVars, lifeVars
<1>7. Once'
  BY <1>2 DEF IInv, Once, ControllerReports
<1>8. /\ DOMAIN events = 1..Len(events) /\ DOMAIN events' = 1..(Len(events) + 1)
      /\ Len(events) \in Nat /\ events'[Len(events) + 1] = e
      /\ \A i \in DOMAIN events : i \in DOMAIN events' /\ events'[i] = events[i]
      /\ \A i \in DOMAIN events' : i \in DOMAIN events \/ i = Len(events) + 1
  BY <1>2 DEF AppendedTo, Listed
<1>9. EventsFaithful'
  BY <1>1, <1>8 DEF IInv, EventsFaithful, ControllerReports, rxVars, lifeVars
<1>10. AnswerOrder'
  <2> SUFFICES ASSUME NEW x \in Commands, NEW y \in Commands, AnsweredFirst(x, y)
               PROVE  AnsweredFirst(x, y)'
    BY DEF IInv, AnswerOrder, ControllerReports
  <2> QED
    BY <1>1, <1>4, <1>8 DEF AnsweredFirst, ControllerReports
<1>11. Births' /\ LineOrder'
  BY <1>4, SameEarlier DEF IInv, Births, LineOrder, ControllerReports, loopVars, stackVars, lifeVars
<1>12. OneToken'
  BY <1>1 DEF TypeOK, OneToken, ControllerReports
<1> QED
  BY <1>3, <1>5, <1>6, <1>7, <1>9, <1>10, <1>11, <1>12 DEF IInv

\* The controller answers the oldest command of an opcode.
LEMMA ControllerAnswersKeeps ==
  ASSUME IInv, NEW n \in DOMAIN chip, ControllerAnswers(n)
  PROVE  IInv'
<1> USE HciAssumption
<1>1. TypeOK /\ Listed(Commands, chip) /\ n \in 1..Len(chip) /\ chip[n] \in Commands
      /\ chip[n] \in OnChip /\ window \in Windows
  <2>1. TypeOK /\ Listed(Commands, chip) /\ window \in Windows
    BY Lists DEF IInv, TypeOK
  <2> QED
    BY <2>1 DEF Listed, OnChip
<1>2. PICK e : /\ e \in Event /\ e.about = chip[n] /\ e.credits = window
               /\ \/ e.opcode = Opcode(chip[n])
                  \/ chip[n] \in Vendor /\ ImproperVs /\ e.opcode = ImproperOpcode
               /\ events' = Append(events, e)
  <2>1. PICK op \in {Opcode(chip[n])} \cup
               (IF ImproperVs /\ chip[n] \in Vendor THEN {ImproperOpcode} ELSE {}),
             st \in BOOLEAN :
       events' = Append(events, [opcode |-> op, credits |-> window, about |-> chip[n],
                                 status |-> st])
    BY DEF ControllerAnswers
  <2> DEFINE e == [opcode |-> op, credits |-> window, about |-> chip[n], status |-> st]
  <2>2. e \in Event
    BY <1>1 DEF Event
  <2>3. /\ e.about = chip[n] /\ e.credits = window /\ e.opcode = op
    OBVIOUS
  <2>4. \/ op = Opcode(chip[n])
        \/ chip[n] \in Vendor /\ ImproperVs /\ op = ImproperOpcode
    OBVIOUS
  <2> HIDE DEF e
  <2> QED
    BY <2>1, <2>2, <2>3, <2>4 DEF e
<1>3. /\ AppendedTo(Event, events', events, e)
      /\ Listed(Event, events) /\ Listed(Event, events')
      /\ Answered' = Answered \cup ({e.about} \ {None})
      /\ \A i, j \in DOMAIN events' :
           events'[i].about = events'[j].about => events'[i].about = None \/ i = j
  <2>1. chip[n] \notin Answered
    BY <1>1 DEF IInv, Places
  <2> QED
    BY <1>1, <1>2, <2>1, EventAppended DEF IInv
<1>4. RemovedFrom(Commands, chip', chip, n)
  BY <1>1, Removed DEF TypeOK, ControllerAnswers
<1>5. TypeOK'
  <2>1. chip' \in Seq(Commands) /\ events' \in Seq(Event)
    BY <1>3, <1>4, Zenon DEF AppendedTo, RemovedFrom
  <2> QED
    <3>1. /\ lpc' = lpc /\ session' = session /\ window' = window /\ nops' = nops
          /\ command_credits' = command_credits /\ command_queue' = command_queue /\ tasks' = tasks
          /\ commands_pending_response' = commands_pending_response /\ timer' = timer
          /\ mpc' = mpc /\ mcur' = mcur /\ sent' = sent /\ rpc' = rpc /\ rx' = rx
          /\ answered' = answered /\ untold' = untold /\ freed' = freed /\ enqueued' = enqueued /\ born' = born
      BY DEF ControllerAnswers, loopVars, rxVars, stackVars, lifeVars
    <3>2. /\ TypeOK /\ tasks \in Seq(Commands \cup {Quit}) /\ command_queue \in Seq(Commands)
          /\ command_credits \in Int /\ freed \subseteq Commands
          /\ enqueued \in Seq(Commands) /\ born \in [Commands -> 0..MaxSessions]
      BY DEF IInv, TypeOK
    <3> QED
      BY <2>1, <3>1, <3>2, UnchangedTypes, Zenon
<1>6. /\ Queued' = Queued /\ Posted' = Posted /\ Transmitting' = Transmitting
      /\ OnChip = OnChip' \cup {chip[n]} /\ chip[n] \notin OnChip' /\ Answered' = Answered \cup {chip[n]}
      /\ Receiving' = Receiving /\ Pending' = Pending /\ NoRepeat(chip')
  <2>1. Answered' = Answered \cup {chip[n]}
    BY <1>1, <1>2, <1>3
  <2>2. OnChip = OnChip' \cup {chip[n]} /\ chip[n] \notin OnChip' /\ NoRepeat(chip')
    BY <1>4 DEF IInv, Once, OnChip, RemovedFrom
  <2> QED
    BY <2>1, <2>2 DEF Queued, Posted, Transmitting, Receiving, Pending, ControllerAnswers, loopVars, rxVars
<1>7. LifeCycle' /\ TimerRight'
  <2>1. chip # <<>>
    BY <1>1 DEF Listed
  <2> QED
    BY <1>6, <2>1 DEF IInv, LifeCycle, TimerRight, ControllerAnswers, loopVars, rxVars, lifeVars, NoEvent
<1>8. Places'
  BY <1>6 DEF IInv, Places, ControllerAnswers, stackVars, lifeVars
<1>9. Once'
  BY <1>3, <1>6 DEF IInv, Once, ControllerAnswers
<1>10. /\ DOMAIN events = 1..Len(events) /\ DOMAIN events' = 1..(Len(events) + 1)
       /\ Len(events) \in Nat /\ events'[Len(events) + 1] = e
       /\ \A i \in DOMAIN events : i \in DOMAIN events' /\ events'[i] = events[i]
       /\ \A i \in DOMAIN events' : i \in DOMAIN events \/ i = Len(events) + 1
  BY <1>3 DEF AppendedTo, Listed
<1>11. EventsFaithful'
  BY <1>1, <1>2, <1>10 DEF IInv, EventsFaithful, ControllerAnswers, rxVars, lifeVars
<1>12. AnswerOrder'
  <2> SUFFICES ASSUME NEW x \in Commands, NEW y \in Commands, AnsweredFirst(x, y), Opcode(x) = Opcode(y)
               PROVE  AnsweredFirst(x, y)'
    BY DEF IInv, AnswerOrder, ControllerAnswers
  <2>1. Listed(Commands, chip') /\ DOMAIN chip = 1..Len(chip) /\ DOMAIN chip' = 1..Len(chip')
        /\ Len(chip) \in Nat /\ Len(chip') \in Nat /\ n \in Int
    BY <1>1, <1>5, ListsNext DEF Listed
  <2>2. ASSUME NEW m \in DOMAIN events', events'[m].about = y
        PROVE  \E k \in DOMAIN events' : k < m /\ events'[k].about = x
    <3>1. CASE m \in DOMAIN events
      BY <1>10, <2>2, <3>1 DEF AnsweredFirst
    <3>2. CASE m = Len(events) + 1
      <4>1. chip[n] = y
        BY <1>2, <1>10, <2>2, <3>2
      <4>2. x \in Answered \/ \E k \in DOMAIN chip : k < n /\ chip[k] = x
        BY <4>1 DEF AnsweredFirst
      <4>3. ~ \E k \in DOMAIN chip : k < n /\ chip[k] = x
        BY <2>1, <4>1 DEF ControllerAnswers
      <4>4. \E k \in DOMAIN events : events[k].about = x
        BY <4>2, <4>3 DEF Answered
      <4> QED
        BY <1>10, <3>2, <4>4
    <3> QED
      BY <1>10, <3>1, <3>2
  <2>3. ASSUME NEW m \in DOMAIN chip', chip'[m] = y
        PROVE  x \in Answered' \/ \E k \in DOMAIN chip' : k < m /\ chip'[k] = x
    <3>1. PICK m2 \in DOMAIN chip : chip[m2] = y /\ ((m < n /\ m2 = m) \/ (m >= n /\ m2 = m + 1))
      <4>1. Len(chip') = Len(chip) - 1 /\ m \in 1..Len(chip')
        BY <1>4, <2>1, Zenon DEF RemovedFrom
      <4>2. (m < n /\ chip'[m] = chip[m]) \/ (m >= n /\ chip'[m] = chip[m + 1])
        BY <1>4, <4>1, Zenon DEF RemovedFrom
      <4>3. m \in DOMAIN chip /\ m + 1 \in DOMAIN chip
        BY <2>1, <4>1
      <4> QED
        BY <2>3, <4>2, <4>3
    <3>2. CASE x \in Answered
      BY <1>6, <3>2
    <3>3. ASSUME NEW k \in DOMAIN chip, k < m2, chip[k] = x, x # chip[n]
          PROVE  \E k2 \in DOMAIN chip' : k2 < m /\ chip'[k2] = x
      <4>1. k # n
        BY <3>3
      <4>2. \/ k < n /\ k \in 1..Len(chip') /\ chip'[k] = chip[k]
            \/ k > n /\ k - 1 \in 1..Len(chip') /\ chip'[k - 1] = chip[k]
        BY <1>4, <2>1, <4>1 DEF RemovedFrom
      <4>3. CASE k < n /\ k \in 1..Len(chip') /\ chip'[k] = chip[k]
        <5>1. k < m
          BY <2>1, <3>1, <3>3, <4>3
        <5> QED
          BY <2>1, <3>3, <4>3, <5>1
      <4>4. CASE k > n /\ k - 1 \in 1..Len(chip') /\ chip'[k - 1] = chip[k]
        <5>1. k - 1 < m
          BY <2>1, <3>1, <3>3, <4>4
        <5> QED
          BY <2>1, <3>3, <4>4, <5>1
      <4> QED
        BY <4>2, <4>3, <4>4
    <3>4. CASE x = chip[n]
      BY <1>6, <3>4
    <3> QED
      BY <3>1, <3>2, <3>3, <3>4 DEF AnsweredFirst
  <2> QED
    BY <2>2, <2>3 DEF AnsweredFirst
<1>13. Births' /\ LineOrder'
  BY <1>6, SameEarlier DEF IInv, Births, LineOrder, ControllerAnswers, loopVars, stackVars, lifeVars
<1>14. OneToken'
  <2>1. Len(chip') = Len(chip) - 1 /\ Len(events') = Len(events) + 1 /\ Len(chip) \in Nat /\ Len(events) \in Nat
        /\ Len(tasks) \in Nat
    BY <1>1, <1>3, <1>4, Lists DEF RemovedFrom, AppendedTo, Listed
  <2>2. /\ Quits' = Quits /\ Transmits' = Transmits /\ Receives' = Receives /\ tasks' = tasks
        /\ Quits \in Nat /\ Transmits \in Nat /\ Receives \in Nat
    BY DEF Quits, Transmits, Receives, ControllerAnswers, loopVars, rxVars, lifeVars
  <2>3. UnderWay' = UnderWay
    BY <2>1, <2>2 DEF UnderWay
  <2> QED
    BY <2>3 DEF IInv, OneToken, ControllerAnswers, lifeVars
<1> QED
  BY <1>5, <1>7, <1>8, <1>9, <1>11, <1>12, <1>13, <1>14 DEF IInv

-----------------------------------------------------------------------------
\* The first position with a property is the minimum of the positions with it.
LEMMA MinIs ==
  ASSUME NEW S, S \subseteq Int, NEW i \in S, \A j \in S : i <= j
  PROVE  Min(S) = i
<1>1. \A x \in S : (\A y \in S : x <= y) => x = i
  OBVIOUS
<1> QED
  BY <1>1 DEF Min

\* No command has the opcode of another kind of event.
LEMMA OpcodesOf ==
  ASSUME NEW c \in Commands
  PROVE  /\ Opcode(c) # NoneOpcode /\ Opcode(c) # ImproperOpcode
         /\ NoneOpcode.vendor = FALSE /\ ImproperOpcode.vendor = TRUE
<1>1. c \notin {"improper", "none"}
  BY HciAssumption
<1>2. Opcode(c).ocf # "none" /\ Opcode(c).ocf # "improper"
  BY <1>1 DEF Opcode
<1> QED
  BY <1>2 DEF NoneOpcode, ImproperOpcode

\* get_waiting_command finds the pending command that the event is about, and
\* none for an event without command.
LEMMA Matching ==
  ASSUME IInv, ProperAnswers, events # <<>>
  PROVE  LET e == Head(events)
             i == GetWaitingCommand(e.opcode)
         IN /\ e = events[1] /\ e \in Event /\ e.credits = window
            /\ \/ e.about = None /\ i = 0
               \/ /\ e.about \in Commands /\ i \in 1..Len(commands_pending_response)
                  /\ commands_pending_response[i] = e.about
                  /\ e.about \in Pending /\ e.about \in Answered
<1> USE HciAssumption
<1> DEFINE e == Head(events)
           op == e.opcode
           pend == commands_pending_response
           same == {k \in DOMAIN pend : Opcode(pend[k]) = op}
           vs == {k \in DOMAIN pend : op.vendor /\ pend[k] \in Vendor}
<1>1. e = events[1] /\ e \in Event /\ 1 \in DOMAIN events /\ TailOf(Event, Tail(events), events)
  <2>1. events \in Seq(Event) /\ TypeOK
    BY DEF IInv, TypeOK
  <2>2. TailOf(Event, Tail(events), events) /\ Listed(Event, events)
    BY <2>1, Tailed, Lists
  <2> QED
    BY <2>2 DEF TailOf, Listed
<1>2. e.credits = window /\ (\/ e.about = None /\ op = NoneOpcode
                             \/ e.about \in Commands /\ op = Opcode(e.about)
                             \/ e.about \in Vendor /\ ImproperVs /\ op = ImproperOpcode)
  BY <1>1 DEF IInv, EventsFaithful
<1>3. GetWaitingCommand(op) = IF same # {} THEN Min(same) ELSE IF vs # {} THEN Min(vs) ELSE 0
  BY DEF GetWaitingCommand
<1>4. /\ DOMAIN pend = 1..Len(pend) /\ Len(pend) \in Nat /\ \A k \in DOMAIN pend : pend[k] \in Commands
      /\ \A x : x \in Pending <=> \E k \in DOMAIN pend : pend[k] = x
  <2>1. Listed(Commands, pend)
    BY Lists DEF IInv
  <2> QED
    BY <2>1 DEF Listed, Pending
<1>5. CASE e.about = None /\ op = NoneOpcode
  <2>1. same = {}
    BY <1>4, <1>5, OpcodesOf
  <2>2. op.vendor = FALSE
    BY <1>5 DEF NoneOpcode
  <2>3. vs = {}
    BY <2>2
  <2> QED
    BY <1>1, <1>2, <1>3, <1>5, <2>1, <2>3
<1>6. ASSUME e.about \in Commands
      PROVE  e.about \in Answered /\ e.about \in Pending
  BY <1>1, <1>6 DEF IInv, Places, Answered
<1>7. CASE e.about \in Commands /\ op = Opcode(e.about)
  <2>1. PICK i \in DOMAIN pend : pend[i] = e.about
    BY <1>4, <1>6, <1>7
  <2>2. i \in same
    BY <1>7, <2>1
  <2>3. ASSUME NEW j \in same PROVE i <= j
    <3>1. j \in DOMAIN pend /\ pend[j] \in Commands /\ Opcode(pend[j]) = Opcode(e.about)
      BY <1>4, <1>7
    <3>2. ASSUME j < i PROVE FALSE
      <4>1. AnsweredFirst(pend[j], e.about)
        BY <1>7, <2>1, <3>1, <3>2 DEF IInv, AnswerOrder
      <4>2. \E k \in DOMAIN events : k < 1
        BY <1>1, <4>1 DEF AnsweredFirst
      <4>3. DOMAIN events = 1..Len(events)
        BY Lists DEF IInv, Listed
      <4> QED
        BY <4>2, <4>3
    <3> QED
      BY <1>4, <2>1, <3>1, <3>2
  <2>4. Min(same) = i
    <3>1. same \subseteq Int
      BY <1>4
    <3> HIDE DEF same
    <3> QED
      BY <2>2, <2>3, <3>1, MinIs
  <2> QED
    BY <1>1, <1>2, <1>3, <1>4, <1>6, <1>7, <2>1, <2>2, <2>4
<1>8. CASE e.about \in Vendor /\ ImproperVs /\ op = ImproperOpcode
  <2>1. same = {}
    BY <1>4, <1>8, OpcodesOf
  <2>2. e.about \in Commands
    BY <1>8
  <2>3. PICK i \in DOMAIN pend : pend[i] = e.about
    BY <1>4, <1>6, <2>2
  <2>4. op.vendor = TRUE
    BY <1>8 DEF ImproperOpcode
  <2>5. i \in vs
    BY <1>8, <2>3, <2>4
  <2>6. ASSUME NEW j \in vs PROVE i = j
    <3>1. j \in DOMAIN pend /\ pend[j] = pend[i]
      BY <1>8, <2>3 DEF ProperAnswers
    <3> QED
      BY <2>3, <3>1 DEF IInv, Once, NoRepeat
  <2>7. Min(vs) = i
    <3>1. vs \subseteq Int
      BY <1>4
    <3> HIDE DEF vs
    <3> QED
      BY <2>5, <2>6, <3>1, MinIs
  <2> QED
    BY <1>1, <1>2, <1>3, <1>4, <1>6, <2>1, <2>2, <2>3, <2>5, <2>7
<1> QED
  BY <1>2, <1>5, <1>7, <1>8

\* filter_incoming_event takes the pending command of the event at the head.
LEMMA EventReceivedKeeps ==
  ASSUME IInv, ProperAnswers, EventReceived
  PROVE  IInv'
<1> USE HciAssumption
<1> DEFINE e == Head(events)
           n == GetWaitingCommand(e.opcode)
           pend == commands_pending_response
<1>1. /\ e = events[1] /\ e \in Event /\ e.credits = window
      /\ \/ e.about = None /\ n = 0
         \/ /\ e.about \in Commands /\ n \in 1..Len(pend) /\ pend[n] = e.about
            /\ e.about \in Pending /\ e.about \in Answered
  BY Matching DEF EventReceived
<1>2. /\ rx' = [about |-> e.about, credits |-> e.credits, status |-> e.status,
              entry |-> IF n = 0 THEN None ELSE pend[n]]
      /\ pend' = IF n = 0 THEN pend ELSE RemoveAt(pend, n)
  BY DEF EventReceived
<1> HIDE DEF n, e
<1>3. /\ TypeOK /\ Listed(Event, events) /\ TailOf(Event, events', events) /\ Listed(Event, events')
      /\ Listed(Commands, pend) /\ rpc = "idle" /\ rpc' = "credits"
  <2>1. TypeOK /\ events \in Seq(Event) /\ events # <<>> /\ events' = Tail(events)
    BY DEF IInv, TypeOK, EventReceived
  <2>2. TailOf(Event, events', events)
    BY <2>1, Tailed
  <2> QED
    BY <2>1, <2>2, Lists, ElementsOf DEF TailOf, EventReceived
<1>4. /\ rx'.entry = e.about /\ rx'.about = e.about /\ rx'.credits = window
      /\ rx' \in [entry: Commands \cup {None}, about: Commands \cup {None}, credits: {0} \cup Windows,
                 status: BOOLEAN]
  <2>1. rx' = [about |-> e.about, credits |-> window, status |-> e.status, entry |-> e.about]
    BY <1>1, <1>2, <1>3
  <2>2. e.status \in BOOLEAN
    BY <1>1 DEF Event
  <2> QED
    BY <1>1, <1>3, <2>1, <2>2 DEF TypeOK
<1>5. \/ e.about = None /\ pend' = pend
      \/ e.about \in Commands /\ n \in 1..Len(pend) /\ pend[n] = e.about
         /\ RemovedFrom(Commands, pend', pend, n)
  <2>1. CASE e.about = None /\ n = 0
    BY <1>2, <2>1
  <2>2. CASE e.about \in Commands /\ n \in 1..Len(pend) /\ pend[n] = e.about
    <3>1. pend \in Seq(Commands) /\ Len(pend) \in Nat
      BY <1>3 DEF TypeOK, Listed
    <3>2. pend' = RemoveAt(pend, n)
      BY <1>2, <2>2, <3>1
    <3> QED
      BY <2>2, <3>1, <3>2, Removed
  <2> QED
    BY <1>1, <2>1, <2>2
<1>6. TypeOK'
  <2>1. pend' \in Seq(Commands)
    BY <1>3, <1>5 DEF RemovedFrom, TypeOK
  <2> QED
    BY <1>3, <1>4, <2>1 DEF TypeOK, EventReceived, TailOf, loopVars, stackVars, lifeVars
<1>7. /\ Queued' = Queued /\ Posted' = Posted /\ Transmitting' = Transmitting
      /\ OnChip' = OnChip /\ Receiving = {} /\ Receiving' = {e.about} \ {None}
  BY <1>3, <1>4 DEF IInv, LifeCycle, NoEvent, Queued, Posted, Transmitting, OnChip, Receiving,
     EventReceived, loopVars
<1>8. /\ DOMAIN events = 1..Len(events) /\ DOMAIN events' = 1..Len(events')
      /\ Len(events) \in Nat /\ Len(events') = Len(events) - 1
      /\ \A i \in DOMAIN events' : i + 1 \in DOMAIN events /\ events'[i] = events[i + 1]
      /\ \A i \in DOMAIN events : i = 1 \/ (i - 1 \in DOMAIN events' /\ events'[i - 1] = events[i])
      /\ 1 \in DOMAIN events
  <2>1. /\ DOMAIN events = 1..Len(events) /\ DOMAIN events' = 1..Len(events')
        /\ Len(events) \in Nat \ {0} /\ Len(events') = Len(events) - 1
        /\ \A i \in 1..Len(events') : i + 1 \in 1..Len(events) /\ events'[i] = events[i + 1]
        /\ \A i \in 1..Len(events) :
             i = 1 \/ (i - 1 \in 1..Len(events') /\ events'[i - 1] = events[i])
    BY <1>3, Zenon DEF TailOf, Listed
  <2>2. 1 \in 1..Len(events) /\ Len(events) \in Nat
    BY <2>1
  <2> QED
    BY <2>1, <2>2, Zenon
<1>9. Answered' = Answered \ {e.about}
  <2>1. \A x : x \in Answered <=> x # None /\ \E i \in DOMAIN events : events[i].about = x
    BY DEF Answered
  <2>2. \A x : x \in Answered' <=> x # None /\ \E i \in DOMAIN events' : events'[i].about = x
    BY DEF Answered
  <2>3. \A i \in DOMAIN events' : events'[i].about = e.about => e.about = None
    <3> SUFFICES ASSUME NEW i \in DOMAIN events', events'[i].about = e.about, e.about # None
                 PROVE  FALSE
      OBVIOUS
    <3>1. i + 1 \in DOMAIN events /\ events[i + 1].about = events[1].about /\ i + 1 # 1
      BY <1>1, <1>8
    <3> QED
      BY <1>1, <1>8, <3>1 DEF IInv, Once
  <2>4. ASSUME NEW x \in Answered' PROVE x \in Answered /\ x # e.about
    BY <1>8, <2>1, <2>2, <2>3
  <2>5. ASSUME NEW x \in Answered, x # e.about PROVE x \in Answered'
    BY <1>1, <1>8, <2>1, <2>2, <2>5
  <2> QED
    BY <2>4, <2>5
<1>10. /\ Pending = Pending' \cup ({e.about} \ {None}) /\ e.about \notin Pending'
       /\ NoRepeat(pend')
  <2>1. CASE e.about = None /\ pend' = pend
    <3>1. Pending \subseteq Commands
      BY <1>3 DEF Listed, Pending
    <3> QED
      BY <2>1, <3>1 DEF IInv, Once, Pending
  <2>2. CASE e.about \in Commands /\ pend[n] = e.about /\ RemovedFrom(Commands, pend', pend, n)
    BY <2>2 DEF IInv, Once, Pending, RemovedFrom
  <2> QED
    BY <1>5, <2>1, <2>2
<1>11. LifeCycle' /\ TimerRight'
  <2>1. lpc \notin {"closing", "down"}
    BY DEF IInv, LifeCycle, EventReceived
  <2>2. LifeCycle'
    BY <1>3, <1>7, <2>1 DEF IInv, LifeCycle, EventReceived, loopVars, lifeVars
  <2>3. TimerRight'
    BY <1>3, <1>4, <1>5 DEF IInv, TimerRight, EventReceived, loopVars
  <2> QED
    BY <2>2, <2>3
<1>12. Places'
  <2>1. e.about = None \/ e.about \in Pending
    BY <1>1
  <2>2. e.about = None \/ e.about \in Answered
    BY <1>1
  <2> QED
    BY <1>7, <1>9, <1>10, <2>1, <2>2 DEF IInv, Places, EventReceived, stackVars, lifeVars
<1>13. Once'
  <2>1. ASSUME NEW i \in DOMAIN events', NEW j \in DOMAIN events', events'[i].about = events'[j].about
        PROVE  events'[i].about = None \/ i = j
    <3>1. i + 1 \in DOMAIN events /\ j + 1 \in DOMAIN events
          /\ events[i + 1].about = events[j + 1].about /\ events'[i] = events[i + 1]
      BY <1>8, <2>1
    <3>2. events'[i].about = None \/ i + 1 = j + 1
      BY <3>1 DEF IInv, Once
    <3> QED
      BY <1>8, <3>2
  <2> QED
    BY <1>10, <2>1 DEF IInv, Once, EventReceived
<1>14. EventsFaithful'
  BY <1>3, <1>4, <1>8 DEF IInv, EventsFaithful, EventReceived, lifeVars
<1>15. AnswerOrder'
  <2> SUFFICES ASSUME NEW i \in DOMAIN pend', NEW j \in DOMAIN pend',
                      NEW x \in Commands, NEW y \in Commands, i < j, Opcode(x) = Opcode(y),
                      x = pend'[i], y = pend'[j]
               PROVE  AnsweredFirst(x, y)'
    BY DEF AnswerOrder
  <2>1. DOMAIN pend = 1..Len(pend) /\ DOMAIN pend' = 1..Len(pend') /\ Len(pend) \in Nat /\ Len(pend') \in Nat
        /\ (\A k \in DOMAIN pend' : pend'[k] \in Pending')
    <3>1. Listed(Commands, pend')
      BY <1>6, ListsNext
    <3> QED
      BY <1>3, <3>1 DEF Listed, Pending
  <2>2. x # e.about /\ y # e.about
    BY <1>10, <2>1
  <2>3. PICK k \in DOMAIN pend, l \in DOMAIN pend : k < l /\ x = pend[k] /\ y = pend[l]
    <3>1. CASE pend' = pend
      BY <3>1
    <3>2. CASE n \in 1..Len(pend) /\ RemovedFrom(Commands, pend', pend, n)
      <4>1. Len(pend') = Len(pend) - 1 /\ i \in 1..Len(pend') /\ j \in 1..Len(pend')
        BY <2>1, <3>2, Zenon DEF RemovedFrom
      <4>2. /\ \/ i < n /\ x = pend[i]
               \/ i >= n /\ x = pend[i + 1]
            /\ \/ j < n /\ y = pend[j]
               \/ j >= n /\ y = pend[j + 1]
        BY <3>2, <4>1, Zenon DEF RemovedFrom
      <4>3. /\ i \in DOMAIN pend /\ i + 1 \in DOMAIN pend /\ j \in DOMAIN pend /\ j + 1 \in DOMAIN pend
            /\ i + 1 < j + 1 /\ i < j + 1 /\ ~(i >= n /\ j < n)
        BY <2>1, <3>2, <4>1
      <4> QED
        BY <4>2, <4>3
    <3> QED
      BY <1>5, <3>1, <3>2
  <2>4. AnsweredFirst(x, y)
    BY <2>3 DEF IInv, AnswerOrder
  <2>5. ASSUME NEW m \in DOMAIN events', events'[m].about = y
        PROVE  \E h \in DOMAIN events' : h < m /\ events'[h].about = x
    <3>1. m + 1 \in DOMAIN events /\ events[m + 1].about = y
      BY <1>8, <2>5
    <3>2. PICK h \in DOMAIN events : h < m + 1 /\ events[h].about = x
      BY <2>4, <3>1 DEF AnsweredFirst
    <3>3. h # 1
      BY <1>1, <2>2, <3>2
    <3>4. h - 1 \in DOMAIN events' /\ events'[h - 1].about = x
      BY <1>8, <3>2, <3>3
    <3>5. h - 1 < m
      BY <1>8, <3>2
    <3> QED
      BY <3>4, <3>5
  <2>6. chip' = chip
    BY DEF EventReceived
  <2> QED
    BY <1>9, <2>2, <2>4, <2>5, <2>6 DEF AnsweredFirst
<1>16. Births' /\ LineOrder'
  BY <1>7, SameEarlier DEF IInv, Births, LineOrder, EventReceived, loopVars, stackVars, lifeVars
<1>17. OneToken'
  <2>1. Receives = 0 /\ Receives' = 1
    BY <1>3 DEF Receives
  <2>2. /\ Quits' = Quits /\ Transmits' = Transmits /\ tasks' = tasks /\ chip' = chip
        /\ Quits \in Nat /\ Transmits \in Nat
    BY DEF Quits, Transmits, EventReceived, loopVars, lifeVars
  <2>3. Len(chip) \in Nat /\ Len(tasks) \in Nat
    BY <1>3, Lists DEF Listed
  <2>4. UnderWay' = UnderWay
    BY <1>8, <2>1, <2>2, <2>3 DEF UnderWay
  <2> QED
    BY <2>4 DEF IInv, OneToken, EventReceived, lifeVars
<1> QED
  BY <1>6, <1>11, <1>12, <1>13, <1>14, <1>15, <1>16, <1>17 DEF IInv

\* The rest of filter_incoming_event.
LEMMA EventDoneKeeps ==
  ASSUME IInv, EventDone
  PROVE  IInv'
<1> USE HciAssumption
<1>1. TypeOK /\ rx.entry \in Commands \cup {None} /\ rx'.entry = None /\ rx'.about = None /\ rpc' = "idle"
      /\ rx' = NoEvent
  BY DEF IInv, TypeOK, EventDone, NoEvent
<1>2. TypeOK'
  <2>1. timer' \in {"off", "set", "null"} /\ freed' \subseteq Commands /\ answered' \subseteq Commands
        /\ untold' \subseteq Commands
    BY <1>1 DEF TypeOK, EventDone, TimerFor
  <2>2. rx' \in [entry: Commands \cup {None}, about: Commands \cup {None}, credits: {0} \cup Windows,
                 status: BOOLEAN]
    BY <1>1 DEF NoEvent
  <2> QED
    BY <1>1, <2>1, <2>2 DEF TypeOK, EventDone, loopVars, chipVars, stackVars, lifeVars
<1>3. /\ Queued' = Queued /\ Posted' = Posted /\ Transmitting' = Transmitting
      /\ OnChip' = OnChip /\ Answered' = Answered
      /\ Receiving' = {} /\ Pending' = Pending /\ freed' = freed \cup Receiving
  BY <1>1 DEF Queued, Posted, Transmitting, OnChip, Answered, Receiving, Pending,
     EventDone, loopVars, chipVars
<1>4. LifeCycle'
  BY <1>1, <1>3 DEF IInv, TypeOK, LifeCycle, EventDone, TimerFor, loopVars, chipVars, lifeVars
<1>5. TimerRight'
  BY <1>1 DEF IInv, TypeOK, TimerRight, EventDone, TimerFor, loopVars
<1>6. Places'
  BY <1>3 DEF IInv, Places, EventDone, stackVars, lifeVars
<1>7. Once' /\ EventsFaithful'
  BY <1>1 DEF IInv, Once, EventsFaithful, EventDone, chipVars, lifeVars
<1>8. AnswerOrder'
  BY <1>3 DEF IInv, AnswerOrder, AnsweredFirst, EventDone, chipVars
<1>9. Births' /\ LineOrder'
  BY <1>3, SameEarlier DEF IInv, Births, LineOrder, EventDone, loopVars, stackVars, lifeVars
<1>10. OneToken'
  BY <1>1 DEF IInv, OneToken, UnderWay, Quits, Transmits, Receives, EventDone, loopVars, chipVars, lifeVars
<1> QED
  BY <1>2, <1>4, <1>5, <1>6, <1>7, <1>8, <1>9, <1>10 DEF IInv

\* How many commands process_command_credits moves to the message loop.
MovesOf(n, k, l) ==
  /\ n \in 0..l /\ (k > 0 => n <= k) /\ (k <= 0 => n = 0)
  /\ (k - n > 0 => n = l)

LEMMA Moves ==
  ASSUME NEW k \in Int, NEW l \in Nat
  PROVE  MovesOf(Max({0, Min({k, l})}), k, l)
<1> DEFINE n == Max({0, Min({k, l})})
           m == IF k <= l THEN k ELSE l
<1>1. Min({k, l}) = m
  <2>1. {k, l} \subseteq Int /\ m \in {k, l} /\ \A j \in {k, l} : m <= j
    OBVIOUS
  <2> HIDE DEF m
  <2> QED
    BY <2>1, MinIs
<1>2. Max({0, m}) = IF m <= 0 THEN 0 ELSE m
  <2>1. m \in Int
    OBVIOUS
  <2> HIDE DEF m
  <2>2. \A x \in {0, m} : (\A y \in {0, m} : x >= y) => x = IF m <= 0 THEN 0 ELSE m
    BY <2>1
  <2>3. \E x \in {0, m} : \A y \in {0, m} : x >= y
    BY <2>1
  <2> QED
    BY <2>2, <2>3 DEF Max
<1>3. n = IF m <= 0 THEN 0 ELSE m
  BY <1>1, <1>2, Zenon
<1> HIDE DEF n
<1>4. MovesOf(n, k, l)
  BY <1>3 DEF MovesOf
<1> QED
  BY <1>4 DEF n

\* process_command_credits: the queue's first commands go to the message loop.
LEMMA ProcessCommandCreditsKeeps ==
  ASSUME IInv, ProcessCommandCredits
  PROVE  IInv'
<1> USE HciAssumption
<1> DEFINE credits == rx.credits - Len(commands_pending_response)
           n == Max({0, Min({credits, Len(command_queue)})})
<1>1. /\ TypeOK /\ Listed(Commands, commands_pending_response) /\ Listed(Commands, command_queue)
      /\ Listed(Line, tasks) /\ rpc = "credits" /\ rpc' = "finish" /\ rx' = rx /\ rx.credits \in Int
  <2>1. TypeOK
    BY DEF IInv
  <2>2. rx.credits \in Int
    <3>1. rx \in [entry: Commands \cup {None}, about: Commands \cup {None}, credits: {0} \cup Windows,
                 status: BOOLEAN]
      BY <2>1 DEF TypeOK
    <3>2. rx.credits \in {0} \cup Windows
      BY <3>1
    <3>3. \A w \in {0} \cup Windows : w \in Int
      OBVIOUS
    <3> QED
      BY <3>2, <3>3, Zenon
  <2> QED
    BY <2>1, <2>2, Lists DEF ProcessCommandCredits
<1>2. /\ Len(command_queue) \in Nat /\ Len(commands_pending_response) \in Nat /\ credits \in Int
      /\ Len(tasks) \in Nat
  BY <1>1 DEF Listed
<1>3. \/ /\ mpc # "exited" /\ tasks' = tasks \o SubSeq(command_queue, 1, n)
         /\ command_queue' = SubSeq(command_queue, n + 1, Len(command_queue))
         /\ command_credits' = credits - n
      \/ mpc = "exited" /\ UNCHANGED <<tasks, command_queue, command_credits>>
  BY DEF ProcessCommandCredits, LoopExists
<1>4. /\ n \in 0..Len(command_queue) /\ (credits > 0 => n <= credits) /\ (credits <= 0 => n = 0)
      /\ (credits - n > 0 => n = Len(command_queue))
  <2> HIDE DEF credits
  <2>1. MovesOf(n, credits, Len(command_queue))
    BY <1>2, Moves, Zenon
  <2> HIDE DEF n
  <2> QED
    BY <2>1, Zenon DEF MovesOf
<1> HIDE DEF n
<1>5. command_queue \in Seq(Line) /\ tasks \in Seq(Line)
  BY <1>1 DEF TypeOK, Line
<1>6. CASE mpc # "exited"
  <2>1. MovedFrom(Line, tasks', command_queue', tasks, command_queue, n)
    <3>1. MovedFrom(Line, tasks \o SubSeq(command_queue, 1, n),
                    SubSeq(command_queue, n + 1, Len(command_queue)), tasks, command_queue, n)
      BY <1>4, <1>5, Moved
    <3> QED
      BY <1>3, <1>6, <3>1, Zenon
  <2>2. command_queue' \in Seq(Commands) /\ NoRepeat(tasks') /\ NoRepeat(command_queue')
        /\ Posted' \cap Queued' = {} /\ Posted' \cup Queued' = Posted \cup Queued /\ Posted \subseteq Posted'
        /\ Queued' \subseteq Queued
    <3>1. NoRepeat(command_queue) /\ NoRepeat(tasks) /\ Range(command_queue) \cap Range(tasks) = {}
      BY DEF IInv, Once, Places, Queued, Posted
    <3>2. NoRepeat(tasks') /\ NoRepeat(command_queue') /\ Posted' \cap Queued' = {}
          /\ Posted' \cup Queued' = Posted \cup Queued
      BY <2>1, <3>1 DEF MovedFrom, Posted, Queued
    <3>3. Posted \subseteq Posted'
      BY <2>1, Zenon DEF MovedFrom, Posted
    <3>4. Queued' \subseteq Queued
      <4>1. \A i \in (n + 1)..Len(command_queue) : i \in 1..Len(command_queue)
        BY <1>2, <1>4
      <4>2. /\ \A y : y \in Queued' <=> \E i \in (n + 1)..Len(command_queue) : command_queue[i] = y
            /\ \A y : y \in Queued <=> \E i \in 1..Len(command_queue) : command_queue[i] = y
        BY <1>1, <2>1, Zenon DEF MovedFrom, Queued, Listed
      <4> QED
        BY <4>1, <4>2, Zenon
    <3>5. command_queue' \in Seq(Commands)
      <4>1. Listed(Line, command_queue')
        BY <2>1, ElementsOf DEF MovedFrom
      <4>2. /\ command_queue' \in Seq(Line) /\ Len(command_queue') \in Nat
            /\ \A i \in 1..Len(command_queue') : command_queue'[i] \in Commands
        BY <1>1, <2>1, <3>4, <4>1 DEF MovedFrom, Listed, Queued
      <4> QED
        BY <4>2
    <3> QED
      BY <3>2, <3>3, <3>4, <3>5
  <2>3. InOrder(Earlier, tasks') /\ InOrder(Earlier, command_queue') /\ AllBefore(Earlier, Posted', Queued')
    <3>1. InOrder(Earlier, tasks) /\ InOrder(Earlier, command_queue)
          /\ AllBefore(Earlier, Range(tasks), Range(command_queue))
      BY DEF IInv, LineOrder, Posted, Queued
    <3>2. LET u == tasks \o SubSeq(command_queue, 1, n)
              v == SubSeq(command_queue, n + 1, Len(command_queue))
          IN InOrder(Earlier, u) /\ InOrder(Earlier, v) /\ AllBefore(Earlier, Range(u), Range(v))
      BY <1>4, <1>5, <3>1, MovedInOrder
    <3> QED
      BY <1>3, <1>6, <3>2, Zenon DEF Posted, Queued
  <2>4. TypeOK'
    <3>1. tasks' \in Seq(Commands \cup {Quit})
      BY <2>1, Zenon DEF MovedFrom, Line
    <3>2. command_credits' \in Int
      BY <1>2, <1>3, <1>4, <1>6
    <3> QED
      BY <1>1, <2>2, <3>1, <3>2 DEF TypeOK, ProcessCommandCredits, loopVars, chipVars, stackVars, lifeVars
  <2>5. /\ Transmitting' = Transmitting /\ OnChip' = OnChip /\ Answered' = Answered
        /\ Receiving' = Receiving /\ Pending' = Pending
    BY DEF Transmitting, OnChip, Answered, Receiving, Pending, ProcessCommandCredits, loopVars, chipVars
  <2>6. LifeCycle'
    <3>1. Quit \notin Queued
      BY <1>1 DEF Listed, Queued, Quit
    <3>2. Quit \in Posted' <=> Quit \in Posted
      BY <2>2, <3>1
    <3> QED
      BY <1>1, <1>6, <3>2 DEF IInv, LifeCycle, ProcessCommandCredits, loopVars, chipVars, lifeVars
  <2>7. TimerRight'
    BY <1>1 DEF IInv, TimerRight, ProcessCommandCredits, loopVars
  <2>8. Once' /\ EventsFaithful'
    BY <1>1, <2>2 DEF IInv, Once, EventsFaithful, ProcessCommandCredits, chipVars, lifeVars
  <2>9. Places'
    BY <2>2, <2>5 DEF IInv, Places, ProcessCommandCredits, stackVars, lifeVars
  <2>10. AnswerOrder'
    BY <2>5 DEF IInv, AnswerOrder, AnsweredFirst, ProcessCommandCredits, chipVars
  <2>11. Births'
    BY DEF IInv, Births, ProcessCommandCredits, loopVars, stackVars, lifeVars
  <2>12. LineOrder'
    <3>1. Earlier' = Earlier /\ sent' = sent
      BY SameEarlier DEF ProcessCommandCredits, loopVars
    <3>2. ASSUME command_credits' > 0 PROVE Queued' = {}
      <4>1. Len(command_queue') = 0
        BY <1>2, <1>3, <1>4, <1>6, <2>1, <3>2 DEF MovedFrom
      <4>2. Listed(Line, command_queue')
        BY <2>1, ElementsOf DEF MovedFrom
      <4> QED
        BY <4>1, <4>2 DEF Listed, Queued
    <3>3. /\ AllBefore(Earlier, Range(sent), Transmitting' \cup Posted' \cup Queued')
          /\ AllBefore(Earlier, Transmitting', Posted' \cup Queued')
      BY <2>2, <2>5 DEF IInv, LineOrder, AllBefore
    <3> QED
      BY <2>3, <3>1, <3>2, <3>3 DEF IInv, LineOrder
  <2>13. OneToken'
    <3>1. Receives = 1 /\ Receives' = 0 /\ Len(tasks') = Len(tasks) + n /\ n \in Nat
      BY <1>1, <1>4, <2>1 DEF Receives, MovedFrom
    <3>2. /\ Quits' = Quits /\ Transmits' = Transmits /\ chip' = chip /\ events' = events
          /\ Quits \in Nat /\ Transmits \in Nat
      BY DEF Quits, Transmits, ProcessCommandCredits, loopVars, chipVars, lifeVars
    <3>3. Len(chip) \in Nat /\ Len(events) \in Nat
      BY <1>1, Lists DEF Listed
    <3>4. UnderWay' = UnderWay - 1 + n /\ UnderWay \in Int
      BY <1>2, <3>1, <3>2, <3>3 DEF UnderWay
    <3>5. window = 1 => credits <= 1
      <4>1. rx.credits = window
        BY <1>1 DEF IInv, EventsFaithful
      <4> QED
        BY <1>2, <4>1
    <3>6. window' = window /\ nops' = nops
      BY DEF ProcessCommandCredits, chipVars, lifeVars
    <3> HIDE DEF credits
    <3> QED
      BY <1>2, <1>3, <1>4, <1>6, <3>1, <3>4, <3>5, <3>6 DEF IInv, OneToken
  <2> QED
    BY <2>4, <2>6, <2>7, <2>8, <2>9, <2>10, <2>11, <2>12, <2>13 DEF IInv
<1>7. CASE mpc = "exited"
  <2>1. UNCHANGED <<tasks, command_queue, command_credits>>
    BY <1>3, <1>7
  <2>2. /\ Queued' = Queued /\ Posted' = Posted /\ Transmitting' = Transmitting
        /\ OnChip' = OnChip /\ Answered' = Answered
        /\ Receiving' = Receiving /\ Pending' = Pending
    BY <2>1 DEF Queued, Posted, Transmitting, OnChip, Answered, Receiving, Pending,
       ProcessCommandCredits, loopVars, chipVars
  <2>3. TypeOK'
    BY <1>1, <2>1 DEF TypeOK, ProcessCommandCredits, loopVars, chipVars, stackVars, lifeVars
  <2>4. LifeCycle' /\ TimerRight'
    BY <1>1, <2>1, <2>2 DEF IInv, LifeCycle, TimerRight, ProcessCommandCredits, loopVars, chipVars, lifeVars
  <2>5. Once' /\ EventsFaithful'
    BY <1>1, <2>1 DEF IInv, Once, EventsFaithful, ProcessCommandCredits, chipVars, lifeVars
  <2>6. Places'
    BY <2>2 DEF IInv, Places, ProcessCommandCredits, stackVars, lifeVars
  <2>7. AnswerOrder'
    BY <2>2 DEF IInv, AnswerOrder, AnsweredFirst, ProcessCommandCredits, chipVars
  <2>8. Births' /\ LineOrder'
    BY <2>1, <2>2, SameEarlier DEF IInv, Births, LineOrder, ProcessCommandCredits, loopVars, stackVars, lifeVars
  <2>9. OneToken'
    <3>1. Receives = 1 /\ Receives' = 0
      BY <1>1 DEF Receives
    <3>2. /\ Quits' = Quits /\ Transmits' = Transmits /\ chip' = chip /\ events' = events
          /\ Quits \in Nat /\ Transmits \in Nat /\ tasks' = tasks
      BY <2>1 DEF Quits, Transmits, ProcessCommandCredits, loopVars, chipVars, lifeVars
    <3>3. Len(chip) \in Nat /\ Len(events) \in Nat
      BY <1>1, Lists DEF Listed
    <3>4. UnderWay' = UnderWay - 1 /\ UnderWay \in Int
      BY <1>2, <3>1, <3>2, <3>3 DEF UnderWay
    <3>5. window' = window /\ nops' = nops /\ command_credits \in Int
      BY <1>1 DEF TypeOK, ProcessCommandCredits, chipVars, lifeVars
    <3> QED
      BY <2>1, <3>4, <3>5 DEF IInv, OneToken
  <2> QED
    BY <2>3, <2>4, <2>5, <2>6, <2>7, <2>8, <2>9 DEF IInv
<1> QED
  BY <1>6, <1>7

-----------------------------------------------------------------------------
\* A command that is enqueued comes after every other command of its session.
LEMMA EarlierGrows ==
  ASSUME IInv, NEW c \in Commands, TransmitCommand(c)
  PROVE  /\ \A x, y \in Line : x # c /\ y # c /\ <<x, y>> \in Earlier => <<x, y>> \in Earlier'
         /\ \A x \in Line : x # c => <<x, c>> \in Earlier'
         /\ \A y \in Line : y # c /\ (y \notin Commands \/ born[y] < session) => <<c, y>> \in Earlier'
<1> USE HciAssumption
<1>1. /\ TypeOK /\ enqueued \in Seq(Commands) /\ born \in [Commands -> 0..MaxSessions]
      /\ enqueued' = Append(enqueued, c) /\ born' = [born EXCEPT ![c] = session] /\ born[c] = 0
      /\ session \in 1..MaxSessions
  BY DEF IInv, TypeOK, TransmitCommand
<1>2. AppendedTo(Commands, enqueued', enqueued, c) /\ Listed(Commands, enqueued)
  BY <1>1, Appended, Lists
<1>3. Listed(Commands, enqueued')
  BY <1>2, ElementsOf DEF AppendedTo
<1>4. c \notin Range(enqueued)
  BY <1>1 DEF IInv, Births
<1>5. /\ DOMAIN enqueued = 1..Len(enqueued) /\ DOMAIN enqueued' = 1..(Len(enqueued) + 1)
      /\ Len(enqueued) \in Nat /\ enqueued'[Len(enqueued) + 1] = c
      /\ \A i \in DOMAIN enqueued : enqueued'[i] = enqueued[i] /\ enqueued'[i] # c
      /\ \A i \in DOMAIN enqueued' : i \in DOMAIN enqueued \/ i = Len(enqueued) + 1
  BY <1>2, <1>3, <1>4 DEF AppendedTo, Listed
<1>6. \A x, y \in Line : <<x, y>> \in Earlier' <=>
        (x \in Commands /\ y \in Commands /\ born'[x] = born'[y] => EnqueuedFirst(x, y)')
  BY DEF Earlier
<1>7. (\A x \in Commands : x # c => born'[x] = born[x]) /\ born'[c] = session
  BY <1>1
<1>8. ASSUME NEW x \in Line, NEW y \in Line, x # c, y # c, <<x, y>> \in Earlier
      PROVE  <<x, y>> \in Earlier'
  <2>1. EnqueuedFirst(x, y) => EnqueuedFirst(x, y)'
    BY <1>5, <1>8 DEF EnqueuedFirst
  <2> QED
    BY <1>6, <1>7, <1>8, <2>1, EarlierPair
<1>9. ASSUME NEW x \in Line, x # c PROVE <<x, c>> \in Earlier'
  <2>1. EnqueuedFirst(x, c)'
    BY <1>5, <1>9 DEF EnqueuedFirst
  <2> QED
    BY <1>6, <2>1 DEF Line
<1>10. ASSUME NEW y \in Line, y # c, y \notin Commands \/ born[y] < session
       PROVE  <<c, y>> \in Earlier'
  <2>1. y \notin Commands \/ born'[c] # born'[y]
    BY <1>1, <1>7, <1>10
  <2> QED
    BY <1>6, <2>1 DEF Line
<1> QED
  BY <1>8, <1>9, <1>10

\* enqueue_command: a command with a credit goes to the message loop, a command
\* without one waits in the queue, and one after the shutdown is freed.
LEMMA TransmitCommandKeeps ==
  ASSUME IInv, NEW c \in Commands, TransmitCommand(c)
  PROVE  IInv'
<1> USE HciAssumption
<1>1. /\ TypeOK /\ Listed(Line, tasks) /\ Listed(Commands, command_queue)
      /\ enqueued \in Seq(Commands) /\ born \in [Commands -> 0..MaxSessions]
      /\ enqueued' = Append(enqueued, c) /\ born' = [born EXCEPT ![c] = session] /\ born[c] = 0
      /\ session \in 1..MaxSessions
  BY Lists DEF IInv, TypeOK, TransmitCommand
<1>2. AppendedTo(Commands, enqueued', enqueued, c)
  BY <1>1, Appended
<1>3. c # Quit /\ c # None /\ c \in Line
  BY DEF Quit, Line
<1>4. c \notin Queued \cup Posted \cup Pending \cup Receiving \cup freed \cup Transmitting \cup Range(sent)
      /\ c \notin Range(enqueued)
  <2>1. c \notin Queued \cup Posted \cup Pending \cup Receiving \cup freed \cup Transmitting
    BY <1>1 DEF IInv, Places
  <2>2. c \notin Range(enqueued) /\ c \notin Range(sent)
    BY <1>1 DEF IInv, Births
  <2> QED
    BY <2>1, <2>2
<1>5. /\ \/ /\ command_credits > 0 /\ mpc # "exited" /\ command_credits' = command_credits - 1
            /\ tasks' = Append(tasks, c) /\ Posted' = Posted \cup {c}
            /\ AppendedTo(Line, tasks', tasks, c)
            /\ command_queue' = command_queue /\ Queued' = Queued /\ freed' = freed
         \/ /\ tasks' = tasks /\ Posted' = Posted /\ command_credits' = command_credits
            /\ command_queue' = command_queue /\ Queued' = Queued /\ freed' = freed \cup {c}
         \/ /\ command_credits <= 0 /\ tasks' = tasks /\ Posted' = Posted
            /\ command_queue' = Append(command_queue, c) /\ Queued' = Queued \cup {c}
            /\ AppendedTo(Commands, command_queue', command_queue, c)
            /\ command_credits' = command_credits /\ freed' = freed
  <2>1. AppendedTo(Line, Append(tasks, c), tasks, c)
    BY <1>1, <1>3, Appended DEF TypeOK, Line
  <2>2. AppendedTo(Commands, Append(command_queue, c), command_queue, c)
    BY <1>1, Appended DEF TypeOK
  <2>3. Range(Append(tasks, c)) = Range(tasks) \cup {c}
        /\ Range(Append(command_queue, c)) = Range(command_queue) \cup {c}
    BY <2>1, <2>2, Zenon DEF AppendedTo
  <2> QED
    BY <2>1, <2>2, <2>3, Zenon DEF TransmitCommand, LoopExists, Posted, Queued
<1>6. /\ Transmitting' = Transmitting /\ OnChip' = OnChip /\ Answered' = Answered
      /\ Receiving' = Receiving /\ Pending' = Pending
  BY DEF Transmitting, OnChip, Answered, Receiving, Pending, TransmitCommand, loopVars, chipVars, rxVars
<1>7. TypeOK'
  <2>1. tasks' \in Seq(Commands \cup {Quit}) /\ command_queue' \in Seq(Commands) /\ command_credits' \in Int
        /\ freed' \subseteq Commands
    <3>1. /\ tasks \in Seq(Line) /\ command_queue \in Seq(Commands) /\ freed \subseteq Commands
          /\ command_credits \in Int
      BY <1>1 DEF TypeOK, Line
    <3>2. tasks' \in Seq(Line)
      BY <1>5, <3>1, Zenon DEF AppendedTo
    <3>3. command_queue' \in Seq(Commands)
      BY <1>5, <3>1, Zenon DEF AppendedTo
    <3>4. freed' \subseteq Commands /\ command_credits' \in Int
      BY <1>5, <3>1
    <3> QED
      BY <3>2, <3>3, <3>4, Zenon DEF Line
  <2>2. enqueued' \in Seq(Commands) /\ born' \in [Commands -> 0..MaxSessions]
    <3>1. enqueued' \in Seq(Commands)
      BY <1>2, Zenon DEF AppendedTo
    <3>2. born' \in [Commands -> 0..MaxSessions]
      BY <1>1
    <3> QED
      BY <3>1, <3>2
  <2> QED
    <3>1. /\ lpc' = lpc /\ session' = session /\ window' = window /\ nops' = nops
          /\ commands_pending_response' = commands_pending_response /\ timer' = timer
          /\ mpc' = mpc /\ mcur' = mcur /\ sent' = sent /\ rpc' = rpc /\ rx' = rx
          /\ answered' = answered /\ untold' = untold /\ chip' = chip /\ events' = events
      BY DEF TransmitCommand, loopVars, chipVars, rxVars, lifeVars
    <3>2. TypeOK /\ chip \in Seq(Commands) /\ events \in Seq(Event)
      BY DEF IInv, TypeOK
    <3> QED
      BY <2>1, <2>2, <3>1, <3>2, UnchangedTypes, Zenon
<1>8. LifeCycle'
  BY <1>3, <1>5 DEF IInv, LifeCycle, TransmitCommand, loopVars, chipVars, rxVars, lifeVars, NoEvent
<1>9. TimerRight' /\ EventsFaithful'
  BY DEF IInv, TimerRight, EventsFaithful, TransmitCommand, loopVars, chipVars, rxVars, lifeVars
<1>10. Once'
  BY <1>4, <1>5 DEF IInv, Once, AppendedTo, Queued, Posted, TransmitCommand, chipVars
<1>11. Places'
  <2>1. \A d \in Commands : born'[d] = 0 => d # c /\ born[d] = 0
    BY <1>1
  <2>2. lpc' = lpc
    BY DEF TransmitCommand, lifeVars
  <2> QED
    BY <1>4, <1>5, <1>6, <2>1, <2>2 DEF IInv, Places
<1>12. AnswerOrder'
  BY <1>6 DEF IInv, AnswerOrder, AnsweredFirst, TransmitCommand, chipVars
<1>13. Births'
  <2>1. NoRepeat(enqueued') /\ Range(enqueued') = Range(enqueued) \cup {c}
    BY <1>2, <1>4 DEF IInv, Births, AppendedTo
  <2>2. ASSUME NEW d \in Commands
        PROVE  born'[d] <= session /\ (born'[d] # 0 <=> d \in Range(enqueued'))
    BY <1>1, <1>4, <2>1 DEF IInv, Births
  <2> QED
    BY <2>1, <2>2 DEF IInv, Births, TransmitCommand, loopVars, lifeVars
<1>14. LineOrder'
  <2>1. /\ \A x, y \in Line : x # c /\ y # c /\ <<x, y>> \in Earlier => <<x, y>> \in Earlier'
        /\ \A x \in Line : x # c => <<x, c>> \in Earlier'
        /\ \A y \in Line : y # c /\ (y \notin Commands \/ born[y] < session) => <<c, y>> \in Earlier'
    BY EarlierGrows
  <2>2. /\ Queued \cup Posted \cup Transmitting \cup Range(sent) \subseteq Line
        /\ c \notin Queued \cup Posted \cup Transmitting \cup Range(sent)
    <3>1. Queued \cup Posted \cup Range(sent) \subseteq Line
      BY <1>1, Lists DEF Queued, Posted, Line, Listed
    <3>2. Transmitting \subseteq Line
      BY DEF IInv, LifeCycle, Transmitting, Line
    <3> QED
      BY <1>4, <3>1, <3>2
  <2>3. ASSUME NEW X, NEW Y, X \subseteq Line, Y \subseteq Line, c \notin X, c \notin Y, AllBefore(Earlier, X, Y)
        PROVE  AllBefore(Earlier', X, Y)
    BY <2>1, <2>3 DEF AllBefore
  <2>4. ASSUME NEW X, X \subseteq Line, c \notin X PROVE AllBefore(Earlier', X, {c})
    BY <2>1, <2>4 DEF AllBefore
  <2>5. InOrder(Earlier', sent) /\ InOrder(Earlier', tasks) /\ InOrder(Earlier', command_queue)
    <3>1. ASSUME NEW s, NEW S, Listed(S, s), Range(s) \subseteq Line, c \notin Range(s), InOrder(Earlier, s)
          PROVE  InOrder(Earlier', s)
      <4>1. \A i \in DOMAIN s : s[i] \in Line /\ s[i] # c
        BY <3>1 DEF Listed
      <4> QED
        BY <2>1, <3>1, <4>1 DEF InOrder
    <3>2. Listed(Commands, sent)
      BY <1>1, Lists
    <3> QED
      BY <1>1, <2>2, <3>1, <3>2 DEF IInv, LineOrder, Queued, Posted
  <2>6. /\ AllBefore(Earlier', Range(sent), Transmitting \cup Posted \cup Queued)
        /\ AllBefore(Earlier', Transmitting, Posted \cup Queued)
        /\ AllBefore(Earlier', Posted, Queued)
    BY <2>2, <2>3 DEF IInv, LineOrder
  <2>7. /\ AllBefore(Earlier', Range(sent), {c}) /\ AllBefore(Earlier', Transmitting, {c})
        /\ AllBefore(Earlier', Posted, {c}) /\ AllBefore(Earlier', Queued, {c})
    BY <2>2, <2>4
  <2>8. command_credits > 0 => AllBefore(Earlier', {c}, Queued)
    BY <2>1, <2>2 DEF IInv, LineOrder, AllBefore
  <2>9. command_credits' > 0 => \A d \in Queued' : born'[d] < session'
    <3>1. ASSUME NEW d \in Queued, born[d] < session PROVE born'[d] < session
      <4>1. d # c
        BY <1>4
      <4>2. d \in Commands
        BY <1>1 DEF Listed, Queued
      <4> QED
        BY <1>1, <3>1, <4>1, <4>2
    <3>2. session' = session /\ command_credits \in Int
      BY <1>1 DEF TypeOK, TransmitCommand, lifeVars
    <3> QED
      BY <1>5, <3>1, <3>2 DEF IInv, LineOrder
  <2>10. InOrder(Earlier', tasks') /\ InOrder(Earlier', command_queue')
    <3>1. tasks \in Seq(Line) /\ command_queue \in Seq(Commands)
      BY <1>1 DEF TypeOK, Line
    <3>2. InOrder(Earlier', Append(tasks, c)) /\ InOrder(Earlier', Append(command_queue, c))
      BY <1>3, <2>5, <2>7, <3>1, AppendedInOrder DEF Posted, Queued
    <3> QED
      BY <1>5, <2>5, <3>2
  <2>11. sent' = sent
    BY DEF TransmitCommand, loopVars
  <2>12. CASE Posted' = Posted \cup {c} /\ Queued' = Queued /\ command_credits > 0
    <3>1. /\ AllBefore(Earlier', Range(sent), Transmitting \cup Posted' \cup Queued')
          /\ AllBefore(Earlier', Transmitting, Posted' \cup Queued')
          /\ AllBefore(Earlier', Posted', Queued')
      BY <2>6, <2>7, <2>8, <2>12 DEF AllBefore
    <3> QED
      BY <1>6, <2>5, <2>9, <2>10, <2>11, <3>1 DEF LineOrder
  <2>13. CASE Posted' = Posted /\ Queued' = Queued
    BY <1>6, <2>5, <2>6, <2>9, <2>10, <2>11, <2>13 DEF LineOrder
  <2>14. CASE Posted' = Posted /\ Queued' = Queued \cup {c}
    <3>1. /\ AllBefore(Earlier', Range(sent), Transmitting \cup Posted' \cup Queued')
          /\ AllBefore(Earlier', Transmitting, Posted' \cup Queued')
          /\ AllBefore(Earlier', Posted', Queued')
      BY <2>6, <2>7, <2>14 DEF AllBefore
    <3> QED
      BY <1>6, <2>5, <2>9, <2>10, <2>11, <3>1 DEF LineOrder
  <2> QED
    BY <1>5, <2>12, <2>13, <2>14
<1>15. OneToken'
  <2>1. /\ Receives' = Receives /\ Quits' = Quits /\ Transmits' = Transmits /\ chip' = chip /\ events' = events
        /\ Quits \in Nat /\ Transmits \in Nat /\ Receives \in Nat
    BY DEF Receives, Quits, Transmits, TransmitCommand, loopVars, chipVars, rxVars, lifeVars
  <2>2. Len(chip) \in Nat /\ Len(events) \in Nat /\ Len(tasks) \in Nat /\ command_credits \in Int
    BY <1>1, Lists DEF Listed, TypeOK
  <2>3. /\ window' = window /\ nops' = nops
        /\ \/ command_credits > 0 /\ Len(tasks') = Len(tasks) + 1 /\ command_credits' = command_credits - 1
           \/ tasks' = tasks /\ command_credits' = command_credits
    BY <1>5 DEF TransmitCommand, chipVars, lifeVars, AppendedTo
  <2>4. \/ UnderWay' = UnderWay /\ command_credits' = command_credits
        \/ UnderWay' = UnderWay + 1 /\ command_credits > 0 /\ command_credits' = command_credits - 1
    BY <2>1, <2>2, <2>3 DEF UnderWay
  <2>5. UnderWay \in Int
    BY <2>1, <2>2 DEF UnderWay
  <2> QED
    BY <2>2, <2>3, <2>4, <2>5 DEF IInv, OneToken
<1> QED
  BY <1>7, <1>8, <1>9, <1>10, <1>11, <1>12, <1>13, <1>14, <1>15 DEF IInv

-----------------------------------------------------------------------------
\* The lists, the threads and the controller stay consistent in every step.
LEMMA NextIInv ==
  ASSUME ProperAnswers, IInv, [Next]_vars
  PROVE  IInv'
<1>1. CASE UNCHANGED vars
  <2>1. /\ Queued' = Queued /\ Posted' = Posted /\ Transmitting' = Transmitting
        /\ OnChip' = OnChip /\ Answered' = Answered
        /\ Receiving' = Receiving /\ Pending' = Pending
    BY <1>1 DEF vars, Queued, Posted, Transmitting, OnChip, Answered, Receiving, Pending
  <2>2. TypeOK'
    BY <1>1 DEF IInv, vars, TypeOK
  <2>3. LifeCycle' /\ Once' /\ Places' /\ EventsFaithful' /\ TimerRight'
    BY <1>1, <2>1 DEF IInv, vars, LifeCycle, Once, Places, EventsFaithful, TimerRight, NoEvent
  <2>4. AnswerOrder'
    BY <1>1, <2>1 DEF IInv, vars, AnswerOrder, AnsweredFirst
  <2>5. Births' /\ LineOrder'
    BY <1>1, <2>1, SameEarlier DEF IInv, vars, stackVars, Births, LineOrder
  <2>6. OneToken'
    BY <1>1 DEF IInv, vars, OneToken, UnderWay, Quits, Transmits, Receives
  <2> QED
    BY <2>2, <2>3, <2>4, <2>5, <2>6 DEF IInv
<1>2. CASE \E c \in Commands : TransmitCommand(c)
  BY <1>2, TransmitCommandKeeps
<1>3. CASE LoopStep
  BY <1>3, CommandReadyKeeps, TransmitKeeps, TransmitDoneKeeps, LoopQuitsKeeps DEF LoopStep
<1>4. CASE RxStep
  BY <1>4, EventReceivedKeeps, ProcessCommandCreditsKeeps, EventDoneKeeps DEF RxStep
<1>5. CASE ControllerStep
  BY <1>5, ControllerAnswersKeeps DEF ControllerStep
<1>6. CASE ControllerReports
  BY <1>6, ControllerReportsKeeps
<1>7. CASE ShutDown \/ LifeStep
  BY <1>7, ShutDownKeeps, ShutDownQuitsKeeps, ShutDownClosesKeeps, ShutDownEndsKeeps, StartUpKeeps DEF LifeStep
<1> QED
  BY <1>1, <1>2, <1>3, <1>4, <1>5, <1>6, <1>7 DEF Next

\* The inductive invariant of the command path, for every set of commands,
\* every window and any number of restarts.
THEOREM HciInvariant ==
  ASSUME ProperAnswers
  PROVE  Spec => []IInv
<1>1. Init => IInv
  BY InitIInv
<1>2. IInv /\ [Next]_vars => IInv'
  BY NextIInv
<1> QED
  BY <1>1, <1>2, PTL DEF Spec

\* A command is not freed while the message loop or the controller needs it
\* (transmit_fragment leaves the free to filter_incoming_event).
THEOREM HciNotFreedInUse ==
  ASSUME ProperAnswers
  PROVE  Spec => []NotFreedInUse
<1>1. ASSUME IInv PROVE NotFreedInUse
  <2>1. TypeOK
    BY <1>1 DEF IInv
  <2>2. mpc = "transmit" => mcur \notin freed
    BY <1>1 DEF IInv, Places, Transmitting
  <2>3. \A i \in DOMAIN chip : chip[i] \notin freed
    BY <1>1, <2>1, Lists DEF IInv, Places, OnChip, Listed
  <2>4. \A i \in DOMAIN tasks : tasks[i] \notin freed
    BY <1>1, <2>1, Lists DEF IInv, Places, Posted, Listed
  <2> QED
    BY <2>2, <2>3, <2>4 DEF NotFreedInUse
<1> QED
  BY <1>1, HciInvariant, PTL

\* update_command_response_timer: outside the moments in which a thread is about
\* to call it, the timer runs if and only if commands are pending.
THEOREM HciTimerTracksPending ==
  ASSUME ProperAnswers
  PROVE  Spec => []TimerTracksPending
<1>1. IInv => TimerTracksPending
  BY DEF IInv, TimerRight, TimerTracksPending
<1> QED
  BY <1>1, HciInvariant, PTL

\* Commands are sent in the order of enqueue_command, and an event reaches the
\* callback of the command it answers (get_waiting_command).
THEOREM HciEventReachesItsCommand ==
  ASSUME ProperAnswers
  PROVE  Spec => []EventReachesItsCommand
<1>1. ASSUME IInv PROVE EventReachesItsCommand
  <2>1. rpc # "idle" => rx.entry = rx.about
    BY <1>1 DEF IInv, EventsFaithful
  <2>2. SentInOrder
    <3> DEFINE place(c) == CHOOSE i \in DOMAIN enqueued : enqueued[i] = c
    <3> SUFFICES ASSUME NEW i \in DOMAIN sent, NEW j \in DOMAIN sent,
                        i < j, born[sent[i]] = born[sent[j]]
                 PROVE  place(sent[i]) < place(sent[j])
      BY DEF SentInOrder
    <3>1. TypeOK
      BY <1>1 DEF IInv
    <3>2. \A k \in DOMAIN sent : sent[k] \in Commands /\ sent[k] \in Range(enqueued)
      BY <1>1, <3>1, Lists DEF IInv, Births, Listed
    <3>3. \A x \in Range(enqueued) : \E k \in DOMAIN enqueued : enqueued[k] = x
      BY <3>1, Lists DEF Listed
    <3>4. \A x \in Range(enqueued) : place(x) \in DOMAIN enqueued /\ enqueued[place(x)] = x
      BY <3>3
    <3>5. <<sent[i], sent[j]>> \in Earlier
      BY <1>1 DEF IInv, LineOrder, InOrder
    <3>6. EnqueuedFirst(sent[i], sent[j])
      BY <3>2, <3>5, EarlierPair DEF Line
    <3> HIDE DEF place
    <3> QED
      BY <3>2, <3>4, <3>6 DEF EnqueuedFirst
  <2> QED
    BY <2>1, <2>2 DEF EventReachesItsCommand
<1> QED
  BY <1>1, HciInvariant, PTL

\* A controller with a window of one has at most one command at a time.
THEOREM HciOneAtATime ==
  ASSUME ProperAnswers
  PROVE  Spec => []OneAtATime
<1>1. ASSUME IInv PROVE OneAtATime
  <2>1. TypeOK /\ Listed(Line, tasks)
    BY <1>1, Lists DEF IInv
  <2>2. Len(tasks) \in Nat /\ Len(chip) \in Nat /\ Len(events) \in Nat
    BY <2>1, Lists DEF Listed
  <2>3. Quits = 0 \/ (Quits = 1 /\ Quit \in Posted)
    BY <1>1 DEF IInv, LifeCycle, Quits
  <2>4. Quit \in Posted => Len(tasks) # 0
    BY <2>1 DEF Listed, Posted
  <2>5. Len(tasks) - Quits >= 0 /\ Quits \in Nat
    BY <2>2, <2>3, <2>4
  <2>6. Transmits \in Nat /\ Receives \in Nat
    BY DEF Transmits, Receives
  <2>7. Len(chip) <= UnderWay /\ UnderWay \in Int
    BY <2>2, <2>5, <2>6 DEF UnderWay
  <2> QED
    BY <1>1, <2>2, <2>7 DEF IInv, OneToken, OneAtATime
<1> QED
  BY <1>1, HciInvariant, PTL

===============================================================================
