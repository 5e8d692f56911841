---------------------------- MODULE ReactorProofs ----------------------------
(***************************************************************************)
(* Proofs about osi/src/reactor.cc for any set of objects and client       *)
(* threads and any number of registrations, when callbacks unregister only *)
(* the object they were called for (~UnregisterOthers): the invalidation   *)
(* list and the object's mutex together keep the loop from an object that  *)
(* reactor_unregister has freed.                                           *)
(***************************************************************************)
EXTENDS Reactor, TLAPS

Serving == {"lock_obj", "read", "write", "after"}

\* The interest set holds registered objects only, freed memory belongs to no
\* registration.
Registered ==
  /\ ready \subseteq interest
  /\ interest \cap unregistered = {}
  /\ freed \subseteq unregistered

\* A client inside reactor_unregister owns an object that is detached and not
\* yet freed, and no other client owns it.
ClientOwns ==
  /\ \A c \in Clients : cpc[c] # "idle" => target[c] \in unregistered \ freed
  /\ \A c, d \in Clients :
       cpc[c] # "idle" /\ cpc[d] # "idle" /\ target[c] = target[d] => c = d

\* An object removed by its own callback is owned by the loop.
LoopOwns ==
  rpc \in {"read", "write", "after"} /\ object_removed =>
    /\ cur \in unregistered \ freed
    /\ \A c \in Clients : cpc[c] # "idle" => target[c] # cur

\* The batch: at most one event for an object, none for the one being served,
\* and none at all between two batches.
BatchShape ==
  /\ batch \subseteq (Objects \X (0..MaxLives)) \cup {StopEvent}
  /\ \A e, f \in batch : e[1] = f[1] => e = f
  /\ rpc \in {"stopped", "clear", "wait"} => batch = {}
  /\ rpc \in Serving => cur \in Objects /\ \A e \in batch : e[1] # cur

\* An event in the batch is for a registration that is still allocated, or its
\* address is on the invalidation list; if the owner is past list_append, it
\* is on the list.
BatchValid ==
  \A e \in batch \ {StopEvent} :
    \/ e[1] \in invalidation_list
    \/ /\ e[1] \notin freed /\ life[e[1]] = e[2]
       /\ \A c \in Clients : cpc[c] \in {"lock", "free"} => target[c] # e[1]

\* The object being served is alive, and the mutex of the invalidation list and
\* its own mutex hold a client that unregisters it back.
ServedAlive ==
  /\ rpc \in {"lock_obj", "read", "write"} => cur \notin freed /\ curLife = life[cur]
  /\ \A c \in Clients :
       cpc[c] # "idle" /\ target[c] = cur =>
         /\ rpc = "lock_obj" => cpc[c] = "append"
         /\ rpc \in {"read", "write"} => cpc[c] \in {"append", "lock"}

IInv == TypeOK /\ Registered /\ ClientOwns /\ LoopOwns /\ BatchShape /\ BatchValid /\ ServedAlive

\* A new reactor satisfies the inductive invariant.
LEMMA InitIInv == Init => IInv
<1> SUFFICES ASSUME Init PROVE IInv
  OBVIOUS
<1>1. /\ object_removed \in BOOLEAN /\ stop_fd \in BOOLEAN /\ is_running \in BOOLEAN
      /\ once \in BOOLEAN
  BY Zenon DEF Init
<1>2. TypeOK
  BY <1>1, ReactorAssumption DEF ReactorAssumption, Init, TypeOK
<1> QED
  BY <1>2
  DEF Init, IInv, Registered, ClientOwns, LoopOwns, BatchShape, BatchValid, ServedAlive,
      Serving, StopEvent

\* Every step of the loop, of the clients and of the callbacks preserves the
\* inductive invariant when callbacks unregister only their own object.
LEMMA StepIInv ==
  ASSUME ~UnregisterOthers, IInv, [Next]_vars PROVE IInv'
<1> USE ReactorAssumption
    DEF ReactorAssumption, IInv, TypeOK, Registered, ClientOwns, LoopOwns, BatchShape,
        BatchValid, ServedAlive, Serving, StopEvent, loopVars, objectVars, clientVars
<1>1. ASSUME NEW o \in Objects, BecomeReady(o) PROVE IInv'
  BY <1>1 DEF BecomeReady
<1>2. ASSUME NEW o \in Objects, Register(o) PROVE IInv'
  BY <1>2 DEF Register
<1>3. CASE Stop
  BY <1>3 DEF Stop
<1>4. ASSUME NEW c \in Clients, NEW o \in Objects, Unregister(c, o) PROVE IInv'
  BY <1>4 DEF Unregister, Detach
<1>5. ASSUME NEW c \in Clients, UnregisterAppend(c) PROVE IInv'
  BY <1>5 DEF UnregisterAppend
<1>6. ASSUME NEW c \in Clients, UnregisterLock(c) PROVE IInv'
  BY <1>6 DEF UnregisterLock
<1>7. ASSUME NEW c \in Clients, UnregisterFree(c) PROVE IInv'
  BY <1>7 DEF UnregisterFree
<1>8. CASE Start
  BY <1>8 DEF Start
<1>9. CASE ClearInvalidated
  BY <1>9 DEF ClearInvalidated
<1>10. CASE EpollWait
  BY <1>10 DEF EpollWait, Reported
<1>11. CASE TakeStopEvent
  BY <1>11 DEF TakeStopEvent
<1>12. CASE NextEvent
  BY <1>12 DEF NextEvent
<1>13. CASE LockObject
  BY <1>13 DEF LockObject
<1>14. CASE EndOfBatch
  BY <1>14 DEF EndOfBatch
<1>15. ASSUME NEW o \in Objects, CallbackUnregisters(o) PROVE IInv'
  BY <1>15 DEF CallbackUnregisters, Detach
<1>16. CASE ReadReturns
  BY <1>16 DEF ReadReturns
<1>17. CASE WriteReturns
  BY <1>17 DEF WriteReturns
<1>18. CASE AfterCallbacks
  BY <1>18 DEF AfterCallbacks
<1>19. CASE UNCHANGED vars
  BY <1>19 DEF vars
<1> QED
  BY <1>1, <1>2, <1>3, <1>4, <1>5, <1>6, <1>7, <1>8, <1>9, <1>10, <1>11, <1>12, <1>13,
     <1>14, <1>15, <1>16, <1>17, <1>18, <1>19 DEF Next, LoopStep, ClientStep

\* The ownership of objects, between the loop, the clients and the batch, is as
\* described in every state.
THEOREM ReactorInvariant ==
  ASSUME ~UnregisterOthers PROVE Spec => []IInv
<1>1. IInv /\ [Next]_vars => IInv'
  BY StepIInv
<1> QED
  BY InitIInv, <1>1, PTL DEF Spec

\* reactor_unregister frees the object while the loop may hold its address:
\* for any number of objects and threads the loop never uses freed memory, nor
\* serves a new registration with an event of the old one.
THEOREM ReactorNoUseAfterFree ==
  ASSUME ~UnregisterOthers PROVE Spec => []NoUseAfterFree
<1>1. IInv => NoUseAfterFree
  BY DEF IInv, NoUseAfterFree, ServedAlive, LoopOwns, Registered
<1> QED
  BY ReactorInvariant, <1>1, PTL

\* Once reactor_unregister has passed the object lock, no callback of the
\* object is running or will run.
THEOREM ReactorNoCallbackAfterUnregister ==
  ASSUME ~UnregisterOthers PROVE Spec => []NoCallbackAfterUnregister
<1>1. IInv => NoCallbackAfterUnregister
  BY DEF IInv, NoCallbackAfterUnregister, ServedAlive
<1> QED
  BY ReactorInvariant, <1>1, PTL

==============================================================================
