------------------------------- MODULE Reactor -------------------------------
(***************************************************************************)
(* osi/src/reactor.cc: the epoll loop of a reactor thread, and threads     *)
(* that register and unregister objects while it runs.  An object is       *)
(* freed by reactor_unregister although the loop may hold its address in   *)
(* the batch of events it is working through: the invalidation list and    *)
(* the object's mutex are there to make that safe.                         *)
(*                                                                         *)
(* Mutexes are held across steps only by the reactor thread, so they are   *)
(* read off rpc: list_mutex is held at "lock_obj", the mutex of cur at     *)
(* "read" and "write".  An address may be reused by a later registration;  *)
(* life[o] tells the registrations at address o apart.                     *)
(***************************************************************************)
EXTENDS Naturals

CONSTANTS Objects,           \* addresses of reactor_object_t
          Clients,           \* threads other than the reactor thread
          None,
          MaxLives,          \* bound on the registrations at one address
          UnregisterOthers   \* TRUE: a callback may unregister an object
                             \* other than the one it was called for

ASSUME ReactorAssumption ==
  /\ MaxLives \in Nat /\ UnregisterOthers \in BOOLEAN
  /\ None \notin Objects

VARIABLES interest,        \* objects in the epoll set
          ready,           \* objects whose descriptor is readable or writable
          life,            \* life[o]: number of registrations at o so far
          freed,           \* addresses that are not allocated
          unregistered,    \* objects reactor_unregister was called for
          batch,           \* events[j..]: pairs of an address and its life
          invalidation_list,
          object_removed,
          stop_fd,         \* event_fd is readable
          is_running,
          once,            \* run_reactor was called with iterations = 1
          rpc,             \* where the reactor thread is
          cur,             \* the local |object| of run_reactor
          curLife,         \* the life the event for cur was reported in
          cpc, target      \* where a client's reactor_unregister is, and its obj

vars == <<interest, ready, life, freed, unregistered, batch, invalidation_list,
          object_removed, stop_fd, is_running, once, rpc, cur, curLife, cpc, target>>

\* The types: in particular the loop deletes only an object it is serving.
TypeOK ==
  /\ interest \subseteq Objects /\ ready \subseteq Objects
  /\ life \in [Objects -> 0..MaxLives]
  /\ freed \subseteq Objects /\ unregistered \subseteq Objects
  /\ batch \subseteq (Objects \cup {None}) \X (0..MaxLives)
  /\ invalidation_list \subseteq Objects
  /\ object_removed \in BOOLEAN /\ stop_fd \in BOOLEAN /\ is_running \in BOOLEAN
  /\ once \in BOOLEAN
  /\ rpc \in {"stopped", "clear", "wait", "next", "lock_obj", "read", "write", "after"}
  /\ cur \in Objects \cup {None} /\ curLife \in 0..MaxLives
  /\ cpc \in [Clients -> {"idle", "append", "lock", "free"}]
  /\ target \in [Clients -> Objects \cup {None}]

\* reactor_new, before reactor_start.
Init ==
  /\ interest = {} /\ ready = {}
  /\ life = [o \in Objects |-> 0]
  /\ freed = Objects /\ unregistered = Objects
  /\ batch = {} /\ invalidation_list = {}
  /\ object_removed = FALSE /\ stop_fd = FALSE /\ is_running = FALSE
  /\ once = FALSE
  /\ rpc = "stopped" /\ cur = None /\ curLife = 0
  /\ cpc = [c \in Clients |-> "idle"]
  /\ target = [c \in Clients |-> None]

loopVars == <<batch, object_removed, stop_fd, is_running, once, rpc, cur, curLife>>
objectVars == <<interest, ready, life, freed, unregistered>>
clientVars == <<cpc, target>>

-----------------------------------------------------------------------------
\* A descriptor becomes readable or writable.
BecomeReady(o) ==
  /\ o \in interest
  /\ ready' = ready \cup {o}
  /\ UNCHANGED <<interest, life, freed, unregistered, invalidation_list, loopVars, clientVars>>

\* reactor_register, by a client or from a callback: allocation, then
\* epoll_ctl(EPOLL_CTL_ADD).
Register(o) ==
  /\ o \in freed
  /\ life[o] < MaxLives
  /\ life' = [life EXCEPT ![o] = @ + 1]
  /\ freed' = freed \ {o}
  /\ unregistered' = unregistered \ {o}
  /\ interest' = interest \cup {o}
  /\ UNCHANGED <<ready, invalidation_list, loopVars, clientVars>>

\* reactor_stop
Stop ==
  /\ ~stop_fd
  /\ stop_fd' = TRUE
  /\ UNCHANGED <<objectVars, invalidation_list, batch, object_removed, is_running, once,
                 rpc, cur, curLife, clientVars>>

Detach(o) ==
  /\ o \notin unregistered
  /\ unregistered' = unregistered \cup {o}
  /\ interest' = interest \ {o}
  /\ ready' = ready \ {o}

\* reactor_unregister(o) by a thread other than the reactor thread:
\* epoll_ctl(EPOLL_CTL_DEL) first.
Unregister(c, o) ==
  /\ cpc[c] = "idle"
  /\ Detach(o)
  /\ cpc' = [cpc EXCEPT ![c] = "append"]
  /\ target' = [target EXCEPT ![c] = o]
  /\ UNCHANGED <<life, freed, invalidation_list, loopVars>>

\* list_append under list_mutex
UnregisterAppend(c) ==
  /\ cpc[c] = "append"
  /\ rpc # "lock_obj"
  /\ invalidation_list' = invalidation_list \cup {target[c]}
  /\ cpc' = [cpc EXCEPT ![c] = "lock"]
  /\ UNCHANGED <<objectVars, target, loopVars>>

\* Mutant of UnregisterLock: the object's mutex is not taken.
UnregisterNoLock(c) ==
  /\ cpc[c] = "lock"
  /\ cpc' = [cpc EXCEPT ![c] = "free"]
  /\ UNCHANGED <<objectVars, invalidation_list, target, loopVars>>

\* Mutant of UnregisterLock: waits for the loop to clear the invalidation list.
UnregisterAwaitsLoop(c) ==
  /\ cpc[c] = "lock"
  /\ target[c] \notin invalidation_list
  /\ cpc' = [cpc EXCEPT ![c] = "free"]
  /\ UNCHANGED <<objectVars, invalidation_list, target, loopVars>>

\* obj->mutex->lock(); obj->mutex->unlock()
UnregisterLock(c) ==
  /\ cpc[c] = "lock"
  /\ ~(rpc \in {"read", "write"} /\ cur = target[c])
  /\ cpc' = [cpc EXCEPT ![c] = "free"]
  /\ UNCHANGED <<objectVars, invalidation_list, target, loopVars>>

\* delete obj->mutex; osi_free(obj)
UnregisterFree(c) ==
  /\ cpc[c] = "free"
  /\ freed' = freed \cup {target[c]}
  /\ cpc' = [cpc EXCEPT ![c] = "idle"]
  /\ target' = [target EXCEPT ![c] = None]
  /\ UNCHANGED <<interest, ready, life, unregistered, invalidation_list, loopVars>>

-----------------------------------------------------------------------------
\* reactor_start, reactor_run_once
Start ==
  /\ rpc = "stopped"
  /\ is_running' = TRUE
  /\ once' \in BOOLEAN
  /\ rpc' = "clear"
  /\ UNCHANGED <<objectVars, invalidation_list, batch, object_removed, stop_fd, cur,
                 curLife, clientVars>>

\* Mutant of ClearInvalidated: the list is not cleared.
ClearForgotten ==
  /\ rpc = "clear"
  /\ rpc' = "wait"
  /\ UNCHANGED <<objectVars, invalidation_list, batch, object_removed, stop_fd, is_running,
                 once, cur, curLife, clientVars>>

\* list_clear under list_mutex
ClearInvalidated ==
  /\ rpc = "clear"
  /\ invalidation_list' = {}
  /\ rpc' = "wait"
  /\ UNCHANGED <<objectVars, batch, object_removed, stop_fd, is_running, once, cur, curLife,
                 clientVars>>

\* The event that epoll_wait reports for event_fd: its data.ptr is NULL.
StopEvent == <<None, 0>>

Reported == {<<o, life[o]>> : o \in ready} \cup IF stop_fd THEN {StopEvent} ELSE {}

\* epoll_wait reports event_fd and every ready object of the interest set (there
\* are fewer than MAX_EVENTS of them).
EpollWait ==
  /\ rpc = "wait"
  /\ ready # {} \/ stop_fd
  /\ batch' = Reported
  /\ rpc' = "next"
  /\ UNCHANGED <<objectVars, invalidation_list, object_removed, stop_fd, is_running, once, cur,
                 curLife, clientVars>>

\* The stop event comes up at any place of the batch: the rest is dropped.
TakeStopEvent ==
  /\ rpc = "next"
  /\ StopEvent \in batch
  /\ stop_fd' = FALSE
  /\ is_running' = FALSE
  /\ batch' = {}
  /\ rpc' = "stopped"
  /\ UNCHANGED <<objectVars, invalidation_list, object_removed, once, cur, curLife, clientVars>>

\* Mutant of NextEvent: the invalidation list is not consulted.
NextEventUnchecked ==
  /\ rpc = "next"
  /\ \E e \in batch \ {StopEvent} :
       /\ batch' = batch \ {e}
       /\ cur' = e[1] /\ curLife' = e[2] /\ rpc' = "lock_obj"
  /\ UNCHANGED <<objectVars, invalidation_list, object_removed, stop_fd, is_running, once, clientVars>>

\* The next event of the batch: under list_mutex, an object that is on the
\* invalidation list is skipped, any other is about to be locked.
NextEvent ==
  /\ rpc = "next"
  /\ \E e \in batch \ {StopEvent} :
       /\ batch' = batch \ {e}
       /\ \/ /\ e[1] \in invalidation_list
             /\ UNCHANGED <<rpc, cur, curLife>>
          \/ /\ e[1] \notin invalidation_list
             /\ cur' = e[1] /\ curLife' = e[2] /\ rpc' = "lock_obj"
  /\ UNCHANGED <<objectVars, invalidation_list, object_removed, stop_fd, is_running, once, clientVars>>

\* The object lock is taken and list_mutex released.
LockObject ==
  /\ rpc = "lock_obj"
  /\ object_removed' = FALSE
  /\ rpc' = "read"
  /\ UNCHANGED <<objectVars, invalidation_list, batch, stop_fd, is_running, once, cur, curLife,
                 clientVars>>

\* The batch is done: the next iteration, or REACTOR_STATUS_DONE.
EndOfBatch ==
  /\ rpc = "next"
  /\ batch = {}
  /\ \/ ~once /\ rpc' = "clear" /\ UNCHANGED is_running
     \/ once /\ rpc' = "stopped" /\ is_running' = FALSE
  /\ UNCHANGED <<objectVars, invalidation_list, batch, object_removed, stop_fd, once, cur,
                 curLife, clientVars>>

\* A callback calls reactor_unregister: on the reactor thread it only leaves
\* the epoll set and sets object_removed.
CallbackUnregisters(o) ==
  /\ rpc \in {"read", "write"}
  /\ UnregisterOthers \/ o = cur
  /\ Detach(o)
  /\ object_removed' = TRUE
  /\ UNCHANGED <<life, freed, invalidation_list, batch, stop_fd, is_running, once, rpc, cur,
                 curLife, clientVars>>

\* read_ready returns, having consumed what made the descriptor ready;
\* write_ready is called unless the object was removed.
ReadReturns ==
  /\ rpc = "read"
  /\ ready' = ready \ {cur}
  /\ rpc' = IF object_removed THEN "after" ELSE "write"
  /\ UNCHANGED <<interest, life, freed, unregistered, invalidation_list, batch, object_removed,
                 stop_fd, is_running, once, cur, curLife, clientVars>>

WriteReturns ==
  /\ rpc = "write"
  /\ rpc' = "after"
  /\ UNCHANGED <<objectVars, invalidation_list, batch, object_removed, stop_fd, is_running, once,
                 cur, curLife, clientVars>>

\* The object lock is released; if (reactor->object_removed) the object is
\* freed.
AfterCallbacks ==
  /\ rpc = "after"
  /\ freed' = IF object_removed THEN freed \cup {cur} ELSE freed
  /\ cur' = None
  /\ rpc' = "next"
  /\ UNCHANGED <<interest, ready, life, unregistered, invalidation_list, batch, object_removed,
                 stop_fd, is_running, once, curLife, clientVars>>

LoopStep ==
  \/ ClearInvalidated \/ EpollWait \/ TakeStopEvent \/ NextEvent \/ LockObject \/ EndOfBatch
  \/ ReadReturns \/ WriteReturns \/ AfterCallbacks

ClientStep(c) == UnregisterAppend(c) \/ UnregisterLock(c) \/ UnregisterFree(c)

Next ==
  \/ LoopStep \/ Start \/ Stop
  \/ \E o \in Objects : BecomeReady(o) \/ Register(o) \/ CallbackUnregisters(o)
  \/ \E c \in Clients : ClientStep(c) \/ \E o \in Objects : Unregister(c, o)

Spec == Init /\ [][Next]_vars

\* Callbacks return, and a thread inside reactor_unregister or run_reactor keeps
\* running.  Fairness for a client is strong: a thread waiting for list_mutex or
\* an object's mutex gets it if it keeps becoming free.
FairSpec == /\ Spec
            /\ WF_vars(LoopStep)
            /\ \A c \in Clients : SF_vars(ClientStep(c))

-----------------------------------------------------------------------------
\* reactor_unregister: "by taking this lock, we are waiting until the reactor
\* thread drops all references to |obj|".  The loop never locks, calls or
\* deletes an object whose memory has been freed, nor, when the address has been
\* reused, serves the new registration with an event of the old one.  And
\* reactor.h: the owner "must free the returned object by calling
\* |reactor_unregister|": no other object is freed.
NoUseAfterFree ==
  /\ TypeOK
  /\ rpc \in {"lock_obj", "read", "write"} => cur \notin freed /\ curLife = life[cur]
  /\ rpc = "after" /\ object_removed => cur \notin freed
  /\ freed \subseteq unregistered

\* Once reactor_unregister has passed the object lock, no callback of the
\* object is running or will run.
NoCallbackAfterUnregister ==
  \A c \in Clients :
    cpc[c] = "free" => ~(rpc \in {"lock_obj", "read", "write"} /\ cur = target[c])

\* reactor_unregister returns.
UnregisterReturns == \A c \in Clients : cpc[c] # "idle" ~> cpc[c] = "idle"

\* A ready object is dispatched, unregistered, or the reactor is stopped; an
\* object registered at an address that is still on the invalidation list is
\* only delayed.
ReadyIsServed ==
  \A o \in Objects : o \in ready ~> (o \notin ready \/ rpc = "stopped")

=============================================================================
