---------------------------- MODULE UtilityTimer ----------------------------
(***************************************************************************)
(* One timer of utility_timer.c: the calls of the API, the thread that     *)
(* runs the callback and the signal handler of the OS timer.               *)
(*                                                                         *)
(* s_api_mutex is held by every call from its first to its last step, so   *)
(* there is one call at a time; api says how far it is.  The mutex of the  *)
(* timer object is held by a call while it works on the object; the        *)
(* sections the thread runs under it are one step each.  The signal        *)
(* handler runs on any thread and takes no lock.                           *)
(*                                                                         *)
(* The timer is one place of s_timer_obj with its thread, its two event    *)
(* rings and its semaphore, created and deleted again and again.           *)
(* Initialize, Finalize, failing mutex and semaphore calls and callbacks   *)
(* that call the API are not modelled.                                     *)
(***************************************************************************)
EXTENDS Integers, Sequences

CONSTANTS
    MaxThreads,     \* bound: threads created
    MaxSem          \* bound: units of s_event_sem a signal may add to

VARIABLES
    using, running, callback,   \* TimerObj: is_using, is_running, callback # NULL,
    result,                     \*   thread_result,
    osTimer,                    \*   and the timer of os_timer_handle
    busy,                       \* a call holds the object's mutex
    signals, users,             \* s_signal_event, how many; s_user_event
    sem,                        \* s_event_sem
    handler,                    \* the signal handler is about to post an event
    current,                    \* s_thread_handle
    pc,                         \* of each thread: where in TimerThreadMain it is
    api,                        \* how far the call that holds s_api_mutex is
    signalled                   \* the condition of the object was signalled

objVars == <<using, running, callback, result, osTimer>>
eventVars == <<signals, users, sem>>
vars == <<objVars, busy, eventVars, handler, current, pc, api, signalled>>

NoThread == 0
ThreadIds == 1..MaxThreads
Kinds == {"oneshot", "repeat"}
StartOf == [k \in Kinds |-> IF k = "oneshot" THEN "start oneshot" ELSE "start repeat"]
PCs == {"unborn", "wait", "signals", "exec", "untaken", "calling", "users",
        "create", "ended", "crashed"}

Init ==
    /\ using = FALSE /\ running = FALSE /\ callback = FALSE
    /\ result = "Error" /\ osTimer = "none" /\ busy = FALSE
    /\ signals = 0 /\ users = <<>> /\ sem = 0 /\ handler = FALSE
    /\ current = NoThread /\ pc = [n \in ThreadIds |-> "unborn"]
    /\ api = "none" /\ signalled = FALSE

\* IsExistEvent: an event that names the object waits in one of the rings (a
\* kill event names none).
EventExists == signals > 0 \/ \E i \in DOMAIN users : users[i] = "create"
\* FreeTimerObj, at the end of the call.
Free ==
    /\ using' = FALSE /\ running' = FALSE /\ result' = "Ok"
    /\ api' = "none"

----------------------------------------------------------------------------
\* UtilityTimerCreateEx takes the place ...
Create ==
    /\ api = "none" /\ ~using
    /\ using' = TRUE /\ api' = "create"
    /\ UNCHANGED <<running, callback, result, osTimer, busy, eventVars, handler,
                   current, pc, signalled>>

\* ... locks the object and creates a thread, or fails to ...
CreateFails ==
    /\ api = "create"
    /\ Free
    /\ UNCHANGED <<callback, osTimer, busy, eventVars, handler, current, pc, signalled>>

CreateThread(n) ==
    /\ api = "create" /\ pc[n] = "unborn"
    /\ \A m \in 1..(n - 1) : pc[m] # "unborn"
    /\ pc' = [pc EXCEPT ![n] = "wait"] /\ current' = n
    /\ busy' = TRUE /\ result' = "Error"
    /\ api' = "post"
    /\ UNCHANGED <<using, running, callback, osTimer, eventVars, handler, signalled>>

\* ... asks it to create the OS timer, unless TimerSetEvent finds an event
\* of this object, and waits: the mutex is released.
PostCreate ==
    /\ api = "post"
    /\ IF EventExists THEN UNCHANGED eventVars
       ELSE users' = Append(users, "create") /\ sem' = sem + 1 /\ UNCHANGED signals
    /\ busy' = FALSE /\ signalled' = FALSE
    /\ api' = "waiting"
    /\ UNCHANGED <<objVars, handler, current, pc>>

\* pthread_cond_wait returns, signalled or not.
Created ==
    /\ api = "waiting" /\ result = "Ok"
    /\ callback' = TRUE /\ api' = "none"
    /\ UNCHANGED <<using, running, result, osTimer, busy, eventVars, handler,
                   current, pc, signalled>>

CreatedNothing ==
    /\ api = "waiting" /\ result # "Ok"
    /\ Free
    /\ UNCHANGED <<callback, osTimer, busy, eventVars, handler, current, pc, signalled>>

----------------------------------------------------------------------------
\* Start, Stop and Delete lock the object ...
Lock(stage) ==
    /\ api = "none" /\ using
    /\ busy' = TRUE /\ api' = stage
    /\ UNCHANGED <<objVars, eventVars, handler, current, pc, signalled>>

\* ... and unlock it.
Unlock(stage, next) ==
    /\ api = stage
    /\ busy' = FALSE /\ api' = next
    /\ UNCHANGED <<using, result, eventVars, handler, current, pc, signalled>>

\* TimerSetTime refuses, or the OS does.
StartOrStopFails ==
    /\ \E stage \in {"start oneshot", "start repeat", "stop"} : Unlock(stage, "none")
    /\ UNCHANGED <<running, callback, osTimer>>

Start(k) ==
    /\ Unlock(StartOf[k], "none")
    /\ ~running /\ running' = TRUE
    /\ osTimer' = k
    /\ UNCHANGED callback

Stop ==
    /\ Unlock("stop", "none")
    /\ running /\ running' = FALSE
    /\ osTimer' = "off"
    /\ UNCHANGED callback

\* TimerDelete refuses a running timer ...
DeleteFails ==
    /\ Unlock("delete", "none")
    /\ UNCHANGED <<running, callback, osTimer>>

\* ... or deletes the OS timer ...
DeleteTimer ==
    /\ Unlock("delete", "kill")
    /\ ~running
    /\ IF osTimer = "none" THEN UNCHANGED <<callback, osTimer>>
       ELSE osTimer' = "none" /\ callback' = FALSE
    /\ UNCHANGED running

\* ... and ends the thread: KillTimerThread.
Kill ==
    /\ api = "kill"
    /\ users' = Append(users, "kill") /\ sem' = sem + 1
    /\ api' = "join"
    /\ UNCHANGED <<objVars, busy, signals, handler, current, pc, signalled>>

Join ==
    /\ api = "join" /\ pc[current] = "ended"
    /\ current' = NoThread
    /\ Free
    /\ UNCHANGED <<callback, osTimer, busy, eventVars, handler, pc, signalled>>

----------------------------------------------------------------------------
\* The OS timer expires.
Expire ==
    /\ osTimer \in Kinds /\ ~handler
    /\ handler' = TRUE
    /\ osTimer' = IF osTimer = "oneshot" THEN "off" ELSE osTimer
    /\ UNCHANGED <<using, running, callback, result, busy, eventVars, current, pc,
                   api, signalled>>

\* Wrong on purpose: the semaphore is not posted.
HandleSilently ==
    /\ handler /\ sem < MaxSem
    /\ handler' = FALSE
    /\ IF EventExists THEN UNCHANGED eventVars
       ELSE signals' = signals + 1 /\ UNCHANGED <<users, sem>>
    /\ UNCHANGED <<objVars, busy, current, pc, api, signalled>>

\* TimerThreadCb, wherever it runs and whatever happened since: an event that
\* waits already stands for this one as well.
Handle ==
    /\ handler /\ sem < MaxSem
    /\ handler' = FALSE
    /\ IF EventExists THEN UNCHANGED eventVars
       ELSE signals' = signals + 1 /\ sem' = sem + 1 /\ UNCHANGED users
    /\ UNCHANGED <<objVars, busy, current, pc, api, signalled>>

----------------------------------------------------------------------------
\* TimerThreadMain of thread n.
At(n, here, there) == pc[n] = here /\ pc' = [pc EXCEPT ![n] = there]
Only == UNCHANGED <<objVars, busy, handler, current, api, signalled>>

Wake(n) == At(n, "wait", "signals") /\ sem > 0 /\ sem' = sem - 1 /\ UNCHANGED <<signals, users>> /\ Only

\* First the signal events, for a timer that is in use ...
TakeSignal(n) ==
    /\ At(n, "signals", IF using THEN "exec" ELSE "signals")
    /\ signals > 0 /\ signals' = signals - 1
    /\ UNCHANGED <<users, sem>> /\ Only

NoSignal(n) == At(n, "signals", "users") /\ signals = 0 /\ UNCHANGED eventVars /\ Only

\* TimerThreadCallBack gets the mutex: a stopped timer is not called.
ExecStopped(n) == At(n, "exec", "signals") /\ ~busy /\ ~running /\ UNCHANGED eventVars /\ Only

\* Reading callback and calling it.
Call(n, here) == At(n, here, IF callback THEN "calling" ELSE "crashed") /\ UNCHANGED eventVars /\ Only

Exec(n) == ~busy /\ running /\ Call(n, "exec")

\* It does not get the mutex, and goes on without it, running or not.
ExecBusy(n) == At(n, "exec", "untaken") /\ busy /\ UNCHANGED eventVars /\ Only

ExecUntaken(n) == Call(n, "untaken")

CallbackReturns(n) == At(n, "calling", "signals") /\ UNCHANGED eventVars /\ Only

\* ... then the user events.
NoUser(n) == At(n, "users", "wait") /\ users = <<>> /\ UNCHANGED eventVars /\ Only

TakeUser(n) ==
    /\ users # <<>> /\ users' = Tail(users)
    /\ At(n, "users", IF Head(users) = "create" THEN "create" ELSE "ended")
    /\ UNCHANGED <<signals, sem>> /\ Only

\* TimerThreadTimerCreate creates the OS timer, or does not, and signals.
CreateTimer(n) ==
    /\ At(n, "create", "users") /\ ~busy
    /\ \/ result' = "Ok" /\ osTimer' = "off"
       \/ result' = "Error" /\ UNCHANGED osTimer
    /\ signalled' = TRUE
    /\ UNCHANGED <<using, running, callback, busy, eventVars, handler, current, api>>

ThreadStep(n) ==
    \/ Wake(n) \/ TakeSignal(n) \/ NoSignal(n)
    \/ ExecStopped(n) \/ Exec(n) \/ ExecBusy(n) \/ ExecUntaken(n) \/ CallbackReturns(n)
    \/ NoUser(n) \/ TakeUser(n) \/ CreateTimer(n)

\* The steps of a call that has begun, a signalled condition's wakeup included.
CallStep ==
    \/ CreateFails \/ \E n \in ThreadIds : CreateThread(n)
    \/ PostCreate \/ (signalled /\ (Created \/ CreatedNothing))
    \/ StartOrStopFails \/ (\E k \in Kinds : Start(k)) \/ Stop
    \/ DeleteFails \/ DeleteTimer \/ Kill \/ Join

\* A thread that called NULL ends the program; what the other threads might
\* still do is a superset of what they do.
Next ==
    \/ Create \/ CreateFails \/ PostCreate \/ Created \/ CreatedNothing
    \/ \E stage \in {"start oneshot", "start repeat", "stop", "delete"} : Lock(stage)
    \/ StartOrStopFails \/ (\E k \in Kinds : Start(k)) \/ Stop
    \/ DeleteFails \/ DeleteTimer \/ Kill \/ Join
    \/ Expire \/ Handle
    \/ \E n \in ThreadIds : CreateThread(n) \/ ThreadStep(n)

Spec == Init /\ [][Next]_vars

\* Every thread runs, a callback returns, and a call that has begun goes on.
Fairness == WF_vars(CallStep) /\ \A n \in ThreadIds : WF_vars(ThreadStep(n))
FairSpec == Spec /\ Fairness

Crashed == \E n \in ThreadIds : pc[n] = "crashed"

----------------------------------------------------------------------------

ThreadOfTimer == IF current = NoThread THEN "ended" ELSE pc[current]

(* An event in the signal ring is taken, unless its thread ends first: the
   semaphore is posted for every event, although one thread's pass may take
   several and a pass may find none. *)
EventsAreTaken ==
    signals > 0 ~> (signals = 0 \/ Crashed \/ ThreadOfTimer = "ended")

\* A thread that looks at a ring again before it waits.
LooksAtSignals(n) == pc[n] \in {"signals", "exec", "untaken", "calling"}
LooksAtUsers(n) == LooksAtSignals(n) \/ pc[n] \in {"users", "create"}

(* Whatever waits in a ring, of this timer or of one before it in the same
   place, is announced by a unit of the semaphore, or a thread looks at the ring
   again before it waits or ends: an event that TimerSetEvent finds there stands
   for the one it does not post (utility_timer.c:1065). *)
EventsAreAnnounced ==
    /\ signals > 0 => sem > 0 \/ Crashed \/ \E n \in ThreadIds : LooksAtSignals(n)
    /\ users # <<>> => sem > 0 \/ Crashed \/ \E n \in ThreadIds : LooksAtUsers(n)

(* utility_timer.adoc:636 of Create: it waits for other calls and for the
   callback, and is then executed.  So a Create that waits for its thread
   goes on, unless the program crashed. *)
CreateGoesOn == api = "waiting" ~> (api # "waiting" \/ Crashed)
=============================================================================
