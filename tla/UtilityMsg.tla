----------------------------- MODULE UtilityMsg -----------------------------
(***************************************************************************)
(* The message queues of utility_msg.c: any number of threads send to and  *)
(* receive from queues that other threads open and close.                  *)
(*                                                                         *)
(* s_list_mutex is held for a search, for the transfer of a message and    *)
(* for MsgClose, each of which is therefore one step; Open and Close also  *)
(* exclude one another by s_api_mutex.  Everything between these steps,    *)
(* the counters of waiting threads and the two semaphores of a queue, is   *)
(* touched without a lock, through the pointer the search returned.        *)
(*                                                                         *)
(* A queue is named by the number of its Open.  MsgClose frees it; a       *)
(* thread that kept the pointer goes on with the memory as it was left,    *)
(* which is the best that can happen: no other allocation reuses it.       *)
(* Messages are counted, not told apart: their priorities order them under *)
(* the lock.  Parameter checks, failing mutex calls, UtilityMsgInitialize  *)
(* and UtilityMsgFinalize are not modelled.                                *)
(***************************************************************************)
EXTENDS Integers, FiniteSets

CONSTANTS
    Threads,
    QueueSize,      \* queue_size of Open
    HandleLimit,    \* handles are counted in an int32_t: 2^32
    MaxOpens,       \* bound: queues opened
    MaxCalls        \* bound: calls and interruptions of all threads

ASSUME UtilityMsgAssumption ==
    /\ IsFiniteSet(Threads)
    /\ QueueSize \in Nat \ {0} /\ HandleLimit \in Nat \ {0}
    /\ MaxOpens \in Nat /\ MaxCalls \in Nat

VARIABLES
    handleCount,    \* s_handle_cnt
    opened,         \* how many queues were opened
    listed,         \* the queues in s_mq_info_list
    handle,         \* MqInfo of each queue: its handle,
    terminated,     \*   is_terminate,
    msgs,           \*   how many messages it holds,
    sem,            \*   the values of sem_recv and sem_send
    waits,          \*   and the counters sem_recv_wait and sem_send_wait
    lost,           \* history: slots given up when no memory was left
    pc, op, info,   \* of each thread: the stage and kind of its call, its queue,
    reg,            \*   the counter value it read
    calls           \* how many calls were made

queueVars == <<handleCount, opened, listed, handle, terminated>>
vars == <<queueVars, msgs, sem, waits, lost, pc, op, info, reg, calls>>

Queues == 1..MaxOpens
NoQueue == 0
Handles == 0..(HandleLimit - 1)
Ops == {"send", "recv", "timedrecv"}
PCs == {"idle", "count", "wait", "woke", "timedout", "interrupted", "transfer"}

\* The semaphore, and its counter, that a call of kind o waits on.
Side(o) == IF o = "send" THEN "send" ELSE "recv"
Sides == {"recv", "send"}

Init ==
    /\ handleCount = 0 /\ opened = 0 /\ listed = {}
    /\ handle = [q \in Queues |-> 0]
    /\ terminated = [q \in Queues |-> FALSE]
    /\ msgs = [q \in Queues |-> 0]
    /\ sem = [q \in Queues |-> [recv |-> 0, send |-> 0]]
    /\ waits = [q \in Queues |-> [recv |-> 0, send |-> 0]]
    /\ lost = [q \in Queues |-> 0]
    /\ pc = [t \in Threads |-> "idle"]
    /\ op = [t \in Threads |-> "send"]
    /\ info = [t \in Threads |-> NoQueue]
    /\ reg = [t \in Threads |-> 0]
    /\ calls = 0

\* MsgSearchList: the queues it can return, at most one.
Found(h) == {q \in listed : handle[q] = h}

----------------------------------------------------------------------------
\* UtilityMsgOpen.  The handle counter moves on when its value is in use: the
\* caller gets Retry.
OpenRetry ==
    /\ Found(handleCount) # {}
    /\ handleCount' = (handleCount + 1) % HandleLimit
    /\ UNCHANGED <<opened, listed, handle, terminated, msgs, sem, waits, lost,
                   pc, op, info, reg, calls>>

Open ==
    /\ Found(handleCount) = {} /\ opened < MaxOpens
    /\ LET q == opened + 1
       IN  /\ opened' = q
           /\ listed' = listed \cup {q}
           /\ handle' = [handle EXCEPT ![q] = handleCount]
           /\ sem' = [sem EXCEPT ![q] = [recv |-> 0, send |-> QueueSize]]
    /\ handleCount' = (handleCount + 1) % HandleLimit
    /\ UNCHANGED <<terminated, msgs, waits, lost, pc, op, info, reg, calls>>

\* MsgClose: the messages are dropped, every thread that was counted is
\* woken, and the queue leaves the list and is freed.
AtLeast0(n) == IF n > 0 THEN n ELSE 0

Close(h) ==
    \E q \in Found(h) :
        /\ listed' = listed \ {q}
        /\ terminated' = [terminated EXCEPT ![q] = TRUE]
        /\ msgs' = [msgs EXCEPT ![q] = 0]
        /\ sem' = [sem EXCEPT ![q] =
                    [s \in Sides |-> sem[q][s] + AtLeast0(waits[q][s])]]
        /\ UNCHANGED <<handleCount, opened, handle, waits, lost,
                       pc, op, info, reg, calls>>

----------------------------------------------------------------------------
\* UtilityMsgSend and UtilityMsgRecv find the queue (a call that finds none
\* changes nothing) and are about to count themselves in.  The counter is read
\* here and written in a step of its own: it has no lock and is not atomic.
Begin(t, h, o) ==
    /\ pc[t] = "idle" /\ calls < MaxCalls
    /\ calls' = calls + 1
    /\ \E q \in Found(h) :
          /\ pc' = [pc EXCEPT ![t] = "count"]
          /\ op' = [op EXCEPT ![t] = o]
          /\ info' = [info EXCEPT ![t] = q]
          /\ reg' = [reg EXCEPT ![t] = waits[q][Side(o)]]
    /\ UNCHANGED <<queueVars, msgs, sem, waits, lost>>

\* The call of thread t ends, its local variables with it.
Return(t) ==
    /\ pc' = [pc EXCEPT ![t] = "idle"]
    /\ op' = [op EXCEPT ![t] = "send"]
    /\ info' = [info EXCEPT ![t] = NoQueue]
    /\ reg' = [reg EXCEPT ![t] = 0]

GoTo(t, p) == pc' = [pc EXCEPT ![t] = p] /\ UNCHANGED <<op, info>>

\* The waiting threads are counted in and, after the wait, out.
WriteCount(t, n) == waits' = [waits EXCEPT ![info[t]][Side(op[t])] = n]

Count(t) ==
    /\ pc[t] = "count"
    /\ WriteCount(t, reg[t] + 1)
    /\ GoTo(t, "wait")
    /\ UNCHANGED <<queueVars, msgs, sem, lost, reg, calls>>

\* sem_wait and sem_timedwait return, and the counter is read again.
EndWait(t, p) ==
    /\ pc[t] = "wait"
    /\ reg' = [reg EXCEPT ![t] = waits[info[t]][Side(op[t])]]
    /\ GoTo(t, p)
    /\ UNCHANGED <<queueVars, msgs, waits, lost>>

TakeUnit(t) ==
    /\ pc[t] = "wait" /\ sem[info[t]][Side(op[t])] > 0
    /\ sem' = [sem EXCEPT ![info[t]][Side(op[t])] = @ - 1]
    /\ EndWait(t, "woke")
    /\ UNCHANGED calls

TimedOut(t) ==
    /\ op[t] = "timedrecv"
    /\ EndWait(t, "timedout")
    /\ UNCHANGED <<sem, calls>>

\* A signal arrives: EINTR.
Interrupted(t) ==
    /\ calls < MaxCalls /\ calls' = calls + 1
    /\ EndWait(t, "interrupted")
    /\ UNCHANGED sem

\* What follows the wait: the end of the queue is noticed only by a thread
\* that got a unit.
Uncount(t) ==
    /\ pc[t] \in {"woke", "timedout", "interrupted"}
    /\ WriteCount(t, reg[t] - 1)
    /\ UNCHANGED <<queueVars, msgs, sem, lost, calls>>

Woke(t) ==
    /\ pc[t] = "woke" /\ ~terminated[info[t]]
    /\ Uncount(t) /\ GoTo(t, "transfer") /\ UNCHANGED reg

Terminated(t) ==
    /\ pc[t] = "woke" /\ terminated[info[t]]
    /\ Uncount(t) /\ Return(t)

\* Wrong on purpose: a receiver whose wait timed out goes on.
GaveUpReceiving(t) ==
    /\ pc[t] = "timedout" /\ Uncount(t)
    /\ GoTo(t, "transfer") /\ UNCHANGED reg

GaveUp(t) == pc[t] = "timedout" /\ Uncount(t) /\ Return(t)

\* Wrong on purpose: EINTR is taken for a unit of the semaphore.
GoOnInterrupted(t) ==
    /\ pc[t] = "interrupted" /\ Uncount(t)
    /\ GoTo(t, "transfer") /\ UNCHANGED reg

\* The loop counts the thread in again, having counted it out.
WaitAgain(t) ==
    /\ pc[t] = "interrupted" /\ Uncount(t)
    /\ GoTo(t, "count")
    /\ reg' = [reg EXCEPT ![t] = reg[t] - 1]

----------------------------------------------------------------------------
\* MsgSetMsg without memory for the message returns with the slot it took.
NoMemory(t) ==
    /\ pc[t] = "transfer" /\ op[t] = "send"
    /\ lost' = [lost EXCEPT ![info[t]] = @ + 1]
    /\ Return(t)
    /\ UNCHANGED <<queueVars, msgs, sem, waits, calls>>

\* Wrong on purpose: sem_recv is not posted.
PutSilently(t) ==
    /\ pc[t] = "transfer" /\ op[t] = "send"
    /\ msgs' = [msgs EXCEPT ![info[t]] = @ + 1]
    /\ Return(t)
    /\ UNCHANGED <<queueVars, sem, waits, lost, calls>>

Put(t) ==
    /\ pc[t] = "transfer" /\ op[t] = "send"
    /\ msgs' = [msgs EXCEPT ![info[t]] = @ + 1]
    /\ sem' = [sem EXCEPT ![info[t]].recv = @ + 1]
    /\ Return(t)
    /\ UNCHANGED <<queueVars, waits, lost, calls>>

\* Wrong on purpose: sem_send is not posted.
GetKeepingSlot(t) ==
    /\ pc[t] = "transfer" /\ op[t] # "send" /\ msgs[info[t]] > 0
    /\ msgs' = [msgs EXCEPT ![info[t]] = @ - 1]
    /\ Return(t)
    /\ UNCHANGED <<queueVars, sem, waits, lost, calls>>

\* MsgGetMsg takes the first message of the highest priority ...
Get(t) ==
    /\ pc[t] = "transfer" /\ op[t] # "send" /\ msgs[info[t]] > 0
    /\ msgs' = [msgs EXCEPT ![info[t]] = @ - 1]
    /\ sem' = [sem EXCEPT ![info[t]].send = @ + 1]
    /\ Return(t)
    /\ UNCHANGED <<queueVars, waits, lost, calls>>

\* ... or, when there is none, the unit is given back.
GetNothing(t) ==
    /\ pc[t] = "transfer" /\ op[t] # "send" /\ msgs[info[t]] = 0
    /\ sem' = [sem EXCEPT ![info[t]].recv = @ + 1]
    /\ Return(t)
    /\ UNCHANGED <<queueVars, msgs, waits, lost, calls>>

\* What thread t does without the help of a signal.
ThreadStep(t) ==
    \/ Count(t) \/ TakeUnit(t) \/ TimedOut(t)
    \/ Woke(t) \/ Terminated(t) \/ GaveUp(t) \/ WaitAgain(t)
    \/ NoMemory(t) \/ Put(t) \/ Get(t) \/ GetNothing(t)

Next ==
    \/ OpenRetry \/ Open
    \/ \E h \in Handles : Close(h)
    \/ \E t \in Threads : ThreadStep(t) \/ Interrupted(t)
    \/ \E t \in Threads, h \in Handles, o \in Ops : Begin(t, h, o)

Spec == Init /\ [][Next]_vars

\* A thread that can go on does; a timed wait ends.
Fairness == \A t \in Threads : WF_vars(ThreadStep(t))
FairSpec == Spec /\ Fairness
----------------------------------------------------------------------------

\* The threads in queue q that got a unit of one side and have not used it.
Past(q, s) == {t \in Threads : /\ info[t] = q /\ Side(op[t]) = s
                               /\ pc[t] \in {"woke", "transfer"}}

(* As long as a queue is open, each of its slots is free, on its way to be
   filled, filled, or lost to a failed allocation: whatever times out or is
   interrupted, no queue holds more than queue_size messages and no slot is
   given back twice. *)
SlotsAddUp ==
    \A q \in listed :
        sem[q].send + Cardinality(Past(q, "send")) + msgs[q] + lost[q] = QueueSize

(* As long as a queue is open, there is a message for every receiver that has
   passed the wait, so that it never finds the queue empty (the error of
   utility_msg.c:671). *)
MessagesAddUp ==
    \A q \in listed : sem[q].recv + Cardinality(Past(q, "recv")) = msgs[q]

(* Whatever the threads do between the lock, the counters and the semaphores,
   callers see the queues of MsgQueue: a call that a Close overtook touches
   only a queue that nobody sees any more. *)
Seen(f) == [q \in Queues |-> IF q \in listed THEN f[q] ELSE 0]
Queue == INSTANCE MsgQueue WITH open <- listed, held <- Seen(msgs), gone <- Seen(lost)
QueueSpec == Queue!Spec

(* A message in an open queue and a receiver in a call there do not stay
   beside each other for ever: no wakeup is lost between the semaphore, the
   list and the timeouts. *)
Receiving(q) == {t \in Threads : info[t] = q /\ Side(op[t]) = "recv"}
ReceiversAreServed ==
    \A q \in Queues :
        (q \in listed /\ msgs[q] > 0 /\ Receiving(q) # {})
            ~> (q \notin listed \/ msgs[q] = 0 \/ Receiving(q) = {})

(* Semaphores, threads on their way and messages add up (utility_msg.c). *)
CountsAddUp == SlotsAddUp /\ MessagesAddUp

=============================================================================
