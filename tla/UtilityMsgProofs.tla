-------------------------- MODULE UtilityMsgProofs --------------------------
(***************************************************************************)
(* That the units of a message queue add up, proved for any finite number  *)
(* of threads, queues and handles, and any queue size.                     *)
(*                                                                         *)
(* The sums count the threads past the wait of a queue.  A step moves one  *)
(* thread, so that a count changes by the thread that enters or leaves it, *)
(* and the semaphores and counters that the same step writes make up for   *)
(* it.  Two facts carry the rest: a queue not yet open is untouched, and   *)
(* is_terminate is set in no queue that is open.                           *)
(***************************************************************************)
EXTENDS UtilityMsg, FiniteSetTheorems, TLAPS

\* The types of the state.
Typed ==
    /\ opened \in 0..MaxOpens /\ listed \subseteq 1..opened
    /\ terminated \in [Queues -> BOOLEAN]
    /\ msgs \in [Queues -> Nat] /\ lost \in [Queues -> Nat]
    /\ sem \in [Queues -> [Sides -> Nat]]
    /\ waits \in [Queues -> [Sides -> Int]]
    /\ pc \in [Threads -> PCs] /\ op \in [Threads -> Ops]
    /\ info \in [Threads -> 0..opened] /\ reg \in [Threads -> Int]

\* A thread in a call has a queue; one that gave up waiting is a receiver with
\* a timeout.
CallsHaveQueues ==
    \A t \in Threads : pc[t] # "idle" => info[t] # NoQueue

\* Nothing was done to a queue that is not open yet.
Untouched ==
    \A q \in (opened + 1)..MaxOpens : /\ msgs[q] = 0 /\ lost[q] = 0
                                     /\ ~terminated[q]

\* is_terminate is set when the queue leaves the list.
OpenIsNotTerminated == \A q \in listed : ~terminated[q]

IInv ==
    /\ Typed /\ CallsHaveQueues /\ Untouched /\ OpenIsNotTerminated
    /\ SlotsAddUp /\ MessagesAddUp

----------------------------------------------------------------------------
\* Thread t is the only one that moves.
Moves(t) ==
    \A u \in Threads \ {t} : pc'[u] = pc[u] /\ op'[u] = op[u] /\ info'[u] = info[u]

\* The threads past a wait are finitely many.
LEMMA PastIsFinite ==
    ASSUME NEW q, NEW s
    PROVE  /\ IsFiniteSet(Past(q, s)) /\ Cardinality(Past(q, s)) \in Nat
<1>1. IsFiniteSet(Threads)
  BY UtilityMsgAssumption
<1>2. Past(q, s) \subseteq Threads
  BY DEF Past
<1>3. IsFiniteSet(Past(q, s))
  BY <1>1, <1>2, FS_Subset
<1>4. QED
  BY <1>3, FS_CardinalityType

\* A count is that of before when the thread that moves is in it before and
\* after, or neither.
LEMMA Stays ==
    ASSUME NEW t \in Threads, NEW q, NEW s, Moves(t),
           t \in Past(q, s) <=> t \in Past(q, s)'
    PROVE  Past(q, s)' = Past(q, s)
  BY DEF Past, Moves

\* A count grows by the thread that enters it ...
LEMMA Enters ==
    ASSUME NEW t \in Threads, NEW q, NEW s, Moves(t),
           t \notin Past(q, s), t \in Past(q, s)'
    PROVE  Cardinality(Past(q, s)') = Cardinality(Past(q, s)) + 1
<1>1. Past(q, s)' = Past(q, s) \cup {t}
  BY DEF Past, Moves
<1>2. IsFiniteSet(Past(q, s))
  BY PastIsFinite
<1>3. QED
  BY <1>1, <1>2, FS_AddElement

\* ... and shrinks by the thread that leaves it.
LEMMA Leaves ==
    ASSUME NEW t \in Threads, NEW q, NEW s, Moves(t),
           t \in Past(q, s), t \notin Past(q, s)'
    PROVE  Cardinality(Past(q, s)') = Cardinality(Past(q, s)) - 1
<1>1. Past(q, s)' = Past(q, s) \ {t}
  BY DEF Past, Moves
<1>2. IsFiniteSet(Past(q, s))
  BY PastIsFinite
<1>3. QED
  BY <1>1, <1>2, FS_RemoveElement

\* A thread that is not past a wait, before or after, changes no count.
LEMMA OffTheCounts ==
    ASSUME NEW t \in Threads, Moves(t),
           pc[t] \notin {"woke", "transfer"}, pc'[t] \notin {"woke", "transfer"}
    PROVE  \A q, s : Past(q, s)' = Past(q, s)
<1>1. TAKE q, s
<1>2. t \notin Past(q, s) /\ t \notin Past(q, s)'
  BY DEF Past
<1>3. QED
  BY <1>2, Stays

\* The two semaphores of a queue, written as a record or as a function.
LEMMA Semaphores ==
    ASSUME NEW m \in Nat, NEW n \in Nat
    PROVE  /\ [recv |-> m, send |-> n] \in [Sides -> Nat]
           /\ [recv |-> m, send |-> n].recv = m /\ [recv |-> m, send |-> n].send = n
<1>1. [recv |-> m, send |-> n] = [s \in Sides |-> IF s = "recv" THEN m ELSE n]
  BY DEF Sides
<1>2. QED
  BY <1>1 DEF Sides

\* The sides of a call, and the queue of a thread in one.
LEMMA SideIsSide ==
    ASSUME NEW o \in Ops
    PROVE  Side(o) \in Sides /\ (Side(o) = "send" <=> o = "send")
  BY DEF Side, Sides, Ops

LEMMA QueueOfCall ==
    ASSUME NEW t \in Threads, Typed, CallsHaveQueues, pc[t] # "idle"
    PROVE  /\ info[t] \in Queues /\ info[t] \in 1..opened
           /\ op[t] \in Ops /\ Side(op[t]) \in Sides
<1>1. info[t] \in 0..opened /\ info[t] # 0 /\ opened \in 0..MaxOpens
  BY DEF Typed, CallsHaveQueues, NoQueue
<1>2. op[t] \in Ops
  BY DEF Typed
<1>3. info[t] \in Queues /\ info[t] \in 1..opened
  BY <1>1, UtilityMsgAssumption DEF Queues
<1>4. QED
  BY <1>2, <1>3, SideIsSide

\* The return of a call moves its thread and takes it out of every count.
LEMMA ReturnMoves ==
    ASSUME NEW t \in Threads, Typed, Return(t)
    PROVE  /\ Moves(t) /\ pc'[t] = "idle"
           /\ pc' \in [Threads -> PCs] /\ op' \in [Threads -> Ops]
           /\ info' \in [Threads -> 0..opened] /\ reg' \in [Threads -> Int]
           /\ \A u \in Threads : pc'[u] # "idle" => pc[u] # "idle" /\ info'[u] = info[u]
           /\ \A q, s : t \notin Past(q, s)'
<1>1. opened \in Nat
  BY UtilityMsgAssumption DEF Typed
<1>2. QED
  BY <1>1 DEF Return, Typed, Moves, PCs, Ops, NoQueue, Past

\* So does a step to another stage of the call, within the counts.
LEMMA GoToMoves ==
    ASSUME NEW t \in Threads, NEW p \in PCs, Typed, GoTo(t, p)
    PROVE  /\ Moves(t) /\ pc'[t] = p
           /\ pc' \in [Threads -> PCs] /\ op' = op /\ info' = info
           /\ \A u \in Threads \ {t} : pc'[u] = pc[u]
  BY DEF GoTo, Typed, Moves

\* A counter of waiting threads is an integer, whatever is written to it.
LEMMA CountIsInteger ==
    ASSUME NEW t \in Threads, NEW n \in Int, Typed, CallsHaveQueues,
           pc[t] # "idle", WriteCount(t, n)
    PROVE  waits' \in [Queues -> [Sides -> Int]]
<1>1. info[t] \in Queues /\ Side(op[t]) \in Sides
  BY QueueOfCall
<1>2. waits \in [Queues -> [Sides -> Int]]
  BY DEF Typed
<1>3. QED
  BY <1>1, <1>2 DEF WriteCount

\* The counts of the queues that thread t has nothing to do with.
LEMMA OtherQueues ==
    ASSUME NEW t \in Threads, NEW q, NEW s, Moves(t), info[t] # q, info'[t] # q
    PROVE  Past(q, s)' = Past(q, s)
<1>1. t \notin Past(q, s) /\ t \notin Past(q, s)'
  BY DEF Past
<1>2. QED
  BY <1>1, Stays

----------------------------------------------------------------------------
\* A queue that finds its handle in use is not opened.
LEMMA OpenRetryKeeps == IInv /\ OpenRetry => IInv'
<1>. SUFFICES ASSUME IInv, OpenRetry PROVE IInv'
  OBVIOUS
<1>1. UNCHANGED <<opened, listed, terminated, msgs, sem, waits, lost, pc, op, info, reg>>
  BY DEF OpenRetry
<1>2. \A q, s : Past(q, s)' = Past(q, s)
  BY <1>1 DEF Past
<1>3. (Typed /\ CallsHaveQueues /\ Untouched /\ OpenIsNotTerminated)'
  BY <1>1 DEF IInv, Typed, CallsHaveQueues, Untouched, OpenIsNotTerminated
<1>4. SlotsAddUp' /\ MessagesAddUp'
  BY <1>1, <1>2 DEF IInv, SlotsAddUp, MessagesAddUp
<1>5. QED
  BY <1>3, <1>4 DEF IInv

\* A new queue is full of slots, and no thread is in it.
LEMMA OpenKeeps == IInv /\ Open => IInv'
<1>. SUFFICES ASSUME IInv, Open PROVE IInv'
  OBVIOUS
<1>. DEFINE new == opened + 1
<1>1. /\ opened \in Nat /\ MaxOpens \in Nat /\ QueueSize \in Nat
      /\ new \in Queues /\ opened < MaxOpens
  BY UtilityMsgAssumption DEF IInv, Typed, Open, Queues
<1>2. /\ opened' = new /\ listed' = listed \cup {new}
      /\ sem' = [sem EXCEPT ![new] = [recv |-> 0, send |-> QueueSize]]
      /\ UNCHANGED <<terminated, msgs, waits, lost, pc, op, info, reg>>
  BY DEF Open
<1>3. /\ [recv |-> 0, send |-> QueueSize] \in [Sides -> Nat]
      /\ [recv |-> 0, send |-> QueueSize].recv = 0
      /\ [recv |-> 0, send |-> QueueSize].send = QueueSize
  BY <1>1, Semaphores
<1>4. Typed'
  <2>1. sem' \in [Queues -> [Sides -> Nat]]
    BY <1>2, <1>3 DEF IInv, Typed
  <2>2. opened' \in 0..MaxOpens' /\ listed' \subseteq 1..opened'
    BY <1>1, <1>2 DEF IInv, Typed
  <2>3. info' \in [Threads -> 0..opened']
    BY <1>1, <1>2 DEF IInv, Typed
  <2>4. QED
    BY <1>2, <2>1, <2>2, <2>3 DEF IInv, Typed
<1>5. CallsHaveQueues'
  BY <1>2 DEF IInv, CallsHaveQueues
<1>6. Untouched'
  BY <1>1, <1>2 DEF IInv, Untouched
<1>7. new \in (opened + 1)..MaxOpens
  BY <1>1
<1>8. /\ ~terminated[new] /\ msgs[new] = 0 /\ lost[new] = 0
  BY <1>7 DEF IInv, Untouched
<1>9. OpenIsNotTerminated'
  BY <1>2, <1>8 DEF IInv, OpenIsNotTerminated
<1>10. \A q, s : Past(q, s)' = Past(q, s)
  BY <1>2 DEF Past
<1>11. ASSUME NEW s PROVE Cardinality(Past(new, s)) = 0
  <2>1. \A t \in Threads : info[t] # new
    BY <1>1 DEF IInv, Typed
  <2>2. Past(new, s) = {}
    BY <2>1 DEF Past
  <2>3. QED
    BY <2>2, FS_EmptySet
<1>12. sem'[new].recv = 0 /\ sem'[new].send = QueueSize
  BY <1>1, <1>2, <1>3 DEF IInv, Typed
<1>13. \A q \in listed : q # new /\ sem'[q] = sem[q]
  BY <1>1, <1>2 DEF IInv, Typed
<1>14. SlotsAddUp'
  <2>. SUFFICES ASSUME NEW q \in listed'
                PROVE  sem'[q].send + Cardinality(Past(q, "send")') + msgs'[q] + lost'[q]
                            = QueueSize
    BY DEF SlotsAddUp
  <2>1. CASE q = new
    BY <2>1, <1>1, <1>2, <1>8, <1>10, <1>11, <1>12
  <2>2. CASE q \in listed
    BY <2>2, <1>2, <1>10, <1>13 DEF IInv, SlotsAddUp
  <2>3. QED
    BY <1>2, <2>1, <2>2
<1>15. MessagesAddUp'
  <2>. SUFFICES ASSUME NEW q \in listed'
                PROVE  sem'[q].recv + Cardinality(Past(q, "recv")') = msgs'[q]
    BY DEF MessagesAddUp
  <2>1. CASE q = new
    BY <2>1, <1>2, <1>8, <1>10, <1>11, <1>12
  <2>2. CASE q \in listed
    BY <2>2, <1>2, <1>10, <1>13 DEF IInv, MessagesAddUp
  <2>3. QED
    BY <1>2, <2>1, <2>2
<1>16. QED
  BY <1>4, <1>5, <1>6, <1>9, <1>14, <1>15 DEF IInv

\* A queue that is closed leaves the sums.
LEMMA CloseKeeps == ASSUME NEW h PROVE IInv /\ Close(h) => IInv'
<1>. SUFFICES ASSUME IInv, NEW q0 \in Found(h),
                     listed' = listed \ {q0},
                     terminated' = [terminated EXCEPT ![q0] = TRUE],
                     msgs' = [msgs EXCEPT ![q0] = 0],
                     sem' = [sem EXCEPT ![q0] =
                                [s \in Sides |-> sem[q0][s] + AtLeast0(waits[q0][s])]],
                     UNCHANGED <<handleCount, opened, handle, waits, lost,
                                 pc, op, info, reg, calls>>
              PROVE  IInv'
  BY DEF Close
<1>1. q0 \in listed /\ q0 \in 1..opened /\ q0 \in Queues
  BY UtilityMsgAssumption DEF Found, IInv, Typed, Queues
<1>2. [s \in Sides |-> sem[q0][s] + AtLeast0(waits[q0][s])] \in [Sides -> Nat]
  BY <1>1 DEF IInv, Typed, AtLeast0
<1>3. sem' \in [Queues -> [Sides -> Nat]]
  BY <1>2 DEF IInv, Typed
<1>4. Typed'
  BY <1>3 DEF IInv, Typed
<1>5. (CallsHaveQueues /\ Untouched /\ OpenIsNotTerminated)'
  BY <1>1, UtilityMsgAssumption DEF IInv, Typed, CallsHaveQueues, Untouched, OpenIsNotTerminated
<1>6. \A q, s : Past(q, s)' = Past(q, s)
  BY DEF Past
<1>7. \A q \in listed' :
        q \in listed /\ sem'[q] = sem[q] /\ msgs'[q] = msgs[q] /\ lost'[q] = lost[q]
  BY UtilityMsgAssumption DEF IInv, Typed, Queues
<1>8. SlotsAddUp' /\ MessagesAddUp'
  BY <1>6, <1>7 DEF IInv, SlotsAddUp, MessagesAddUp
<1>9. QED
  BY <1>4, <1>5, <1>8 DEF IInv

----------------------------------------------------------------------------
\* What a step of a thread that touches no unit, slot or message keeps.
LEMMA CountingKeeps ==
    ASSUME IInv, NEW t \in Threads, Moves(t),
           pc[t] \notin {"woke", "transfer"}, pc'[t] \notin {"woke", "transfer"},
           Typed', CallsHaveQueues',
           UNCHANGED <<queueVars, msgs, sem, lost>>
    PROVE  IInv'
<1>1. UNCHANGED <<opened, listed, terminated>>
  BY DEF queueVars
<1>2. \A q, s : Past(q, s)' = Past(q, s)
  BY OffTheCounts
<1>3. (Untouched /\ OpenIsNotTerminated)'
  BY <1>1 DEF IInv, Untouched, OpenIsNotTerminated
<1>4. SlotsAddUp' /\ MessagesAddUp'
  BY <1>1, <1>2 DEF IInv, SlotsAddUp, MessagesAddUp
<1>5. QED
  BY <1>3, <1>4 DEF IInv

\* A call begins in an open queue.
LEMMA BeginKeeps ==
    ASSUME NEW t \in Threads, NEW h, NEW o \in Ops PROVE IInv /\ Begin(t, h, o) => IInv'
<1>. SUFFICES ASSUME IInv, pc[t] = "idle", NEW q \in Found(h),
                     pc' = [pc EXCEPT ![t] = "count"],
                     op' = [op EXCEPT ![t] = o],
                     info' = [info EXCEPT ![t] = q],
                     reg' = [reg EXCEPT ![t] = waits[q][Side(o)]],
                     UNCHANGED <<queueVars, msgs, sem, waits, lost>>
              PROVE  IInv'
  BY DEF Begin
<1>1. q \in 1..opened /\ q \in Queues /\ opened \in 0..MaxOpens
  BY UtilityMsgAssumption DEF Found, IInv, Typed, Queues
<1>2. waits[q][Side(o)] \in Int
  BY <1>1, SideIsSide DEF IInv, Typed
<1>3. Typed'
  BY <1>1, <1>2 DEF IInv, Typed, queueVars, PCs
<1>4. CallsHaveQueues'
  BY <1>1 DEF IInv, Typed, CallsHaveQueues, NoQueue
<1>5. Moves(t) /\ pc'[t] = "count"
  BY DEF Moves, IInv, Typed
<1>6. QED
  BY <1>3, <1>4, <1>5, CountingKeeps

\* A thread counts itself in.
LEMMA CountKeeps == ASSUME NEW t \in Threads PROVE IInv /\ Count(t) => IInv'
<1>. SUFFICES ASSUME IInv, Count(t) PROVE IInv'
  OBVIOUS
<1>1. pc[t] = "count" /\ GoTo(t, "wait") /\ Typed /\ CallsHaveQueues /\ reg[t] + 1 \in Int
  BY DEF Count, IInv, Typed
<1>2. waits' \in [Queues -> [Sides -> Int]]
  BY <1>1, CountIsInteger DEF Count
<1>3. /\ Moves(t) /\ pc'[t] = "wait" /\ pc' \in [Threads -> PCs]
      /\ op' = op /\ info' = info /\ \A u \in Threads \ {t} : pc'[u] = pc[u]
  BY <1>1, GoToMoves DEF PCs
<1>4. Typed'
  BY <1>2, <1>3 DEF IInv, Typed, Count, queueVars
<1>5. CallsHaveQueues'
  BY <1>1, <1>3 DEF CallsHaveQueues
<1>6. QED
  BY <1>1, <1>3, <1>4, <1>5, CountingKeeps DEF Count

\* The wait of a thread ends: it reads its counter and moves on.
LEMMA EndWaitMoves ==
    ASSUME NEW t \in Threads, NEW p \in PCs, IInv, EndWait(t, p)
    PROVE  /\ pc[t] = "wait" /\ pc'[t] = p /\ Moves(t)
           /\ pc' \in [Threads -> PCs] /\ reg' \in [Threads -> Int]
           /\ op' = op /\ info' = info /\ CallsHaveQueues'
           /\ UNCHANGED <<queueVars, msgs, waits, lost>>
<1>1. pc[t] = "wait" /\ GoTo(t, p) /\ Typed /\ CallsHaveQueues
  BY DEF EndWait, IInv
<1>2. info[t] \in Queues /\ Side(op[t]) \in Sides
  BY <1>1, QueueOfCall
<1>3. reg' \in [Threads -> Int]
  BY <1>2 DEF EndWait, IInv, Typed
<1>4. /\ Moves(t) /\ pc'[t] = p /\ pc' \in [Threads -> PCs]
      /\ op' = op /\ info' = info /\ \A u \in Threads \ {t} : pc'[u] = pc[u]
  BY <1>1, GoToMoves
<1>5. CallsHaveQueues'
  BY <1>1, <1>4 DEF CallsHaveQueues
<1>6. QED
  BY <1>1, <1>3, <1>4, <1>5 DEF EndWait

\* A wait ends by its timeout or a signal.
LEMMA InVainKeeps ==
    ASSUME NEW t \in Threads, NEW p \in {"timedout", "interrupted"}
    PROVE  IInv /\ EndWait(t, p) /\ UNCHANGED sem => IInv'
<1>. SUFFICES ASSUME IInv, EndWait(t, p), UNCHANGED sem PROVE IInv'
  OBVIOUS
<1>1. p \in PCs /\ p \notin {"woke", "transfer"}
  BY DEF PCs
<1>2. /\ pc[t] = "wait" /\ pc'[t] = p /\ Moves(t)
      /\ pc' \in [Threads -> PCs] /\ reg' \in [Threads -> Int]
      /\ op' = op /\ info' = info /\ CallsHaveQueues'
      /\ UNCHANGED <<queueVars, msgs, waits, lost>>
  BY <1>1, EndWaitMoves
<1>3. Typed'
  BY <1>2 DEF IInv, Typed, queueVars
<1>4. QED
  BY <1>1, <1>2, <1>3, CountingKeeps

\* The unit that a thread takes is the one by which its count grows.
LEMMA TakeUnitKeeps == ASSUME NEW t \in Threads PROVE IInv /\ TakeUnit(t) => IInv'
<1>. SUFFICES ASSUME IInv, TakeUnit(t) PROVE IInv'
  OBVIOUS
<1>a. PICK mine : mine = info[t]
  OBVIOUS
<1>b. PICK side : side = Side(op[t])
  OBVIOUS
<1>1. "woke" \in PCs /\ EndWait(t, "woke")
  BY DEF PCs, TakeUnit
<1>2. /\ pc[t] = "wait" /\ pc'[t] = "woke" /\ Moves(t)
      /\ pc' \in [Threads -> PCs] /\ reg' \in [Threads -> Int]
      /\ op' = op /\ info' = info /\ CallsHaveQueues'
      /\ UNCHANGED <<queueVars, msgs, waits, lost>>
  BY <1>1, EndWaitMoves
<1>3. mine \in Queues /\ side \in Sides
  BY <1>a, <1>b, <1>2, QueueOfCall DEF IInv
<1>4. /\ sem \in [Queues -> [Sides -> Nat]] /\ sem[mine][side] > 0
      /\ sem' = [sem EXCEPT ![mine][side] = @ - 1]
  BY <1>a, <1>b DEF TakeUnit, IInv, Typed
<1>5. /\ sem' \in [Queues -> [Sides -> Nat]]
      /\ sem'[mine][side] = sem[mine][side] - 1
      /\ \A q \in Queues, s \in Sides :
            (q # mine \/ s # side) => sem'[q][s] = sem[q][s]
  <2>1. sem[mine][side] - 1 \in Nat
    BY <1>3, <1>4
  <2>2. QED
    BY <1>3, <1>4, <2>1
<1>6. Typed'
  BY <1>2, <1>5 DEF IInv, Typed, queueVars
<1>7. (Untouched /\ OpenIsNotTerminated)'
  BY <1>2 DEF IInv, Untouched, OpenIsNotTerminated, queueVars
<1>8. Cardinality(Past(mine, side)') = Cardinality(Past(mine, side)) + 1
  <2>1. t \notin Past(mine, side) /\ t \in Past(mine, side)'
    BY <1>a, <1>b, <1>2 DEF Past
  <2>2. QED
    BY <1>2, <2>1, Enters
<1>9. ASSUME NEW q, NEW s, q # mine \/ s # side
      PROVE  Past(q, s)' = Past(q, s)
  <2>1. t \notin Past(q, s) /\ t \notin Past(q, s)'
    BY <1>a, <1>b, <1>2, <1>9 DEF Past
  <2>2. QED
    BY <1>2, <2>1, Stays
<1>10. ASSUME NEW q \in Queues, NEW s \in Sides
       PROVE  sem'[q][s] + Cardinality(Past(q, s)') = sem[q][s] + Cardinality(Past(q, s))
  <2>1. Cardinality(Past(q, s)) \in Nat /\ sem[q][s] \in Nat
    BY <1>4, PastIsFinite
  <2>2. CASE q = mine /\ s = side
    BY <2>1, <2>2, <1>5, <1>8
  <2>3. CASE q # mine \/ s # side
    BY <2>1, <2>3, <1>5, <1>9
  <2>4. QED
    BY <2>2, <2>3
<1>11. listed' = listed /\ msgs' = msgs /\ lost' = lost /\ listed \subseteq Queues
  BY <1>2, UtilityMsgAssumption DEF queueVars, IInv, Typed, Queues
<1>12. "send" \in Sides /\ "recv" \in Sides
  BY DEF Sides
<1>13. SlotsAddUp'
  <2>. SUFFICES ASSUME NEW q \in listed
                PROVE  sem'[q].send + Cardinality(Past(q, "send")') + msgs[q] + lost[q]
                            = QueueSize
    BY <1>11 DEF SlotsAddUp
  <2>1. sem[q].send + Cardinality(Past(q, "send")) + msgs[q] + lost[q] = QueueSize
    BY DEF IInv, SlotsAddUp
  <2>2. QED
    BY <2>1, <1>10, <1>11, <1>12
<1>14. MessagesAddUp'
  BY <1>10, <1>11, <1>12 DEF IInv, MessagesAddUp
<1>15. QED
  BY <1>2, <1>6, <1>7, <1>13, <1>14 DEF IInv

----------------------------------------------------------------------------
\* A thread counts itself out: its queue and its counter.
LEMMA UncountMoves ==
    ASSUME NEW t \in Threads, IInv, Uncount(t)
    PROVE  /\ waits' \in [Queues -> [Sides -> Int]]
           /\ UNCHANGED <<queueVars, msgs, sem, lost>>
<1>1. Typed /\ CallsHaveQueues /\ pc[t] # "idle" /\ reg[t] - 1 \in Int
  BY DEF Uncount, IInv, Typed
<1>2. QED
  BY <1>1, CountIsInteger DEF Uncount

\* A thread that got a unit keeps it on its way to the transfer.
LEMMA WokeKeeps == ASSUME NEW t \in Threads PROVE IInv /\ Woke(t) => IInv'
<1>. SUFFICES ASSUME IInv, Woke(t) PROVE IInv'
  OBVIOUS
<1>1. /\ waits' \in [Queues -> [Sides -> Int]] /\ UNCHANGED <<queueVars, msgs, sem, lost>>
  BY UncountMoves DEF Woke
<1>2. /\ Moves(t) /\ pc'[t] = "transfer" /\ pc' \in [Threads -> PCs]
      /\ op' = op /\ info' = info /\ \A u \in Threads \ {t} : pc'[u] = pc[u]
  BY GoToMoves DEF Woke, IInv, PCs
<1>3. Typed'
  BY <1>1, <1>2 DEF IInv, Typed, queueVars, Woke
<1>4. CallsHaveQueues'
  BY <1>2 DEF CallsHaveQueues, IInv, Woke
<1>5. (Untouched /\ OpenIsNotTerminated)'
  BY <1>1 DEF IInv, Untouched, OpenIsNotTerminated, queueVars
<1>6. \A q, s : Past(q, s)' = Past(q, s)
  <2>1. TAKE q, s
  <2>2. t \in Past(q, s) <=> t \in Past(q, s)'
    BY <1>2 DEF Past, Woke
  <2>3. QED
    BY <1>2, <2>2, Stays
<1>7. SlotsAddUp' /\ MessagesAddUp'
  BY <1>1, <1>6 DEF IInv, SlotsAddUp, MessagesAddUp, queueVars
<1>8. QED
  BY <1>3, <1>4, <1>5, <1>7 DEF IInv

\* A thread that finds is_terminate set is in a queue that left the list.
LEMMA TerminatedKeeps == ASSUME NEW t \in Threads PROVE IInv /\ Terminated(t) => IInv'
<1>. SUFFICES ASSUME IInv, Terminated(t) PROVE IInv'
  OBVIOUS
<1>1. /\ waits' \in [Queues -> [Sides -> Int]] /\ UNCHANGED <<queueVars, msgs, sem, lost>>
  BY UncountMoves DEF Terminated
<1>2. /\ Moves(t) /\ pc'[t] = "idle"
      /\ pc' \in [Threads -> PCs] /\ op' \in [Threads -> Ops]
      /\ info' \in [Threads -> 0..opened] /\ reg' \in [Threads -> Int]
      /\ \A u \in Threads : pc'[u] # "idle" => pc[u] # "idle" /\ info'[u] = info[u]
      /\ \A q, s : t \notin Past(q, s)'
  BY ReturnMoves DEF Terminated, IInv
<1>3. Typed'
  BY <1>1, <1>2 DEF IInv, Typed, queueVars
<1>4. CallsHaveQueues'
  BY <1>2 DEF CallsHaveQueues, IInv
<1>5. (Untouched /\ OpenIsNotTerminated)'
  BY <1>1 DEF IInv, Untouched, OpenIsNotTerminated, queueVars
<1>6. info[t] \notin listed
  BY DEF Terminated, IInv, OpenIsNotTerminated
<1>7. \A q \in listed, s \in Sides : Past(q, s)' = Past(q, s)
  <2>1. TAKE q \in listed, s \in Sides
  <2>2. t \notin Past(q, s) /\ t \notin Past(q, s)'
    BY <1>2, <1>6 DEF Past
  <2>3. QED
    BY <1>2, <2>2, Stays
<1>8. SlotsAddUp' /\ MessagesAddUp'
  BY <1>1, <1>7 DEF IInv, SlotsAddUp, MessagesAddUp, queueVars, Sides
<1>9. QED
  BY <1>3, <1>4, <1>5, <1>8 DEF IInv

\* A receiver whose wait timed out holds no unit.
LEMMA GaveUpKeeps == ASSUME NEW t \in Threads PROVE IInv /\ GaveUp(t) => IInv'
<1>. SUFFICES ASSUME IInv, GaveUp(t) PROVE IInv'
  OBVIOUS
<1>1. /\ waits' \in [Queues -> [Sides -> Int]] /\ UNCHANGED <<queueVars, msgs, sem, lost>>
  BY UncountMoves DEF GaveUp
<1>2. /\ Moves(t) /\ pc'[t] = "idle"
      /\ pc' \in [Threads -> PCs] /\ op' \in [Threads -> Ops]
      /\ info' \in [Threads -> 0..opened] /\ reg' \in [Threads -> Int]
      /\ \A u \in Threads : pc'[u] # "idle" => pc[u] # "idle" /\ info'[u] = info[u]
  BY ReturnMoves DEF GaveUp, IInv
<1>3. Typed'
  BY <1>1, <1>2 DEF IInv, Typed, queueVars
<1>4. CallsHaveQueues'
  BY <1>2 DEF CallsHaveQueues, IInv
<1>5. QED
  BY <1>1, <1>2, <1>3, <1>4, CountingKeeps DEF GaveUp

\* Neither does one that a signal interrupted.
LEMMA WaitAgainKeeps == ASSUME NEW t \in Threads PROVE IInv /\ WaitAgain(t) => IInv'
<1>. SUFFICES ASSUME IInv, WaitAgain(t) PROVE IInv'
  OBVIOUS
<1>1. /\ waits' \in [Queues -> [Sides -> Int]] /\ UNCHANGED <<queueVars, msgs, sem, lost>>
  BY UncountMoves DEF WaitAgain
<1>2. /\ Moves(t) /\ pc'[t] = "count" /\ pc' \in [Threads -> PCs]
      /\ op' = op /\ info' = info /\ \A u \in Threads \ {t} : pc'[u] = pc[u]
  BY GoToMoves DEF WaitAgain, IInv, PCs
<1>3. reg' \in [Threads -> Int]
  BY DEF WaitAgain, IInv, Typed
<1>4. Typed'
  BY <1>1, <1>2, <1>3 DEF IInv, Typed, queueVars
<1>5. CallsHaveQueues'
  BY <1>2 DEF CallsHaveQueues, IInv, WaitAgain
<1>6. QED
  BY <1>1, <1>2, <1>4, <1>5, CountingKeeps DEF WaitAgain

----------------------------------------------------------------------------
\* What the end of a transfer by one side of a queue does to the counts: they
\* make up for the thread that leaves.
MakesUp(mine, side) ==
    /\ sem' \in [Queues -> [Sides -> Nat]]
    /\ msgs' \in [Queues -> Nat] /\ lost' \in [Queues -> Nat]
    /\ \A q \in Queues \ {mine} :
          sem'[q] = sem[q] /\ msgs'[q] = msgs[q] /\ lost'[q] = lost[q]
    /\ sem'[mine].send + msgs'[mine] + lost'[mine]
          = sem[mine].send + msgs[mine] + lost[mine] + (IF side = "send" THEN 1 ELSE 0)
    /\ sem'[mine].recv - msgs'[mine]
          = sem[mine].recv - msgs[mine] + (IF side = "recv" THEN 1 ELSE 0)

\* Such a transfer keeps the invariant.
LEMMA TransferKeeps ==
    ASSUME IInv, NEW t \in Threads, NEW mine \in 1..opened, NEW side \in Sides,
           info[t] = mine, Side(op[t]) = side, pc[t] = "transfer", Return(t),
           UNCHANGED <<queueVars, waits>>, MakesUp(mine, side)
    PROVE  IInv'
<1>1. UNCHANGED <<opened, listed, terminated>>
  BY DEF queueVars
<1>2. /\ Moves(t) /\ pc'[t] = "idle"
      /\ pc' \in [Threads -> PCs] /\ op' \in [Threads -> Ops]
      /\ info' \in [Threads -> 0..opened] /\ reg' \in [Threads -> Int]
      /\ \A u \in Threads : pc'[u] # "idle" => pc[u] # "idle" /\ info'[u] = info[u]
      /\ \A q, s : t \notin Past(q, s)'
  BY ReturnMoves DEF IInv
<1>3. Typed'
  BY <1>1, <1>2 DEF IInv, Typed, MakesUp
<1>4. CallsHaveQueues'
  BY <1>2 DEF CallsHaveQueues, IInv
<1>5. opened \in 0..MaxOpens /\ listed \subseteq 1..opened /\ listed \subseteq Queues
  <2>1. opened \in 0..MaxOpens /\ listed \subseteq 1..opened
    BY DEF IInv, Typed
  <2>2. MaxOpens \in Nat
    BY UtilityMsgAssumption
  <2>3. QED
    BY <2>1, <2>2 DEF Queues
<1>6. \A q \in (opened + 1)..MaxOpens : q \in Queues \ {mine}
  BY <1>5, UtilityMsgAssumption DEF Queues
<1>7. (Untouched /\ OpenIsNotTerminated)'
  BY <1>1, <1>6 DEF IInv, Untouched, OpenIsNotTerminated, MakesUp
<1>8. Cardinality(Past(mine, side)') = Cardinality(Past(mine, side)) - 1
  <2>1. t \in Past(mine, side) /\ t \notin Past(mine, side)'
    BY <1>2 DEF Past
  <2>2. QED
    BY <1>2, <2>1, Leaves
<1>9. ASSUME NEW q, NEW s, q # mine \/ s # side
      PROVE  Past(q, s)' = Past(q, s)
  <2>1. t \notin Past(q, s) /\ t \notin Past(q, s)'
    BY <1>2, <1>9 DEF Past
  <2>2. QED
    BY <1>2, <2>1, Stays
<1>10. ASSUME NEW q \in listed, NEW s \in Sides
       PROVE  /\ Cardinality(Past(q, s)) \in Nat
              /\ Cardinality(Past(q, s)') = Cardinality(Past(q, s))
                    - (IF q = mine /\ s = side THEN 1 ELSE 0)
  <2>1. Cardinality(Past(q, s)) \in Nat
    BY PastIsFinite
  <2>2. CASE q = mine /\ s = side
    BY <2>1, <2>2, <1>8
  <2>3. CASE q # mine \/ s # side
    BY <2>1, <2>3, <1>9
  <2>4. QED
    BY <2>1, <2>2, <2>3
<1>11. ASSUME NEW q \in listed
       PROVE  /\ sem[q].send \in Nat /\ sem[q].recv \in Nat
              /\ sem'[q].send \in Nat /\ sem'[q].recv \in Nat
              /\ msgs[q] \in Nat /\ lost[q] \in Nat
              /\ msgs'[q] \in Nat /\ lost'[q] \in Nat
  BY <1>5 DEF IInv, Typed, Sides, MakesUp
<1>12. "send" \in Sides /\ "recv" \in Sides
  BY DEF Sides
<1>13. SlotsAddUp'
  <2>. SUFFICES ASSUME NEW q \in listed
                PROVE  sem'[q].send + Cardinality(Past(q, "send")') + msgs'[q] + lost'[q]
                            = QueueSize
    BY <1>1 DEF SlotsAddUp
  <2>1. sem[q].send + Cardinality(Past(q, "send")) + msgs[q] + lost[q] = QueueSize
    BY DEF IInv, SlotsAddUp
  <2>2. CASE q = mine
    <3>1. /\ Cardinality(Past(q, "send")) \in Nat
          /\ Cardinality(Past(q, "send")') = Cardinality(Past(q, "send"))
                - (IF "send" = side THEN 1 ELSE 0)
      BY <2>2, <1>10, <1>12
    <3>2. sem'[q].send + msgs'[q] + lost'[q]
             = sem[q].send + msgs[q] + lost[q] + (IF "send" = side THEN 1 ELSE 0)
      BY <2>2 DEF MakesUp
    <3>3. QED
      BY <2>1, <3>1, <3>2, <1>11
  <2>3. CASE q # mine
    BY <2>1, <2>3, <1>5, <1>10, <1>11, <1>12 DEF MakesUp
  <2>4. QED
    BY <2>2, <2>3
<1>14. MessagesAddUp'
  <2>. SUFFICES ASSUME NEW q \in listed
                PROVE  sem'[q].recv + Cardinality(Past(q, "recv")') = msgs'[q]
    BY <1>1 DEF MessagesAddUp
  <2>1. sem[q].recv + Cardinality(Past(q, "recv")) = msgs[q]
    BY DEF IInv, MessagesAddUp
  <2>2. CASE q = mine
    <3>1. /\ Cardinality(Past(q, "recv")) \in Nat
          /\ Cardinality(Past(q, "recv")') = Cardinality(Past(q, "recv"))
                - (IF "recv" = side THEN 1 ELSE 0)
      BY <2>2, <1>10, <1>12
    <3>2. sem'[q].recv - msgs'[q]
             = sem[q].recv - msgs[q] + (IF "recv" = side THEN 1 ELSE 0)
      BY <2>2 DEF MakesUp
    <3>3. QED
      BY <2>1, <3>1, <3>2, <1>11
  <2>3. CASE q # mine
    BY <2>1, <2>3, <1>5, <1>10, <1>11, <1>12 DEF MakesUp
  <2>4. QED
    BY <2>2, <2>3
<1>15. QED
  BY <1>3, <1>4, <1>7, <1>13, <1>14 DEF IInv

\* The queue and the side of a thread at its transfer.
LEMMA AtTransfer ==
    ASSUME IInv, NEW t \in Threads, pc[t] = "transfer"
    PROVE  /\ info[t] \in 1..opened /\ info[t] \in Queues
           /\ op[t] \in Ops /\ Side(op[t]) \in Sides
           /\ (op[t] = "send" => Side(op[t]) = "send")
           /\ (op[t] # "send" => Side(op[t]) = "recv")
<1>1. Typed /\ CallsHaveQueues /\ pc[t] # "idle"
  BY DEF IInv
<1>2. QED
  BY <1>1, QueueOfCall DEF Side

\* A sender without memory leaves with its slot.
LEMMA NoMemoryKeeps == ASSUME NEW t \in Threads PROVE IInv /\ NoMemory(t) => IInv'
<1>. SUFFICES ASSUME IInv, NoMemory(t) PROVE IInv'
  OBVIOUS
<1>a. PICK mine : mine = info[t]
  OBVIOUS
<1>1. pc[t] = "transfer" /\ op[t] = "send" /\ Return(t) /\ UNCHANGED <<queueVars, waits>>
  BY DEF NoMemory
<1>2. mine \in 1..opened /\ mine \in Queues /\ Side(op[t]) = "send"
  BY <1>a, <1>1, AtTransfer
<1>3. /\ msgs' = msgs /\ sem' = sem /\ lost' = [lost EXCEPT ![mine] = @ + 1]
  BY <1>a DEF NoMemory
<1>4. /\ sem \in [Queues -> [Sides -> Nat]]
      /\ msgs \in [Queues -> Nat] /\ lost \in [Queues -> Nat]
  BY DEF IInv, Typed
<1>5. sem[mine].send \in Nat /\ sem[mine].recv \in Nat
  BY <1>2, <1>4 DEF Sides
<1>6. /\ lost' \in [Queues -> Nat] /\ lost'[mine] = lost[mine] + 1
      /\ \A q \in Queues \ {mine} : lost'[q] = lost[q]
  BY <1>2, <1>3, <1>4
<1>7. "send" \in Sides
  BY DEF Sides
<1>8. /\ sem'[mine].send + msgs'[mine] + lost'[mine]
            = sem[mine].send + msgs[mine] + lost[mine] + 1
      /\ sem'[mine].recv - msgs'[mine] = sem[mine].recv - msgs[mine] + 0
  BY <1>2, <1>3, <1>4, <1>5, <1>6
<1>9. QED
  BY <1>a, <1>1, <1>2, <1>3, <1>4, <1>6, <1>7, <1>8, TransferKeeps DEF MakesUp

\* One more in a semaphore.
LEMMA PostKeeps ==
    ASSUME NEW q0 \in Queues, NEW s0 \in Sides, sem \in [Queues -> [Sides -> Nat]],
           sem' = [sem EXCEPT ![q0][s0] = @ + 1]
    PROVE  /\ sem' \in [Queues -> [Sides -> Nat]]
           /\ sem'[q0][s0] = sem[q0][s0] + 1
           /\ \A s \in Sides : s # s0 => sem'[q0][s] = sem[q0][s]
           /\ \A q \in Queues \ {q0} : sem'[q] = sem[q]
<1>1. sem[q0][s0] + 1 \in Nat
  OBVIOUS
<1>2. QED
  BY <1>1

\* A message that is put in fills the slot of its sender and is announced.
LEMMA PutKeeps == ASSUME NEW t \in Threads PROVE IInv /\ Put(t) => IInv'
<1>. SUFFICES ASSUME IInv, Put(t) PROVE IInv'
  OBVIOUS
<1>a. PICK mine : mine = info[t]
  OBVIOUS
<1>1. pc[t] = "transfer" /\ op[t] = "send" /\ Return(t) /\ UNCHANGED <<queueVars, waits>>
  BY DEF Put
<1>2. mine \in 1..opened /\ mine \in Queues /\ Side(op[t]) = "send"
  BY <1>a, <1>1, AtTransfer
<1>3. /\ lost' = lost /\ msgs' = [msgs EXCEPT ![mine] = @ + 1]
      /\ sem' = [sem EXCEPT ![mine]["recv"] = @ + 1]
  BY <1>a DEF Put
<1>4. /\ sem \in [Queues -> [Sides -> Nat]]
      /\ msgs \in [Queues -> Nat] /\ lost \in [Queues -> Nat]
  BY DEF IInv, Typed
<1>5. "send" \in Sides /\ "recv" \in Sides
  BY DEF Sides
<1>6. /\ sem' \in [Queues -> [Sides -> Nat]]
      /\ sem'[mine].recv = sem[mine].recv + 1 /\ sem'[mine].send = sem[mine].send
      /\ \A q \in Queues \ {mine} : sem'[q] = sem[q]
  BY <1>2, <1>3, <1>4, <1>5, PostKeeps
<1>7. sem[mine].send \in Nat /\ sem[mine].recv \in Nat
  BY <1>2, <1>4, <1>5
<1>8. /\ msgs' \in [Queues -> Nat] /\ msgs'[mine] = msgs[mine] + 1
      /\ \A q \in Queues \ {mine} : msgs'[q] = msgs[q]
  BY <1>2, <1>3, <1>4
<1>9. /\ sem'[mine].send + msgs'[mine] + lost'[mine]
            = sem[mine].send + msgs[mine] + lost[mine] + 1
      /\ sem'[mine].recv - msgs'[mine] = sem[mine].recv - msgs[mine] + 0
  BY <1>2, <1>3, <1>4, <1>6, <1>7, <1>8
<1>10. QED
  BY <1>a, <1>1, <1>2, <1>3, <1>4, <1>5, <1>6, <1>8, <1>9, TransferKeeps DEF MakesUp

\* A message that is taken out leaves a free slot.
LEMMA GetKeeps == ASSUME NEW t \in Threads PROVE IInv /\ Get(t) => IInv'
<1>. SUFFICES ASSUME IInv, Get(t) PROVE IInv'
  OBVIOUS
<1>a. PICK mine : mine = info[t]
  OBVIOUS
<1>1. pc[t] = "transfer" /\ op[t] # "send" /\ Return(t) /\ UNCHANGED <<queueVars, waits>>
  BY DEF Get
<1>2. mine \in 1..opened /\ mine \in Queues /\ Side(op[t]) = "recv"
  BY <1>a, <1>1, AtTransfer
<1>3. /\ lost' = lost /\ msgs' = [msgs EXCEPT ![mine] = @ - 1] /\ msgs[mine] > 0
      /\ sem' = [sem EXCEPT ![mine]["send"] = @ + 1]
  BY <1>a DEF Get
<1>4. /\ sem \in [Queues -> [Sides -> Nat]]
      /\ msgs \in [Queues -> Nat] /\ lost \in [Queues -> Nat]
  BY DEF IInv, Typed
<1>5. "send" \in Sides /\ "recv" \in Sides
  BY DEF Sides
<1>6. /\ sem' \in [Queues -> [Sides -> Nat]]
      /\ sem'[mine].send = sem[mine].send + 1 /\ sem'[mine].recv = sem[mine].recv
      /\ \A q \in Queues \ {mine} : sem'[q] = sem[q]
  BY <1>2, <1>3, <1>4, <1>5, PostKeeps
<1>7. sem[mine].send \in Nat /\ sem[mine].recv \in Nat
  BY <1>2, <1>4, <1>5
<1>8. /\ msgs' \in [Queues -> Nat] /\ msgs'[mine] = msgs[mine] - 1
      /\ \A q \in Queues \ {mine} : msgs'[q] = msgs[q]
  BY <1>2, <1>3, <1>4
<1>9. /\ sem'[mine].send + msgs'[mine] + lost'[mine]
            = sem[mine].send + msgs[mine] + lost[mine] + 0
      /\ sem'[mine].recv - msgs'[mine] = sem[mine].recv - msgs[mine] + 1
  BY <1>2, <1>3, <1>4, <1>6, <1>7, <1>8
<1>10. QED
  BY <1>a, <1>1, <1>2, <1>3, <1>4, <1>5, <1>6, <1>8, <1>9, TransferKeeps DEF MakesUp

\* A receiver that finds no message gives its unit back: in a closed queue.
LEMMA GetNothingKeeps == ASSUME NEW t \in Threads PROVE IInv /\ GetNothing(t) => IInv'
<1>. SUFFICES ASSUME IInv, GetNothing(t) PROVE IInv'
  OBVIOUS
<1>a. PICK mine : mine = info[t]
  OBVIOUS
<1>1. pc[t] = "transfer" /\ op[t] # "send" /\ Return(t) /\ UNCHANGED <<queueVars, waits>>
  BY DEF GetNothing
<1>2. mine \in 1..opened /\ mine \in Queues /\ Side(op[t]) = "recv"
  BY <1>a, <1>1, AtTransfer
<1>3. /\ lost' = lost /\ msgs' = msgs
      /\ sem' = [sem EXCEPT ![mine]["recv"] = @ + 1]
  BY <1>a DEF GetNothing
<1>4. /\ sem \in [Queues -> [Sides -> Nat]]
      /\ msgs \in [Queues -> Nat] /\ lost \in [Queues -> Nat]
  BY DEF IInv, Typed
<1>5. "send" \in Sides /\ "recv" \in Sides
  BY DEF Sides
<1>6. /\ sem' \in [Queues -> [Sides -> Nat]]
      /\ sem'[mine].recv = sem[mine].recv + 1 /\ sem'[mine].send = sem[mine].send
      /\ \A q \in Queues \ {mine} : sem'[q] = sem[q]
  BY <1>2, <1>3, <1>4, <1>5, PostKeeps
<1>7. sem[mine].send \in Nat /\ sem[mine].recv \in Nat
  BY <1>2, <1>4, <1>5
<1>8. /\ sem'[mine].send + msgs'[mine] + lost'[mine]
            = sem[mine].send + msgs[mine] + lost[mine] + 0
      /\ sem'[mine].recv - msgs'[mine] = sem[mine].recv - msgs[mine] + 1
  BY <1>2, <1>3, <1>4, <1>6, <1>7
<1>9. QED
  BY <1>a, <1>1, <1>2, <1>3, <1>4, <1>5, <1>6, <1>8, TransferKeeps DEF MakesUp

----------------------------------------------------------------------------
\* Before the first queue is opened.
LEMMA InitHolds == Init => IInv
<1>. SUFFICES ASSUME Init PROVE IInv
  OBVIOUS
<1>1. 0 \in Nat /\ 0 \in Int /\ 0 \in 0..MaxOpens
  BY UtilityMsgAssumption
<1>2. [recv |-> 0, send |-> 0] \in [Sides -> Nat]
  BY <1>1, Semaphores
<1>3. Typed
  BY <1>1, <1>2 DEF Init, Typed, PCs, Ops, NoQueue
<1>4. CallsHaveQueues /\ Untouched /\ OpenIsNotTerminated
  BY UtilityMsgAssumption DEF Init, CallsHaveQueues, Untouched, OpenIsNotTerminated, Queues
<1>5. SlotsAddUp /\ MessagesAddUp
  BY DEF Init, SlotsAddUp, MessagesAddUp
<1>6. QED
  BY <1>3, <1>4, <1>5 DEF IInv

\* No step breaks the invariant.
LEMMA NextKeeps == IInv /\ [Next]_vars => IInv'
<1>. SUFFICES ASSUME IInv, [Next]_vars PROVE IInv'
  OBVIOUS
<1>1. CASE OpenRetry
  BY <1>1, OpenRetryKeeps
<1>2. CASE Open
  BY <1>2, OpenKeeps
<1>3. CASE \E h \in Handles : Close(h)
  BY <1>3, CloseKeeps
<1>4. ASSUME NEW t \in Threads, ThreadStep(t) PROVE IInv'
  <2>1. CASE Count(t)
    BY <2>1, CountKeeps
  <2>2. CASE TakeUnit(t)
    BY <2>2, TakeUnitKeeps
  <2>3. CASE TimedOut(t)
    BY <2>3, InVainKeeps DEF TimedOut
  <2>4. CASE Woke(t)
    BY <2>4, WokeKeeps
  <2>5. CASE Terminated(t)
    BY <2>5, TerminatedKeeps
  <2>6. CASE GaveUp(t)
    BY <2>6, GaveUpKeeps
  <2>7. CASE WaitAgain(t)
    BY <2>7, WaitAgainKeeps
  <2>8. CASE NoMemory(t)
    BY <2>8, NoMemoryKeeps
  <2>9. CASE Put(t)
    BY <2>9, PutKeeps
  <2>10. CASE Get(t)
    BY <2>10, GetKeeps
  <2>11. CASE GetNothing(t)
    BY <2>11, GetNothingKeeps
  <2>12. QED
    BY <1>4, <2>1, <2>2, <2>3, <2>4, <2>5, <2>6, <2>7, <2>8, <2>9, <2>10, <2>11
       DEF ThreadStep
<1>5. ASSUME NEW t \in Threads, Interrupted(t) PROVE IInv'
  BY <1>5, InVainKeeps DEF Interrupted
<1>6. ASSUME NEW t \in Threads, NEW h \in Handles, NEW o \in Ops, Begin(t, h, o)
      PROVE  IInv'
  BY <1>6, BeginKeeps
<1>7. CASE UNCHANGED vars
  <2>1. UNCHANGED <<opened, listed, terminated, msgs, sem, waits, lost, pc, op, info, reg>>
    BY <1>7 DEF vars, queueVars
  <2>2. \A q, s : Past(q, s)' = Past(q, s)
    BY <2>1 DEF Past
  <2>3. (Typed /\ CallsHaveQueues /\ Untouched /\ OpenIsNotTerminated)'
    BY <2>1 DEF IInv, Typed, CallsHaveQueues, Untouched, OpenIsNotTerminated
  <2>4. SlotsAddUp' /\ MessagesAddUp'
    BY <2>1, <2>2 DEF IInv, SlotsAddUp, MessagesAddUp
  <2>5. QED
    BY <2>3, <2>4 DEF IInv
<1>8. QED
  BY <1>1, <1>2, <1>3, <1>4, <1>5, <1>6, <1>7 DEF Next

\* The inductive invariant holds of every behaviour.
LEMMA SpecIInv == Spec => []IInv
  BY InitHolds, NextKeeps, PTL DEF Spec

(* Whatever times out, is interrupted, closes or finds no memory, the slots and
   messages of an open queue add up to what it was opened with: UtilityMsgSend,
   UtilityMsgRecv and MsgClose of utility_msg.c, for any number of threads. *)
THEOREM SpecCountsAddUp == Spec => []CountsAddUp
<1>1. IInv => CountsAddUp
  BY DEF IInv, CountsAddUp
<1>2. QED
  BY <1>1, SpecIInv, PTL

\* No open queue holds more messages than it was opened for.
NeverOverfull == \A q \in listed : msgs[q] <= QueueSize

(* An open queue never holds more than queue_size messages: MsgSetMsg needs no
   check of its own. *)
THEOREM SpecNeverOverfull == Spec => []NeverOverfull
<1>1. IInv => NeverOverfull
  <2>. SUFFICES ASSUME IInv, NEW q \in listed PROVE msgs[q] <= QueueSize
    BY DEF NeverOverfull
  <2>1. q \in Queues
    BY UtilityMsgAssumption DEF IInv, Typed, Queues
  <2>2. sem[q].send \in Nat /\ msgs[q] \in Nat /\ lost[q] \in Nat
    BY <2>1 DEF IInv, Typed, Sides
  <2>3. Cardinality(Past(q, "send")) \in Nat /\ QueueSize \in Nat
    BY PastIsFinite, UtilityMsgAssumption
  <2>4. sem[q].send + Cardinality(Past(q, "send")) + msgs[q] + lost[q] = QueueSize
    BY DEF IInv, SlotsAddUp
  <2>5. QED
    BY <2>2, <2>3, <2>4
<1>2. QED
  BY <1>1, SpecIInv, PTL

\* A receiver that got a unit finds the queue empty only after MsgClose.
EmptyMeansClosed == \A t \in Threads : GetNothing(t) => info[t] \notin listed

(* A receiver that passed the wait of an open queue finds a message there: the
   error of utility_msg.c:671 is met only by one that a MsgClose overtook. *)
THEOREM SpecEmptyMeansClosed == Spec => [][EmptyMeansClosed]_vars
<1>1. IInv => EmptyMeansClosed
  <2>. SUFFICES ASSUME IInv, NEW t \in Threads, GetNothing(t), info[t] \in listed
                PROVE  FALSE
    BY DEF EmptyMeansClosed
  <2>1. pc[t] = "transfer" /\ op[t] # "send" /\ msgs[info[t]] = 0
    BY DEF GetNothing
  <2>2. info[t] \in Queues /\ Side(op[t]) = "recv"
    BY <2>1, AtTransfer
  <2>3. t \in Past(info[t], "recv")
    BY <2>1, <2>2 DEF Past
  <2>4. Cardinality(Past(info[t], "recv")) # 0
    BY <2>3, PastIsFinite, FS_EmptySet
  <2>5. sem[info[t]].recv \in Nat /\ Cardinality(Past(info[t], "recv")) \in Nat
    BY <2>2, PastIsFinite DEF IInv, Typed, Sides
  <2>6. sem[info[t]].recv + Cardinality(Past(info[t], "recv")) = 0
    BY <2>1 DEF IInv, MessagesAddUp
  <2>7. QED
    BY <2>4, <2>5, <2>6
<1>2. QED
  BY <1>1, SpecIInv, PTL

----------------------------------------------------------------------------
(* Nobody waits for nothing. *)

\* The threads of a queue wait for each other only when they have lost all of
\* its places.
NoStandstill ==
    \A q \in listed :
        /\ msgs[q] > 0 /\ Past(q, "recv") = {} => sem[q].recv > 0
        /\ msgs[q] + lost[q] < QueueSize /\ Past(q, "send") = {} => sem[q].send > 0
        /\ lost[q] < QueueSize /\ Past(q, "recv") = {} /\ Past(q, "send") = {}
              => sem[q].recv > 0 \/ sem[q].send > 0

(* A receiver that sleeps on an open queue that has a message, and a sender that
   sleeps on one that has a free place, sleep beside another thread that is about
   to take it, or find their semaphore up: no post is lost between the list, the
   timeouts and the signals, and senders and receivers do not wait for each other
   (MsgSetMsg, MsgWaitRecvMsg, MsgGetMsg).  It is what ReceiversAreServed needs in
   every state; that the thread takes its turn is fairness. *)
THEOREM SpecNoStandstill == Spec => []NoStandstill
<1>1. IInv => NoStandstill
  <2>. SUFFICES ASSUME IInv, NEW q \in listed
                PROVE  /\ msgs[q] > 0 /\ Past(q, "recv") = {} => sem[q].recv > 0
                       /\ msgs[q] + lost[q] < QueueSize /\ Past(q, "send") = {}
                             => sem[q].send > 0
                       /\ lost[q] < QueueSize /\ Past(q, "recv") = {}
                             /\ Past(q, "send") = {} => sem[q].recv > 0 \/ sem[q].send > 0
    BY DEF NoStandstill
  <2>1. q \in Queues
    BY UtilityMsgAssumption DEF IInv, Typed, Queues
  <2>2. /\ sem[q].recv \in Nat /\ sem[q].send \in Nat
        /\ msgs[q] \in Nat /\ lost[q] \in Nat /\ QueueSize \in Nat
    BY <2>1, UtilityMsgAssumption DEF IInv, Typed, Sides
  <2>3. \A s : Past(q, s) = {} => Cardinality(Past(q, s)) = 0
    BY FS_EmptySet
  <2>4. /\ sem[q].send + Cardinality(Past(q, "send")) + msgs[q] + lost[q] = QueueSize
        /\ sem[q].recv + Cardinality(Past(q, "recv")) = msgs[q]
    BY DEF IInv, SlotsAddUp, MessagesAddUp
  <2>5. QED
    BY <2>2, <2>3, <2>4
<1>2. QED
  BY <1>1, SpecIInv, PTL

----------------------------------------------------------------------------
(* The queue of MsgQueue: what its variables stand for is Seen, and a step of
   a thread that has lost its queue is not seen. *)

\* A step in which no queue is opened, closed, written or read.
LEMMA UnseenStutters ==
    ASSUME UNCHANGED <<opened, listed, msgs, lost>>
    PROVE  UNCHANGED Queue!qvars
  BY DEF Queue!qvars, Seen

\* The transfer of a message, or the loss of a place, in one queue.
LEMMA ChangeIsSeen ==
    ASSUME NEW f, NEW q0 \in Queues, NEW n, f \in [Queues -> Nat],
           NEW g, g = [f EXCEPT ![q0] = n], NEW L
    PROVE  /\ q0 \in L => [q \in Queues |-> IF q \in L THEN g[q] ELSE 0]
                 = [[q \in Queues |-> IF q \in L THEN f[q] ELSE 0] EXCEPT ![q0] = n]
           /\ q0 \notin L => [q \in Queues |-> IF q \in L THEN g[q] ELSE 0]
                 = [q \in Queues |-> IF q \in L THEN f[q] ELSE 0]
  OBVIOUS

\* Who comes to the transfer of an open queue has a place, or a message.
LEMMA PastHasRoom ==
    ASSUME IInv, NEW t \in Threads, pc[t] = "transfer", info[t] \in listed
    PROVE  op[t] = "send" => msgs[info[t]] + lost[info[t]] < QueueSize
<1>1. SUFFICES ASSUME op[t] = "send" PROVE msgs[info[t]] + lost[info[t]] < QueueSize
  OBVIOUS
<1>2. info[t] \in Queues /\ Side(op[t]) = "send"
  BY <1>1, AtTransfer
<1>3. t \in Past(info[t], "send")
  BY <1>2 DEF Past
<1>4. Cardinality(Past(info[t], "send")) \in Nat \ {0}
  BY <1>3, PastIsFinite, FS_EmptySet
<1>5. /\ sem[info[t]].send \in Nat /\ msgs[info[t]] \in Nat /\ lost[info[t]] \in Nat
      /\ QueueSize \in Nat
  BY <1>2, UtilityMsgAssumption DEF IInv, Typed, Sides
<1>6. sem[info[t]].send + Cardinality(Past(info[t], "send")) + msgs[info[t]]
         + lost[info[t]] = QueueSize
  BY DEF IInv, SlotsAddUp
<1>7. QED
  BY <1>4, <1>5, <1>6

LEMMA SeenAt ==
    ASSUME NEW f, NEW q \in Queues
    PROVE  Seen(f)[q] = IF q \in listed THEN f[q] ELSE 0
  BY DEF Seen

LEMMA PutIsSend ==
    ASSUME IInv, NEW t \in Threads, Put(t)
    PROVE  [Queue!Next]_(Queue!qvars)
<1>a. PICK mine : mine = info[t]
  OBVIOUS
<1>1. pc[t] = "transfer" /\ op[t] = "send" /\ UNCHANGED <<opened, listed, lost>>
      /\ msgs' = [msgs EXCEPT ![mine] = msgs[mine] + 1]
  BY <1>a DEF Put, queueVars
<1>2. mine \in Queues /\ msgs \in [Queues -> Nat]
  BY <1>a, <1>1, AtTransfer DEF IInv, Typed
<1>3. Seen(lost)' = Seen(lost)
  BY <1>1 DEF Seen
<1>4. CASE mine \in listed
  <2>1. Seen(msgs)[mine] = msgs[mine] /\ Seen(lost)[mine] = lost[mine]
    BY <1>2, <1>4, SeenAt
  <2>2. Seen(msgs)' = [Seen(msgs) EXCEPT ![mine] = msgs[mine] + 1]
    BY <1>1, <1>2, <1>4, ChangeIsSeen DEF Seen
  <2>3. Queue!HasRoom(mine)
    BY <1>a, <1>1, <1>4, <2>1, PastHasRoom DEF Queue!HasRoom
  <2>4. Queue!Send(mine)
    BY <1>1, <1>3, <2>1, <2>2, <2>3 DEF Queue!Send
  <2>5. QED
    BY <1>4, <2>4 DEF Queue!Next
<1>5. CASE mine \notin listed
  <2>1. Seen(msgs)' = Seen(msgs)
    BY <1>1, <1>2, <1>5, ChangeIsSeen DEF Seen
  <2>2. QED
    BY <1>1, <1>3, <2>1 DEF Queue!qvars
<1>6. QED
  BY <1>4, <1>5

LEMMA NoMemoryIsLoss ==
    ASSUME IInv, NEW t \in Threads, NoMemory(t)
    PROVE  [Queue!Next]_(Queue!qvars)
<1>a. PICK mine : mine = info[t]
  OBVIOUS
<1>1. pc[t] = "transfer" /\ op[t] = "send" /\ UNCHANGED <<opened, listed, msgs>>
      /\ lost' = [lost EXCEPT ![mine] = lost[mine] + 1]
  BY <1>a DEF NoMemory, queueVars
<1>2. mine \in Queues /\ lost \in [Queues -> Nat]
  BY <1>a, <1>1, AtTransfer DEF IInv, Typed
<1>3. Seen(msgs)' = Seen(msgs)
  BY <1>1 DEF Seen
<1>4. CASE mine \in listed
  <2>1. Seen(msgs)[mine] = msgs[mine] /\ Seen(lost)[mine] = lost[mine]
    BY <1>2, <1>4, SeenAt
  <2>2. Seen(lost)' = [Seen(lost) EXCEPT ![mine] = lost[mine] + 1]
    BY <1>1, <1>2, <1>4, ChangeIsSeen DEF Seen
  <2>3. Queue!HasRoom(mine)
    BY <1>a, <1>1, <1>4, <2>1, PastHasRoom DEF Queue!HasRoom
  <2>4. Queue!LosePlace(mine)
    BY <1>1, <1>3, <2>1, <2>2, <2>3 DEF Queue!LosePlace
  <2>5. QED
    BY <1>4, <2>4 DEF Queue!Next
<1>5. CASE mine \notin listed
  <2>1. Seen(lost)' = Seen(lost)
    BY <1>1, <1>2, <1>5, ChangeIsSeen DEF Seen
  <2>2. QED
    BY <1>1, <1>3, <2>1 DEF Queue!qvars
<1>6. QED
  BY <1>4, <1>5

LEMMA GetIsReceive ==
    ASSUME IInv, NEW t \in Threads, Get(t)
    PROVE  [Queue!Next]_(Queue!qvars)
<1>a. PICK mine : mine = info[t]
  OBVIOUS
<1>1. pc[t] = "transfer" /\ msgs[mine] > 0 /\ UNCHANGED <<opened, listed, lost>>
      /\ msgs' = [msgs EXCEPT ![mine] = msgs[mine] - 1]
  BY <1>a DEF Get, queueVars
<1>2. mine \in Queues /\ msgs \in [Queues -> Nat]
  BY <1>a, <1>1, AtTransfer DEF IInv, Typed
<1>3. Seen(lost)' = Seen(lost)
  BY <1>1 DEF Seen
<1>4. CASE mine \in listed
  <2>1. Seen(msgs)[mine] = msgs[mine]
    BY <1>2, <1>4, SeenAt
  <2>2. Seen(msgs)' = [Seen(msgs) EXCEPT ![mine] = msgs[mine] - 1]
    BY <1>1, <1>2, <1>4, ChangeIsSeen DEF Seen
  <2>3. Queue!Receive(mine)
    BY <1>1, <1>3, <2>1, <2>2 DEF Queue!Receive
  <2>4. QED
    BY <1>4, <2>3 DEF Queue!Next
<1>5. CASE mine \notin listed
  <2>1. Seen(msgs)' = Seen(msgs)
    BY <1>1, <1>2, <1>5, ChangeIsSeen DEF Seen
  <2>2. QED
    BY <1>1, <1>3, <2>1 DEF Queue!qvars
<1>6. QED
  BY <1>4, <1>5

\* A queue is empty, whole and unlisted before its Open.
LEMMA OpenIsOpen ==
    ASSUME IInv, Open
    PROVE  Queue!Open
<1>1. /\ opened < MaxOpens /\ opened' = opened + 1
      /\ listed' = listed \cup {opened + 1} /\ UNCHANGED <<msgs, lost>>
  BY DEF Open
<1>2. opened \in Nat /\ MaxOpens \in Nat /\ listed \subseteq 1..opened
  BY UtilityMsgAssumption DEF IInv, Typed
<1>3. opened + 1 \notin listed /\ msgs[opened + 1] = 0 /\ lost[opened + 1] = 0
  BY <1>1, <1>2 DEF IInv, Untouched
<1>4. UNCHANGED <<Seen(msgs), Seen(lost)>>
  BY <1>1, <1>3 DEF Seen
<1>5. QED
  BY <1>1, <1>4 DEF Queue!Open

LEMMA CloseIsClose ==
    ASSUME IInv, NEW h, Close(h)
    PROVE  Queue!Next
<1>1. PICK q0 \in Found(h) : /\ listed' = listed \ {q0} /\ UNCHANGED <<opened, lost>>
                             /\ msgs' = [msgs EXCEPT ![q0] = 0]
  BY DEF Close
<1>2. q0 \in listed /\ q0 \in Queues /\ msgs \in [Queues -> Nat]
  BY UtilityMsgAssumption DEF Found, IInv, Typed, Queues
<1>3. Seen(msgs)' = [Seen(msgs) EXCEPT ![q0] = 0]
  BY <1>1, <1>2 DEF Seen
<1>4. Seen(lost)' = [Seen(lost) EXCEPT ![q0] = 0]
  BY <1>1, <1>2 DEF Seen
<1>5. QED
  BY <1>1, <1>2, <1>3, <1>4 DEF Queue!Next, Queue!Close

LEMMA NextIsSeen == IInv /\ [Next]_vars => [Queue!Next]_(Queue!qvars)
<1>. SUFFICES ASSUME IInv, [Next]_vars PROVE [Queue!Next]_(Queue!qvars)
  OBVIOUS
<1>1. CASE OpenRetry \/ UNCHANGED vars
  <2>1. UNCHANGED <<opened, listed, msgs, lost>>
    BY <1>1 DEF OpenRetry, vars, queueVars
  <2>2. QED
    BY <2>1, UnseenStutters
<1>2. CASE Open
  BY <1>2, OpenIsOpen DEF Queue!Next
<1>3. ASSUME NEW h \in Handles, Close(h) PROVE [Queue!Next]_(Queue!qvars)
  BY <1>3, CloseIsClose
<1>4. ASSUME NEW t \in Threads,
             \/ Count(t) \/ TakeUnit(t) \/ TimedOut(t) \/ Woke(t) \/ Terminated(t)
             \/ GaveUp(t) \/ WaitAgain(t) \/ GetNothing(t) \/ Interrupted(t)
      PROVE  [Queue!Next]_(Queue!qvars)
  <2>1. UNCHANGED <<opened, listed, msgs, lost>>
    BY <1>4 DEF Count, TakeUnit, TimedOut, Woke, Terminated, GaveUp, WaitAgain, GetNothing,
                Interrupted, EndWait, Uncount, queueVars
  <2>2. QED
    BY <2>1, UnseenStutters
<1>5. ASSUME NEW t \in Threads, NEW h \in Handles, NEW o \in Ops, Begin(t, h, o)
      PROVE  [Queue!Next]_(Queue!qvars)
  <2>1. UNCHANGED <<opened, listed, msgs, lost>>
    BY <1>5 DEF Begin, queueVars
  <2>2. QED
    BY <2>1, UnseenStutters
<1>6. QED
  BY <1>1, <1>2, <1>3, <1>4, <1>5, PutIsSend, NoMemoryIsLoss, GetIsReceive
     DEF Next, ThreadStep

(* utility_msg.c implements the queues of MsgQueue: a message is sent or received
   in the one step that holds the list's mutex, in an open queue that has a place
   or a message for it, whatever waits, times out, is interrupted or was closed
   meanwhile. *)
THEOREM SpecQueueSpec == Spec => QueueSpec
<1>1. Init => Queue!Init
  BY DEF Init, Queue!Init, Seen, Queues
<1>2. QED
  BY <1>1, InitHolds, NextKeeps, NextIsSeen, PTL DEF Spec, QueueSpec, Queue!Spec
=============================================================================
