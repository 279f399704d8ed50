------------------------------ MODULE PsmLock ------------------------------
(***************************************************************************)
(* The two recursive locks of the Parameter Storage Manager, built in      *)
(* parameter_storage_manager_mutex.c from ONE pthread mutex, ONE condition *)
(* variable and mutex_info[].                                              *)
(*                                                                         *)
(* The pthread mutex is held only for a few statements, so what runs under *)
(* it is one atomic operator here; a thread inside pthread_cond_wait or    *)
(* pthread_cond_timedwait is a member of waiting.  Both locks share the    *)
(* condition variable: a release of either wakes the waiters of both.      *)
(*                                                                         *)
(* The module gives the operators; the modules that extend it say which    *)
(* thread asks for which lock and when.                                    *)
(***************************************************************************)
EXTENDS Integers

CONSTANTS
    Threads,    \* the threads that call the Parameter Storage Manager
    MaxCount,   \* INT8_MAX: the deepest recursion RecursiveLock grants
    None        \* "no thread", "no argument"

ASSUME PsmLockAssumption ==
    /\ MaxCount \in Nat /\ MaxCount >= 2
    /\ None \notin Threads

VARIABLES
    count,      \* mutex_info[m].count
    own,        \* mutex_info[m].own; stale once count is 0
    waiting     \* threads inside a wait on the condition variable

lockVars == <<count, own, waiting>>

Mutexes == {"resource", "storage"}      \* EsfParameterStorageManagerMutex

LockTypeOK ==
    /\ count \in [Mutexes -> 0..MaxCount]
    /\ own \in [Mutexes -> Threads \cup {None}]
    /\ waiting \subseteq Threads

LockInit ==
    /\ count = [m \in Mutexes |-> 0]
    /\ own = [m \in Mutexes |-> None]
    /\ waiting = {}

----------------------------------------------------------------------------
\* Wrong on purpose: a lock held once counts as free.
UnlockedByOne(t, m) == count[m] <= 1 \/ own[m] = t

\* The predicate of RecursiveConditionWait: free, or already mine.
Unlocked(t, m) == count[m] = 0 \/ own[m] = t

\* RecursiveLock with the predicate true and room in the counter.
Grant(t, m) ==
    /\ Unlocked(t, m)
    /\ count[m] < MaxCount
    /\ count' = [count EXCEPT ![m] = @ + 1]
    /\ own' = [own EXCEPT ![m] = t]
    /\ UNCHANGED waiting

\* RecursiveLock with the counter at INT8_MAX: Internal, nothing is taken.
Refuse(t, m) ==
    /\ Unlocked(t, m)
    /\ count[m] = MaxCount
    /\ UNCHANGED lockVars

\* RecursiveConditionWait with the predicate false: the thread sleeps.
Sleep(t, m) ==
    /\ ~Unlocked(t, m)
    /\ waiting' = waiting \cup {t}
    /\ UNCHANGED <<count, own>>

\* The wait returns for no reason, and the predicate is tested again.
SpuriousWakeup(t) ==
    /\ t \in waiting
    /\ waiting' = waiting \ {t}
    /\ UNCHANGED <<count, own>>

\* ETIMEDOUT: the wait ends and the predicate is NOT tested again.
GiveUp(t) ==
    /\ t \in waiting
    /\ waiting' = waiting \ {t}
    /\ UNCHANGED <<count, own>>

\* Wrong on purpose: the last release wakes nobody.
DropWithoutBroadcast(t, m) ==
    /\ count[m] > 0
    /\ own[m] = t
    /\ count' = [count EXCEPT ![m] = @ - 1]
    /\ UNCHANGED <<own, waiting>>

\* RecursiveUnlock by the owner; the last release broadcasts.
Drop(t, m) ==
    /\ count[m] > 0
    /\ own[m] = t
    /\ count' = [count EXCEPT ![m] = @ - 1]
    /\ waiting' = IF count[m] = 1 THEN {} ELSE waiting
    /\ UNCHANGED own
=============================================================================
