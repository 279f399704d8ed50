---------------------------- MODULE PsmExclusive ----------------------------
(***************************************************************************)
(* ExclusiveControl: how the public calls of the Parameter Storage Manager *)
(* interleave.  A call on a handle runs in three separately locked stages: *)
(*                                                                         *)
(*   entry    under the resource lock: the handle is referenced            *)
(*   storage  under the storage lock:  the data is read or written         *)
(*   exit     under the resource lock: the reference is given back         *)
(*                                                                         *)
(* Open, Close and (Un)RegisterFactoryReset have an entry only,            *)
(* InvokeFactoryReset has a storage stage only, Init and Deinit nest the   *)
(* resource lock inside the storage lock, and Lock/Unlock let a caller     *)
(* keep the storage lock across calls.  A function registered for factory  *)
(* reset runs under both locks, which are recursive, and may call anything *)
(* of the API again, itself registered or not, so every thread has two     *)
(* call frames: 1, and 2 for a call made from such a function.  Functions  *)
(* that a factory reset in frame 2 runs call nothing.                      *)
(*                                                                         *)
(* What the storage stage does to the data is the subject of PsmStore.     *)
(***************************************************************************)
EXTENDS PsmLock, FiniteSets

CONSTANTS
    HandleMax,  \* CONFIG_EXTERNAL_PARAMETER_STORAGE_MANAGER_HANDLE_MAX
    SlotMax,    \* CONFIG_EXTERNAL_PARAMETER_STORAGE_MANAGER_FACTORY_RESET_MAX
    ThreadOps,  \* [Threads -> SUBSET Ops]: the calls each thread makes
    MaxCalls    \* bound: the calls a thread makes before it stops

Handles == 0 .. HandleMax - 1
Slots == 0 .. SlotMax - 1
Levels == {1, 2}

EntryOps == {"open", "close", "use", "register", "unregister"}
Ops == EntryOps \cup {"reset", "init", "deinit", "lock"}

ASSUME PsmExclusiveAssumption ==
    /\ HandleMax \in Nat \ {0} /\ SlotMax \in Nat \ {0} /\ MaxCalls \in Nat
    /\ ThreadOps \in [Threads -> SUBSET Ops]

VARIABLES
    pc,         \* pc[t][v]: where frame v of thread t is
    op,         \* op[t][v]: the call that frame runs
    arg,        \* arg[t][v]: its handle or its factory reset id
    section,    \* section[t]: Lock calls thread t has not yet unlocked
    calls,      \* calls[t]: calls begun, for the bound MaxCalls
    inited,     \* resource # NULL
    valid,      \* handle[h].is_valid
    ref,        \* handle[h].ref_count
    slot,       \* the factory reset ids whose func # NULL
    cb          \* cb[t][v]: the slot the factory reset in frame v has reached

frameVars == <<pc, op, arg>>
tableVars == <<inited, valid, ref, slot>>
vars == <<lockVars, frameVars, tableVars, section, calls, cb>>

PCs == {"idle", "entry", "inentry", "storage", "instorage", "sout",
        "exit", "inexit", "cbreq", "inloop", "incb", "istorage", "iresource", "ininit"}

\* The lock a frame is asking for, and where it goes when it has it.
Request == [entry |-> "resource", storage |-> "storage", exit |-> "resource",
            cbreq |-> "resource", istorage |-> "storage", iresource |-> "resource"]
After == [entry |-> "inentry", storage |-> "instorage", exit |-> "inexit",
          cbreq |-> "inloop", istorage |-> "iresource", iresource |-> "ininit"]
\* The requests made with kEsfParameterStorageManagerWaitTimeOut.
Timed == {"entry", "storage"}

\* Wrong on purpose: a timeout of the storage stage ends the call.
FailedWithoutExit(o, p) == IF p \in {"cbreq", "iresource"} THEN "sout" ELSE "idle"

\* Where a frame goes when its request is not granted: a call on a handle
\* still runs its exit stage, a nested request still unlocks the storage.
Failed(o, p) == IF p = "storage" /\ o = "use" THEN "exit"
                ELSE IF p \in {"cbreq", "iresource"} THEN "sout" ELSE "idle"

\* Frame v of thread t is the one that executes.
Runs(t, v) == t \notin waiting /\ (v = 2 \/ pc[t][2] = "idle")

Goto(t, v, p) == pc' = [pc EXCEPT ![t][v] = p]

Init ==
    /\ LockInit
    /\ pc = [t \in Threads |-> [v \in Levels |-> "idle"]]
    /\ op = [t \in Threads |-> [v \in Levels |-> "use"]]
    /\ arg = [t \in Threads |-> [v \in Levels |-> 0]]
    /\ section = [t \in Threads |-> 0]
    /\ calls = [t \in Threads |-> 0]
    /\ cb = [t \in Threads |-> [v \in Levels |-> 0]]
    /\ inited = TRUE
    /\ valid = [h \in Handles |-> FALSE]
    /\ ref = [h \in Handles |-> 0]
    /\ slot = {}

----------------------------------------------------------------------------

FirstStage(o) ==
    IF o \in EntryOps THEN "entry"
    ELSE IF o \in {"reset", "lock"} THEN "storage" ELSE "istorage"

Args(o) == IF o \in {"close", "use"} THEN Handles
           ELSE IF o = "unregister" THEN Slots ELSE {0}

\* Frame v of thread t may make a call: frame 2 from a function of frame 1.
Free(t, v) ==
    pc[t][v] = "idle" /\ t \notin waiting /\ (v = 2 => pc[t][1] = "incb")

\* A thread calls the API.
Call(t, v, o, a) ==
    /\ Free(t, v)
    /\ calls[t] < MaxCalls
    /\ o \in ThreadOps[t]
    /\ a \in Args(o)
    /\ Goto(t, v, FirstStage(o))
    /\ op' = [op EXCEPT ![t][v] = o]
    /\ arg' = [arg EXCEPT ![t][v] = a]
    /\ calls' = [calls EXCEPT ![t] = @ + 1]
    /\ UNCHANGED <<lockVars, tableVars, section, cb>>

----------------------------------------------------------------------------
\* The outcomes of a lock request.
Locked(t, v) ==
    /\ Runs(t, v) /\ pc[t][v] \in DOMAIN Request
    /\ Grant(t, Request[pc[t][v]])
    /\ IF op[t][v] = "lock"     \* Lock() returns with the storage lock held
       THEN Goto(t, v, "idle") /\ section' = [section EXCEPT ![t] = @ + 1]
       ELSE Goto(t, v, After[pc[t][v]]) /\ UNCHANGED section
    /\ UNCHANGED <<op, arg, tableVars, calls, cb>>

Blocked(t, v) ==
    /\ Runs(t, v) /\ pc[t][v] \in DOMAIN Request
    /\ Sleep(t, Request[pc[t][v]])
    /\ UNCHANGED <<frameVars, tableVars, section, calls, cb>>

\* Wrong on purpose: a timed out request goes on as if it had the lock.
TimedOutIgnored(t, v) ==
    /\ pc[t][v] \in Timed /\ (v = 2 \/ pc[t][2] = "idle")
    /\ GiveUp(t)
    /\ Goto(t, v, After[pc[t][v]])
    /\ UNCHANGED <<op, arg, tableVars, section, calls, cb>>

TimedOut(t, v) ==
    /\ pc[t][v] \in Timed /\ (v = 2 \/ pc[t][2] = "idle")
    /\ GiveUp(t)
    /\ Goto(t, v, Failed(op[t][v], pc[t][v]))
    /\ UNCHANGED <<op, arg, tableVars, section, calls, cb>>

CountExceeded(t, v) ==
    /\ Runs(t, v) /\ pc[t][v] \in DOMAIN Request
    /\ Refuse(t, Request[pc[t][v]])
    /\ Goto(t, v, Failed(op[t][v], pc[t][v]))
    /\ UNCHANGED <<op, arg, tableVars, section, calls, cb>>

Wakeup(t) ==
    /\ SpuriousWakeup(t)
    /\ UNCHANGED <<frameVars, tableVars, section, calls, cb>>

----------------------------------------------------------------------------
\* The entry stage, one function per call; each releases the resource lock.
EntryDone(t, v, o, next) ==
    /\ pc[t][v] = "inentry" /\ Runs(t, v) /\ op[t][v] = o
    /\ Drop(t, "resource")
    /\ Goto(t, v, next)
    /\ UNCHANGED <<op, arg, section, calls, cb, inited>>

FreeHandles == {h \in Handles : ~valid[h]}
FreeSlots == Slots \ slot
First(S) == {x \in S : \A y \in S : x <= y}

NewHandle(t, v) ==
    /\ EntryDone(t, v, "open", "idle")
    /\ \/ inited /\ \E h \in First(FreeHandles) :
             /\ valid' = [valid EXCEPT ![h] = TRUE]
             /\ ref' = [ref EXCEPT ![h] = 0]
       \/ (inited => FreeHandles = {}) /\ UNCHANGED <<valid, ref>>
    /\ UNCHANGED slot

DeleteHandle(t, v) ==
    /\ EntryDone(t, v, "close", "idle")
    /\ valid' = IF inited /\ ref[arg[t][v]] = 0
                THEN [valid EXCEPT ![arg[t][v]] = FALSE]
                ELSE valid               \* FailedPrecondition while referenced
    /\ UNCHANGED <<ref, slot>>

CanReference(h) == inited /\ valid[h]

ReferenceHandle(t, v) ==
    /\ CanReference(arg[t][v])
    /\ EntryDone(t, v, "use", "storage")
    /\ ref' = [ref EXCEPT ![arg[t][v]] = @ + 1]
    /\ UNCHANGED <<valid, slot>>

ReferenceFails(t, v) ==
    /\ ~CanReference(arg[t][v])
    /\ EntryDone(t, v, "use", "idle")
    /\ UNCHANGED <<valid, ref, slot>>

NewFactoryReset(t, v) ==
    /\ EntryDone(t, v, "register", "idle")
    /\ \/ inited /\ \E s \in First(FreeSlots) : slot' = slot \cup {s}
       \/ (inited => FreeSlots = {}) /\ UNCHANGED slot
    /\ UNCHANGED <<valid, ref>>

DeleteFactoryReset(t, v) ==
    /\ EntryDone(t, v, "unregister", "idle")
    /\ slot' = slot \ {arg[t][v]}
    /\ UNCHANGED <<valid, ref>>

----------------------------------------------------------------------------
\* The storage stage.  The storage lock is released here, or at "sout".
StorageDone(t, v) ==
    /\ pc[t][v] = "instorage" /\ Runs(t, v) /\ op[t][v] = "use"
    /\ Drop(t, "storage")
    /\ Goto(t, v, "exit")
    /\ UNCHANGED <<op, arg, tableVars, section, calls, cb>>

\* Wrong on purpose: the storage lock is released before the functions run.
ResetStorageUnlocking(t, v) ==
    /\ pc[t][v] = "instorage" /\ Runs(t, v) /\ op[t][v] = "reset"
    /\ Drop(t, "storage")
    /\ Goto(t, v, IF inited THEN "cbreq" ELSE "idle")
    /\ cb' = [cb EXCEPT ![t][v] = 0]
    /\ UNCHANGED <<op, arg, tableVars, section, calls>>

\* Wrong on purpose: the functions run without the resource lock.
ResetStorageNoResource(t, v) ==
    /\ pc[t][v] = "instorage" /\ Runs(t, v) /\ op[t][v] = "reset"
    /\ Goto(t, v, IF inited /\ 0 \in slot THEN "incb" ELSE "sout")
    /\ cb' = [cb EXCEPT ![t][v] = 0]
    /\ UNCHANGED <<lockVars, op, arg, tableVars, section, calls>>

\* InvokeFactoryReset erases the required items and cleans the storage; if
\* that succeeds it goes on to the registered functions.
ResetStorage(t, v) ==
    /\ pc[t][v] = "instorage" /\ Runs(t, v) /\ op[t][v] = "reset"
    /\ \/ inited /\ Goto(t, v, "cbreq")
       \/ Goto(t, v, "sout")                \* not initialised, or a fatal error
    /\ cb' = [cb EXCEPT ![t][v] = 0]
    /\ UNCHANGED <<lockVars, op, arg, tableVars, section, calls>>

\* The end of a turn of the loop over the slots.
NextSlot(t, v) ==
    /\ Drop(t, "resource")
    /\ IF cb[t][v] + 1 < SlotMax
       THEN cb' = [cb EXCEPT ![t][v] = @ + 1] /\ Goto(t, v, "cbreq")
       ELSE UNCHANGED cb /\ Goto(t, v, "sout")
    /\ UNCHANGED <<op, arg, tableVars, section, calls>>

LastSlot(t, v) ==
    /\ Drop(t, "resource")
    /\ Goto(t, v, "sout")
    /\ UNCHANGED <<op, arg, tableVars, section, calls, cb>>

\* The slot is copied, and its function called, if there is one.  A function
\* before it may have called Deinit, which ends the loop.
GetFactoryReset(t, v) ==
    /\ pc[t][v] = "inloop" /\ Runs(t, v)
    /\ \/ /\ inited /\ cb[t][v] \in slot
          /\ Goto(t, v, "incb")
          /\ UNCHANGED <<lockVars, op, arg, tableVars, section, calls, cb>>
       \/ inited /\ cb[t][v] \notin slot /\ NextSlot(t, v)
       \/ ~inited /\ LastSlot(t, v)

\* The function has returned: DataLoss and Internal end the loop, other
\* errors do not.
CallbackDone(t, v) ==
    /\ pc[t][v] = "incb" /\ Runs(t, v)
    /\ NextSlot(t, v) \/ LastSlot(t, v)

\* Init and Deinit, with both locks held.
InternalInit(t, v) ==
    /\ pc[t][v] = "ininit" /\ Runs(t, v) /\ op[t][v] = "init"
    /\ Drop(t, "resource")
    /\ \/ /\ ~inited /\ inited' = TRUE
          /\ valid' = [h \in Handles |-> FALSE]
          /\ ref' = [h \in Handles |-> 0]
          /\ slot' = {}
       \/ UNCHANGED tableVars           \* already initialised, or no memory
    /\ Goto(t, v, "sout")
    /\ UNCHANGED <<op, arg, section, calls, cb>>

\* A storage that cannot be closed keeps the resource.
InternalDeinit(t, v) ==
    /\ pc[t][v] = "ininit" /\ Runs(t, v) /\ op[t][v] = "deinit"
    /\ Drop(t, "resource")
    /\ inited' \in {inited, FALSE}
    /\ Goto(t, v, "sout")
    /\ UNCHANGED <<op, arg, section, calls, cb, valid, ref, slot>>

StorageOut(t, v) ==
    /\ pc[t][v] = "sout" /\ Runs(t, v)
    /\ Drop(t, "storage")
    /\ Goto(t, v, "idle")
    /\ UNCHANGED <<op, arg, tableVars, section, calls, cb>>

\* The public Unlock.
Unlock(t, v) ==
    /\ Free(t, v)
    /\ section[t] > 0
    /\ Drop(t, "storage")
    /\ section' = [section EXCEPT ![t] = @ - 1]
    /\ UNCHANGED <<frameVars, tableVars, calls, cb>>

\* The exit stage.
CanUnreference(h) == inited /\ valid[h] /\ ref[h] >= 1

UnreferenceHandle(t, v) ==
    /\ pc[t][v] = "inexit" /\ Runs(t, v)
    /\ Drop(t, "resource")
    /\ ref' = IF CanUnreference(arg[t][v])
              THEN [ref EXCEPT ![arg[t][v]] = @ - 1] ELSE ref
    /\ Goto(t, v, "idle")
    /\ UNCHANGED <<op, arg, inited, valid, slot, section, calls, cb>>

----------------------------------------------------------------------------
FrameStep(t, v) ==
    \/ Locked(t, v) \/ Blocked(t, v) \/ TimedOut(t, v) \/ CountExceeded(t, v)
    \/ NewHandle(t, v) \/ DeleteHandle(t, v)
    \/ ReferenceHandle(t, v) \/ ReferenceFails(t, v)
    \/ NewFactoryReset(t, v) \/ DeleteFactoryReset(t, v)
    \/ StorageDone(t, v) \/ UnreferenceHandle(t, v)
    \/ ResetStorage(t, v) \/ GetFactoryReset(t, v) \/ CallbackDone(t, v)
    \/ InternalInit(t, v) \/ InternalDeinit(t, v) \/ StorageOut(t, v)
    \/ Unlock(t, v)

ThreadStep(t) == \E v \in Levels : FrameStep(t, v)

Next == \E t \in Threads :
    \/ ThreadStep(t)
    \/ Wakeup(t)
    \/ \E v \in Levels, o \in Ops, a \in Handles \cup Slots : Call(t, v, o, a)

Spec == Init /\ [][Next]_vars

(***************************************************************************)
(* Fairness: the scheduler runs every thread that can run, a callback and  *)
(* a locked section end, and a timed wait reaches its deadline.  Nothing   *)
(* is said of who gets a contended lock.                                   *)
(***************************************************************************)
Fairness == \A t \in Threads : WF_vars(ThreadStep(t))
FairSpec == Spec /\ Fairness
----------------------------------------------------------------------------
\* How many times thread t holds mutex m, read off its frames.
Holding == [resource |-> {"inentry", "inexit", "inloop", "incb", "ininit"},
            storage  |-> {"instorage", "sout", "cbreq", "inloop", "incb", "iresource", "ininit"}]

FrameHolds(p, m) == IF p \in Holding[m] THEN 1 ELSE 0

Holds(t, m) == FrameHolds(pc[t][1], m) + FrameHolds(pc[t][2], m)
               + (IF m = "storage" THEN section[t] ELSE 0)

\* The frames between a successful ReferenceHandle and UnreferenceHandle.
UsingPCs == {"storage", "instorage", "exit", "inexit"}
Using(h) == {f \in Threads \X Levels : /\ op[f[1]][f[2]] = "use"
                                       /\ pc[f[1]][f[2]] \in UsingPCs
                                       /\ arg[f[1]][f[2]] = h}

(* Every variable stays in the range its declaration in the code gives it. *)
TypeOK ==
    /\ LockTypeOK
    /\ pc \in [Threads -> [Levels -> PCs]]
    /\ op \in [Threads -> [Levels -> Ops]]
    /\ arg \in [Threads -> [Levels -> Handles \cup Slots]]
    /\ section \in [Threads -> Nat]
    /\ calls \in [Threads -> 0..MaxCalls]
    /\ cb \in [Threads -> [Levels -> Slots]]
    /\ inited \in BOOLEAN
    /\ valid \in [Handles -> BOOLEAN]
    /\ ref \in [Handles -> Nat]
    /\ slot \subseteq Slots

(* mutex_info[] is exact: its count is the number of holds of its owner and
   nobody else holds the lock.  This is what RecursiveLock and
   RecursiveUnlock must keep through nesting, timeouts and lost races. *)
CountIsExact ==
    \A m \in Mutexes :
        /\ count[m] > 0 => own[m] \in Threads /\ Holds(own[m], m) = count[m]
        /\ \A t \in Threads : Holds(t, m) > 0 => count[m] > 0 /\ own[m] = t

(* Two threads are never inside the same lock: no two storage_funcs, locked
   sections, factory resets, Init or Deinit overlap, nor do two entry, exit
   or registered functions. *)
Exclusion ==
    \A m \in Mutexes : \A t, u \in Threads :
        Holds(t, m) > 0 /\ Holds(u, m) > 0 => t = u

(* A thread that asks for the storage lock while it holds the resource lock
   (a registered function calling the API) owns the storage lock already, so
   the two locks cannot be waited for in a cycle. *)
LockOrder ==
    \A t \in Threads : \A v \in Levels :
        /\ pc[t][v] \in DOMAIN Request /\ Request[pc[t][v]] = "storage"
        /\ Holds(t, "resource") > 0
        => own["storage"] = t /\ count["storage"] > 0

\* Thread u owns the lock that the running frame of the waiting thread t asks for.
Asks(t, m) ==
    \E v \in Levels :
        /\ v = 2 \/ pc[t][2] = "idle"
        /\ pc[t][v] \in DOMAIN Request /\ Request[pc[t][v]] = m
KeepsWaiting(u, t) ==
    t \in waiting /\ \E m \in Mutexes : Asks(t, m) /\ count[m] > 0 /\ own[m] = u /\ u # t

(* A thread on the condition variable waits for a thread that runs, or for
   one that itself waits for a thread that runs: a release never leaves a
   sleeper behind whose lock is free, although both locks share one condition
   variable, and no two threads wait for each other. *)
SomebodyGoesOn ==
    \A t \in waiting : \E u \in Threads :
        /\ KeepsWaiting(u, t)
        /\ u \in waiting => \E w \in Threads \ waiting : KeepsWaiting(w, u)

(* The locks are taken in one order, and nobody is left asleep (RecursiveLock,
   RecursiveUnlock and their nesting in Init, Deinit and InvokeFactoryReset). *)
NoDeadlock == LockOrder /\ SomebodyGoesOn

(* ref_count is the number of calls in flight on the handle, and a handle in
   use is open, through timeouts of the storage stage, nested calls and slots
   that are closed and opened again.  Without Deinit. *)
RefCountIsExact ==
    \A h \in Handles :
        /\ ref[h] = Cardinality(Using(h))
        /\ Using(h) # {} => inited /\ valid[h]

(* From the moment a registered factory reset function is called until it
   returns no other thread changes what the manager keeps, the registered
   functions and the open handles: the function finds there what was there
   when it was called, and what it changed itself by calls of its own, which
   may unregister it and may begin another factory reset. *)
FunctionHasTheTables ==
    [][\A t \in Threads, v \in Levels :
          pc[t][v] = "incb" /\ tableVars' # tableVars => pc'[t] # pc[t]]_vars

(* Every call returns, whatever the order in which the threads block, time
   out and are woken: no wakeup is lost and no two threads wait for each other. *)
EveryCallReturns ==
    \A t \in Threads : pc[t][1] # "idle" ~> pc[t][1] = "idle"

=============================================================================
