------------------------- MODULE PsmExclusiveProofs -------------------------
(***************************************************************************)
(* Proofs about the exclusive control of the Parameter Storage Manager,    *)
(* for any number of threads, handles, factory reset slots and calls.      *)
(*                                                                         *)
(* The inductive invariant is CountIsExact (mutex_info[] counts the holds  *)
(* of its owner) with the types and FramesOK (where a frame may be).       *)
(* Exclusion and LockOrder are consequences of it.  CallsOK (which call a  *)
(* frame may run where) is inductive on top of it, and from the two        *)
(* follows, without Deinit, that ref_count counts the calls in flight.     *)
(***************************************************************************)
EXTENDS PsmExclusive, FiniteSetTheorems, TLAPS

(* A call made from a factory reset function runs while the frame below it is
   in that function, and Lock never gets past the storage lock. *)
FramesOK ==
    \A t \in Threads :
        /\ pc[t][2] # "idle" => pc[t][1] = "incb"
        /\ \A v \in Levels : op[t][v] = "lock" => pc[t][v] \in {"idle", "storage"}

IInv == TypeOK /\ FramesOK /\ CountIsExact

----------------------------------------------------------------------------
(* The operators the actions are built from. *)

\* A granted request is one hold of the requested lock more.
LEMMA RequestTypes ==
    /\ DOMAIN Request = {"entry", "storage", "exit", "cbreq", "istorage", "iresource"}
    /\ \A p \in DOMAIN Request :
          /\ Request[p] \in Mutexes /\ After[p] \in PCs /\ After[p] # "idle"
          /\ \A m \in Mutexes : FrameHolds(After[p], m)
                = FrameHolds(p, m) + (IF m = Request[p] THEN 1 ELSE 0)
  BY DEF Request, After, Mutexes, PCs, FrameHolds, Holding

\* A request that is not granted gives no lock and takes none away.
LEMMA FailedTypes ==
    \A o, p : p \in DOMAIN Request =>
        /\ Failed(o, p) \in PCs
        /\ \A m \in Mutexes : FrameHolds(Failed(o, p), m) = FrameHolds(p, m)
        /\ o = "lock" /\ p = "storage" => Failed(o, p) = "idle"
  BY DEF Failed, Request, PCs, FrameHolds, Holding, Mutexes

LEMMA HoldsType ==
    ASSUME TypeOK
    PROVE  \A t \in Threads : \A m \in Mutexes : Holds(t, m) \in Nat
  BY DEF TypeOK, Holds, FrameHolds

\* The operations of the locks keep their types.
LEMMA LockTypes ==
    ASSUME LockTypeOK, NEW t \in Threads, NEW m \in Mutexes,
           Grant(t, m) \/ Drop(t, m) \/ Sleep(t, m) \/ Refuse(t, m)
              \/ GiveUp(t) \/ SpuriousWakeup(t)
    PROVE  LockTypeOK'
<1>1. CASE Grant(t, m)
  BY <1>1, PsmLockAssumption DEF Grant, LockTypeOK
<1>2. CASE Drop(t, m)
  BY <1>2, PsmLockAssumption DEF Drop, LockTypeOK
<1>3. CASE Sleep(t, m) \/ Refuse(t, m) \/ GiveUp(t) \/ SpuriousWakeup(t)
  BY <1>3 DEF Sleep, Refuse, GiveUp, SpuriousWakeup, LockTypeOK, lockVars
<1> QED
  BY <1>1, <1>2, <1>3

\* A frame moves from one place to another.
LEMMA GotoType ==
    ASSUME TypeOK, NEW t \in Threads, NEW v \in Levels, NEW p \in PCs, Goto(t, v, p)
    PROVE  pc' \in [Threads -> [Levels -> PCs]]
  BY DEF TypeOK, Goto

\* What moving one frame does to the holds of its thread.
LEMMA MoveFrame ==
    ASSUME TypeOK, NEW t \in Threads, NEW v \in Levels, NEW p \in PCs,
           Goto(t, v, p), section' = section
    PROVE  /\ \A u \in Threads, m \in Mutexes : u # t => Holds(u, m)' = Holds(u, m)
           /\ \A m \in Mutexes :
                 Holds(t, m)' = Holds(t, m) - FrameHolds(pc[t][v], m) + FrameHolds(p, m)
  BY DEF TypeOK, Goto, Holds, FrameHolds, Levels

----------------------------------------------------------------------------
(* CountIsExact through the operations of the locks. *)

LEMMA GrantIsExact ==
    ASSUME IInv, NEW t \in Threads, NEW m \in Mutexes, Grant(t, m),
           Holds(t, m)' = Holds(t, m) + 1,
           \A u \in Threads, k \in Mutexes : u # t \/ k # m => Holds(u, k)' = Holds(u, k)
    PROVE  CountIsExact'
  BY HoldsType DEF IInv, TypeOK, LockTypeOK, CountIsExact, Grant, Unlocked

LEMMA DropIsExact ==
    ASSUME IInv, NEW t \in Threads, NEW m \in Mutexes, Drop(t, m),
           Holds(t, m)' = Holds(t, m) - 1,
           \A u \in Threads, k \in Mutexes : u # t \/ k # m => Holds(u, k)' = Holds(u, k)
    PROVE  CountIsExact'
  BY HoldsType DEF IInv, TypeOK, LockTypeOK, CountIsExact, Drop

LEMMA SameIsExact ==
    ASSUME IInv, count' = count, own' = own,
           \A u \in Threads, k \in Mutexes : Holds(u, k)' = Holds(u, k)
    PROVE  CountIsExact'
  BY DEF IInv, CountIsExact

----------------------------------------------------------------------------
(* FramesOK when a running frame moves. *)

LEMMA MoveFrameOK ==
    ASSUME IInv, NEW t \in Threads, NEW v \in Levels, NEW p \in PCs,
           Goto(t, v, p), op' = op, pc[t][v] # "idle",
           v = 2 \/ pc[t][2] = "idle",
           op[t][v] = "lock" => p \in {"idle", "storage"}
    PROVE  FramesOK'
  BY DEF IInv, TypeOK, FramesOK, Goto, Levels

LEMMA SameFramesOK ==
    ASSUME IInv, pc' = pc, op' = op
    PROVE  FramesOK'
  BY DEF IInv, FramesOK

----------------------------------------------------------------------------
(* The steps. *)

LEMMA IdleHolds == \A m \in Mutexes : FrameHolds("idle", m) = 0
  BY DEF FrameHolds, Holding, Mutexes

LEMMA InitIInv == Init => IInv
<1> SUFFICES ASSUME Init PROVE IInv
  OBVIOUS
<1> USE DEF Init
<1>1. TypeOK
  BY PsmLockAssumption, PsmExclusiveAssumption
     DEF TypeOK, LockTypeOK, LockInit, Mutexes, PCs, Ops, EntryOps, Handles, Slots, Levels
<1>2. FramesOK
  BY DEF FramesOK, Levels
<1>3. CountIsExact
  <2>1. \A t \in Threads, m \in Mutexes :
           pc[t][1] = "idle" /\ pc[t][2] = "idle" /\ section[t] = 0 /\ count[m] = 0
    BY DEF LockInit, Levels, Mutexes
  <2>2. \A m \in Mutexes : FrameHolds("idle", m) = 0
    BY IdleHolds
  <2>3. \A t \in Threads, m \in Mutexes : Holds(t, m) = 0
    BY <2>1, <2>2 DEF Holds
  <2> HIDE DEF Init
  <2> QED
    BY <2>1, <2>3 DEF CountIsExact, LockInit, Init, Mutexes
<1> QED
  BY <1>1, <1>2, <1>3 DEF IInv

LEMMA CallStep ==
    ASSUME IInv, NEW t \in Threads, NEW v \in Levels, NEW o \in Ops,
           NEW a \in Handles \cup Slots, Call(t, v, o, a)
    PROVE  IInv'
<1>1. FirstStage(o) \in PCs /\ FirstStage(o) # "idle"
      /\ (o = "lock" => FirstStage(o) = "storage")
      /\ \A m \in Mutexes : FrameHolds(FirstStage(o), m) = FrameHolds("idle", m)
  BY DEF FirstStage, PCs, FrameHolds, Holding, Mutexes, EntryOps
<1>2. TypeOK'
  BY <1>1, PsmExclusiveAssumption
     DEF IInv, TypeOK, LockTypeOK, Call, Goto, Levels, lockVars, tableVars
<1>3. FramesOK'
  BY <1>1 DEF IInv, TypeOK, FramesOK, Call, Free, Goto, Levels
<1>4. CountIsExact'
  <2>1. \A u \in Threads, m \in Mutexes : Holds(u, m)' = Holds(u, m)
    BY <1>1, MoveFrame, HoldsType DEF IInv, Call, Free, FrameHolds
  <2> QED
    BY <2>1, SameIsExact DEF Call, lockVars
<1> QED
  BY <1>2, <1>3, <1>4 DEF IInv

LEMMA LockedStep ==
    ASSUME IInv, NEW t \in Threads, NEW v \in Levels, Locked(t, v)
    PROVE  IInv'
<1> DEFINE m == Request[pc[t][v]]
<1>1. pc[t][v] \in DOMAIN Request /\ m \in Mutexes /\ pc[t][v] # "idle"
      /\ (op[t][v] = "lock" => m = "storage" /\ pc[t][v] = "storage")
  BY RequestTypes DEF Locked, IInv, FramesOK, Request
<1>2. TypeOK'
  <2>1. LockTypeOK'
    BY <1>1, LockTypes DEF IInv, TypeOK, Locked
  <2>2. pc' \in [Threads -> [Levels -> PCs]] /\ section' \in [Threads -> Nat]
    <3>1. \E p \in PCs : Goto(t, v, p)
      BY <1>1, RequestTypes DEF Locked, PCs
    <3>2. section' \in [Threads -> Nat]
      <4>1. section \in [Threads -> Nat]
        BY DEF IInv, TypeOK
      <4>2. section' = section \/ section' = [section EXCEPT ![t] = @ + 1]
        BY DEF Locked
      <4> QED
        BY <4>1, <4>2
    <3> QED
      BY <3>1, <3>2, GotoType DEF IInv
  <2> QED
    BY <2>1, <2>2 DEF IInv, TypeOK, Locked, tableVars
<1>3. FramesOK'
  BY <1>1, RequestTypes DEF IInv, TypeOK, FramesOK, Locked, Runs, Goto, Levels
<1>4. CountIsExact'
  <2>1. CASE op[t][v] = "lock"
    <3>1. /\ \A u \in Threads, k \in Mutexes : u # t => Holds(u, k)' = Holds(u, k)
          /\ \A k \in Mutexes : Holds(t, k)' = Holds(t, k) + (IF k = m THEN 1 ELSE 0)
      BY <2>1, <1>1 DEF IInv, TypeOK, Locked, Goto, Holds, FrameHolds, Holding, Levels, Mutexes
    <3> QED
      BY <3>1, <1>1, GrantIsExact, HoldsType DEF Locked, IInv
  <2>2. CASE op[t][v] # "lock"
    <3>1. /\ \A u \in Threads, k \in Mutexes : u # t => Holds(u, k)' = Holds(u, k)
          /\ \A k \in Mutexes : Holds(t, k)' = Holds(t, k) + (IF k = m THEN 1 ELSE 0)
      BY <2>2, <1>1, MoveFrame, RequestTypes, HoldsType DEF Locked, IInv, FrameHolds
    <3> QED
      BY <3>1, <1>1, GrantIsExact, HoldsType DEF Locked, IInv
  <2> QED
    BY <2>1, <2>2
<1> QED
  BY <1>2, <1>3, <1>4 DEF IInv

----------------------------------------------------------------------------
(* A frame that moves with every other variable in its type. *)

TablesTypeOK ==
    /\ cb \in [Threads -> [Levels -> Slots]]
    /\ inited \in BOOLEAN
    /\ valid \in [Handles -> BOOLEAN]
    /\ ref \in [Handles -> Nat]
    /\ slot \subseteq Slots

Moves(t, v, p) ==
    /\ Goto(t, v, p)
    /\ UNCHANGED <<op, arg, section, calls>>

\* Frame v of t runs, and a Lock call goes nowhere but back to its caller.
MayMove(t, v, p) ==
    /\ pc[t][v] # "idle"
    /\ v = 2 \/ pc[t][2] = "idle"
    /\ op[t][v] = "lock" => p = "idle"

\* A move that releases lock m.
LEMMA ReleaseStep ==
    ASSUME IInv, NEW t \in Threads, NEW v \in Levels, NEW p \in PCs, NEW m \in Mutexes,
           Moves(t, v, p), MayMove(t, v, p), TablesTypeOK', Drop(t, m),
           \A k \in Mutexes : FrameHolds(pc[t][v], k)
               = FrameHolds(p, k) + (IF k = m THEN 1 ELSE 0)
    PROVE  IInv'
<1>1. TypeOK'
  <2>1. LockTypeOK'
    BY LockTypes DEF IInv, TypeOK
  <2> QED
    BY <2>1, GotoType DEF IInv, TypeOK, Moves, TablesTypeOK
<1>2. FramesOK'
  BY MoveFrameOK DEF Moves, MayMove
<1>3. CountIsExact'
  <2>1. /\ \A u \in Threads, k \in Mutexes : u # t => Holds(u, k)' = Holds(u, k)
        /\ \A k \in Mutexes : Holds(t, k)' = Holds(t, k) - (IF k = m THEN 1 ELSE 0)
    BY MoveFrame, HoldsType DEF IInv, Moves, FrameHolds
  <2> QED
    BY <2>1, DropIsExact, HoldsType DEF IInv
<1> QED
  BY <1>1, <1>2, <1>3 DEF IInv

\* A move that leaves the locks alone, but perhaps stops waiting for one.
LEMMA KeepStep ==
    ASSUME IInv, NEW t \in Threads, NEW v \in Levels, NEW p \in PCs,
           Moves(t, v, p), MayMove(t, v, p), TablesTypeOK',
           UNCHANGED <<count, own>>, waiting' \subseteq waiting,
           \A k \in Mutexes : FrameHolds(pc[t][v], k) = FrameHolds(p, k)
    PROVE  IInv'
<1>1. TypeOK'
  <2>1. LockTypeOK'
    BY DEF IInv, TypeOK, LockTypeOK
  <2> QED
    BY <2>1, GotoType DEF IInv, TypeOK, Moves, TablesTypeOK
<1>2. FramesOK'
  BY MoveFrameOK DEF Moves, MayMove
<1>3. CountIsExact'
  <2>1. \A u \in Threads, k \in Mutexes : Holds(u, k)' = Holds(u, k)
    BY MoveFrame, HoldsType DEF IInv, Moves, FrameHolds
  <2> QED
    BY <2>1, SameIsExact
<1> QED
  BY <1>1, <1>2, <1>3 DEF IInv

\* A step that moves no frame and takes or releases no lock.
LEMMA WaitingStep ==
    ASSUME IInv, UNCHANGED <<frameVars, tableVars, section, calls, cb>>,
           UNCHANGED <<count, own>>, waiting' \subseteq Threads
    PROVE  IInv'
<1>1. TypeOK'
  BY DEF IInv, TypeOK, LockTypeOK, frameVars, tableVars
<1>2. FramesOK'
  BY SameFramesOK DEF frameVars
<1>3. CountIsExact'
  <2>1. \A u \in Threads, k \in Mutexes : Holds(u, k)' = Holds(u, k)
    BY DEF Holds, frameVars
  <2> QED
    BY <2>1, SameIsExact
<1> QED
  BY <1>1, <1>2, <1>3 DEF IInv

LEMMA BlockedStep ==
    ASSUME IInv, NEW t \in Threads, NEW v \in Levels, Blocked(t, v)
    PROVE  IInv'
  BY WaitingStep DEF Blocked, Sleep, IInv, TypeOK, LockTypeOK

LEMMA WakeupStep ==
    ASSUME IInv, NEW t \in Threads, Wakeup(t)
    PROVE  IInv'
  BY WaitingStep DEF Wakeup, SpuriousWakeup, IInv, TypeOK, LockTypeOK

\* A request that ends without the lock.
LEMMA NotGrantedStep ==
    ASSUME IInv, NEW t \in Threads, NEW v \in Levels,
           TimedOut(t, v) \/ CountExceeded(t, v)
    PROVE  IInv'
<1> DEFINE p == Failed(op[t][v], pc[t][v])
<1>1. pc[t][v] \in DOMAIN Request
  BY RequestTypes DEF TimedOut, CountExceeded, Timed
<1>2. p \in PCs /\ \A k \in Mutexes : FrameHolds(pc[t][v], k) = FrameHolds(p, k)
  BY <1>1, FailedTypes
<1>3. Moves(t, v, p)
  BY DEF TimedOut, CountExceeded, Moves
<1>4. MayMove(t, v, p)
  BY <1>1, RequestTypes, FailedTypes
     DEF IInv, FramesOK, MayMove, TimedOut, CountExceeded, Runs
<1>5. TablesTypeOK'
  BY DEF TimedOut, CountExceeded, TablesTypeOK, tableVars, IInv, TypeOK
<1>6. UNCHANGED <<count, own>> /\ waiting' \subseteq waiting
  BY DEF TimedOut, CountExceeded, GiveUp, Refuse, lockVars
<1> QED
  BY <1>2, <1>3, <1>4, <1>5, <1>6, KeepStep

----------------------------------------------------------------------------
(* The steps made inside a lock.  Each leaves it by ReleaseStep, except that
   ResetStorage and the call of a registered function keep what they hold. *)

EntryStage(t, v) ==
    \/ NewHandle(t, v) \/ DeleteHandle(t, v)
    \/ ReferenceHandle(t, v) \/ ReferenceFails(t, v)
    \/ NewFactoryReset(t, v) \/ DeleteFactoryReset(t, v)

LEMMA EntryStep ==
    ASSUME IInv, NEW t \in Threads, NEW v \in Levels, EntryStage(t, v)
    PROVE  IInv'
<1>1. PICK p \in {"idle", "storage"}, o \in EntryOps : EntryDone(t, v, o, p)
  BY DEF EntryStage, NewHandle, DeleteHandle, ReferenceHandle, ReferenceFails,
         NewFactoryReset, DeleteFactoryReset, EntryOps
<1>2. p \in PCs /\ "resource" \in Mutexes
  BY DEF PCs, Mutexes
<1>3. \A k \in Mutexes : FrameHolds("inentry", k)
          = FrameHolds(p, k) + (IF k = "resource" THEN 1 ELSE 0)
  BY DEF FrameHolds, Holding, Mutexes
<1>4. Moves(t, v, p) /\ MayMove(t, v, p) /\ Drop(t, "resource") /\ pc[t][v] = "inentry"
  BY <1>1 DEF EntryDone, Runs, Moves, MayMove, EntryOps
<1>5. TablesTypeOK'
  <2>1. valid' \in [Handles -> BOOLEAN]
    BY DEF EntryStage, NewHandle, DeleteHandle, ReferenceHandle, ReferenceFails,
           NewFactoryReset, DeleteFactoryReset, First, FreeHandles, IInv, TypeOK
  <2>2. ref' \in [Handles -> Nat]
    BY DEF EntryStage, NewHandle, DeleteHandle, ReferenceHandle, ReferenceFails,
           NewFactoryReset, DeleteFactoryReset, First, FreeHandles, IInv, TypeOK
  <2>3. slot' \subseteq Slots
    BY DEF EntryStage, NewHandle, DeleteHandle, ReferenceHandle, ReferenceFails,
           NewFactoryReset, DeleteFactoryReset, First, FreeSlots, IInv, TypeOK
  <2>4. UNCHANGED <<cb, inited>>
    BY <1>1 DEF EntryDone
  <2> QED
    BY <2>1, <2>2, <2>3, <2>4 DEF TablesTypeOK, IInv, TypeOK
<1> QED
  BY <1>2, <1>3, <1>4, <1>5, ReleaseStep

LEMMA StorageStep ==
    ASSUME IInv, NEW t \in Threads, NEW v \in Levels,
           StorageDone(t, v) \/ StorageOut(t, v)
    PROVE  IInv'
<1>1. PICK p \in {"exit", "idle"} :
          Moves(t, v, p) /\ MayMove(t, v, p) /\ Drop(t, "storage")
          /\ pc[t][v] \in {"instorage", "sout"}
  BY DEF StorageDone, StorageOut, Runs, Moves, MayMove, IInv, FramesOK
<1>2. p \in PCs /\ "storage" \in Mutexes
  BY DEF PCs, Mutexes
<1>3. \A k \in Mutexes : FrameHolds(pc[t][v], k)
          = FrameHolds(p, k) + (IF k = "storage" THEN 1 ELSE 0)
  BY <1>1 DEF FrameHolds, Holding, Mutexes
<1>4. TablesTypeOK'
  BY DEF StorageDone, StorageOut, TablesTypeOK, tableVars, IInv, TypeOK
<1> QED
  BY <1>1, <1>2, <1>3, <1>4, ReleaseStep

\* The loop of InvokeFactoryReset calls the function of a slot, or goes on.
EnterFunction(t, v) ==
    /\ pc[t][v] = "inloop" /\ Runs(t, v)
    /\ Goto(t, v, "incb")
    /\ UNCHANGED <<lockVars, op, arg, tableVars, section, calls, cb>>

EndTurn(t, v) ==
    /\ pc[t][v] \in {"inloop", "incb"} /\ Runs(t, v)
    /\ NextSlot(t, v) \/ LastSlot(t, v)

LEMMA LoopStep ==
    ASSUME NEW t, NEW v, GetFactoryReset(t, v) \/ CallbackDone(t, v)
    PROVE  EnterFunction(t, v) \/ EndTurn(t, v)
  BY DEF GetFactoryReset, CallbackDone, EnterFunction, EndTurn

LEMMA ResetStorageStep ==
    ASSUME IInv, NEW t \in Threads, NEW v \in Levels,
           ResetStorage(t, v) \/ EnterFunction(t, v)
    PROVE  IInv'
<1>1. PICK p \in {"cbreq", "sout", "incb"} :
          /\ Moves(t, v, p) /\ MayMove(t, v, p)
          /\ \/ pc[t][v] = "instorage" /\ p # "incb"
             \/ pc[t][v] = "inloop" /\ p = "incb"
  BY DEF ResetStorage, EnterFunction, Runs, Moves, MayMove, IInv, FramesOK
<1>2. p \in PCs
  BY DEF PCs
<1>3. \A k \in Mutexes : FrameHolds(pc[t][v], k) = FrameHolds(p, k)
  BY <1>1 DEF FrameHolds, Holding, Mutexes
<1>4. TablesTypeOK'
  <2>1. 0 \in Slots
    BY PsmExclusiveAssumption DEF Slots
  <2>2. cb' = cb \/ cb' = [cb EXCEPT ![t][v] = 0]
    BY DEF ResetStorage, EnterFunction
  <2>3. cb \in [Threads -> [Levels -> Slots]]
    BY DEF IInv, TypeOK
  <2>4. cb' \in [Threads -> [Levels -> Slots]]
    BY <2>1, <2>2, <2>3
  <2> QED
    BY <2>4 DEF ResetStorage, EnterFunction, TablesTypeOK, tableVars, IInv, TypeOK
<1>5. UNCHANGED <<count, own>> /\ waiting' \subseteq waiting
  BY DEF ResetStorage, EnterFunction, lockVars
<1> QED
  BY <1>1, <1>2, <1>3, <1>4, <1>5, KeepStep

\* The steps that leave the resource lock inside the storage lock.
LEMMA NestedStep ==
    ASSUME IInv, NEW t \in Threads, NEW v \in Levels,
           EndTurn(t, v) \/ InternalInit(t, v) \/ InternalDeinit(t, v)
    PROVE  IInv'
<1>1. PICK p \in {"cbreq", "sout"} :
          Moves(t, v, p) /\ MayMove(t, v, p) /\ Drop(t, "resource")
          /\ pc[t][v] \in {"inloop", "incb", "ininit"}
  BY DEF EndTurn, NextSlot, LastSlot, InternalInit, InternalDeinit, Runs, Moves, MayMove,
         IInv, FramesOK
<1>2. p \in PCs /\ "resource" \in Mutexes
  BY DEF PCs, Mutexes
<1>3. \A k \in Mutexes : FrameHolds(pc[t][v], k)
          = FrameHolds(p, k) + (IF k = "resource" THEN 1 ELSE 0)
  BY <1>1 DEF FrameHolds, Holding, Mutexes
<1>4. TablesTypeOK'
  <2>1. CASE EndTurn(t, v)
    <3>1. cb' \in [Threads -> [Levels -> Slots]]
      <4>1. cb \in [Threads -> [Levels -> Slots]]
        BY DEF IInv, TypeOK
      <4>2. cb[t][v] + 1 < SlotMax => cb[t][v] + 1 \in Slots
        BY <4>1, PsmExclusiveAssumption DEF Slots
      <4> QED
        BY <2>1, <4>1, <4>2 DEF EndTurn, NextSlot, LastSlot
    <3> QED
      BY <2>1, <3>1 DEF EndTurn, NextSlot, LastSlot, TablesTypeOK, tableVars, IInv, TypeOK
  <2>2. CASE InternalInit(t, v)
    <3>1. CASE UNCHANGED tableVars
      BY <2>2, <3>1 DEF InternalInit, TablesTypeOK, tableVars, IInv, TypeOK
    <3>2. CASE /\ inited' = TRUE /\ slot' = {}
               /\ valid' = [h \in Handles |-> FALSE] /\ ref' = [h \in Handles |-> 0]
      <4>1. valid' \in [Handles -> BOOLEAN]
        BY <3>2, Zenon
      <4>2. ref' \in [Handles -> Nat]
        BY <3>2
      <4> QED
        BY <2>2, <3>2, <4>1, <4>2 DEF InternalInit, TablesTypeOK, IInv, TypeOK
    <3> QED
      BY <2>2, <3>1, <3>2 DEF InternalInit
  <2>3. CASE InternalDeinit(t, v)
    BY <2>3 DEF InternalDeinit, TablesTypeOK, IInv, TypeOK
  <2> QED
    BY <2>1, <2>2, <2>3
<1> QED
  BY <1>1, <1>2, <1>3, <1>4, ReleaseStep

LEMMA ExitStep ==
    ASSUME IInv, NEW t \in Threads, NEW v \in Levels, UnreferenceHandle(t, v)
    PROVE  IInv'
<1>1. Moves(t, v, "idle") /\ MayMove(t, v, "idle") /\ Drop(t, "resource")
      /\ pc[t][v] = "inexit"
  BY DEF UnreferenceHandle, Runs, Moves, MayMove
<1>2. "idle" \in PCs /\ "resource" \in Mutexes
  BY DEF PCs, Mutexes
<1>3. \A k \in Mutexes : FrameHolds("inexit", k)
          = FrameHolds("idle", k) + (IF k = "resource" THEN 1 ELSE 0)
  BY DEF FrameHolds, Holding, Mutexes
<1>4. TablesTypeOK'
  <2>1. ref' \in [Handles -> Nat]
    <3>1. CASE CanUnreference(arg[t][v]) /\ arg[t][v] \in Handles
      <4>1. ref[arg[t][v]] - 1 \in Nat
        BY <3>1 DEF CanUnreference, IInv, TypeOK
      <4> QED
        BY <3>1, <4>1 DEF UnreferenceHandle, IInv, TypeOK
    <3>2. CASE ~(CanUnreference(arg[t][v]) /\ arg[t][v] \in Handles)
      BY <3>2 DEF UnreferenceHandle, IInv, TypeOK
    <3> QED
      BY <3>1, <3>2
  <2> QED
    BY <2>1 DEF UnreferenceHandle, TablesTypeOK, IInv, TypeOK
<1> QED
  BY <1>1, <1>2, <1>3, <1>4, ReleaseStep

\* The public Unlock moves no frame: it ends one locked section.
LEMMA UnlockStep ==
    ASSUME IInv, NEW t \in Threads, NEW v \in Levels, Unlock(t, v)
    PROVE  IInv'
<1>1. "storage" \in Mutexes /\ Drop(t, "storage")
  BY DEF Mutexes, Unlock
<1>2. TypeOK'
  <2>1. LockTypeOK'
    BY <1>1, LockTypes DEF IInv, TypeOK
  <2>2. section' \in [Threads -> Nat]
    BY DEF Unlock, IInv, TypeOK
  <2> QED
    BY <2>1, <2>2 DEF Unlock, IInv, TypeOK, frameVars, tableVars
<1>3. FramesOK'
  BY SameFramesOK DEF Unlock, frameVars
<1>4. CountIsExact'
  <2>1. /\ \A u \in Threads, k \in Mutexes : u # t => Holds(u, k)' = Holds(u, k)
        /\ \A k \in Mutexes : Holds(t, k)'
              = Holds(t, k) - (IF k = "storage" THEN 1 ELSE 0)
    BY DEF Unlock, frameVars, Holds, FrameHolds, Mutexes, IInv, TypeOK
  <2> QED
    BY <1>1, <2>1, DropIsExact, HoldsType DEF IInv
<1> QED
  BY <1>2, <1>3, <1>4 DEF IInv

LEMMA StutterStep ==
    ASSUME IInv, UNCHANGED vars
    PROVE  IInv'
<1>1. waiting' \subseteq Threads
  BY DEF vars, lockVars, IInv, TypeOK, LockTypeOK
<1> QED
  BY <1>1, WaitingStep DEF vars, lockVars

\* What a step of a frame may be.
RequestStep(t, v) == Locked(t, v) \/ Blocked(t, v) \/ TimedOut(t, v) \/ CountExceeded(t, v)

OwnStep(t, v) ==
    \/ ResetStorage(t, v) \/ EnterFunction(t, v) \/ EndTurn(t, v)
    \/ InternalInit(t, v) \/ InternalDeinit(t, v) \/ StorageOut(t, v)

LEMMA FrameSplit ==
    ASSUME NEW t, NEW v, FrameStep(t, v)
    PROVE  \/ RequestStep(t, v) \/ EntryStage(t, v) \/ StorageDone(t, v)
           \/ UnreferenceHandle(t, v) \/ OwnStep(t, v) \/ Unlock(t, v)
  BY LoopStep DEF FrameStep, RequestStep, EntryStage, OwnStep

LEMMA NextIInv == IInv /\ [Next]_vars => IInv'
<1> SUFFICES ASSUME IInv, [Next]_vars PROVE IInv'
  OBVIOUS
<1>1. ASSUME NEW t \in Threads, NEW v \in Levels, FrameStep(t, v) PROVE IInv'
  BY <1>1, FrameSplit, LockedStep, BlockedStep, NotGrantedStep, EntryStep, StorageStep,
     ExitStep, ResetStorageStep, NestedStep, UnlockStep DEF RequestStep, OwnStep
<1>2. ASSUME NEW t \in Threads, ThreadStep(t) PROVE IInv'
  BY <1>1, <1>2 DEF ThreadStep
<1>3. ASSUME NEW t \in Threads, NEW v \in Levels, NEW o \in Ops,
             NEW a \in Handles \cup Slots, Call(t, v, o, a)
      PROVE  IInv'
  BY <1>3, CallStep
<1> QED
  BY <1>2, <1>3, WakeupStep, StutterStep DEF Next

THEOREM SpecIInv == Spec => []IInv
  BY InitIInv, NextIInv, PTL DEF Spec

----------------------------------------------------------------------------
(* Every variable keeps the type its declaration gives it. *)
THEOREM SpecTypeOK == Spec => []TypeOK
<1>1. IInv => TypeOK
  BY DEF IInv
<1> QED
  BY SpecIInv, <1>1, PTL

(* The two recursive locks count exactly what their owner holds: through
   nesting, timeouts, lost races and refused recursions, RecursiveLock and
   RecursiveUnlock never leak a hold and never release one of another thread. *)
THEOREM SpecCountIsExact == Spec => []CountIsExact
<1>1. IInv => CountIsExact
  BY DEF IInv
<1> QED
  BY SpecIInv, <1>1, PTL

(* No two threads are ever inside the same lock. *)
THEOREM SpecExclusion == Spec => []Exclusion
<1>1. IInv => Exclusion
  BY DEF IInv, CountIsExact, Exclusion
<1> QED
  BY SpecIInv, <1>1, PTL

(* The storage lock is asked for under the resource lock only by the thread
   that owns it: the locks are never waited for in a cycle. *)
THEOREM SpecLockOrder == Spec => []LockOrder
<1>1. ASSUME IInv PROVE LockOrder
  <2> SUFFICES ASSUME NEW t \in Threads, NEW v \in Levels,
                      pc[t][v] \in DOMAIN Request, Request[pc[t][v]] = "storage",
                      Holds(t, "resource") > 0
               PROVE  own["storage"] = t /\ count["storage"] > 0
    BY DEF LockOrder
  <2>1. pc[t][v] \in {"storage", "istorage"}
    BY RequestTypes DEF Request
  <2>2. v = 2 /\ pc[t][1] = "incb"
    BY <1>1, <2>1 DEF IInv, FramesOK, Holds, FrameHolds, Holding, Levels
  <2>3. Holds(t, "storage") > 0
    BY <1>1, <2>1, <2>2 DEF IInv, TypeOK, Holds, FrameHolds, Holding
  <2> QED
    BY <1>1, <2>3 DEF IInv, CountIsExact, Mutexes
<1> QED
  BY SpecIInv, <1>1, PTL

----------------------------------------------------------------------------
(* What each frame may be: only a call on a handle has an exit stage, and the
   handle of a call is one of the table. *)
CallsOK ==
    \A t \in Threads, v \in Levels :
        /\ pc[t][v] \in {"exit", "inexit"} => op[t][v] = "use"
        /\ op[t][v] = "use" => arg[t][v] \in Handles

\* No frame begins a call, and the calls and the places of the others stand.
LEMMA CallsKept ==
    ASSUME IInv, CallsOK, UNCHANGED <<op, arg>>, NEW t \in Threads, NEW v \in Levels,
           NEW p \in PCs, Goto(t, v, p),
           p \in {"exit", "inexit"} => op[t][v] = "use"
    PROVE  CallsOK'
  BY DEF IInv, TypeOK, CallsOK, Goto, Levels

LEMMA InitCallsOK == Init => CallsOK
<1> SUFFICES ASSUME Init PROVE CallsOK
  OBVIOUS
<1>1. 0 \in Handles
  BY PsmExclusiveAssumption DEF Handles
<1> QED
  BY <1>1 DEF Init, CallsOK, Levels

LEMMA CallCallsOK ==
    ASSUME IInv, CallsOK, NEW t \in Threads, NEW v \in Levels, NEW o \in Ops,
           NEW a \in Handles \cup Slots, Call(t, v, o, a)
    PROVE  CallsOK'
<1>1. FirstStage(o) \notin {"exit", "inexit"} /\ FirstStage(o) # "idle"
  BY DEF FirstStage, EntryOps
<1>2. o = "use" => a \in Handles
  BY DEF Call, Args
<1>3. \A u \in Threads, w \in Levels :
         /\ (u # t \/ w # v) => /\ pc'[u][w] = pc[u][w] /\ op'[u][w] = op[u][w]
                                /\ arg'[u][w] = arg[u][w]
         /\ pc'[t][v] = FirstStage(o) /\ op'[t][v] = o /\ arg'[t][v] = a
  BY DEF Call, Goto, IInv, TypeOK
<1> QED
  BY <1>1, <1>2, <1>3 DEF CallsOK

LEMMA OwnGoto ==
    ASSUME NEW t \in Threads, NEW v \in Levels, OwnStep(t, v)
    PROVE  /\ UNCHANGED <<op, arg>>
           /\ \E p \in {"cbreq", "sout", "idle", "incb"} : Goto(t, v, p)
           /\ pc[t][v] \notin UsingPCs \/ op[t][v] = "reset"
  BY DEF OwnStep, ResetStorage, EnterFunction, EndTurn, NextSlot, LastSlot,
         InternalInit, InternalDeinit, StorageOut, UsingPCs

LEMMA FrameCallsOK ==
    ASSUME IInv, CallsOK, NEW t \in Threads, NEW v \in Levels, FrameStep(t, v)
    PROVE  CallsOK'
<1>1. CASE Blocked(t, v)
  BY <1>1 DEF Blocked, frameVars, CallsOK
<1>2. CASE Locked(t, v) \/ TimedOut(t, v) \/ CountExceeded(t, v)
  <2>1. pc[t][v] \in DOMAIN Request /\ pc[t][v] # "idle" /\ UNCHANGED <<op, arg>>
    BY <1>2, RequestTypes DEF Locked, TimedOut, CountExceeded, Timed
  <2>2. PICK p : Goto(t, v, p) /\ p \in {"idle", After[pc[t][v]], Failed(op[t][v], pc[t][v])}
    BY <1>2 DEF Locked, TimedOut, CountExceeded
  <2>3. p \in PCs
    BY <2>1, <2>2, RequestTypes, FailedTypes DEF PCs
  <2>4. p \in {"exit", "inexit"} => op[t][v] = "use"
    BY <2>1, <2>2 DEF After, Failed, Request, CallsOK
  <2> QED
    BY <2>1, <2>2, <2>3, <2>4, CallsKept
<1>3. CASE EntryStage(t, v)
  <2>1. PICK p \in {"idle", "storage"}, o \in EntryOps : EntryDone(t, v, o, p)
    BY <1>3 DEF EntryStage, NewHandle, DeleteHandle, ReferenceHandle, ReferenceFails,
           NewFactoryReset, DeleteFactoryReset, EntryOps
  <2>2. p \in PCs /\ UNCHANGED <<op, arg>> /\ Goto(t, v, p) /\ pc[t][v] # "idle"
    BY <2>1 DEF EntryDone, PCs
  <2> QED
    BY <2>2, CallsKept
<1>4. CASE StorageDone(t, v)
  <2>1. "exit" \in PCs
    BY DEF PCs
  <2> QED
    BY <1>4, <2>1, CallsKept DEF StorageDone
<1>5. CASE UnreferenceHandle(t, v)
  <2>1. "idle" \in PCs
    BY DEF PCs
  <2> QED
    BY <1>5, <2>1, CallsKept DEF UnreferenceHandle
<1>6. CASE OwnStep(t, v)
  <2>1. PICK p \in {"cbreq", "sout", "idle", "incb"} : Goto(t, v, p)
    BY <1>6, OwnGoto
  <2>2. p \in PCs /\ p \notin {"exit", "inexit"}
    BY DEF PCs
  <2> QED
    BY <1>6, <2>1, <2>2, OwnGoto, CallsKept
<1>7. CASE Unlock(t, v)
  BY <1>7 DEF Unlock, frameVars, CallsOK
<1> QED
  BY <1>1, <1>2, <1>3, <1>4, <1>5, <1>6, <1>7, FrameSplit DEF RequestStep

LEMMA NextCallsOK == IInv /\ CallsOK /\ [Next]_vars => CallsOK'
<1> SUFFICES ASSUME IInv, CallsOK, [Next]_vars PROVE CallsOK'
  OBVIOUS
<1>1. ASSUME NEW t \in Threads, Wakeup(t) PROVE CallsOK'
  BY <1>1 DEF Wakeup, frameVars, CallsOK
<1>2. CASE UNCHANGED vars
  BY <1>2 DEF vars, frameVars, CallsOK
<1> QED
  BY <1>1, <1>2, FrameCallsOK, CallCallsOK DEF Next, ThreadStep

----------------------------------------------------------------------------
\* A frame inside a lock holds it.
LEMMA FrameInside ==
    ASSUME IInv, NEW t \in Threads, NEW v \in Levels, NEW m \in Mutexes,
           pc[t][v] \in Holding[m]
    PROVE  Holds(t, m) > 0
<1>1. FrameHolds(pc[t][v], m) = 1
  BY DEF FrameHolds
<1>2. \A p : FrameHolds(p, m) \in {0, 1}
  BY DEF FrameHolds
<1>3. section[t] \in Nat
  BY DEF IInv, TypeOK
<1> QED
  BY <1>1, <1>2, <1>3 DEF Holds, Levels

\* The tables change only when a frame leaves the resource lock.
LEMMA TablesStep ==
    ASSUME IInv, Next, tableVars' # tableVars
    PROVE  \E u \in Threads, v \in Levels :
              pc[u][v] \in {"inentry", "inexit", "ininit"} /\ pc'[u] # pc[u]
<1>1. ASSUME NEW u \in Threads, NEW v \in Levels, FrameStep(u, v)
      PROVE  pc[u][v] \in {"inentry", "inexit", "ininit"} /\ pc'[u] # pc[u]
  <2>1. EntryStage(u, v) \/ UnreferenceHandle(u, v)
           \/ InternalInit(u, v) \/ InternalDeinit(u, v)
    BY <1>1, FrameSplit DEF RequestStep, Locked, Blocked, TimedOut, CountExceeded,
         StorageDone, OwnStep, ResetStorage, EnterFunction, EndTurn, NextSlot, LastSlot,
         StorageOut, Unlock
  <2>2. pc[u][v] \in {"inentry", "inexit", "ininit"}
    BY <2>1 DEF EntryStage, NewHandle, DeleteHandle, ReferenceHandle, ReferenceFails,
         NewFactoryReset, DeleteFactoryReset, EntryDone, UnreferenceHandle,
         InternalInit, InternalDeinit
  <2>3. \E p \in {"idle", "storage", "sout"} : Goto(u, v, p)
    BY <2>1 DEF EntryStage, NewHandle, DeleteHandle, ReferenceHandle, ReferenceFails,
         NewFactoryReset, DeleteFactoryReset, EntryDone, UnreferenceHandle,
         InternalInit, InternalDeinit
  <2>4. pc'[u][v] # pc[u][v]
    BY <2>2, <2>3 DEF Goto, IInv, TypeOK
  <2> QED
    BY <2>2, <2>4
<1>2. ASSUME NEW u \in Threads, Wakeup(u) PROVE FALSE
  BY <1>2 DEF Wakeup
<1>3. ASSUME NEW u \in Threads, NEW v \in Levels, NEW o, NEW a, Call(u, v, o, a)
      PROVE  FALSE
  BY <1>3 DEF Call
<1> QED
  BY <1>1, <1>2, <1>3 DEF Next, ThreadStep

\* Two frames inside the resource lock are of one thread.
LEMMA FunctionStep ==
    ASSUME IInv, [Next]_vars, NEW t \in Threads, NEW v \in Levels,
           pc[t][v] = "incb", tableVars' # tableVars
    PROVE  pc'[t] # pc[t]
<1>1. Next
  BY DEF vars
<1>2. PICK u \in Threads, w \in Levels :
         pc[u][w] \in {"inentry", "inexit", "ininit"} /\ pc'[u] # pc[u]
  BY <1>1, TablesStep
<1>3. "resource" \in Mutexes
      /\ Holding["resource"] = {"inentry", "inexit", "inloop", "incb", "ininit"}
  BY DEF Mutexes, Holding
<1>4. Holds(u, "resource") > 0
  BY <1>2, <1>3, FrameInside
<1>5. Holds(t, "resource") > 0
  BY <1>3, FrameInside
<1>6. u = t
  BY <1>3, <1>4, <1>5 DEF IInv, CountIsExact
<1> QED
  BY <1>2, <1>6

(* Open, Close, the entry and exit stages of the calls on a handle, Register-
   and UnregisterFactoryReset, Init and Deinit of any other thread return
   before a function registered for factory reset is called or after it has
   returned, in either frame, while the function itself may make every call. *)
THEOREM SpecFunctionHasTheTables == Spec => FunctionHasTheTables
<1>1. IInv /\ [Next]_vars =>
         [\A t \in Threads, v \in Levels :
            pc[t][v] = "incb" /\ tableVars' # tableVars => pc'[t] # pc[t]]_vars
  BY FunctionStep
<1> QED
  BY <1>1, InitIInv, NextIInv, PTL DEF Spec, FunctionHasTheTables

----------------------------------------------------------------------------
(* Nobody is left asleep.  WaitersAreBlocked is what the broadcast of the last
   release is for: whoever sleeps waits for a lock another thread still has. *)
WaitersAreBlocked ==
    \A t \in waiting : \E m \in Mutexes : Asks(t, m) /\ ~Unlocked(t, m)

\* A step of u that wakes it, or finds it awake, and puts nobody to sleep.
Awake(u) ==
    /\ u \notin waiting' /\ waiting' \subseteq waiting
    /\ \A t \in Threads : t # u => pc'[t] = pc[t]

\* No lock that keeps somebody asleep comes free.
SleepersStayLocked ==
    \A t \in waiting' : \A m \in Mutexes : ~Unlocked(t, m) => ~Unlocked(t, m)'

LEMMA BlockedKept ==
    ASSUME IInv, WaitersAreBlocked, NEW u \in Threads, Awake(u), SleepersStayLocked
    PROVE  WaitersAreBlocked'
<1>1. \A t \in waiting' : t \in waiting /\ pc'[t] = pc[t]
  BY DEF Awake, IInv, TypeOK, LockTypeOK
<1>2. \A t \in waiting', m \in Mutexes : Asks(t, m) => Asks(t, m)'
  BY <1>1 DEF Asks
<1> QED
  BY <1>1, <1>2 DEF WaitersAreBlocked, SleepersStayLocked

LEMMA LocksStand ==
    ASSUME UNCHANGED <<count, own>>
    PROVE  SleepersStayLocked
  BY DEF SleepersStayLocked, Unlocked

\* Only its owner takes a lock that keeps somebody asleep.
LEMMA GrantLeavesSleepers ==
    ASSUME IInv, NEW u \in Threads, NEW k \in Mutexes, Grant(u, k), u \notin waiting
    PROVE  SleepersStayLocked
<1> SUFFICES ASSUME NEW t \in waiting', NEW m \in Mutexes, ~Unlocked(t, m)
             PROVE  ~Unlocked(t, m)'
  BY DEF SleepersStayLocked
<1>1. t \in waiting /\ t # u
  BY DEF Grant
<1>2. CASE m = k
  BY <1>1, <1>2 DEF Grant, Unlocked, IInv, TypeOK, LockTypeOK
<1>3. CASE m # k
  BY <1>3 DEF Grant, Unlocked, IInv, TypeOK, LockTypeOK
<1> QED
  BY <1>2, <1>3

\* The last release of either lock wakes everybody.
LEMMA DropLeavesSleepers ==
    ASSUME IInv, NEW u \in Threads, NEW k \in Mutexes, Drop(u, k)
    PROVE  SleepersStayLocked
<1> SUFFICES ASSUME NEW t \in waiting', NEW m \in Mutexes, ~Unlocked(t, m)
             PROVE  ~Unlocked(t, m)'
  BY DEF SleepersStayLocked
<1>1. count[k] # 1 /\ count[k] > 0
  BY DEF Drop
<1>2. count'[m] > 0 /\ own'[m] = own[m]
  BY <1>1 DEF Drop, Unlocked, IInv, TypeOK, LockTypeOK
<1> QED
  BY <1>2 DEF Unlocked

\* Running means being awake.
LEMMA DropKeepsBlocked ==
    ASSUME IInv, WaitersAreBlocked, NEW u \in Threads, NEW k \in Mutexes, Drop(u, k),
           u \notin waiting, \A t \in Threads : t # u => pc'[t] = pc[t]
    PROVE  WaitersAreBlocked'
<1>1. Awake(u)
  BY DEF Awake, Drop
<1> QED
  BY <1>1, DropLeavesSleepers, BlockedKept

LEMMA GotoKeepsOthers ==
    ASSUME IInv, NEW u \in Threads, NEW v \in Levels, NEW p, Goto(u, v, p)
    PROVE  \A t \in Threads : t # u => pc'[t] = pc[t]
  BY DEF IInv, TypeOK, Goto

LEMMA RequestKeepsBlocked ==
    ASSUME IInv, WaitersAreBlocked, NEW u \in Threads, NEW v \in Levels,
           Locked(u, v) \/ Blocked(u, v) \/ TimedOut(u, v) \/ CountExceeded(u, v)
    PROVE  WaitersAreBlocked'
<1>1. CASE Locked(u, v)
  <2>1. pc[u][v] \in DOMAIN Request /\ u \notin waiting /\ UNCHANGED waiting
    BY <1>1 DEF Locked, Runs, Grant
  <2>2. \A t \in Threads : t # u => pc'[t] = pc[t]
    BY <1>1, GotoKeepsOthers DEF Locked
  <2>3. Awake(u)
    BY <2>1, <2>2 DEF Awake
  <2>4. Request[pc[u][v]] \in Mutexes
    BY <2>1, RequestTypes
  <2>5. SleepersStayLocked
    BY <1>1, <2>1, <2>4, GrantLeavesSleepers DEF Locked
  <2> QED
    BY <2>3, <2>5, BlockedKept
<1>2. CASE Blocked(u, v)
  <2>1. UNCHANGED <<pc, count, own>> /\ waiting' = waiting \cup {u}
        /\ ~Unlocked(u, Request[pc[u][v]]) /\ pc[u][v] \in DOMAIN Request
    BY <1>2 DEF Blocked, Sleep, frameVars
  <2>2. Request[pc[u][v]] \in Mutexes /\ Asks(u, Request[pc[u][v]])
    BY <1>2, <2>1, RequestTypes DEF Blocked, Runs, Asks
  <2>3. \A t \in Threads, m \in Mutexes :
           (Asks(t, m) <=> Asks(t, m)') /\ (Unlocked(t, m) <=> Unlocked(t, m)')
    BY <2>1 DEF Asks, Unlocked
  <2>4. waiting \subseteq Threads
    BY DEF IInv, TypeOK, LockTypeOK
  <2> QED
    BY <2>1, <2>2, <2>3, <2>4 DEF WaitersAreBlocked
<1>3. CASE TimedOut(u, v) \/ CountExceeded(u, v)
  <2>1. UNCHANGED <<count, own>> /\ u \notin waiting' /\ waiting' \subseteq waiting
    BY <1>3 DEF TimedOut, CountExceeded, GiveUp, Refuse, Runs, lockVars
  <2>2. \A t \in Threads : t # u => pc'[t] = pc[t]
    BY <1>3, GotoKeepsOthers DEF TimedOut, CountExceeded
  <2>3. Awake(u)
    BY <2>1, <2>2 DEF Awake
  <2> QED
    BY <2>1, <2>3, LocksStand, BlockedKept
<1> QED
  BY <1>1, <1>2, <1>3

\* The steps inside a lock that release one.
LEMMA InsideKeepsBlocked ==
    ASSUME IInv, WaitersAreBlocked, NEW u \in Threads, NEW v \in Levels,
           \/ EntryStage(u, v) \/ StorageDone(u, v) \/ UnreferenceHandle(u, v)
           \/ EndTurn(u, v) \/ InternalInit(u, v) \/ InternalDeinit(u, v)
           \/ StorageOut(u, v) \/ Unlock(u, v)
    PROVE  WaitersAreBlocked'
<1>1. u \notin waiting
  BY DEF EntryStage, NewHandle, DeleteHandle, ReferenceHandle, ReferenceFails,
         NewFactoryReset, DeleteFactoryReset, EntryDone, StorageDone, UnreferenceHandle,
         EndTurn, NextSlot, LastSlot, InternalInit, InternalDeinit, StorageOut, Unlock, Runs, Free
<1>2. \E k \in Mutexes : Drop(u, k)
  BY DEF EntryStage, NewHandle, DeleteHandle, ReferenceHandle, ReferenceFails,
         NewFactoryReset, DeleteFactoryReset, EntryDone, StorageDone, UnreferenceHandle,
         EndTurn, NextSlot, LastSlot, InternalInit, InternalDeinit, StorageOut, Unlock, Mutexes
<1>3. pc' = pc \/ \E p : Goto(u, v, p)
  BY DEF EntryStage, NewHandle, DeleteHandle, ReferenceHandle, ReferenceFails,
         NewFactoryReset, DeleteFactoryReset, EntryDone, StorageDone, UnreferenceHandle,
         EndTurn, NextSlot, LastSlot, InternalInit, InternalDeinit, StorageOut, Unlock, frameVars
<1>4. \A t \in Threads : t # u => pc'[t] = pc[t]
  BY <1>3, GotoKeepsOthers
<1> QED
  BY <1>1, <1>2, <1>4, DropKeepsBlocked

LEMMA NextKeepsBlocked == IInv /\ WaitersAreBlocked /\ [Next]_vars => WaitersAreBlocked'
<1> SUFFICES ASSUME IInv, WaitersAreBlocked, [Next]_vars PROVE WaitersAreBlocked'
  OBVIOUS
<1>1. ASSUME NEW u \in Threads, NEW v \in Levels, ResetStorage(u, v) \/ EnterFunction(u, v)
      PROVE  WaitersAreBlocked'
  <2>1. \E p : Goto(u, v, p)
    BY <1>1 DEF ResetStorage, EnterFunction
  <2>2. Awake(u) /\ UNCHANGED <<count, own>>
    BY <1>1, <2>1, GotoKeepsOthers DEF ResetStorage, EnterFunction, Runs, lockVars, Awake
  <2> QED
    BY <2>2, LocksStand, BlockedKept
<1>2. ASSUME NEW u \in Threads, NEW v \in Levels, FrameStep(u, v) PROVE WaitersAreBlocked'
  BY <1>1, <1>2, FrameSplit, RequestKeepsBlocked, InsideKeepsBlocked
     DEF RequestStep, OwnStep
<1>3. ASSUME NEW u \in Threads, Wakeup(u) PROVE WaitersAreBlocked'
  <2>1. Awake(u) /\ UNCHANGED <<count, own>>
    BY <1>3 DEF Wakeup, SpuriousWakeup, frameVars, Awake
  <2> QED
    BY <2>1, LocksStand, BlockedKept
<1>4. ASSUME NEW u \in Threads, NEW v \in Levels, NEW o, NEW a, Call(u, v, o, a)
      PROVE  WaitersAreBlocked'
  <2>1. Awake(u) /\ UNCHANGED <<count, own>>
    BY <1>4, GotoKeepsOthers DEF Call, Free, lockVars, Awake
  <2> QED
    BY <2>1, LocksStand, BlockedKept
<1>5. CASE UNCHANGED vars
  BY <1>5 DEF vars, lockVars, frameVars, WaitersAreBlocked, Asks, Unlocked
<1> QED
  BY <1>2, <1>3, <1>4, <1>5 DEF Next, ThreadStep

\* Whoever waits waits for an owner, who holds that lock.
LEMMA OwnerIsThere ==
    ASSUME IInv, WaitersAreBlocked, NEW t \in waiting
    PROVE  \E m \in Mutexes, u \in Threads :
              /\ Asks(t, m) /\ own[m] = u /\ count[m] > 0 /\ Holds(u, m) > 0 /\ u # t
              /\ KeepsWaiting(u, t)
<1>1. PICK m \in Mutexes : Asks(t, m) /\ ~Unlocked(t, m)
  BY DEF WaitersAreBlocked
<1>2. count[m] > 0 /\ own[m] # t
  BY <1>1 DEF Unlocked, IInv, TypeOK, LockTypeOK
<1>3. own[m] \in Threads /\ Holds(own[m], m) > 0
  BY <1>2 DEF IInv, CountIsExact
<1> QED
  BY <1>1, <1>2, <1>3 DEF KeepsWaiting

\* The owner of the resource lock runs: a call under it asks for nothing but
\* what its thread owns.
LEMMA ResourceOwnerRuns ==
    ASSUME IInv, WaitersAreBlocked, NEW u \in Threads, Holds(u, "resource") > 0
    PROVE  u \notin waiting
<1> SUFFICES ASSUME u \in waiting PROVE FALSE
  OBVIOUS
<1>1. PICK m \in Mutexes : Asks(u, m) /\ ~Unlocked(u, m)
  BY DEF WaitersAreBlocked
<1>2. PICK v \in Levels : (v = 2 \/ pc[u][2] = "idle") /\ pc[u][v] \in DOMAIN Request
  BY <1>1 DEF Asks
<1>3. pc[u][v] # "idle" /\ FrameHolds(pc[u][v], "resource") = 0
      /\ FrameHolds("idle", "resource") = 0
  BY <1>2, RequestTypes DEF FrameHolds, Holding
<1>4. v = 2
  BY <1>2, <1>3 DEF Holds, Levels
<1>5. pc[u][1] = "incb" /\ 1 \in Levels
  BY <1>3, <1>4 DEF IInv, FramesOK, Levels
<1>6. \A k \in Mutexes : pc[u][1] \in Holding[k]
  BY <1>5 DEF Mutexes, Holding
<1>7. Holds(u, m) > 0
  BY <1>5, <1>6, FrameInside
<1> QED
  BY <1>1, <1>7 DEF IInv, CountIsExact, Unlocked

LEMMA WaitsEnd ==
    ASSUME IInv, WaitersAreBlocked
    PROVE  SomebodyGoesOn
<1> SUFFICES ASSUME NEW t \in waiting
             PROVE  \E u \in Threads :
                       /\ KeepsWaiting(u, t)
                       /\ u \in waiting => \E w \in Threads \ waiting : KeepsWaiting(w, u)
  BY DEF SomebodyGoesOn
<1>1. PICK m \in Mutexes, u \in Threads : Holds(u, m) > 0 /\ KeepsWaiting(u, t)
                                          /\ own[m] = u /\ count[m] > 0
  BY OwnerIsThere
<1>2. ASSUME u \in waiting PROVE \E w \in Threads \ waiting : KeepsWaiting(w, u)
  <2>1. m = "storage"
    BY <1>1, <1>2, ResourceOwnerRuns DEF Mutexes
  <2>2. PICK k \in Mutexes, w \in Threads :
           own[k] = w /\ Holds(w, k) > 0 /\ w # u /\ KeepsWaiting(w, u)
    BY <1>2, OwnerIsThere
  <2>3. k = "resource"
    BY <1>1, <2>1, <2>2 DEF Mutexes
  <2>4. w \notin waiting
    BY <2>2, <2>3, ResourceOwnerRuns
  <2> QED
    BY <2>2, <2>4
<1> QED
  BY <1>1, <1>2

(* The locks are taken in one order and no release leaves a sleeper behind:
   whoever waits on the condition variable, for either lock, waits for a thread
   that runs or for one that waits for such a thread (RecursiveLock,
   RecursiveConditionWait, RecursiveUnlock).  That the thread that runs gets to
   its release is fairness, and stays with TLC. *)
THEOREM SpecNoDeadlock == Spec => []NoDeadlock
<1>1. Init => WaitersAreBlocked
  <2>1. Init => waiting = {}
    BY DEF Init, LockInit
  <2> QED
    BY <2>1 DEF WaitersAreBlocked
<1>2. IInv /\ WaitersAreBlocked => SomebodyGoesOn
  BY WaitsEnd
<1>3. []LockOrder /\ []SomebodyGoesOn <=> []NoDeadlock
  BY PTL DEF NoDeadlock
<1> QED
  BY <1>1, <1>2, <1>3, InitIInv, NextIInv, NextKeepsBlocked, SpecLockOrder, PTL DEF Spec

----------------------------------------------------------------------------
(* The count of the calls in flight on a handle.  Deinit frees the table of
   handles under the calls that use it, so the count is exact as long as no
   thread calls Deinit. *)
NoDeinit == \A t \in Threads : "deinit" \notin ThreadOps[t]

StaysInited ==
    /\ inited = TRUE
    /\ \A t \in Threads, v \in Levels : op[t][v] # "deinit"

RefInv == IInv /\ CallsOK /\ StaysInited /\ RefCountIsExact

InUse(t, v, h) == op[t][v] = "use" /\ pc[t][v] \in UsingPCs /\ arg[t][v] = h

LEMMA UsingIs ==
    ASSUME NEW h
    PROVE  \A t \in Threads, v \in Levels : <<t, v>> \in Using(h) <=> InUse(t, v, h)
  BY DEF Using, InUse

LEMMA UsingIsNext ==
    ASSUME NEW h
    PROVE  \A t \in Threads, v \in Levels : <<t, v>> \in Using(h)' <=> InUse(t, v, h)'
  BY DEF Using, InUse

LEMMA UsingPairs ==
    ASSUME NEW h
    PROVE  Using(h) \subseteq Threads \X Levels /\ Using(h)' \subseteq Threads \X Levels
  BY DEF Using

LEMMA UsingFinite ==
    ASSUME IsFiniteSet(Threads), NEW h
    PROVE  IsFiniteSet(Using(h)) /\ Cardinality(Using(h)) \in Nat
<1>1. IsFiniteSet(Levels)
  <2>1. IsFiniteSet({1})
    BY FS_Singleton
  <2>2. Levels = {1} \cup {2}
    BY DEF Levels
  <2> QED
    BY <2>1, <2>2, FS_AddElement
<1>2. IsFiniteSet(Threads \X Levels)
  BY <1>1, FS_Product
<1>3. IsFiniteSet(Using(h))
  BY <1>2, UsingPairs, FS_Subset
<1> QED
  BY <1>3, FS_CardinalityType

\* Whatever moves, if it uses what it used before, the sets stand.
LEMMA UsingKept ==
    ASSUME NEW h, \A t \in Threads, v \in Levels : InUse(t, v, h)' <=> InUse(t, v, h)
    PROVE  Using(h)' = Using(h)
<1>1. \A f \in Threads \X Levels : f \in Using(h)' <=> f \in Using(h)
  BY UsingIs, UsingIsNext
<1> QED
  BY <1>1, UsingPairs

\* A frame that moves inside, or outside, the stages that use its handle.
LEMMA MoveKeepsUsing ==
    ASSUME IInv, NEW t \in Threads, NEW v \in Levels, NEW p \in PCs,
           Goto(t, v, p), UNCHANGED <<op, arg>>,
           op[t][v] = "use" => (p \in UsingPCs <=> pc[t][v] \in UsingPCs)
    PROVE  \A h : Using(h)' = Using(h)
<1> SUFFICES ASSUME NEW h PROVE Using(h)' = Using(h)
  OBVIOUS
<1>1. \A u \in Threads, w \in Levels :
         pc'[u][w] = IF u = t /\ w = v THEN p ELSE pc[u][w]
  BY DEF Goto, IInv, TypeOK
<1>2. \A u \in Threads, w \in Levels : InUse(u, w, h)' <=> InUse(u, w, h)
  BY <1>1 DEF InUse
<1> QED
  BY <1>2, UsingKept

\* Neither the sets nor the tables change.
LEMMA SameRef ==
    ASSUME RefInv, \A h \in Handles : Using(h)' = Using(h),
           UNCHANGED <<ref, inited, valid>>
    PROVE  RefCountIsExact'
  BY DEF RefInv, RefCountIsExact

LEMMA SameInited ==
    ASSUME RefInv, UNCHANGED <<op, inited>>
    PROVE  StaysInited'
  BY DEF RefInv, StaysInited

LEMMA InitRef ==
    ASSUME IsFiniteSet(Threads), Init
    PROVE  RefCountIsExact /\ StaysInited
<1>1. \A h \in Handles : Using(h) = {}
  <2>1. "idle" \notin UsingPCs
    BY DEF UsingPCs
  <2>2. \A t \in Threads, v \in Levels : pc[t][v] = "idle"
    BY DEF Init
  <2> QED
    BY <2>1, <2>2 DEF Using
<1>2. \A h \in Handles : ref[h] = 0
  BY DEF Init
<1>3. RefCountIsExact
  BY <1>1, <1>2, FS_EmptySet DEF RefCountIsExact
<1> QED
  BY <1>3 DEF Init, StaysInited

LEMMA CallRef ==
    ASSUME RefInv, NoDeinit, NEW t \in Threads, NEW v \in Levels, NEW o \in Ops,
           NEW a \in Handles \cup Slots, Call(t, v, o, a)
    PROVE  RefCountIsExact' /\ StaysInited'
<1>1. o = "use" => FirstStage(o) \notin UsingPCs
  BY DEF FirstStage, EntryOps, UsingPCs
<1>2. \A u \in Threads, w \in Levels :
         /\ (u # t \/ w # v) => /\ pc'[u][w] = pc[u][w] /\ op'[u][w] = op[u][w]
                                /\ arg'[u][w] = arg[u][w]
         /\ pc'[t][v] = FirstStage(o) /\ op'[t][v] = o
  BY DEF Call, Goto, RefInv, IInv, TypeOK
<1>3. pc[t][v] = "idle" /\ "idle" \notin UsingPCs
  BY DEF Call, Free, UsingPCs
<1>4. ASSUME NEW h PROVE Using(h)' = Using(h)
  <2>1. \A u \in Threads, w \in Levels : InUse(u, w, h)' <=> InUse(u, w, h)
    BY <1>1, <1>2, <1>3 DEF InUse
  <2> QED
    BY <2>1, UsingKept
<1>5. RefCountIsExact'
  BY <1>4, SameRef DEF Call, tableVars
<1>6. o # "deinit"
  BY DEF Call, NoDeinit
<1>7. StaysInited'
  BY <1>2, <1>6 DEF Call, tableVars, RefInv, StaysInited
<1> QED
  BY <1>5, <1>7

----------------------------------------------------------------------------
(* The stages that touch the table of handles. *)

LEMMA OpenRef ==
    ASSUME RefInv, IsFiniteSet(Threads), NEW t \in Threads, NEW v \in Levels, NewHandle(t, v)
    PROVE  RefCountIsExact'
<1>1. \A h : Using(h)' = Using(h)
  BY MoveKeepsUsing DEF NewHandle, EntryDone, PCs, RefInv
<1>2. inited' = inited
  BY DEF NewHandle, EntryDone
<1>3. CASE UNCHANGED <<valid, ref>>
  BY <1>1, <1>2, <1>3, SameRef
<1>4. ASSUME NEW k \in First(FreeHandles),
             valid' = [valid EXCEPT ![k] = TRUE], ref' = [ref EXCEPT ![k] = 0]
      PROVE  RefCountIsExact'
  <2>1. k \in Handles /\ ~valid[k]
    BY DEF First, FreeHandles
  <2>2. Using(k) = {}
    BY <2>1 DEF RefInv, RefCountIsExact
  <2>3. \A h \in Handles : ref'[h] = ref[h] /\ (valid[h] => valid'[h])
    <3>1. ref[k] = 0
      BY <2>1, <2>2, FS_EmptySet DEF RefInv, RefCountIsExact
    <3> QED
      BY <1>4, <2>1, <3>1 DEF RefInv, IInv, TypeOK
  <2> QED
    BY <1>1, <1>2, <2>3 DEF RefInv, RefCountIsExact
<1> QED
  BY <1>3, <1>4 DEF NewHandle

LEMMA CloseRef ==
    ASSUME RefInv, IsFiniteSet(Threads), NEW t \in Threads, NEW v \in Levels, DeleteHandle(t, v)
    PROVE  RefCountIsExact'
<1> DEFINE k == arg[t][v]
<1>1. \A h : Using(h)' = Using(h)
  BY MoveKeepsUsing DEF DeleteHandle, EntryDone, PCs, RefInv
<1>2. UNCHANGED <<inited, ref>>
  BY DEF DeleteHandle, EntryDone
<1>3. CASE valid' = valid
  BY <1>1, <1>2, <1>3, SameRef
<1>4. CASE ref[k] = 0 /\ valid' = [valid EXCEPT ![k] = FALSE]
  <2>1. \A h \in Handles : h # k => valid'[h] = valid[h]
    BY <1>4 DEF RefInv, IInv, TypeOK
  <2>2. k \in Handles => Using(k) = {}
    <3>1. k \in Handles => Cardinality(Using(k)) = 0
      BY <1>4 DEF RefInv, RefCountIsExact
    <3> QED
      BY <3>1, UsingFinite, FS_EmptySet
  <2> HIDE DEF k
  <2> QED
    BY <1>1, <1>2, <2>1, <2>2 DEF RefInv, RefCountIsExact
<1> QED
  BY <1>3, <1>4 DEF DeleteHandle

\* One frame begins, or ends, to use handle k.
LEMMA UsingGrows ==
    ASSUME NEW t \in Threads, NEW v \in Levels, NEW k, ~InUse(t, v, k),
           \A u \in Threads, w \in Levels :
              InUse(u, w, k)' <=> (InUse(u, w, k) \/ (u = t /\ w = v))
    PROVE  <<t, v>> \notin Using(k) /\ Using(k)' = Using(k) \cup {<<t, v>>}
<1>1. \A u \in Threads, w \in Levels :
         <<u, w>> \in Using(k)' <=> (<<u, w>> \in Using(k) \/ <<u, w>> = <<t, v>>)
  BY UsingIs, UsingIsNext
<1>2. \A f \in Threads \X Levels : f \in Using(k)' <=> (f \in Using(k) \/ f = <<t, v>>)
  BY <1>1
<1> QED
  BY <1>2, UsingIs, UsingPairs

LEMMA UsingShrinks ==
    ASSUME NEW t \in Threads, NEW v \in Levels, NEW k, InUse(t, v, k),
           \A u \in Threads, w \in Levels :
              InUse(u, w, k)' <=> (InUse(u, w, k) /\ ~(u = t /\ w = v))
    PROVE  <<t, v>> \in Using(k) /\ Using(k)' = Using(k) \ {<<t, v>>}
<1>1. \A u \in Threads, w \in Levels :
         <<u, w>> \in Using(k)' <=> (<<u, w>> \in Using(k) /\ <<u, w>> # <<t, v>>)
  BY UsingIs, UsingIsNext
<1>2. \A f \in Threads \X Levels : f \in Using(k)' <=> (f \in Using(k) /\ f # <<t, v>>)
  BY <1>1
<1> QED
  BY <1>2, UsingIs, UsingPairs

LEMMA ReferenceRef ==
    ASSUME RefInv, IsFiniteSet(Threads), NEW t \in Threads, NEW v \in Levels,
           ReferenceHandle(t, v)
    PROVE  RefCountIsExact'
<1>1. PICK k \in Handles : k = arg[t][v]
  BY DEF ReferenceHandle, EntryDone, RefInv, CallsOK
<1>2. op[t][v] = "use" /\ pc[t][v] = "inentry" /\ UNCHANGED <<op, arg, valid, inited>>
      /\ valid[k] /\ inited /\ ref' = [ref EXCEPT ![k] = @ + 1]
  BY <1>1 DEF ReferenceHandle, EntryDone, CanReference
<1>3. "inentry" \notin UsingPCs /\ "storage" \in UsingPCs
  BY DEF UsingPCs
<1>4. \A u \in Threads, w \in Levels :
         pc'[u][w] = IF u = t /\ w = v THEN "storage" ELSE pc[u][w]
  BY DEF ReferenceHandle, EntryDone, Goto, RefInv, IInv, TypeOK
<1>5. ASSUME NEW h, h # k PROVE Using(h)' = Using(h)
  <2>1. \A u \in Threads, w \in Levels : InUse(u, w, h)' <=> InUse(u, w, h)
    BY <1>1, <1>2, <1>3, <1>4, <1>5 DEF InUse
  <2> QED
    BY <2>1, UsingKept
<1>6. <<t, v>> \notin Using(k) /\ Using(k)' = Using(k) \cup {<<t, v>>}
  <2>1. \A u \in Threads, w \in Levels :
           InUse(u, w, k)' <=> (InUse(u, w, k) \/ (u = t /\ w = v))
    BY <1>1, <1>2, <1>3, <1>4 DEF InUse
  <2>2. ~InUse(t, v, k)
    BY <1>2, <1>3 DEF InUse
  <2> QED
    BY <2>1, <2>2, UsingGrows
<1>7. Cardinality(Using(k))' = Cardinality(Using(k)) + 1
  BY <1>6, UsingFinite, FS_AddElement
<1>8. \A h \in Handles : ref'[h] = IF h = k THEN ref[h] + 1 ELSE ref[h]
  BY <1>2 DEF RefInv, IInv, TypeOK
<1>9. ASSUME NEW h \in Handles
      PROVE  /\ ref'[h] = Cardinality(Using(h))'
             /\ Using(h)' # {} => inited' /\ valid'[h]
  <2>1. ref[h] = Cardinality(Using(h)) /\ (Using(h) # {} => inited /\ valid[h])
    BY DEF RefInv, RefCountIsExact
  <2>2. CASE h = k
    BY <1>2, <1>7, <1>8, <2>1, <2>2
  <2>3. CASE h # k
    BY <1>2, <1>5, <1>8, <2>1, <2>3
  <2> QED
    BY <2>2, <2>3
<1> QED
  BY <1>9 DEF RefCountIsExact

LEMMA UnreferenceRef ==
    ASSUME RefInv, IsFiniteSet(Threads), NEW t \in Threads, NEW v \in Levels,
           UnreferenceHandle(t, v)
    PROVE  RefCountIsExact'
<1>1. PICK k \in Handles : k = arg[t][v]
  BY DEF UnreferenceHandle, RefInv, CallsOK
<1>2. op[t][v] = "use" /\ pc[t][v] = "inexit" /\ UNCHANGED <<op, arg, valid, inited>>
      /\ ref' = IF CanUnreference(k) THEN [ref EXCEPT ![k] = @ - 1] ELSE ref
  BY <1>1 DEF UnreferenceHandle, RefInv, CallsOK
<1>3. "idle" \notin UsingPCs /\ "inexit" \in UsingPCs
  BY DEF UsingPCs
<1>4. \A u \in Threads, w \in Levels :
         pc'[u][w] = IF u = t /\ w = v THEN "idle" ELSE pc[u][w]
  BY DEF UnreferenceHandle, Goto, RefInv, IInv, TypeOK
<1>5. ASSUME NEW h, h # k PROVE Using(h)' = Using(h)
  <2>1. \A u \in Threads, w \in Levels : InUse(u, w, h)' <=> InUse(u, w, h)
    BY <1>1, <1>2, <1>3, <1>4, <1>5 DEF InUse
  <2> QED
    BY <2>1, UsingKept
<1>6. <<t, v>> \in Using(k) /\ Using(k)' = Using(k) \ {<<t, v>>}
  <2>1. \A u \in Threads, w \in Levels :
           InUse(u, w, k)' <=> (InUse(u, w, k) /\ ~(u = t /\ w = v))
    BY <1>1, <1>2, <1>3, <1>4 DEF InUse
  <2>2. InUse(t, v, k)
    BY <1>1, <1>2, <1>3 DEF InUse
  <2> QED
    BY <2>1, <2>2, UsingShrinks
<1>7. Cardinality(Using(k))' = Cardinality(Using(k)) - 1
  BY <1>6, UsingFinite, FS_RemoveElement
<1>8. CanUnreference(k)
  <2>1. inited /\ valid[k] /\ ref[k] = Cardinality(Using(k))
    BY <1>6 DEF RefInv, RefCountIsExact
  <2>2. Cardinality(Using(k)) # 0 /\ Cardinality(Using(k)) \in Nat
    BY <1>6, UsingFinite, FS_EmptySet
  <2> QED
    BY <2>1, <2>2 DEF CanUnreference
<1>9. \A h \in Handles : ref'[h] = IF h = k THEN ref[h] - 1 ELSE ref[h]
  BY <1>2, <1>8 DEF RefInv, IInv, TypeOK
<1>10. ASSUME NEW h \in Handles
      PROVE  /\ ref'[h] = Cardinality(Using(h))'
             /\ Using(h)' # {} => inited' /\ valid'[h]
  <2>1. ref[h] = Cardinality(Using(h)) /\ (Using(h) # {} => inited /\ valid[h])
    BY DEF RefInv, RefCountIsExact
  <2>2. valid' = valid
    BY DEF UnreferenceHandle
  <2>3. CASE h = k
    BY <1>2, <1>6, <1>7, <1>9, <2>1, <2>2, <2>3
  <2>4. CASE h # k
    BY <1>2, <1>5, <1>9, <2>1, <2>2, <2>4
  <2> QED
    BY <2>3, <2>4
<1> QED
  BY <1>10 DEF RefCountIsExact

----------------------------------------------------------------------------
(* The other steps: no handle is begun, left, opened or closed. *)

\* A request for the resource lock is refused only to a thread that holds it
\* MaxCount times, and the exit stage of a call runs inside one hold at most.
LEMMA ExitIsGranted ==
    ASSUME IInv, CallsOK, NEW t \in Threads, NEW v \in Levels,
           Runs(t, v), pc[t][v] = "exit"
    PROVE  ~Refuse(t, "resource")
<1> SUFFICES ASSUME Refuse(t, "resource") PROVE FALSE
  OBVIOUS
<1>1. "resource" \in Mutexes
  BY DEF Mutexes
<1>2. count["resource"] = MaxCount /\ MaxCount >= 2
  BY PsmLockAssumption DEF Refuse
<1>3. own["resource"] = t /\ Holds(t, "resource") = MaxCount
  BY <1>1, <1>2, PsmLockAssumption DEF Refuse, Unlocked, IInv, CountIsExact
<1>4. FrameHolds("exit", "resource") = 0 /\ FrameHolds("idle", "resource") = 0
      /\ \A p : FrameHolds(p, "resource") \in {0, 1}
  BY DEF FrameHolds, Holding
<1>5. Holds(t, "resource") <= 1
  BY <1>4 DEF Holds, Runs, Levels
<1> QED
  BY <1>2, <1>3, <1>5, PsmLockAssumption

LEMMA RequestRef ==
    ASSUME RefInv, NEW t \in Threads, NEW v \in Levels,
           Locked(t, v) \/ TimedOut(t, v) \/ CountExceeded(t, v)
    PROVE  RefCountIsExact'
<1>1. pc[t][v] \in DOMAIN Request /\ UNCHANGED <<op, arg, ref, inited, valid>>
  BY RequestTypes DEF Locked, TimedOut, CountExceeded, Timed, tableVars
<1>2. PICK p : /\ Goto(t, v, p)
               /\ \/ p = After[pc[t][v]]
                  \/ p = "idle" /\ op[t][v] = "lock"
                  \/ p = Failed(op[t][v], pc[t][v]) /\ pc[t][v] # "exit"
  <2>1. CASE CountExceeded(t, v)
    <3>1. pc[t][v] # "exit"
      BY <2>1, ExitIsGranted DEF CountExceeded, RefInv, Request
    <3> QED
      BY <2>1, <3>1 DEF CountExceeded
  <2> QED
    BY <2>1 DEF Locked, TimedOut, Timed
<1>3. p \in PCs
  BY <1>1, <1>2, RequestTypes, FailedTypes DEF PCs
<1>4. op[t][v] = "use" => (p \in UsingPCs <=> pc[t][v] \in UsingPCs)
  BY <1>1, <1>2 DEF After, Failed, Request, UsingPCs
<1>5. \A h : Using(h)' = Using(h)
  BY <1>1, <1>2, <1>3, <1>4, MoveKeepsUsing DEF RefInv
<1> QED
  BY <1>1, <1>5, SameRef

LEMMA InitCallRef ==
    ASSUME RefInv, NEW t \in Threads, NEW v \in Levels, InternalInit(t, v)
    PROVE  UNCHANGED tableVars
  BY DEF InternalInit, RefInv, StaysInited

LEMMA OwnRef ==
    ASSUME RefInv, NEW t \in Threads, NEW v \in Levels, OwnStep(t, v)
    PROVE  RefCountIsExact' /\ StaysInited'
<1>1. UNCHANGED <<op, arg>>
  BY OwnGoto
<1>2. UNCHANGED <<ref, inited, valid>>
  <2>1. ~InternalDeinit(t, v)
    BY DEF InternalDeinit, RefInv, StaysInited
  <2> QED
    BY <2>1, InitCallRef DEF OwnStep, ResetStorage, EnterFunction, EndTurn, NextSlot,
       LastSlot, StorageOut, tableVars
<1>3. \A h : Using(h)' = Using(h)
  <2>1. PICK p \in {"cbreq", "sout", "idle", "incb"} : Goto(t, v, p)
    BY OwnGoto
  <2>2. p \in PCs /\ p \notin UsingPCs
    BY DEF PCs, UsingPCs
  <2>3. op[t][v] = "use" => pc[t][v] \notin UsingPCs
    BY OwnGoto
  <2> QED
    BY <1>1, <2>1, <2>2, <2>3, MoveKeepsUsing DEF RefInv
<1> QED
  BY <1>1, <1>2, <1>3, SameRef, SameInited

LEMMA FrameRef ==
    ASSUME RefInv, IsFiniteSet(Threads), NEW t \in Threads, NEW v \in Levels, FrameStep(t, v)
    PROVE  RefCountIsExact' /\ StaysInited'
<1>1. CASE OwnStep(t, v)
  BY <1>1, OwnRef
<1>2. CASE Blocked(t, v) \/ Unlock(t, v)
  <2>1. UNCHANGED <<op, arg, pc, ref, inited, valid>>
    BY <1>2 DEF Blocked, Unlock, frameVars, tableVars
  <2>2. \A h : Using(h)' = Using(h)
    BY <2>1 DEF Using
  <2> QED
    BY <2>1, <2>2, SameRef, SameInited
<1>3. CASE ReferenceFails(t, v) \/ NewFactoryReset(t, v) \/ DeleteFactoryReset(t, v)
  <2>1. \A h : Using(h)' = Using(h)
    BY <1>3, MoveKeepsUsing DEF ReferenceFails, NewFactoryReset, DeleteFactoryReset,
         EntryDone, PCs, RefInv, UsingPCs
  <2> QED
    BY <1>3, <2>1, SameRef, SameInited
       DEF ReferenceFails, NewFactoryReset, DeleteFactoryReset, EntryDone
<1>4. CASE StorageDone(t, v)
  <2>1. \A h : Using(h)' = Using(h)
    BY <1>4, MoveKeepsUsing DEF StorageDone, PCs, RefInv, UsingPCs
  <2> QED
    BY <1>4, <2>1, SameRef, SameInited DEF StorageDone, tableVars
<1>5. CASE Locked(t, v) \/ TimedOut(t, v) \/ CountExceeded(t, v)
  BY <1>5, RequestRef, SameInited DEF Locked, TimedOut, CountExceeded, tableVars
<1>6. CASE \/ NewHandle(t, v) \/ DeleteHandle(t, v) \/ ReferenceHandle(t, v)
           \/ UnreferenceHandle(t, v)
  <2>1. UNCHANGED <<op, inited>>
    BY <1>6 DEF NewHandle, DeleteHandle, ReferenceHandle, UnreferenceHandle, EntryDone
  <2> QED
    BY <1>6, <2>1, SameInited, OpenRef, CloseRef, ReferenceRef, UnreferenceRef
<1> QED
  BY <1>1, <1>2, <1>3, <1>4, <1>5, <1>6, FrameSplit DEF RequestStep, EntryStage

LEMMA NextRef ==
    ASSUME RefInv, NoDeinit, IsFiniteSet(Threads), [Next]_vars
    PROVE  RefInv'
<1>1. IInv' /\ CallsOK'
  BY NextIInv, NextCallsOK DEF RefInv
<1>2. ASSUME NEW t \in Threads, Wakeup(t)
      PROVE  RefCountIsExact' /\ StaysInited'
  <2>1. UNCHANGED <<op, arg, pc, ref, inited, valid>>
    BY <1>2 DEF Wakeup, frameVars, tableVars
  <2>2. \A h : Using(h)' = Using(h)
    BY <2>1 DEF Using
  <2> QED
    BY <2>1, <2>2, SameRef, SameInited
<1>3. CASE UNCHANGED vars
  <2>1. UNCHANGED <<op, arg, pc, ref, inited, valid>>
    BY <1>3 DEF vars, frameVars, tableVars
  <2>2. \A h : Using(h)' = Using(h)
    BY <2>1 DEF Using
  <2>3. RefCountIsExact' /\ StaysInited'
    BY <2>1, <2>2, SameRef, SameInited
  <2> QED
    BY <1>1, <2>3 DEF RefInv
<1>4. CASE Next
  <2>1. RefCountIsExact' /\ StaysInited'
    BY <1>2, <1>4, FrameRef, CallRef DEF Next, ThreadStep
  <2> QED
    BY <1>1, <2>1 DEF RefInv
<1> QED
  BY <1>3, <1>4

(* A handle's ref_count is the number of calls between ReferenceHandle and
   UnreferenceHandle on it, and a handle with calls in flight is open: through
   timeouts of the storage stage, nested calls, refused recursions and slots
   that are closed and opened again, as long as no thread calls Deinit. *)
THEOREM SpecRefCountIsExact ==
    ASSUME NoDeinit, IsFiniteSet(Threads)
    PROVE  Spec => []RefCountIsExact
<1>1. Init => RefInv
  BY InitIInv, InitCallsOK, InitRef DEF RefInv
<1>2. RefInv /\ [Next]_vars => RefInv'
  BY NextRef
<1>3. RefInv => RefCountIsExact
  BY DEF RefInv
<1> QED
  BY <1>1, <1>2, <1>3, PTL DEF Spec
=============================================================================
