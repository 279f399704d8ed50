------------------------------ MODULE PsmStore ------------------------------
(***************************************************************************)
(* What the storage stage of the Parameter Storage Manager does to the     *)
(* data: Save, Clear, UpdateBegin, UpdateComplete, UpdateCancel and the    *)
(* required part of InvokeFactoryReset, one storage access per step.       *)
(*                                                                         *)
(* The storage lock lets one of them run at a time (PsmExclusive), so the  *)
(* state holds at most one task.  Open and Close take the resource lock    *)
(* only and happen between any two of its steps; the reference a task      *)
(* holds keeps its own handle open.  Every access to the storage may fail, *)
(* and the device may restart between any two.                             *)
(***************************************************************************)
EXTENDS PsmItems

VARIABLES
    data,       \* data[i]: the actual data of item i
    tmp,        \* tmp[i]: its temporary data
    open,       \* open[h]: handle[h].is_valid
    upd,        \* upd[h]: handle[h].update.id[0 .. count-1]; Close keeps it
    task,       \* [kind, h, req, want] of the call that has the storage lock
    phase,      \* where that call is
    at,         \* the index of the member it works on
    undo,       \* undo[i]: what InternalCancel has to write back to item i
    ret,        \* its status so far; when idle, that of the last call
    before      \* [data, tmp, upd] when the task began (history)

stepVars == <<task, before>>
vars == <<data, tmp, open, upd, task, phase, at, undo, ret, before>>

Kinds == {"save", "clear", "empty", "copy", "complete", "cancel", "reset"}
Begins == {"empty", "copy"}         \* UpdateBegin with its two update types

NoHandle == -1                      \* ESF_PARAMETER_STORAGE_MANAGER_INVALID_HANDLE
NoTask == [kind |-> "none", h |-> NoHandle, req |-> <<>>, want |-> <<>>]
Skip == "skip"                      \* kEsfParameterStorageManagerCancelSkip
NoUndo == [i \in Items |-> Skip]

\* The mark is no value.
ASSUME PsmStoreAssumption == Skip \notin Contents

Snapshot == [data |-> data, tmp |-> tmp, upd |-> upd]
NoSnapshot == <<>>

\* member.update: the handle has begun an update of item i.
Drafted(h, i) == i \in Members(upd[h])
View(h, i) == IF Drafted(h, i) THEN tmp[i] ELSE data[i]

Member == task.req[at]
Old == View(task.h, Member)
\* Wrong on purpose: the update data of the member is ignored.
PutActual(v) == data' = [data EXCEPT ![Member] = v] /\ UNCHANGED tmp

Put(v) ==
    IF (Cancellable /\ task.kind \in Begins) \/ Drafted(task.h, Member)
    THEN tmp' = [tmp EXCEPT ![Member] = v] /\ UNCHANGED data
    ELSE data' = [data EXCEPT ![Member] = v] /\ UNCHANGED tmp

\* BufferSave: with a mapped buffer the value comes back whole.  Without, it
\* is saved in pieces, each with an open that truncates: the last one stays.
Restored(v) == IF MapSupport \/ v \notin BigVals THEN v ELSE Torn

Init ==
    /\ data \in [Items -> {Empty}] /\ tmp = [i \in Items |-> Empty]
    /\ open = [h \in Handles |-> FALSE] /\ upd = [h \in Handles |-> <<>>]
    /\ task = NoTask /\ phase = "idle" /\ at = 0 /\ undo = NoUndo
    /\ ret = "ok" /\ before = NoSnapshot

----------------------------------------------------------------------------
\* Open and Close, at any time.
FreeHandles == {h \in Handles : ~open[h]}

OpenHandle ==
    /\ \E h \in FreeHandles :
       /\ \A g \in FreeHandles : h <= g
       /\ open' = [open EXCEPT ![h] = TRUE]
       /\ upd' = [upd EXCEPT ![h] = <<>>]
    /\ UNCHANGED <<data, tmp, stepVars, phase, at, undo, ret>>

CloseHandle(h) ==
    /\ open[h]
    /\ phase # "idle" => h # task.h
    /\ open' = [open EXCEPT ![h] = FALSE]
    /\ UNCHANGED <<data, tmp, upd, stepVars, phase, at, undo, ret>>

----------------------------------------------------------------------------
\* A call gets the storage lock and passes its checks.
Start(kind, h, req, want) ==
    /\ phase = "idle"
    /\ task' = [kind |-> kind, h |-> h, req |-> req, want |-> want]
    /\ phase' = "work" /\ at' = 1 /\ undo' = NoUndo /\ ret' = "ok"
    /\ before' = Snapshot
    /\ UNCHANGED <<data, tmp, open, upd>>

\* A call that fails a check, or the query for the sizes of its members.
Refused(h) ==
    /\ phase = "idle" /\ open[h]
    /\ ret' \in Errors
    /\ UNCHANGED <<data, tmp, open, upd, stepVars, phase, at, undo>>

\* Without temporary areas, UpdateComplete, UpdateCancel and UpdateBegin with
\* a copy return at once.
NothingToDo(h) ==
    /\ phase = "idle" /\ open[h] /\ ~Cancellable
    /\ ret' = "ok"
    /\ UNCHANGED <<data, tmp, open, upd, stepVars, phase, at, undo>>

StartSave(h) ==
    /\ open[h]
    /\ \E req \in Requests : \E want \in [Members(req) -> Vals \cup {Empty}] :
          Start("save", h, req, want)

StartClear(h) ==
    /\ open[h]
    /\ \E req \in Requests : Start("clear", h, req, [i \in Members(req) |-> Empty])

\* AlreadyUpdateBegin looks at every handle, also at closed ones.
BeingUpdated(i) == \E h \in Handles : Drafted(h, i)

StartUpdate(h, kind) ==
    /\ open[h]
    /\ \E req \in Requests :
          /\ Len(req) <= UpdateMax
          /\ kind = "empty" \/ Cancellable
          /\ Cancellable => upd[h] = <<>> /\ \A i \in Members(req) : ~BeingUpdated(i)
          /\ Start(kind, h, req, [i \in Members(req) |-> Empty])

\* UpdateComplete and UpdateCancel work on the ids kept with the handle.
StartFinish(h, kind) ==
    /\ open[h] /\ Cancellable /\ upd[h] # <<>>
    /\ Start(kind, h, upd[h], [i \in Members(upd[h]) |-> Empty])

StartReset ==
    Start("reset", NoHandle, Required, [i \in Members(Required) |-> Empty])

----------------------------------------------------------------------------
\* How a member ends: the next one, or an error.
Working(kinds) == phase = "work" /\ task.kind \in kinds /\ at <= Len(task.req)

NextMember ==
    /\ at' = at + 1 /\ phase' = "work"
    /\ UNCHANGED <<open, ret, stepVars>>

\* Wrong on purpose: the rollback misses one member.
FailSkippingOne(e) ==
    /\ ret' = e
    /\ at' = at - 2
    /\ phase' = IF e = "error" THEN "revert" ELSE "end"
    /\ UNCHANGED <<open, stepVars>>

\* An error is rolled back from the member before this one, DataLoss is not.
Fail(e) ==
    /\ ret' = e
    /\ at' = at - 1
    /\ phase' = IF e = "error" THEN "revert" ELSE "end"
    /\ UNCHANGED <<open, stepVars>>

Undo(v) == undo' = [undo EXCEPT ![Member] = v]

(* Save and Clear: SupportedSave, SupportedClear and the save functions of
   the item types.  A member of size 0 is a deletion. *)
Changes == {"save", "clear"}
Wanted == task.want[Member]
Changing == Working(Changes) /\ Member \notin ReadOnly

\* A read only item, or a backup, open or erase that fails: nothing was written.
ChangeRefused ==
    /\ Working(Changes)
    /\ \/ Member \in ReadOnly /\ Fail("error")
       \/ Member \notin ReadOnly /\ Old # Empty /\ \E e \in Errors : Fail(e)
    /\ UNCHANGED <<data, tmp, upd, undo>>

ChangeSkipped ==
    /\ Changing
    /\ Wanted = Old
    /\ Undo(Skip) /\ NextMember
    /\ UNCHANGED <<data, tmp, upd>>

ChangeErases ==
    /\ Changing
    /\ Wanted = Empty /\ Old # Empty
    /\ Put(Empty) /\ Undo(Old) /\ NextMember
    /\ UNCHANGED upd

\* PlStorageOpen with PL_STORAGE_OPEN_WRONLY truncates.
ChangeOpens ==
    /\ Changing
    /\ Wanted \notin {Empty, Old}
    /\ Put(Empty) /\ Undo(Old) /\ phase' = "write"
    /\ UNCHANGED <<open, upd, stepVars, at, ret>>

ChangeWritten ==
    /\ phase = "write" /\ task.kind \in Changes
    /\ Put(Wanted) /\ NextMember
    /\ UNCHANGED <<upd, undo>>

ChangeFails ==
    /\ phase = "write" /\ task.kind \in Changes
    /\ \E v \in {Empty, Torn} : Put(v)
    /\ \E e \in Errors : Fail(e)
    /\ UNCHANGED <<upd, undo>>

\* An offset binary is opened with PL_STORAGE_OPEN_RDWR: no truncation.
ChangeInPlace ==
    /\ Changing
    /\ Wanted \notin {Empty, Old}
    /\ Undo(Old)
    /\ \/ Put(Wanted) /\ NextMember
       \/ \E v \in {Old, Torn} : Put(v) /\ \E e \in Errors : Fail(e)
    /\ UNCHANGED upd

----------------------------------------------------------------------------
(* InternalCancel: the members before the failed one, in reverse order. *)
Reverting == phase = "revert" /\ task.kind \in Changes /\ at >= 1

PrevMember ==
    /\ at' = at - 1 /\ phase' = "revert"
    /\ UNCHANGED <<open, upd, undo, ret, stepVars>>

Lost ==
    /\ ret' = "dataloss" /\ phase' = "end"
    /\ UNCHANGED <<open, upd, undo, at, stepVars>>

\* Wrong on purpose: a member that was empty before the call is not cleared.
RevertSkippedEmpty ==
    /\ Reverting /\ undo[Member] \in {Skip, Empty}
    /\ PrevMember
    /\ UNCHANGED <<data, tmp>>

RevertSkipped ==
    /\ Reverting /\ undo[Member] = Skip
    /\ PrevMember
    /\ UNCHANGED <<data, tmp>>

RevertErases ==
    /\ Reverting /\ undo[Member] = Empty
    /\ Put(Empty) /\ PrevMember

RevertOpens ==
    /\ Reverting /\ undo[Member] \notin {Skip, Empty}
    /\ Put(Empty) /\ phase' = "rewrite"
    /\ UNCHANGED <<open, upd, undo, at, ret, stepVars>>

\* A large value that was deleted cannot be restored in pieces: its size is 0
\* by now, and ValidateSave refuses the offset of the second piece.
DeletedBig == Wanted = Empty /\ Restored(undo[Member]) # undo[Member]

RevertWritten ==
    /\ phase = "rewrite" /\ ~DeletedBig
    /\ Put(Restored(undo[Member])) /\ PrevMember

RevertFails ==
    /\ \/ phase = "rewrite" /\ \E v \in {Empty, Torn} : Put(v)
       \/ Reverting /\ undo[Member] # Skip /\ UNCHANGED <<data, tmp>>
    /\ Lost

----------------------------------------------------------------------------
(* UpdateBegin with temporary areas. *)
Register == upd' = [upd EXCEPT ![task.h] = Append(@, Member)]

\* Of an empty update the storage is asked for the id of the area, no more;
\* so it is of a copy of an item that has no data.
BeginRegisters ==
    /\ Working(Begins) /\ Cancellable
    /\ task.kind = "copy" => data[Member] = Empty
    /\ Register /\ NextMember
    /\ UNCHANGED <<data, tmp, undo>>

CopyOpens ==
    /\ Working({"copy"}) /\ data[Member] # Empty
    /\ Put(Empty) /\ phase' = "write"
    /\ UNCHANGED <<open, upd, stepVars, at, undo, ret>>

CopyWritten ==
    /\ phase = "write" /\ task.kind = "copy"
    /\ Put(Restored(data[Member])) /\ Register /\ NextMember
    /\ UNCHANGED undo

BeginFails ==
    /\ \/ Working(Begins) /\ Cancellable /\ UNCHANGED <<data, tmp>>
       \/ phase = "write" /\ task.kind = "copy" /\ \E v \in {Empty, Torn} : Put(v)
    /\ \E e \in Errors : Fail(e)
    /\ UNCHANGED <<upd, undo>>

\* InternalUpdateCancel, from the member before the failed one.
BeginReverts ==
    /\ phase = "revert" /\ task.kind \in Begins /\ at >= 1
    /\ \/ Put(Empty) /\ PrevMember
       \/ /\ ret' = "dataloss" /\ phase' = "end"
          /\ upd' = [upd EXCEPT ![task.h] = <<>>]
          /\ UNCHANGED <<data, tmp, open, undo, at, stepVars>>

(* UpdateBegin without temporary areas: deletes, and stops at an error. *)
BeginErases ==
    /\ Working({"empty"}) /\ ~Cancellable
    /\ \/ /\ Member \notin ReadOnly \/ data[Member] = Empty
          /\ Put(Empty) /\ NextMember
       \/ /\ ret' \in Errors /\ phase' = "end"
          /\ UNCHANGED <<data, tmp, open, at, stepVars>>
    /\ UNCHANGED <<upd, undo>>

(* UpdateComplete and UpdateCancel: PlStorageSwitchData or PlStorageErase of
   one temporary area after the other, until one fails. *)
FinishMember ==
    /\ Working({"complete", "cancel"})
    /\ \/ /\ tmp' = [tmp EXCEPT ![Member] = Empty]
          /\ data' = IF task.kind = "cancel" THEN data
                     ELSE [data EXCEPT ![Member] = tmp[Member]]
          /\ NextMember
       \/ /\ ret' \in Errors /\ phase' = "end"
          /\ UNCHANGED <<data, tmp, open, at, stepVars>>
    /\ UNCHANGED <<upd, undo>>

(* InvokeFactoryReset deletes required items of the actual data.  Only DataLoss
   (and Internal) ends it, any other error leaves the item as it was. *)
ResetMember ==
    /\ Working({"reset"})
    /\ \/ /\ Member \notin ReadOnly
          /\ data' = [data EXCEPT ![Member] = Empty]
          /\ NextMember
       \/ UNCHANGED data /\ NextMember
       \/ /\ ret' = "dataloss" /\ phase' = "end"
          /\ UNCHANGED <<data, open, at, stepVars>>
    /\ UNCHANGED <<tmp, upd, undo>>

----------------------------------------------------------------------------
\* The call returns.  An update ends with UpdateComplete, UpdateCancel and a
\* rolled back UpdateBegin; UpdateBegin with DataLoss leaves it half begun.
Return ==
    /\ \/ phase = "work" /\ at > Len(task.req)
       \/ phase = "revert" /\ at = 0
       \/ phase = "end"
    /\ upd' = IF \/ task.kind \in {"complete", "cancel"}
                 \/ task.kind \in Begins /\ Cancellable /\ phase = "revert"
              THEN [upd EXCEPT ![task.h] = <<>>] ELSE upd
    /\ phase' = "idle" /\ task' = NoTask /\ at' = 0 /\ undo' = NoUndo
    /\ before' = NoSnapshot
    /\ UNCHANGED <<data, tmp, open, ret>>

\* The device restarts: PlStorageInitialize erases the temporary areas (an
\* external step, pl_storage.adoc:493).  What an interrupted write leaves is
\* what a failed one leaves.
Restart ==
    /\ open' = [h \in Handles |-> FALSE] /\ upd' = [h \in Handles |-> <<>>]
    /\ tmp' = [i \in Items |-> Empty]
    /\ phase' = "idle" /\ task' = NoTask /\ at' = 0 /\ undo' = NoUndo
    /\ before' = NoSnapshot /\ ret' = "ok"
    /\ UNCHANGED data

TaskStep ==
    \/ ChangeRefused \/ ChangeSkipped \/ ChangeErases \/ ChangeOpens
    \/ ChangeWritten \/ ChangeFails \/ ChangeInPlace
    \/ RevertSkipped \/ RevertErases \/ RevertOpens \/ RevertWritten \/ RevertFails
    \/ BeginRegisters \/ CopyOpens \/ CopyWritten \/ BeginFails \/ BeginReverts
    \/ BeginErases \/ FinishMember \/ ResetMember \/ Return

Next ==
    \/ OpenHandle
    \/ \E h \in Handles :
          \/ CloseHandle(h) \/ Refused(h) \/ NothingToDo(h)
          \/ StartSave(h) \/ StartClear(h)
          \/ \E kind \in Begins : StartUpdate(h, kind)
          \/ \E kind \in {"complete", "cancel"} : StartFinish(h, kind)
    \/ StartReset
    \/ TaskStep
    \/ Restart

Spec == Init /\ [][Next]_vars
----------------------------------------------------------------------------

(* During an update the actual data of the item is out of reach of the handle
   that updates it, until UpdateComplete; its temporary data is out of reach
   of every other handle.  Only items of the running request ever change. *)
OwnAreaOnly ==
    [][\A i \in Items :
        /\ data'[i] # data[i] =>
              /\ phase # "idle" /\ i \in Members(task.req)
              /\ task.kind \in Changes => ~Drafted(task.h, i)
              /\ task.kind \in Begins => ~Cancellable
              /\ task.kind # "cancel"
        /\ tmp'[i] # tmp[i] =>
              \/ upd' = [h \in Handles |-> <<>>]
              \/ phase # "idle" /\ i \in Members(task.req)
                 /\ \A h \in Handles : Drafted(h, i) => h = task.h]_vars

(* The calls implement one-step operations: what a task has done so far is
   invisible until it returns. *)
Running == phase # "idle"
Atomic == INSTANCE PsmAtomic WITH
    data <- IF Running THEN before.data ELSE data,
    tmp  <- IF Running THEN before.tmp ELSE tmp,
    ret  <- IF Running THEN "ok" ELSE ret,
    upd  <- [h \in Handles |-> IF Running /\ h = task.h THEN before.upd[h] ELSE upd[h]]
AtomicSpec == Atomic!Spec

----------------------------------------------------------------------------
\* The call returns with status r.
Returns(kinds, r) == Running /\ task.kind \in kinds /\ Return /\ ret = r

(* A Save that fails restores the members it had written, in reverse order,
   and leaves at most the one whose write failed (internal_work.c). *)
RollbackRestores ==
    [][Returns({"save"}, "error") =>
         Cardinality({i \in Items : <<data[i], tmp[i]>> # <<before.data[i], before.tmp[i]>>}) <= 1]_vars
=============================================================================
