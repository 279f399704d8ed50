--------------------------- MODULE PsmStoreProofs ---------------------------
(***************************************************************************)
(* Proofs about the storage stage of the Parameter Storage Manager, for    *)
(* any items, values, handles and request sizes.                           *)
(*                                                                         *)
(* The invariant says how far the running call has come: which members of  *)
(* the request have their new value, which their old one, and what the     *)
(* rollback knows of them.  At most one member is damaged once a write has *)
(* failed, because a write fails at one member and the rollback restores   *)
(* the others or ends with DataLoss.  That last part holds for backups     *)
(* that come back whole (Whole); without, MCPsmPieces shows two damaged    *)
(* members.                                                                *)
(***************************************************************************)
EXTENDS PsmStore, FiniteSetTheorems, TLAPS

(* A backup comes back whole: it is mapped, or fits the staging buffer. *)
Whole == MapSupport \/ BigVals = {}

----------------------------------------------------------------------------
(* The first n items of a request. *)

\* A prefix has the elements of the sequence.
LEMMA SubSeqFacts ==
    ASSUME NEW s \in Seq(Items), NEW n \in 0..Len(s)
    PROVE  /\ SubSeq(s, 1, n) \in Seq(Items)
           /\ Len(SubSeq(s, 1, n)) = n
           /\ \A j \in 1..n : SubSeq(s, 1, n)[j] = s[j]
  OBVIOUS

\* The members of a request are items.
LEMMA MembersType ==
    ASSUME NEW s \in Seq(Items)
    PROVE  Members(s) \subseteq Items /\ \A j \in 1..Len(s) : s[j] \in Members(s)
  BY DEF Members

\* The members of the first n are the first n members.
LEMMA MembersOfPrefix ==
    ASSUME NEW s \in Seq(Items), NEW n \in 0..Len(s)
    PROVE  Members(SubSeq(s, 1, n)) = {s[j] : j \in 1..n}
  BY SubSeqFacts DEF Members

\* One more adds one member, a new one when the request is distinct.
LEMMA MembersGrow ==
    ASSUME NEW s \in Seq(Items), NEW n \in 0..Len(s), n < Len(s)
    PROVE  /\ n + 1 \in 0..Len(s)
           /\ Members(SubSeq(s, 1, n + 1)) = Members(SubSeq(s, 1, n)) \cup {s[n + 1]}
           /\ Distinct(s) => s[n + 1] \notin Members(SubSeq(s, 1, n))
<1>1. n + 1 \in 0..Len(s)
  OBVIOUS
<1>2. 1..(n + 1) = (1..n) \cup {n + 1}
  OBVIOUS
<1>3. {s[j] : j \in 1..(n + 1)} = {s[j] : j \in 1..n} \cup {s[n + 1]}
  BY <1>2
<1>4. Distinct(s) => s[n + 1] \notin {s[j] : j \in 1..n}
  BY DEF Distinct
<1> QED
  BY <1>1, <1>3, <1>4, MembersOfPrefix

\* One more is appended.
LEMMA PrefixGrows ==
    ASSUME NEW s \in Seq(Items), NEW n \in 0..Len(s), n < Len(s)
    PROVE  SubSeq(s, 1, n + 1) = Append(SubSeq(s, 1, n), s[n + 1])
  OBVIOUS

\* The empty prefix and the whole one.
LEMMA PrefixEnds ==
    ASSUME NEW s \in Seq(Items)
    PROVE  /\ SubSeq(s, 1, 0) = <<>> /\ SubSeq(s, 1, Len(s)) = s
           /\ Members(SubSeq(s, 1, 0)) = {} /\ Members(<<>>) = {} /\ Distinct(<<>>)
           /\ <<>> \in Seq(Items)
<1>1. SubSeq(s, 1, 0) = <<>> /\ SubSeq(s, 1, Len(s)) = s
  OBVIOUS
<1> QED
  BY <1>1 DEF Members, Distinct

\* A prefix of a distinct sequence is distinct.
LEMMA PrefixDistinct ==
    ASSUME NEW s \in Seq(Items), NEW n \in 0..Len(s), Distinct(s)
    PROVE  Distinct(SubSeq(s, 1, n))
  BY SubSeqFacts DEF Distinct

\* What the checks on entry let through.
LEMMA RequestFacts ==
    ASSUME NEW req \in Requests
    PROVE  /\ req \in Seq(Items) /\ Distinct(req) /\ req # <<>> /\ Len(req) >= 1
           /\ Members(req) # {}
<1>1. PICK n \in 1..Cardinality(Items) : req \in [1..n -> Items]
  BY DEF Requests
<1>2. Cardinality(Items) \in Nat
  BY FS_CardinalityType, PsmItemsAssumption
<1>3. n \in Nat /\ n >= 1
  BY <1>1, <1>2
<1>4. req \in Seq(Items) /\ Len(req) = n
  BY <1>1, <1>3
<1>5. Members(req) # {}
  BY <1>3, <1>4 DEF Members
<1> QED
  BY <1>3, <1>4, <1>5 DEF Requests

----------------------------------------------------------------------------
(* The inductive invariant. *)

\* The types, and how far the call has come.
StateOK ==
    /\ data \in [Items -> Contents] /\ tmp \in [Items -> Contents]
    /\ open \in [Handles -> BOOLEAN]
    /\ undo \in [Items -> Contents \cup {Skip}]
    /\ ret \in Statuses
    /\ phase \in {"idle", "work", "write", "revert", "rewrite", "end"}

\* An item is in the update of one handle at most, and once.
DraftsOK ==
    /\ upd \in [Handles -> Seq(Items)]
    /\ \A h \in Handles : Distinct(upd[h])
    /\ \A g, h \in Handles : g # h => Members(upd[g]) \cap Members(upd[h]) = {}
    /\ ~Cancellable => \A h \in Handles : upd[h] = <<>>

TaskOK ==
    /\ task.kind \in Kinds
    /\ task.req \in Seq(Items)
    /\ task.kind = "reset" => task.h = NoHandle /\ task.req = Required
    /\ task.kind # "reset" =>
          /\ task.h \in Handles /\ open[task.h]
          /\ Distinct(task.req) /\ task.req # <<>>
    /\ task.kind \in Changes =>
          task.want \in [Members(task.req) -> Vals \cup {Empty}]
    /\ before.data \in [Items -> Contents] /\ before.tmp \in [Items -> Contents]
    /\ before.upd \in [Handles -> Seq(Items)]

PhaseOK ==
    /\ at \in 0..(Len(task.req) + 1)
    /\ phase \in {"work", "write"} => at >= 1 /\ ret = "ok"
    /\ phase \in {"write", "rewrite"} => at >= 1
    /\ phase # "work" => at <= Len(task.req)
    /\ phase = "write" => task.kind \in Changes \cup {"copy"}
    /\ phase \in {"revert", "rewrite"} => ret = "error"
    /\ phase = "revert" => task.kind \in Changes \cup Begins
    /\ phase = "rewrite" => task.kind \in Changes
    /\ phase = "end" => ret \in Errors

\* The areas that Save and Clear work on, now and when the call began.
Now == [i \in Items |-> View(task.h, i)]
Was == [i \in Items |-> IF Drafted(task.h, i) THEN before.tmp[i] ELSE before.data[i]]

\* No other area has changed.
ElsewhereSame ==
    \A i \in Items :
        /\ data[i] # before.data[i] => i \in Members(task.req) /\ ~Drafted(task.h, i)
        /\ tmp[i] # before.tmp[i] => i \in Members(task.req) /\ Drafted(task.h, i)

\* What InternalCancel knows of an item it may have to restore.
Recalled(i) == IF undo[i] = Skip THEN Now[i] = Was[i] ELSE undo[i] = Was[i]

Written(i) == i \notin ReadOnly /\ Now[i] = task.want[i] /\ Recalled(i)

\* At most one of the members after number n is damaged.
OneDamaged(n) ==
    \E k \in 1..Len(task.req) :
        /\ k > n
        /\ \A j \in 1..Len(task.req) : j > n /\ j # k => Now[task.req[j]] = Was[task.req[j]]

ChangeOK ==
    /\ upd[task.h] = before.upd[task.h]
    /\ ElsewhereSame
    /\ phase \in {"work", "write"} =>
          \A j \in 1..Len(task.req) :
             /\ j < at => Written(task.req[j])
             /\ j > at => Now[task.req[j]] = Was[task.req[j]]
             /\ phase = "work" /\ j = at => Now[task.req[j]] = Was[task.req[j]]
    /\ phase = "write" => undo[Member] = Was[Member] /\ Member \notin ReadOnly
    /\ phase \in {"revert", "rewrite"} =>
          /\ \A j \in 1..Len(task.req) : j <= at => Recalled(task.req[j])
          /\ Whole => OneDamaged(at)
    /\ phase = "rewrite" => undo[Member] # Skip
    /\ phase = "end" => ret = "dataloss"

\* UpdateBegin with temporary areas.
BeginOK ==
    /\ task.req \in Requests /\ Len(task.req) <= UpdateMax
    /\ data = before.data
    /\ before.upd[task.h] = <<>>
    /\ \A i \in Items : tmp[i] # before.tmp[i] => i \in Members(task.req)
    /\ \A g \in Handles : g # task.h => Members(task.req) \cap Members(upd[g]) = {}
    /\ \E n \in 0..Len(task.req) :
          /\ upd[task.h] = SubSeq(task.req, 1, n)
          /\ phase \in {"work", "write"} => n = at - 1
    /\ phase = "end" => ret = "dataloss"

\* UpdateBegin without.
EraseOK ==
    /\ task.kind = "empty" /\ task.req \in Requests
    /\ phase \in {"work", "end"} /\ at >= 1
    /\ upd[task.h] = before.upd[task.h]
    /\ tmp = before.tmp
    /\ data = [i \in Items |-> IF i \in Members(SubSeq(task.req, 1, at - 1))
                               THEN Empty ELSE before.data[i]]

\* UpdateComplete and UpdateCancel.
FinishOK ==
    /\ Cancellable
    /\ upd[task.h] = task.req /\ before.upd[task.h] = task.req
    /\ phase \in {"work", "end"} /\ at >= 1
    /\ tmp = [i \in Items |-> IF i \in Members(SubSeq(task.req, 1, at - 1))
                              THEN Empty ELSE before.tmp[i]]
    /\ data = IF task.kind = "cancel" THEN before.data
              ELSE [i \in Items |-> IF i \in Members(SubSeq(task.req, 1, at - 1))
                                    THEN before.tmp[i] ELSE before.data[i]]

ResetOK ==
    /\ phase \in {"work", "end"}
    /\ tmp = before.tmp
    /\ \A i \in Items : data[i] # before.data[i] =>
          data[i] = Empty /\ i \in Members(Required) /\ i \notin ReadOnly
    /\ phase = "end" => ret = "dataloss"

WorkOK ==
    /\ task.kind \in Changes => ChangeOK
    /\ task.kind \in Begins /\ Cancellable => BeginOK
    /\ task.kind \in Begins /\ ~Cancellable => EraseOK
    /\ task.kind \in {"complete", "cancel"} => FinishOK
    /\ task.kind = "reset" => ResetOK

IInv == StateOK /\ DraftsOK /\ (Running => TaskOK /\ PhaseOK /\ WorkOK)

----------------------------------------------------------------------------
(* The steps that are not those of the running call. *)

\* The marks, the contents and the statuses do not overlap.
LEMMA ContentsTypes ==
    /\ Empty \in Contents /\ Torn \in Contents /\ Vals \subseteq Contents
    /\ Skip \notin Contents
    /\ "ok" \in Statuses /\ Errors \subseteq Statuses /\ "ok" \notin Errors
    /\ NoHandle \notin Handles
  BY PsmStoreAssumption DEF Contents, Statuses, Errors, NoHandle, Handles

\* Nothing to undo is something to keep.
LEMMA NoUndoType == NoUndo \in [Items -> Contents \cup {Skip}]
  BY DEF NoUndo

\* The invariant holds when the manager starts.
LEMMA InitIInv == Init => IInv
<1> SUFFICES ASSUME Init PROVE IInv
  OBVIOUS
<1>1. StateOK
  BY ContentsTypes, NoUndoType DEF Init, StateOK
<1>2. DraftsOK
  <2>1. upd = [h \in Handles |-> <<>>]
    BY DEF Init
  <2>2. Members(<<>>) = {} /\ Distinct(<<>>) /\ <<>> \in Seq(Items)
    BY PrefixEnds, PsmItemsAssumption
  <2> QED
    BY <2>1, <2>2 DEF DraftsOK
<1> QED
  BY <1>1, <1>2 DEF IInv, Init, Running

\* WorkOK reads the areas of the running call only: what other handles do to
\* theirs does not matter as long as they add no draft.
LEMMA WorkKept ==
    ASSUME IInv, Running, UNCHANGED <<data, tmp, task, before, phase, at, undo, ret>>,
           NEW h \in Handles, h # task.h,
           upd' = upd \/ upd' = [upd EXCEPT ![h] = <<>>]
    PROVE  PhaseOK' /\ WorkOK'
<1>1. PhaseOK'
  BY DEF IInv, PhaseOK
<1>2. DOMAIN upd = Handles /\ \A g \in Handles : upd'[g] = upd[g] \/ upd'[g] = <<>>
  BY DEF IInv, DraftsOK
<1>3. Members(<<>>) = {}
  BY DEF Members
<1>4. CASE task.kind = "reset"
  BY <1>1, <1>4 DEF WorkOK, ResetOK, IInv, Changes, Begins
<1>5. CASE task.kind # "reset"
  <2>1. upd'[task.h] = upd[task.h]
    BY <1>2, <1>5 DEF IInv, TaskOK
  <2>2. \A i : Drafted(task.h, i)' <=> Drafted(task.h, i)
    BY <2>1 DEF Drafted
  <2>3. Now' = Now /\ Was' = Was
    BY <2>2 DEF Now, Was, View
  <2>4. ChangeOK => ChangeOK'
    BY <2>1, <2>2, <2>3 DEF ChangeOK, ElsewhereSame, Written, Recalled, OneDamaged, Member, Whole
  <2>5. BeginOK => BeginOK'
    BY <1>2, <1>3, <2>1 DEF BeginOK
  <2>6. (EraseOK => EraseOK') /\ (FinishOK => FinishOK')
    BY <2>1 DEF EraseOK, FinishOK
  <2> QED
    BY <1>1, <1>5, <2>4, <2>5, <2>6 DEF WorkOK, IInv
<1> QED
  BY <1>4, <1>5

\* A new handle is not that of the running call.
LEMMA OpenStep ==
    ASSUME IInv, OpenHandle
    PROVE  IInv'
<1>1. PICK h \in FreeHandles : open' = [open EXCEPT ![h] = TRUE] /\ upd' = [upd EXCEPT ![h] = <<>>]
  BY DEF OpenHandle
<1>2. h \in Handles /\ ~open[h]
  BY DEF FreeHandles
<1>3. UNCHANGED <<data, tmp, task, before, phase, at, undo, ret>>
  BY DEF OpenHandle, stepVars
<1>4. StateOK'
  BY <1>1, <1>2, <1>3 DEF IInv, StateOK
<1>5. DraftsOK'
  <2>1. Members(<<>>) = {} /\ Distinct(<<>>) /\ <<>> \in Seq(Items)
    BY PrefixEnds, PsmItemsAssumption
  <2>2. upd \in [Handles -> Seq(Items)]
    BY DEF IInv, DraftsOK
  <2>3. \A g \in Handles : upd'[g] = IF g = h THEN <<>> ELSE upd[g]
    BY <1>1, <1>2, <2>2
  <2>4. upd' \in [Handles -> Seq(Items)]
    BY <1>1, <1>2, <2>1, <2>2
  <2> QED
    BY <2>1, <2>3, <2>4 DEF IInv, DraftsOK
<1>6. ASSUME Running PROVE TaskOK' /\ PhaseOK' /\ WorkOK'
  <2>1. h # task.h
    BY <1>2, <1>6, ContentsTypes DEF IInv, TaskOK
  <2>2. TaskOK'
    BY <1>1, <1>2, <1>3, <1>6, <2>1 DEF IInv, TaskOK, StateOK
  <2> QED
    BY <1>1, <1>2, <1>3, <1>6, <2>1, <2>2, WorkKept
<1>7. Running' <=> Running
  BY <1>3 DEF Running
<1> QED
  BY <1>4, <1>5, <1>6, <1>7 DEF IInv

\* The handle of the running call is not closed.
LEMMA CloseStep ==
    ASSUME IInv, NEW h \in Handles, CloseHandle(h)
    PROVE  IInv'
<1>1. UNCHANGED <<data, tmp, upd, task, before, phase, at, undo, ret>>
      /\ open' = [open EXCEPT ![h] = FALSE]
  BY DEF CloseHandle, stepVars
<1>2. StateOK' /\ DraftsOK'
  BY <1>1 DEF IInv, StateOK, DraftsOK
<1>3. Running' <=> Running
  BY <1>1 DEF Running
<1>4. ASSUME Running PROVE TaskOK' /\ PhaseOK' /\ WorkOK'
  <2>1. h # task.h
    BY <1>4 DEF CloseHandle, Running
  <2>2. TaskOK'
    BY <1>1, <1>4, <2>1 DEF IInv, TaskOK, StateOK
  <2> QED
    BY <1>1, <1>4, <2>1, <2>2, WorkKept
<1> QED
  BY <1>2, <1>3, <1>4 DEF IInv

\* A call that does nothing but answer.
LEMMA IdleStep ==
    ASSUME IInv, NEW h \in Handles, Refused(h) \/ NothingToDo(h)
    PROVE  IInv'
<1>1. UNCHANGED <<data, tmp, open, upd, undo, phase>> /\ phase = "idle" /\ ret' \in Statuses
  BY ContentsTypes DEF Refused, NothingToDo
<1> QED
  BY <1>1 DEF IInv, StateOK, DraftsOK, Running

\* A restart ends every call and every update.
LEMMA RestartStep ==
    ASSUME IInv, Restart
    PROVE  IInv'
<1>1. StateOK'
  BY ContentsTypes, NoUndoType DEF Restart, IInv, StateOK
<1>2. DraftsOK'
  <2>1. upd' = [h \in Handles |-> <<>>]
    BY DEF Restart
  <2>2. Members(<<>>) = {} /\ Distinct(<<>>) /\ <<>> \in Seq(Items)
    BY PrefixEnds, PsmItemsAssumption
  <2> QED
    BY <2>1, <2>2 DEF DraftsOK
<1> QED
  BY <1>1, <1>2 DEF IInv, Restart, Running

\* The call returns.
LEMMA ReturnStep ==
    ASSUME IInv, Return
    PROVE  IInv'
<1>1. UNCHANGED <<data, tmp, open, ret>> /\ phase' = "idle" /\ undo' = NoUndo
      /\ (upd' = upd \/ upd' = [upd EXCEPT ![task.h] = <<>>])
  BY DEF Return
<1>2. StateOK'
  BY <1>1, NoUndoType DEF IInv, StateOK
<1>3. DraftsOK'
  <2>1. Members(<<>>) = {} /\ Distinct(<<>>) /\ <<>> \in Seq(Items)
    BY PrefixEnds, PsmItemsAssumption
  <2>2. upd \in [Handles -> Seq(Items)]
    BY DEF IInv, DraftsOK
  <2>3. \A g \in Handles : upd'[g] = <<>> \/ upd'[g] = upd[g]
    BY <1>1, <2>2
  <2>4. upd' \in [Handles -> Seq(Items)]
    BY <1>1, <2>1, <2>2
  <2> QED
    BY <2>1, <2>3, <2>4 DEF IInv, DraftsOK
<1> QED
  BY <1>1, <1>2, <1>3 DEF IInv, Running

----------------------------------------------------------------------------
(* A call begins. *)

\* What every call begins with.
LEMMA StartFacts ==
    ASSUME IInv, NEW kind \in Kinds, NEW h, NEW req \in Seq(Items), NEW want,
           Start(kind, h, req, want),
           kind = "reset" => h = NoHandle /\ req = Required,
           kind # "reset" => h \in Handles /\ open[h] /\ Distinct(req) /\ req # <<>>,
           kind \in Changes => want \in [Members(req) -> Vals \cup {Empty}]
    PROVE  /\ StateOK' /\ DraftsOK' /\ TaskOK' /\ PhaseOK'
           /\ task'.kind = kind /\ task'.h = h /\ task'.req = req
           /\ before'.data = data /\ before'.tmp = tmp /\ before'.upd = upd
           /\ data' = data /\ tmp' = tmp /\ upd' = upd
           /\ phase' = "work" /\ at' = 1 /\ ret' = "ok"
<1>1. /\ task'.kind = kind /\ task'.h = h /\ task'.req = req /\ task'.want = want
      /\ before'.data = data /\ before'.tmp = tmp /\ before'.upd = upd
      /\ data' = data /\ tmp' = tmp /\ upd' = upd /\ open' = open /\ undo' = NoUndo
      /\ phase' = "work" /\ at' = 1 /\ ret' = "ok"
  BY DEF Start, Snapshot
<1>2. StateOK'
  BY <1>1, NoUndoType, ContentsTypes DEF IInv, StateOK
<1>3. DraftsOK'
  BY <1>1 DEF IInv, DraftsOK
<1>4. TaskOK'
  BY <1>1 DEF IInv, TaskOK, StateOK, DraftsOK
<1>5. PhaseOK'
  <2>1. Len(req) \in Nat
    OBVIOUS
  <2> QED
    BY <1>1, <2>1 DEF PhaseOK
<1> QED
  BY <1>1, <1>2, <1>3, <1>4, <1>5

\* Save or Clear begins.
LEMMA StartChangeStep ==
    ASSUME IInv, NEW h \in Handles, StartSave(h) \/ StartClear(h)
    PROVE  IInv'
<1> DEFINE Wants(req) == [Members(req) -> Vals \cup {Empty}]
<1>1. PICK kind \in Changes, req \in Requests : \E want \in Wants(req) :
          Start(kind, h, req, want)
  <2>1. CASE StartSave(h)
    BY <2>1 DEF StartSave, Changes
  <2>2. CASE StartClear(h)
    <3>1. PICK req \in Requests : Start("clear", h, req, [i \in Members(req) |-> Empty])
      BY <2>2 DEF StartClear
    <3>2. [i \in Members(req) |-> Empty] \in [Members(req) -> Vals \cup {Empty}]
      OBVIOUS
    <3> QED
      BY <3>1, <3>2 DEF Changes
  <2> QED
    BY <2>1, <2>2
<1>2. open[h]
  BY DEF StartSave, StartClear
<1>3. /\ StateOK' /\ DraftsOK' /\ TaskOK' /\ PhaseOK'
      /\ task'.kind = kind /\ task'.h = h /\ task'.req = req
      /\ before'.data = data /\ before'.tmp = tmp /\ before'.upd = upd
      /\ data' = data /\ tmp' = tmp /\ upd' = upd
      /\ phase' = "work" /\ at' = 1 /\ ret' = "ok"
  <2>1. PICK want \in Wants(req) : Start(kind, h, req, want)
    BY <1>1
  <2> QED
    BY <1>2, <2>1, RequestFacts, StartFacts DEF Kinds, Changes
<1>4. Now' = Was'
  BY <1>3 DEF Now, Was, View
<1>5. \A j \in 1..Len(req) : req[j] \in Items
  BY <1>1, RequestFacts
<1>6. ChangeOK'
  BY <1>3, <1>4, <1>5 DEF ChangeOK, ElsewhereSame
<1> QED
  BY <1>1, <1>3, <1>6 DEF IInv, WorkOK, Changes, Begins

\* UpdateBegin begins: no other handle updates one of the items.
LEMMA StartUpdateStep ==
    ASSUME IInv, NEW h \in Handles, NEW kind \in Begins, StartUpdate(h, kind)
    PROVE  IInv'
<1>1. PICK req \in Requests :
         /\ open[h] /\ Len(req) <= UpdateMax
         /\ kind = "empty" \/ Cancellable
         /\ Cancellable => upd[h] = <<>> /\ \A i \in Members(req) : ~BeingUpdated(i)
         /\ Start(kind, h, req, [i \in Members(req) |-> Empty])
  BY DEF StartUpdate
<1>2. req \in Seq(Items) /\ Distinct(req) /\ req # <<>>
  BY RequestFacts
<1>3. /\ StateOK' /\ DraftsOK' /\ TaskOK' /\ PhaseOK'
      /\ task'.kind = kind /\ task'.h = h /\ task'.req = req
      /\ before'.data = data /\ before'.tmp = tmp /\ before'.upd = upd
      /\ data' = data /\ tmp' = tmp /\ upd' = upd
      /\ phase' = "work" /\ at' = 1 /\ ret' = "ok"
  <2>1. kind \in Kinds /\ kind # "reset" /\ kind \notin Changes
    BY DEF Kinds, Begins, Changes
  <2> QED
    BY <1>1, <1>2, <2>1, StartFacts
<1>4. SubSeq(req, 1, 0) = <<>> /\ Members(SubSeq(req, 1, 0)) = {}
      /\ 0 \in 0..Len(req) /\ 1 - 1 = 0
  BY <1>2, PrefixEnds
<1>5. CASE Cancellable
  <2>1. upd[h] = <<>> /\ \A i \in Members(req), g \in Handles : i \notin Members(upd[g])
    BY <1>1, <1>5 DEF BeingUpdated, Drafted
  <2>2. BeginOK'
    BY <1>1, <1>3, <1>4, <2>1 DEF BeginOK
  <2> QED
    BY <1>3, <1>5, <2>2 DEF IInv, WorkOK, Begins, Changes
<1>6. CASE ~Cancellable
  <2>1. data = [i \in Items |-> data[i]]
    BY DEF IInv, StateOK
  <2>2. EraseOK'
    BY <1>1, <1>3, <1>4, <1>6, <2>1 DEF EraseOK
  <2> QED
    BY <1>3, <1>6, <2>2 DEF IInv, WorkOK, Begins, Changes
<1> QED
  BY <1>5, <1>6

\* UpdateComplete or UpdateCancel begins.
LEMMA StartFinishStep ==
    ASSUME IInv, NEW h \in Handles, NEW kind \in {"complete", "cancel"}, StartFinish(h, kind)
    PROVE  IInv'
<1>1. /\ open[h] /\ Cancellable /\ upd[h] # <<>>
      /\ Start(kind, h, upd[h], [i \in Members(upd[h]) |-> Empty])
  BY DEF StartFinish
<1>2. PICK req : req = upd[h]
  OBVIOUS
<1>3. req \in Seq(Items) /\ Distinct(req) /\ req # <<>>
  BY <1>1, <1>2 DEF IInv, DraftsOK
<1>4. PICK want : want = [i \in Members(upd[h]) |-> Empty]
  OBVIOUS
<1>5. /\ StateOK' /\ DraftsOK' /\ TaskOK' /\ PhaseOK'
      /\ task'.kind = kind /\ task'.h = h /\ task'.req = req
      /\ before'.data = data /\ before'.tmp = tmp /\ before'.upd = upd
      /\ data' = data /\ tmp' = tmp /\ upd' = upd
      /\ phase' = "work" /\ at' = 1 /\ ret' = "ok"
  <2>1. kind \in Kinds /\ kind # "reset" /\ kind \notin Changes
    BY DEF Kinds, Changes
  <2>2. Start(kind, h, req, want)
    BY <1>1, <1>2, <1>4
  <2> QED
    BY <1>1, <1>3, <2>1, <2>2, StartFacts
<1>6. Members(SubSeq(req, 1, 0)) = {} /\ 1 - 1 = 0
  BY <1>3, PrefixEnds
<1>7. data = [i \in Items |-> data[i]] /\ tmp = [i \in Items |-> tmp[i]]
  BY DEF IInv, StateOK
<1>8. FinishOK'
  BY <1>1, <1>2, <1>5, <1>6, <1>7 DEF FinishOK
<1> QED
  BY <1>5, <1>8 DEF IInv, WorkOK, Begins, Changes

\* The factory reset begins.
LEMMA StartResetStep ==
    ASSUME IInv, StartReset
    PROVE  IInv'
<1>1. PICK want : want = [i \in Members(Required) |-> Empty]
  OBVIOUS
<1>2. Start("reset", NoHandle, Required, want)
  BY <1>1 DEF StartReset
<1>3. Required \in Seq(Items)
  BY PsmItemsAssumption
<1>4. /\ StateOK' /\ DraftsOK' /\ TaskOK' /\ PhaseOK'
      /\ task'.kind = "reset"
      /\ before'.data = data /\ before'.tmp = tmp /\ before'.upd = upd
      /\ data' = data /\ tmp' = tmp /\ upd' = upd
      /\ phase' = "work" /\ at' = 1 /\ ret' = "ok"
  BY <1>2, <1>3, StartFacts DEF Kinds, Changes
<1>5. ResetOK'
  BY <1>4 DEF ResetOK
<1> QED
  BY <1>4, <1>5 DEF IInv, WorkOK, Begins, Changes

----------------------------------------------------------------------------
(* Save and Clear. *)

\* What is known while Save or Clear runs.
LEMMA ChangeSetup ==
    ASSUME IInv, Running, task.kind \in Changes
    PROVE  /\ StateOK /\ DraftsOK /\ TaskOK /\ PhaseOK /\ ChangeOK
           /\ Now \in [Items -> Contents] /\ Was \in [Items -> Contents]
           /\ Len(task.req) \in Nat /\ at \in Nat
           /\ \A j \in 1..Len(task.req) :
                 /\ task.req[j] \in Items /\ task.req[j] \in Members(task.req)
                 /\ task.want[task.req[j]] \in Vals \cup {Empty}
           /\ \A j, k \in 1..Len(task.req) : task.req[j] = task.req[k] => j = k
           /\ task.kind \notin Begins
<1>1. StateOK /\ DraftsOK /\ TaskOK /\ PhaseOK /\ ChangeOK
  BY DEF IInv, WorkOK
<1>2. Now \in [Items -> Contents] /\ Was \in [Items -> Contents]
  BY <1>1 DEF Now, Was, View, StateOK, TaskOK
<1>3. Distinct(task.req) /\ task.req \in Seq(Items)
      /\ task.want \in [Members(task.req) -> Vals \cup {Empty}]
  BY <1>1 DEF TaskOK, Changes
<1>4. \A j \in 1..Len(task.req) :
         /\ task.req[j] \in Items /\ task.req[j] \in Members(task.req)
  BY <1>3, MembersType
<1>5. \A j \in 1..Len(task.req) : task.want[task.req[j]] \in Vals \cup {Empty}
  BY <1>3, <1>4
<1>6. Len(task.req) \in Nat /\ at \in Nat
  BY <1>1, <1>3 DEF PhaseOK
<1> QED
  BY <1>1, <1>2, <1>3, <1>4, <1>5, <1>6 DEF Changes, Begins, Distinct

\* What a step does that works on member number at and on no other.
Touched ==
    /\ UNCHANGED <<upd, task, before, open>>
    /\ Was' = Was /\ ElsewhereSame' /\ StateOK'
    /\ \A j \in 1..Len(task.req) : j # at =>
          Now'[task.req[j]] = Now[task.req[j]] /\ undo'[task.req[j]] = undo[task.req[j]]

\* The undo data changes for the member alone, or not at all.
UndoTouched ==
    undo' = undo \/ \E w \in Contents \cup {Skip} : undo' = [undo EXCEPT ![Member] = w]

\* The undo data of the other members stays.
LEMMA UndoElsewhere ==
    ASSUME IInv, Running, task.kind \in Changes, at \in 1..Len(task.req), UndoTouched
    PROVE  /\ undo' \in [Items -> Contents \cup {Skip}]
           /\ \A j \in 1..Len(task.req) : j # at => undo'[task.req[j]] = undo[task.req[j]]
<1>1. undo \in [Items -> Contents \cup {Skip}]
  BY ChangeSetup DEF StateOK
<1>2. \A j \in 1..Len(task.req) : task.req[j] \in Items /\ (j # at => task.req[j] # Member)
  BY ChangeSetup DEF Member
<1> QED
  BY <1>1, <1>2 DEF UndoTouched

\* A write to the member touches that member.
LEMMA PutTouches ==
    ASSUME IInv, Running, task.kind \in Changes, at \in 1..Len(task.req),
           NEW v \in Contents, Put(v), UNCHANGED <<upd, task, before, open>>,
           UndoTouched, ret' \in Statuses,
           phase' \in {"idle", "work", "write", "revert", "rewrite", "end"}
    PROVE  Touched /\ Now'[Member] = v
<1>1. Member \in Items /\ Member \in Members(task.req)
  BY ChangeSetup DEF Member
<1>2. data \in [Items -> Contents] /\ tmp \in [Items -> Contents]
  BY DEF IInv, StateOK
<1>3. \/ /\ Drafted(task.h, Member)
         /\ tmp' = [tmp EXCEPT ![Member] = v] /\ data' = data
      \/ /\ ~Drafted(task.h, Member)
         /\ data' = [data EXCEPT ![Member] = v] /\ tmp' = tmp
  BY ChangeSetup DEF Put
<1>4. \A i : Drafted(task.h, i)' <=> Drafted(task.h, i)
  BY DEF Drafted
<1>5. Was' = Was
  BY <1>4 DEF Was
<1>6. \A i \in Items : Now'[i] = IF i = Member THEN v ELSE Now[i]
  BY <1>1, <1>2, <1>3, <1>4 DEF Now, View
<1>7. ElsewhereSame'
  <2>1. ElsewhereSame
    BY ChangeSetup DEF ChangeOK
  <2> QED
    BY <1>1, <1>2, <1>3, <1>4, <2>1 DEF ElsewhereSame
<1>8. StateOK'
  <2>1. data' \in [Items -> Contents] /\ tmp' \in [Items -> Contents]
    BY <1>2, <1>3
  <2> QED
    BY <2>1, UndoElsewhere DEF IInv, StateOK
<1>9. \A j \in 1..Len(task.req) : j # at => Now'[task.req[j]] = Now[task.req[j]]
  BY <1>6, ChangeSetup DEF Member
<1> QED
  BY <1>1, <1>5, <1>6, <1>7, <1>8, <1>9, UndoElsewhere DEF Touched

\* A step that writes nothing touches that member at most.
LEMMA SameTouches ==
    ASSUME IInv, Running, task.kind \in Changes, at \in 1..Len(task.req),
           UNCHANGED <<data, tmp, upd, task, before, open>>, UndoTouched, ret' \in Statuses,
           phase' \in {"idle", "work", "write", "revert", "rewrite", "end"}
    PROVE  Touched /\ Now' = Now
<1>1. \A i : Drafted(task.h, i)' <=> Drafted(task.h, i)
  BY DEF Drafted
<1>2. Was' = Was /\ Now' = Now
  BY <1>1 DEF Was, Now, View
<1>3. ElsewhereSame'
  <2>1. ElsewhereSame
    BY ChangeSetup DEF ChangeOK
  <2> QED
    BY <1>1, <2>1 DEF ElsewhereSame
<1>4. StateOK'
  BY UndoElsewhere DEF IInv, StateOK
<1> QED
  BY <1>2, <1>3, <1>4, UndoElsewhere DEF Touched

\* What remains to show of such a step.
LEMMA TouchedKeeps ==
    ASSUME IInv, Running, task.kind \in Changes, Touched, phase' # "idle", PhaseOK', ChangeOK'
    PROVE  IInv'
<1>1. DraftsOK'
  BY DEF Touched, IInv, DraftsOK
<1>2. TaskOK'
  BY DEF Touched, IInv, TaskOK
<1>3. WorkOK'
  BY DEF Touched, WorkOK, Changes, Begins
<1> QED
  BY <1>1, <1>2, <1>3 DEF Touched, IInv

\* The member is done, and the call goes on with the next one.
LEMMA NextMemberStep ==
    ASSUME IInv, Running, task.kind \in Changes, at \in 1..Len(task.req), Touched,
           phase \in {"work", "write"}, at' = at + 1, phase' = "work", ret' = ret,
           Member \notin ReadOnly, Now'[Member] = task.want[Member],
           IF undo'[Member] = Skip THEN Now'[Member] = Was[Member]
                                   ELSE undo'[Member] = Was[Member]
    PROVE  IInv'
<1>1. task' = task /\ upd' = upd /\ before' = before /\ Was' = Was
  BY DEF Touched
<1>2. PhaseOK'
  BY <1>1, ChangeSetup DEF PhaseOK
<1>3. ASSUME NEW j \in 1..Len(task.req), j < at + 1 PROVE Written(task.req[j])'
  <2>1. CASE j = at
    BY <1>1, <2>1 DEF Written, Recalled, Member
  <2>2. CASE j # at
    <3>1. j < at
      BY <1>3, <2>2, ChangeSetup
    <3>2. Written(task.req[j])
      BY <3>1, ChangeSetup DEF ChangeOK
    <3> QED
      BY <1>1, <2>2, <3>2 DEF Written, Recalled, Touched
  <2> QED
    BY <2>1, <2>2
<1>4. ASSUME NEW j \in 1..Len(task.req), j >= at + 1
      PROVE  Now'[task.req[j]] = Was'[task.req[j]]
  <2>1. j > at /\ j # at
    BY <1>4, ChangeSetup
  <2>2. Now[task.req[j]] = Was[task.req[j]]
    BY <2>1, ChangeSetup DEF ChangeOK
  <2> QED
    BY <1>1, <2>1, <2>2 DEF Touched
<1>5. ChangeOK'
  <2>1. upd'[task'.h] = before'.upd[task'.h]
    BY <1>1, ChangeSetup DEF ChangeOK
  <2>2. ASSUME NEW j \in 1..Len(task.req)
        PROVE  /\ j < at' => Written(task.req[j])'
               /\ j > at' \/ j = at' => Now'[task.req[j]] = Was'[task.req[j]]
    BY <1>3, <1>4, <2>2, ChangeSetup
  <2> QED
    BY <1>1, <2>1, <2>2 DEF ChangeOK, Touched
<1> QED
  BY <1>2, <1>5, TouchedKeeps

\* The member is open and its write is to come.
LEMMA OpenMemberStep ==
    ASSUME IInv, Running, task.kind \in Changes, at \in 1..Len(task.req), Touched,
           phase = "work", at' = at, phase' = "write", ret' = ret,
           Member \notin ReadOnly, undo'[Member] = Was[Member]
    PROVE  IInv'
<1>1. task' = task /\ upd' = upd /\ before' = before /\ Was' = Was
  BY DEF Touched
<1>2. PhaseOK'
  BY <1>1, ChangeSetup DEF PhaseOK
<1>3. ASSUME NEW j \in 1..Len(task.req), j < at PROVE Written(task.req[j])'
  <2>1. Written(task.req[j]) /\ j # at
    BY <1>3, ChangeSetup DEF ChangeOK
  <2> QED
    BY <1>1, <2>1 DEF Written, Recalled, Touched
<1>4. ASSUME NEW j \in 1..Len(task.req), j > at
      PROVE  Now'[task.req[j]] = Was'[task.req[j]]
  <2>1. j # at /\ Now[task.req[j]] = Was[task.req[j]]
    BY <1>4, ChangeSetup DEF ChangeOK
  <2> QED
    BY <1>1, <2>1 DEF Touched
<1>5. ChangeOK'
  <2>1. upd'[task'.h] = before'.upd[task'.h]
    BY <1>1, ChangeSetup DEF ChangeOK
  <2>2. Member' = Member
    BY <1>1 DEF Member
  <2> QED
    BY <1>1, <1>3, <1>4, <2>1, <2>2 DEF ChangeOK, Touched
<1> QED
  BY <1>2, <1>5, TouchedKeeps

\* The member fails: the rollback begins before it, or the call ends.
LEMMA FailStep ==
    ASSUME IInv, Running, task.kind \in Changes, at \in 1..Len(task.req), Touched,
           phase \in {"work", "write"}, NEW e \in Errors, Fail(e)
    PROVE  IInv'
<1>1. task' = task /\ upd' = upd /\ before' = before /\ Was' = Was
  BY DEF Touched
<1>2. ret' = e /\ at' = at - 1 /\ phase' = (IF e = "error" THEN "revert" ELSE "end")
      /\ e \in {"error", "dataloss"}
  BY DEF Fail, Errors
<1>3. PhaseOK'
  BY <1>1, <1>2, ChangeSetup DEF PhaseOK
<1>4. ASSUME NEW j \in 1..Len(task.req), j <= at - 1 PROVE Recalled(task.req[j])'
  <2>1. j < at /\ j # at
    BY <1>4, ChangeSetup
  <2>2. Recalled(task.req[j])
    BY <2>1, ChangeSetup DEF ChangeOK, Written
  <2> QED
    BY <1>1, <2>1, <2>2 DEF Recalled, Touched
<1>5. OneDamaged(at)'
  <2>1. ASSUME NEW j \in 1..Len(task.req), j > at', j # at
        PROVE  Now'[task.req[j]] = Was'[task.req[j]]
    <3>1. j > at
      BY <1>2, <2>1, ChangeSetup
    <3>2. Now[task.req[j]] = Was[task.req[j]]
      BY <3>1, ChangeSetup DEF ChangeOK
    <3> QED
      BY <1>1, <2>1, <3>2 DEF Touched
  <2>2. at > at'
    BY <1>2, ChangeSetup
  <2> QED
    BY <1>1, <2>1, <2>2 DEF OneDamaged
<1>6. ChangeOK'
  <2>1. upd'[task'.h] = before'.upd[task'.h]
    BY <1>1, ChangeSetup DEF ChangeOK
  <2> QED
    BY <1>1, <1>2, <1>4, <1>5, <2>1 DEF ChangeOK, Touched
<1> QED
  BY <1>2, <1>3, <1>6, TouchedKeeps

\* The rollback: the members before the one that failed.
LEMMA RevertSetup ==
    ASSUME IInv, Running, task.kind \in Changes, phase \in {"revert", "rewrite"}, at >= 1
    PROVE  /\ at \in 1..Len(task.req) /\ Member \in Items /\ Recalled(Member)
           /\ ret = "error"
           /\ \A j \in 1..Len(task.req) : j <= at => Recalled(task.req[j])
           /\ Whole => OneDamaged(at)
<1>1. at \in 1..Len(task.req) /\ ret = "error"
  BY ChangeSetup DEF PhaseOK
<1>2. /\ \A j \in 1..Len(task.req) : j <= at => Recalled(task.req[j])
      /\ Whole => OneDamaged(at)
  BY ChangeSetup DEF ChangeOK
<1>3. Recalled(Member)
  BY <1>1, <1>2, ChangeSetup DEF Member
<1> QED
  BY <1>1, <1>2, <1>3, ChangeSetup DEF Member

\* A member is rolled back.
LEMMA PrevMemberStep ==
    ASSUME IInv, Running, task.kind \in Changes, Touched,
           phase \in {"revert", "rewrite"}, at >= 1,
           at' = at - 1, phase' = "revert", ret' = ret,
           Whole => Now'[Member] = Was[Member]
    PROVE  IInv'
<1>1. task' = task /\ upd' = upd /\ before' = before /\ Was' = Was
  BY DEF Touched
<1>2. PhaseOK'
  BY <1>1, ChangeSetup, RevertSetup DEF PhaseOK
<1>3. ASSUME NEW j \in 1..Len(task.req), j <= at - 1 PROVE Recalled(task.req[j])'
  <2>1. j <= at /\ j # at
    BY <1>3, RevertSetup
  <2>2. Recalled(task.req[j])
    BY <2>1, RevertSetup
  <2> QED
    BY <1>1, <2>1, <2>2 DEF Recalled, Touched
<1>4. ASSUME Whole PROVE OneDamaged(at)'
  <2>1. PICK k \in 1..Len(task.req) :
           /\ k > at
           /\ \A j \in 1..Len(task.req) : j > at /\ j # k =>
                 Now[task.req[j]] = Was[task.req[j]]
    BY <1>4, RevertSetup DEF OneDamaged
  <2>2. ASSUME NEW j \in 1..Len(task.req), j > at', j # k
        PROVE  Now'[task.req[j]] = Was'[task.req[j]]
    <3>1. CASE j = at
      BY <1>1, <1>4, <3>1 DEF Member
    <3>2. CASE j # at
      <4>1. j > at
        BY <2>2, <3>2, RevertSetup
      <4> QED
        BY <1>1, <2>1, <2>2, <3>2, <4>1 DEF Touched
    <3> QED
      BY <3>1, <3>2
  <2>3. k > at'
    BY <2>1, RevertSetup
  <2> QED
    BY <1>1, <2>2, <2>3 DEF OneDamaged
<1>5. Whole' <=> Whole
  BY DEF Whole
<1>6. ChangeOK'
  <2>1. upd'[task'.h] = before'.upd[task'.h]
    BY <1>1, ChangeSetup DEF ChangeOK
  <2> QED
    BY <1>1, <1>3, <1>4, <1>5, <2>1 DEF ChangeOK, Touched
<1> QED
  BY <1>2, <1>6, TouchedKeeps

\* A member is open to be written back.
LEMMA RewriteStep ==
    ASSUME IInv, Running, task.kind \in Changes, Touched,
           phase = "revert", at >= 1, undo[Member] # Skip,
           at' = at, phase' = "rewrite", ret' = ret, undo' = undo
    PROVE  IInv'
<1>1. task' = task /\ upd' = upd /\ before' = before /\ Was' = Was /\ Member' = Member
  BY DEF Touched, Member
<1>2. PhaseOK'
  BY <1>1, ChangeSetup, RevertSetup DEF PhaseOK
<1>3. ASSUME NEW j \in 1..Len(task.req), j <= at PROVE Recalled(task.req[j])'
  <2>1. Recalled(task.req[j])
    BY <1>3, RevertSetup
  <2>2. CASE j = at
    BY <1>1, <2>1, <2>2 DEF Recalled, Member
  <2>3. CASE j # at
    BY <1>1, <2>1, <2>3 DEF Recalled, Touched
  <2> QED
    BY <2>2, <2>3
<1>4. OneDamaged(at) => OneDamaged(at)'
  <2> SUFFICES ASSUME OneDamaged(at) PROVE OneDamaged(at)'
    OBVIOUS
  <2>1. PICK k \in 1..Len(task.req) :
           /\ k > at
           /\ \A j \in 1..Len(task.req) : j > at /\ j # k =>
                 Now[task.req[j]] = Was[task.req[j]]
    BY DEF OneDamaged
  <2>2. \A j \in 1..Len(task.req) : j > at => Now'[task.req[j]] = Now[task.req[j]]
    BY RevertSetup DEF Touched
  <2>3. \A j \in 1..Len(task.req) : j > at' /\ j # k =>
           Now'[task'.req[j]] = Was'[task'.req[j]]
    BY <1>1, <2>1, <2>2
  <2> QED
    BY <1>1, <2>1, <2>3 DEF OneDamaged
<1>5. Whole' <=> Whole
  BY DEF Whole
<1>6. ChangeOK'
  <2>1. upd'[task'.h] = before'.upd[task'.h]
    BY <1>1, ChangeSetup DEF ChangeOK
  <2>2. Whole => OneDamaged(at)'
    BY <1>4, RevertSetup
  <2> QED
    BY <1>1, <1>3, <1>5, <2>1, <2>2 DEF ChangeOK, Touched
<1> QED
  BY <1>2, <1>6, TouchedKeeps

\* The rollback fails.
LEMMA LostStep ==
    ASSUME IInv, Running, task.kind \in Changes, Touched,
           at \in 1..Len(task.req), at' = at, phase' = "end", ret' = "dataloss"
    PROVE  IInv'
<1>1. task' = task /\ upd' = upd /\ before' = before
  BY DEF Touched
<1>2. PhaseOK'
  BY <1>1, ChangeSetup DEF PhaseOK, Errors
<1>3. ChangeOK'
  BY <1>1, ChangeSetup DEF ChangeOK, Touched
<1> QED
  BY <1>2, <1>3, TouchedKeeps

\* Where the steps of Save and Clear run.
LEMMA WorkingFacts ==
    ASSUME IInv, task.kind \in Changes,
           (phase = "work" /\ at <= Len(task.req)) \/ phase = "write"
    PROVE  /\ Running /\ at \in 1..Len(task.req)
           /\ Member \in Items /\ Old \in Contents /\ Wanted \in Contents
           /\ Wanted = task.want[Member] /\ Old = Now[Member]
           /\ phase = "work" => Now[Member] = Was[Member]
           /\ phase = "write" => undo[Member] = Was[Member] /\ Member \notin ReadOnly
           /\ Was[Member] # Skip
<1>1. Running
  BY DEF Running
<1>2. at \in 1..Len(task.req)
  BY <1>1, ChangeSetup DEF PhaseOK
<1>3. Member \in Items /\ Wanted \in Contents
  BY <1>1, <1>2, ChangeSetup, ContentsTypes DEF Member, Wanted
<1>4. Old = Now[Member] /\ Old \in Contents /\ Was[Member] # Skip
  BY <1>1, <1>3, ChangeSetup, ContentsTypes DEF Now, Old
<1>5. phase = "work" => Now[Member] = Was[Member]
  BY <1>1, <1>2, ChangeSetup DEF ChangeOK, Member
<1>6. phase = "write" => undo[Member] = Was[Member] /\ Member \notin ReadOnly
  BY <1>1, <1>2, ChangeSetup DEF ChangeOK
<1> QED
  BY <1>1, <1>2, <1>3, <1>4, <1>5, <1>6 DEF Wanted

\* What a member has to be rolled back to.
LEMMA UndoIs ==
    ASSUME IInv, Member \in Items, NEW w, Undo(w)
    PROVE  undo'[Member] = w
  BY DEF IInv, StateOK, Undo

\* The steps of Save and Clear.
LEMMA ChangeSteps ==
    ASSUME IInv, ChangeRefused \/ ChangeSkipped \/ ChangeErases \/ ChangeOpens
                 \/ ChangeWritten \/ ChangeFails \/ ChangeInPlace
    PROVE  IInv'
<1>1. task.kind \in Changes /\ ((phase = "work" /\ at <= Len(task.req)) \/ phase = "write")
  BY DEF ChangeRefused, ChangeSkipped, ChangeErases, ChangeOpens, ChangeWritten,
         ChangeFails, ChangeInPlace, Changing, Working
<1>2. /\ Running /\ at \in 1..Len(task.req)
      /\ Member \in Items /\ Old \in Contents /\ Wanted \in Contents
      /\ Wanted = task.want[Member] /\ Old = Now[Member]
      /\ phase = "work" => Now[Member] = Was[Member]
      /\ phase = "write" => undo[Member] = Was[Member] /\ Member \notin ReadOnly
      /\ Was[Member] # Skip
  BY <1>1, WorkingFacts
<1>3. /\ "error" \in Statuses /\ "dataloss" \in Statuses /\ ret \in Statuses
      /\ \A e \in Errors : e \in Statuses
      /\ Empty \in Contents /\ Torn \in Contents /\ Skip \notin Contents
  BY ContentsTypes DEF IInv, StateOK, Statuses, Errors
<1>4. CASE ChangeRefused
  <2>1. PICK e \in Errors : Fail(e)
    BY <1>4 DEF ChangeRefused, Errors
  <2>2. UNCHANGED <<data, tmp, upd, undo, task, before, open>> /\ phase = "work"
    BY <1>4, <2>1 DEF ChangeRefused, Working, Fail, stepVars
  <2>3. ret' \in Statuses /\ phase' \in {"revert", "end"}
    BY <1>3, <2>1 DEF Fail
  <2>4. Touched
    BY <1>1, <1>2, <2>2, <2>3, SameTouches DEF UndoTouched
  <2> QED
    BY <1>1, <1>2, <2>1, <2>2, <2>4, FailStep
<1>5. CASE ChangeSkipped
  <2>1. /\ UNCHANGED <<data, tmp, upd, task, before, open, ret>> /\ Undo(Skip)
        /\ phase = "work" /\ at' = at + 1 /\ phase' = "work"
        /\ Member \notin ReadOnly /\ Wanted = Old
    BY <1>5 DEF ChangeSkipped, Changing, Working, NextMember, stepVars
  <2>2. Touched /\ Now' = Now
    BY <1>1, <1>2, <1>3, <2>1, SameTouches DEF UndoTouched, Undo
  <2>3. undo'[Member] = Skip
    BY <1>2, <2>1, UndoIs
  <2> QED
    BY <1>1, <1>2, <2>1, <2>2, <2>3, NextMemberStep
<1>6. CASE ChangeErases
  <2>1. /\ UNCHANGED <<upd, task, before, open, ret>> /\ Undo(Old) /\ Put(Empty)
        /\ phase = "work" /\ at' = at + 1 /\ phase' = "work"
        /\ Member \notin ReadOnly /\ Wanted = Empty
    BY <1>6 DEF ChangeErases, Changing, Working, NextMember, stepVars
  <2>2. Touched /\ Now'[Member] = Empty
    BY <1>1, <1>2, <1>3, <2>1, PutTouches DEF UndoTouched, Undo
  <2>3. undo'[Member] = Old
    BY <1>2, <2>1, UndoIs
  <2> QED
    BY <1>1, <1>2, <2>1, <2>2, <2>3, NextMemberStep
<1>7. CASE ChangeOpens
  <2>1. /\ UNCHANGED <<upd, task, before, open, ret, at>> /\ Undo(Old) /\ Put(Empty)
        /\ phase = "work" /\ phase' = "write" /\ Member \notin ReadOnly
    BY <1>7 DEF ChangeOpens, Changing, Working, stepVars
  <2>2. Touched
    BY <1>1, <1>2, <1>3, <2>1, PutTouches DEF UndoTouched, Undo
  <2>3. undo'[Member] = Old
    BY <1>2, <2>1, UndoIs
  <2> QED
    BY <1>1, <1>2, <2>1, <2>2, <2>3, OpenMemberStep
<1>8. CASE ChangeWritten
  <2>1. /\ UNCHANGED <<upd, undo, task, before, open, ret>> /\ Put(Wanted)
        /\ phase = "write" /\ at' = at + 1 /\ phase' = "work"
    BY <1>8 DEF ChangeWritten, NextMember, stepVars
  <2>2. Touched /\ Now'[Member] = Wanted
    BY <1>1, <1>2, <1>3, <2>1, PutTouches DEF UndoTouched
  <2> QED
    BY <1>1, <1>2, <2>1, <2>2, NextMemberStep
<1>9. CASE ChangeFails
  <2>1. phase = "write" /\ UNCHANGED <<upd, undo>>
        /\ \E v \in {Empty, Torn} : Put(v) /\ \E e \in Errors : Fail(e)
    BY <1>9 DEF ChangeFails
  <2>2. ASSUME NEW v \in {Empty, Torn}, NEW e \in Errors, Put(v), Fail(e) PROVE IInv'
    <3>1. UNCHANGED <<upd, task, before, open>>
      BY <2>1, <2>2 DEF Fail, stepVars
    <3>2. ret' \in Statuses /\ phase' \in {"revert", "end"}
      BY <1>3, <2>2 DEF Fail
    <3>3. v \in Contents /\ UndoTouched
      BY <1>3, <2>1 DEF UndoTouched
    <3>4. phase' \in {"idle", "work", "write", "revert", "rewrite", "end"}
      BY <3>2
    <3>5. Touched
      BY <1>1, <1>2, <2>2, <3>1, <3>2, <3>3, <3>4, PutTouches
    <3> QED
      BY <1>1, <1>2, <2>1, <2>2, <3>5, FailStep
  <2> QED
    BY <2>1, <2>2
<1>10. CASE ChangeInPlace
  <2>1. /\ Undo(Old) /\ phase = "work" /\ Member \notin ReadOnly /\ UNCHANGED upd
        /\ \/ Put(Wanted) /\ NextMember
           \/ \E v \in {Old, Torn} : Put(v) /\ \E e \in Errors : Fail(e)
    BY <1>10 DEF ChangeInPlace, Changing, Working
  <2>2. undo'[Member] = Old
    BY <1>2, <2>1, UndoIs
  <2>3. CASE Put(Wanted) /\ NextMember
    <3>1. UNCHANGED <<upd, task, before, open, ret>> /\ at' = at + 1 /\ phase' = "work"
      BY <2>1, <2>3 DEF NextMember, stepVars
    <3>2. Touched /\ Now'[Member] = Wanted
      BY <1>1, <1>2, <1>3, <2>1, <2>3, <3>1, PutTouches DEF UndoTouched, Undo
    <3> QED
      BY <1>1, <1>2, <2>1, <2>2, <3>1, <3>2, NextMemberStep
  <2>4. ASSUME NEW v \in {Old, Torn}, NEW e \in Errors, Put(v), Fail(e) PROVE IInv'
    <3>1. UNCHANGED <<upd, task, before, open>>
      BY <2>1, <2>4 DEF Fail, stepVars
    <3>2. ret' \in Statuses /\ phase' \in {"revert", "end"}
      BY <1>3, <2>4 DEF Fail
    <3>3. Touched
      BY <1>1, <1>2, <1>3, <2>1, <2>4, <3>1, <3>2, PutTouches DEF UndoTouched, Undo
    <3> QED
      BY <1>1, <1>2, <2>1, <2>4, <3>3, FailStep
  <2> QED
    BY <2>1, <2>3, <2>4
<1> QED
  BY <1>4, <1>5, <1>6, <1>7, <1>8, <1>9, <1>10

\* The steps of the rollback.
LEMMA RevertSteps ==
    ASSUME IInv, RevertSkipped \/ RevertErases \/ RevertOpens \/ RevertWritten \/ RevertFails
    PROVE  IInv'
<1>1. /\ Running /\ phase \in {"revert", "rewrite"} /\ at >= 1 /\ task.kind \in Changes
  BY DEF RevertSkipped, RevertErases, RevertOpens, RevertWritten, RevertFails, Reverting,
         Running, IInv, PhaseOK
<1>2. at \in 1..Len(task.req) /\ Member \in Items /\ Recalled(Member) /\ ret = "error"
  BY <1>1, RevertSetup
<1>3. /\ "dataloss" \in Statuses /\ ret \in Statuses
      /\ Empty \in Contents /\ Torn \in Contents /\ Skip \notin Contents
  BY ContentsTypes DEF IInv, StateOK, Statuses, Errors
<1>4. CASE RevertSkipped
  <2>1. /\ UNCHANGED <<data, tmp, open, upd, undo, ret, task, before>>
        /\ undo[Member] = Skip /\ at' = at - 1 /\ phase' = "revert"
    BY <1>4 DEF RevertSkipped, PrevMember, stepVars
  <2>2. Touched /\ Now' = Now
    BY <1>1, <1>2, <1>3, <2>1, SameTouches DEF UndoTouched
  <2>3. Now[Member] = Was[Member]
    BY <1>2, <2>1 DEF Recalled
  <2> QED
    BY <1>1, <2>1, <2>2, <2>3, PrevMemberStep
<1>5. CASE RevertErases
  <2>1. /\ UNCHANGED <<open, upd, undo, ret, task, before>> /\ Put(Empty)
        /\ undo[Member] = Empty /\ at' = at - 1 /\ phase' = "revert"
    BY <1>5 DEF RevertErases, PrevMember, stepVars
  <2>2. Touched /\ Now'[Member] = Empty
    BY <1>1, <1>2, <1>3, <2>1, PutTouches DEF UndoTouched
  <2>3. Was[Member] = Empty
    BY <1>2, <1>3, <2>1 DEF Recalled
  <2> QED
    BY <1>1, <2>1, <2>2, <2>3, PrevMemberStep
<1>6. CASE RevertOpens
  <2>1. /\ UNCHANGED <<open, upd, undo, ret, at, task, before>> /\ Put(Empty)
        /\ undo[Member] # Skip /\ phase' = "rewrite" /\ phase = "revert"
    BY <1>6 DEF RevertOpens, Reverting, stepVars
  <2>2. Touched
    BY <1>1, <1>2, <1>3, <2>1, PutTouches DEF UndoTouched
  <2> QED
    BY <1>1, <2>1, <2>2, RewriteStep
<1>7. CASE RevertWritten
  <2>1. /\ UNCHANGED <<open, upd, undo, ret, task, before>>
        /\ Put(Restored(undo[Member]))
        /\ at' = at - 1 /\ phase' = "revert" /\ phase = "rewrite"
    BY <1>7 DEF RevertWritten, PrevMember, stepVars
  <2>2. undo[Member] # Skip /\ undo[Member] = Was[Member] /\ undo[Member] \in Contents
    BY <1>1, <1>2, <2>1, ChangeSetup DEF ChangeOK, Recalled, StateOK
  <2>3. Restored(undo[Member]) \in Contents
    BY <1>3, <2>2 DEF Restored
  <2>4. Touched /\ Now'[Member] = Restored(undo[Member])
    BY <1>1, <1>2, <1>3, <2>1, <2>3, PutTouches DEF UndoTouched
  <2>5. Whole => Restored(undo[Member]) = Was[Member]
    BY <2>2 DEF Whole, Restored
  <2> QED
    BY <1>1, <2>1, <2>4, <2>5, PrevMemberStep
<1>8. CASE RevertFails
  <2>1. /\ UNCHANGED <<open, upd, undo, at, task, before>>
        /\ ret' = "dataloss" /\ phase' = "end"
        /\ (UNCHANGED <<data, tmp>> \/ \E v \in {Empty, Torn} : Put(v))
    BY <1>8 DEF RevertFails, Lost, stepVars
  <2>2. Touched
    <3>1. CASE UNCHANGED <<data, tmp>>
      BY <1>1, <1>2, <1>3, <2>1, <3>1, SameTouches DEF UndoTouched
    <3>2. ASSUME NEW v \in {Empty, Torn}, Put(v) PROVE Touched
      BY <1>1, <1>2, <1>3, <2>1, <3>2, PutTouches DEF UndoTouched
    <3> QED
      BY <2>1, <3>1, <3>2
  <2> QED
    BY <1>1, <1>2, <2>1, <2>2, LostStep
<1> QED
  BY <1>4, <1>5, <1>6, <1>7, <1>8
----------------------------------------------------------------------------
(* UpdateBegin. *)

\* What is known while UpdateBegin runs.
LEMMA BeginSetup ==
    ASSUME IInv, Running, task.kind \in Begins, Cancellable
    PROVE  /\ StateOK /\ DraftsOK /\ TaskOK /\ PhaseOK /\ BeginOK
           /\ task.kind \notin Changes \cup {"complete", "cancel", "reset"}
           /\ task.h \in Handles /\ task.req \in Seq(Items) /\ Distinct(task.req)
           /\ Len(task.req) \in Nat /\ Len(task.req) >= 1 /\ at \in 0..(Len(task.req) + 1)
<1>1. StateOK /\ DraftsOK /\ TaskOK /\ PhaseOK /\ BeginOK
  BY DEF IInv, WorkOK
<1>2. task.kind \notin Changes \cup {"complete", "cancel", "reset"}
  BY DEF Begins, Changes
<1>3. task.h \in Handles
  BY <1>1, <1>2 DEF TaskOK
<1>4. task.req \in Requests
  BY <1>1 DEF BeginOK
<1>5. task.req \in Seq(Items) /\ Distinct(task.req) /\ Len(task.req) >= 1
  BY <1>4, RequestFacts
<1> QED
  BY <1>1, <1>2, <1>3, <1>5 DEF PhaseOK

\* A step that registers nothing.
LEMMA BeginKeeps ==
    ASSUME IInv, Running, task.kind \in Begins, Cancellable,
           UNCHANGED <<data, open, upd, undo, task, before>>,
           tmp' \in [Items -> Contents],
           \A i \in Items : tmp'[i] # tmp[i] => i \in Members(task.req),
           phase' \in {"work", "write", "revert", "end"}, ret' \in Statuses, PhaseOK',
           phase' \in {"work", "write"} => phase \in {"work", "write"} /\ at' = at,
           phase' = "end" => ret' = "dataloss"
    PROVE  IInv'
<1>1. StateOK' /\ DraftsOK' /\ TaskOK'
  BY BeginSetup DEF StateOK, DraftsOK, TaskOK
<1>2. BeginOK'
  <2>1. /\ task.req \in Requests /\ Len(task.req) <= UpdateMax
        /\ data = before.data /\ before.upd[task.h] = <<>>
        /\ \A g \in Handles : g # task.h => Members(task.req) \cap Members(upd[g]) = {}
    BY BeginSetup DEF BeginOK
  <2>2. \A i \in Items : tmp'[i] # before.tmp[i] => i \in Members(task.req)
    BY BeginSetup DEF BeginOK
  <2>3. PICK n \in 0..Len(task.req) :
           /\ upd[task.h] = SubSeq(task.req, 1, n)
           /\ phase \in {"work", "write"} => n = at - 1
    BY BeginSetup DEF BeginOK
  <2>4. /\ upd'[task'.h] = SubSeq(task'.req, 1, n) /\ n \in 0..Len(task'.req)
        /\ phase' \in {"work", "write"} => n = at' - 1
    BY <2>3
  <2> QED
    BY <2>1, <2>2, <2>4 DEF BeginOK
<1>3. WorkOK'
  BY <1>2, BeginSetup DEF WorkOK
<1> QED
  BY <1>1, <1>3 DEF IInv

\* The member is registered with the handle.
LEMMA RegisterStep ==
    ASSUME IInv, task.kind \in Begins, Cancellable,
           phase \in {"work", "write"}, at <= Len(task.req), Register,
           UNCHANGED <<data, open, undo, ret, task, before>>,
           at' = at + 1, phase' = "work",
           tmp' \in [Items -> Contents],
           \A i \in Items : tmp'[i] # tmp[i] => i \in Members(task.req)
    PROVE  IInv'
<1>0. Running
  BY DEF Running
<1>1. at \in 1..Len(task.req) /\ at - 1 \in 0..Len(task.req) /\ at - 1 < Len(task.req)
      /\ (at - 1) + 1 = at /\ at \in 0..Len(task.req)
  BY <1>0, BeginSetup DEF PhaseOK
<1>2. upd[task.h] = SubSeq(task.req, 1, at - 1)
  BY <1>0, BeginSetup DEF BeginOK
<1>3. SubSeq(task.req, 1, at) = Append(SubSeq(task.req, 1, at - 1), task.req[at])
  BY <1>0, <1>1, BeginSetup, PrefixGrows
<1>4. upd' = [upd EXCEPT ![task.h] = SubSeq(task.req, 1, at)]
  BY <1>0, <1>2, <1>3, BeginSetup DEF Register, Member, DraftsOK
<1>5. /\ SubSeq(task.req, 1, at) \in Seq(Items) /\ Distinct(SubSeq(task.req, 1, at))
      /\ Members(SubSeq(task.req, 1, at)) \subseteq Members(task.req)
  <2>1. Members(SubSeq(task.req, 1, at)) = {task.req[j] : j \in 1..at}
    BY <1>0, <1>1, BeginSetup, MembersOfPrefix
  <2>2. \A j \in 1..at : task.req[j] \in Members(task.req)
    BY <1>0, <1>1, BeginSetup, MembersType
  <2> QED
    BY <1>0, <1>1, <2>1, <2>2, BeginSetup, SubSeqFacts, PrefixDistinct
<1>6. upd \in [Handles -> Seq(Items)] /\ task.h \in Handles
  BY <1>0, BeginSetup DEF DraftsOK
<1>7. \A g \in Handles : upd'[g] = IF g = task.h THEN SubSeq(task.req, 1, at) ELSE upd[g]
  BY <1>4, <1>6
<1>8. \A g \in Handles : g # task.h => Members(task.req) \cap Members(upd[g]) = {}
  BY <1>0, BeginSetup DEF BeginOK
<1>9. DraftsOK'
  <2>1. upd' \in [Handles -> Seq(Items)]
    BY <1>4, <1>5, <1>6
  <2>2. \A h \in Handles : Distinct(upd'[h])
    BY <1>0, <1>5, <1>7, BeginSetup DEF DraftsOK
  <2>3. ASSUME NEW g \in Handles, NEW h \in Handles, g # h
        PROVE  Members(upd'[g]) \cap Members(upd'[h]) = {}
    <3>1. Members(upd[g]) \cap Members(upd[h]) = {}
      BY <1>0, <2>3, BeginSetup DEF DraftsOK
    <3>2. CASE g = task.h
      BY <1>5, <1>7, <1>8, <2>3, <3>2
    <3>3. CASE h = task.h
      BY <1>5, <1>7, <1>8, <2>3, <3>3
    <3>4. CASE g # task.h /\ h # task.h
      BY <1>7, <3>1, <3>4
    <3> QED
      BY <3>2, <3>3, <3>4
  <2> QED
    BY <2>1, <2>2, <2>3 DEF DraftsOK
<1>10. StateOK' /\ TaskOK'
  BY <1>0, BeginSetup DEF StateOK, TaskOK
<1>11. PhaseOK'
  BY <1>0, <1>1, BeginSetup DEF PhaseOK
<1>12. BeginOK'
  <2>1. /\ task.req \in Requests /\ Len(task.req) <= UpdateMax
        /\ data = before.data /\ before.upd[task.h] = <<>>
    BY <1>0, BeginSetup DEF BeginOK
  <2>2. \A i \in Items : tmp'[i] # before.tmp[i] => i \in Members(task.req)
    BY <1>0, BeginSetup DEF BeginOK
  <2>3. \A g \in Handles : g # task.h => Members(task.req) \cap Members(upd'[g]) = {}
    BY <1>7, <1>8
  <2>4. at = at' - 1 /\ task' = task
    BY <1>0, BeginSetup
  <2>5. upd'[task.h] = SubSeq(task.req, 1, at)
    BY <1>6, <1>7
  <2> QED
    BY <1>1, <2>1, <2>2, <2>3, <2>4, <2>5 DEF BeginOK
<1>13. WorkOK'
  BY <1>0, <1>12, BeginSetup DEF WorkOK
<1> QED
  BY <1>9, <1>10, <1>11, <1>13 DEF IInv

\* Put works on the temporary area of the member.
LEMMA BeginPut ==
    ASSUME IInv, Running, task.kind \in Begins, Cancellable, at \in 1..Len(task.req),
           NEW v \in Contents, Put(v)
    PROVE  /\ UNCHANGED data /\ tmp' \in [Items -> Contents]
           /\ \A i \in Items : tmp'[i] # tmp[i] => i \in Members(task.req)
<1>1. Member \in Items /\ Member \in Members(task.req)
  BY BeginSetup, MembersType DEF Member
<1>2. tmp' = [tmp EXCEPT ![Member] = v] /\ UNCHANGED data
  BY DEF Put
<1>3. tmp \in [Items -> Contents]
  BY BeginSetup DEF StateOK
<1> QED
  BY <1>1, <1>2, <1>3

\* The steps of UpdateBegin.
LEMMA BeginSteps ==
    ASSUME IInv, BeginRegisters \/ CopyOpens \/ CopyWritten \/ BeginFails \/ BeginReverts
    PROVE  IInv'
<1>1. task.kind \in Begins /\ Running
      /\ (phase = "work" => at <= Len(task.req)) /\ (phase = "revert" => at >= 1)
  BY DEF BeginRegisters, CopyOpens, CopyWritten, BeginFails, BeginReverts, Working,
         Begins, Running
<1>2. Cancellable
  <2>1. ~Cancellable => task.kind = "empty" /\ phase \in {"work", "end"}
    BY <1>1 DEF IInv, WorkOK, EraseOK
  <2> QED
    BY <2>1 DEF BeginRegisters, CopyOpens, CopyWritten, BeginFails, BeginReverts, Working
<1>3. /\ Empty \in Contents /\ Torn \in Contents
      /\ "error" \in Statuses /\ "dataloss" \in Statuses
  BY ContentsTypes DEF Errors
<1>4. tmp \in [Items -> Contents] /\ data \in [Items -> Contents] /\ ret \in Statuses
  BY DEF IInv, StateOK
<1>5. phase \in {"work", "write", "revert"} => at \in 1..Len(task.req)
  BY <1>1, <1>2, BeginSetup DEF PhaseOK
<1>6. CASE BeginRegisters
  <2>1. /\ phase = "work" /\ Register /\ at' = at + 1 /\ phase' = "work"
        /\ UNCHANGED <<data, tmp, open, undo, ret, task, before>>
    BY <1>6 DEF BeginRegisters, Working, NextMember, stepVars
  <2> QED
    BY <1>1, <1>2, <1>4, <2>1, RegisterStep
<1>7. CASE CopyOpens
  <2>1. /\ phase = "work" /\ Put(Empty) /\ phase' = "write" /\ at' = at
        /\ UNCHANGED <<open, upd, undo, ret, task, before>> /\ task.kind = "copy"
    BY <1>7 DEF CopyOpens, Working, stepVars
  <2>2. /\ UNCHANGED data /\ tmp' \in [Items -> Contents]
        /\ \A i \in Items : tmp'[i] # tmp[i] => i \in Members(task.req)
    BY <1>1, <1>2, <1>3, <1>5, <2>1, BeginPut
  <2>3. PhaseOK'
    BY <1>1, <1>2, <1>5, <2>1, BeginSetup DEF PhaseOK
  <2> QED
    BY <1>1, <1>2, <1>4, <2>1, <2>2, <2>3, BeginKeeps
<1>8. CASE CopyWritten
  <2>1. /\ phase = "write" /\ Put(Restored(data[Member])) /\ Register
        /\ at' = at + 1 /\ phase' = "work"
        /\ UNCHANGED <<open, undo, ret, task, before>>
    BY <1>8 DEF CopyWritten, NextMember, stepVars
  <2>2. at \in 1..Len(task.req)
    BY <1>5, <2>1
  <2>3. Member \in Items
    BY <1>1, <1>2, <2>2, BeginSetup DEF Member
  <2>4. Restored(data[Member]) \in Contents
    BY <1>3, <1>4, <2>3 DEF Restored
  <2>5. /\ UNCHANGED data /\ tmp' \in [Items -> Contents]
        /\ \A i \in Items : tmp'[i] # tmp[i] => i \in Members(task.req)
    BY <1>1, <1>2, <2>1, <2>2, <2>4, BeginPut
  <2> QED
    BY <1>1, <1>2, <2>1, <2>2, <2>5, RegisterStep
<1>9. CASE BeginFails
  <2>1. /\ phase \in {"work", "write"}
        /\ UNCHANGED <<data, tmp>> \/ \E v \in {Empty, Torn} : Put(v)
        /\ \E e \in Errors : Fail(e)
        /\ UNCHANGED <<upd, undo>>
    BY <1>9 DEF BeginFails, Working
  <2>2. at \in 1..Len(task.req)
    BY <1>5, <2>1
  <2>3. /\ UNCHANGED data /\ tmp' \in [Items -> Contents]
        /\ \A i \in Items : tmp'[i] # tmp[i] => i \in Members(task.req)
    BY <1>1, <1>2, <1>3, <1>4, <2>1, <2>2, BeginPut
  <2>4. PICK e \in Errors : Fail(e)
    BY <2>1
  <2>5. /\ ret' = e /\ e \in {"error", "dataloss"} /\ at' = at - 1
        /\ phase' = (IF e = "error" THEN "revert" ELSE "end")
        /\ UNCHANGED <<open, task, before>>
    BY <2>4 DEF Fail, stepVars, Errors
  <2>6. PhaseOK'
    BY <1>1, <1>2, <2>1, <2>2, <2>5, BeginSetup DEF PhaseOK, Errors
  <2> QED
    BY <1>1, <1>2, <1>3, <2>1, <2>3, <2>5, <2>6, BeginKeeps
<1>10. CASE BeginReverts
  <2>1. phase = "revert" /\ at \in 1..Len(task.req)
    BY <1>5, <1>10 DEF BeginReverts
  <2>2. CASE Put(Empty) /\ PrevMember
    <3>1. /\ UNCHANGED <<open, upd, undo, ret, task, before>>
          /\ at' = at - 1 /\ phase' = "revert"
      BY <2>2 DEF PrevMember, stepVars
    <3>2. /\ UNCHANGED data /\ tmp' \in [Items -> Contents]
          /\ \A i \in Items : tmp'[i] # tmp[i] => i \in Members(task.req)
      BY <1>1, <1>2, <1>3, <2>1, <2>2, BeginPut
    <3>3. PhaseOK'
      BY <1>1, <1>2, <2>1, <3>1, BeginSetup DEF PhaseOK
    <3> QED
      BY <1>1, <1>2, <1>4, <3>1, <3>2, <3>3, BeginKeeps
  <2>3. CASE /\ ret' = "dataloss" /\ phase' = "end"
             /\ upd' = [upd EXCEPT ![task.h] = <<>>]
             /\ UNCHANGED <<data, tmp, open, undo, at, stepVars>>
    <3>1. UNCHANGED <<data, tmp, open, undo, at, task, before>>
      BY <2>3 DEF stepVars
    <3>2. StateOK' /\ TaskOK'
      BY <1>1, <1>2, <1>3, <2>3, <3>1, BeginSetup DEF StateOK, TaskOK
    <3>3. upd \in [Handles -> Seq(Items)] /\ task.h \in Handles
      BY <1>1, <1>2, BeginSetup DEF DraftsOK
    <3>4. Members(<<>>) = {} /\ Distinct(<<>>) /\ <<>> \in Seq(Items)
          /\ SubSeq(task.req, 1, 0) = <<>>
      BY <1>1, <1>2, BeginSetup, PrefixEnds
    <3>5. \A g \in Handles : upd'[g] = IF g = task.h THEN <<>> ELSE upd[g]
      BY <2>3, <3>3
    <3>6. DraftsOK'
      <4>1. upd' \in [Handles -> Seq(Items)]
        BY <2>3, <3>3, <3>4
      <4> QED
        BY <1>1, <1>2, <3>4, <3>5, <4>1, BeginSetup DEF DraftsOK
    <3>7. PhaseOK'
      BY <1>1, <1>2, <2>1, <2>3, <3>1, BeginSetup DEF PhaseOK, Errors
    <3>8. BeginOK'
      <4>1. /\ task.req \in Requests /\ Len(task.req) <= UpdateMax
            /\ data = before.data /\ before.upd[task.h] = <<>>
            /\ \A i \in Items : tmp[i] # before.tmp[i] => i \in Members(task.req)
        BY <1>1, <1>2, BeginSetup DEF BeginOK
      <4>2. \A g \in Handles : g # task.h => Members(task.req) \cap Members(upd'[g]) = {}
        BY <1>1, <1>2, <3>5, BeginSetup DEF BeginOK
      <4>3. 0 \in 0..Len(task.req)
        BY <1>1, <1>2, BeginSetup
      <4>4. upd'[task.h] = SubSeq(task.req, 1, 0)
        BY <3>3, <3>4, <3>5
      <4> QED
        BY <2>3, <3>1, <4>1, <4>2, <4>3, <4>4 DEF BeginOK
    <3>9. WorkOK'
      BY <1>1, <1>2, <3>1, <3>8, BeginSetup DEF WorkOK
    <3> QED
      BY <3>2, <3>6, <3>7, <3>9 DEF IInv
  <2> QED
    BY <1>10, <2>2, <2>3 DEF BeginReverts
<1> QED
  BY <1>6, <1>7, <1>8, <1>9, <1>10
\* A step of a call that leaves the updates of the handles alone.
LEMMA OtherKeeps ==
    ASSUME IInv, Running, task.kind \notin Changes,
           task.kind \in Begins => ~Cancellable,
           UNCHANGED <<open, upd, undo, task, before>>,
           data' \in [Items -> Contents], tmp' \in [Items -> Contents],
           phase' \in {"work", "end"}, ret' \in Statuses, PhaseOK',
           task.kind \in Begins => EraseOK',
           task.kind \in {"complete", "cancel"} => FinishOK',
           task.kind = "reset" => ResetOK'
    PROVE  IInv'
<1>1. StateOK' /\ DraftsOK' /\ TaskOK'
  BY DEF IInv, StateOK, DraftsOK, TaskOK
<1>2. WorkOK'
  BY DEF WorkOK
<1> QED
  BY <1>1, <1>2 DEF IInv

\* What the three have in common while they work on a member.
LEMMA OtherSetup ==
    ASSUME IInv, phase = "work", at <= Len(task.req),
           task.kind \in {"empty", "complete", "cancel", "reset"}
    PROVE  /\ Running /\ StateOK /\ DraftsOK /\ TaskOK /\ PhaseOK /\ WorkOK
           /\ task.req \in Seq(Items) /\ Len(task.req) \in Nat
           /\ at \in 1..Len(task.req) /\ at - 1 \in 0..Len(task.req)
           /\ Member \in Items /\ Member \in Members(task.req)
           /\ (at - 1) + 1 = at /\ at - 1 < Len(task.req) /\ (at + 1) - 1 = at
           /\ at + 1 \in 0..(Len(task.req) + 1)
           /\ Members(SubSeq(task.req, 1, at)) =
                 Members(SubSeq(task.req, 1, at - 1)) \cup {Member}
           /\ Distinct(task.req) => Member \notin Members(SubSeq(task.req, 1, at - 1))
<1>1. Running /\ StateOK /\ DraftsOK /\ TaskOK /\ PhaseOK /\ WorkOK
  BY DEF Running, IInv
<1>2. task.req \in Seq(Items) /\ Len(task.req) \in Nat
  BY <1>1 DEF TaskOK
<1>3. at \in 1..Len(task.req) /\ at - 1 \in 0..Len(task.req)
      /\ (at - 1) + 1 = at /\ at - 1 < Len(task.req) /\ (at + 1) - 1 = at
      /\ at + 1 \in 0..(Len(task.req) + 1)
  BY <1>1, <1>2 DEF PhaseOK
<1>4. Member \in Items /\ Member \in Members(task.req)
  BY <1>2, <1>3, MembersType DEF Member
<1>5. /\ Members(SubSeq(task.req, 1, (at - 1) + 1)) =
            Members(SubSeq(task.req, 1, at - 1)) \cup {task.req[(at - 1) + 1]}
      /\ Distinct(task.req) =>
            task.req[(at - 1) + 1] \notin Members(SubSeq(task.req, 1, at - 1))
  BY <1>2, <1>3, MembersGrow
<1> QED
  BY <1>1, <1>2, <1>3, <1>4, <1>5 DEF Member

\* UpdateBegin without temporary areas deletes a member.
LEMMA EraseStep ==
    ASSUME IInv, BeginErases
    PROVE  IInv'
<1>1. /\ phase = "work" /\ at <= Len(task.req) /\ task.kind = "empty" /\ ~Cancellable
      /\ UNCHANGED <<upd, undo>>
  BY DEF BeginErases, Working
<1>2. EraseOK /\ ~Drafted(task.h, Member)
  <2>1. Members(<<>>) = {}
    BY DEF Members
  <2> QED
    BY <1>1, <2>1, OtherSetup DEF WorkOK, Begins, Drafted, DraftsOK, TaskOK
<1>3. Empty \in Contents /\ Errors \subseteq Statuses
  BY ContentsTypes
<1>4. data \in [Items -> Contents] /\ tmp \in [Items -> Contents] /\ ret \in Statuses
  BY <1>1, OtherSetup DEF StateOK
<1>5. before.data \in [Items -> Contents]
  BY <1>1, OtherSetup DEF TaskOK
<1>6. CASE Put(Empty) /\ NextMember
  <2>1. /\ data' = [data EXCEPT ![Member] = Empty] /\ UNCHANGED <<tmp, open, task, before, ret>>
        /\ at' = at + 1 /\ phase' = "work"
    BY <1>1, <1>2, <1>6 DEF Put, NextMember, stepVars
  <2>2. data' \in [Items -> Contents]
    BY <1>3, <1>4, <2>1
  <2>3. data' = [i \in Items |-> IF i \in Members(SubSeq(task.req, 1, at))
                                 THEN Empty ELSE before.data[i]]
    BY <1>1, <1>2, <1>4, <2>1, OtherSetup DEF EraseOK
  <2>4. EraseOK'
    BY <1>1, <1>2, <2>1, <2>3, OtherSetup DEF EraseOK
  <2>5. PhaseOK'
    BY <1>1, <2>1, OtherSetup DEF PhaseOK
  <2> QED
    BY <1>1, <1>2, <1>4, <2>1, <2>2, <2>4, <2>5, OtherSetup, OtherKeeps DEF Changes, Begins
<1>7. CASE /\ ret' \in Errors /\ phase' = "end"
           /\ UNCHANGED <<data, tmp, open, at, stepVars>>
  <2>1. UNCHANGED <<data, tmp, open, at, task, before>>
    BY <1>7 DEF stepVars
  <2>2. EraseOK'
    BY <1>1, <1>2, <1>7, <2>1 DEF EraseOK
  <2>3. PhaseOK'
    BY <1>1, <1>7, <2>1, OtherSetup DEF PhaseOK
  <2> QED
    BY <1>1, <1>2, <1>3, <1>4, <1>7, <2>1, <2>2, <2>3, OtherSetup, OtherKeeps
    DEF Changes, Begins
<1> QED
  BY <1>6, <1>7 DEF BeginErases

\* UpdateComplete or UpdateCancel does a member.
LEMMA FinishStep ==
    ASSUME IInv, FinishMember
    PROVE  IInv'
<1>1. /\ phase = "work" /\ at <= Len(task.req) /\ task.kind \in {"complete", "cancel"}
      /\ UNCHANGED <<upd, undo>>
  BY DEF FinishMember, Working
<1>2. FinishOK /\ Distinct(task.req)
  BY <1>1, OtherSetup DEF WorkOK, TaskOK
<1>3. Empty \in Contents /\ Errors \subseteq Statuses
  BY ContentsTypes
<1>4. data \in [Items -> Contents] /\ tmp \in [Items -> Contents] /\ ret \in Statuses
  BY <1>1, OtherSetup DEF StateOK
<1>5. before.data \in [Items -> Contents] /\ before.tmp \in [Items -> Contents]
  BY <1>1, OtherSetup DEF TaskOK
<1>6. CASE /\ tmp' = [tmp EXCEPT ![Member] = Empty]
           /\ data' = (IF task.kind = "cancel" THEN data
                       ELSE [data EXCEPT ![Member] = tmp[Member]])
           /\ NextMember
  <2>1. /\ UNCHANGED <<open, task, before, ret>> /\ at' = at + 1 /\ phase' = "work"
    BY <1>6 DEF NextMember, stepVars
  <2>2. data' \in [Items -> Contents] /\ tmp' \in [Items -> Contents]
    BY <1>1, <1>3, <1>4, <1>6, OtherSetup
  <2>3. tmp[Member] = before.tmp[Member]
    BY <1>1, <1>2, OtherSetup DEF FinishOK
  <2>4. tmp' = [i \in Items |-> IF i \in Members(SubSeq(task.req, 1, at))
                                THEN Empty ELSE before.tmp[i]]
    BY <1>1, <1>2, <1>4, <1>6, OtherSetup DEF FinishOK
  <2>5. data' = IF task.kind = "cancel" THEN before.data
                ELSE [i \in Items |-> IF i \in Members(SubSeq(task.req, 1, at))
                                      THEN before.tmp[i] ELSE before.data[i]]
    <3>1. CASE task.kind = "cancel"
      BY <1>2, <1>6, <3>1 DEF FinishOK
    <3>2. CASE task.kind # "cancel"
      BY <1>1, <1>2, <1>4, <1>6, <2>3, <3>2, OtherSetup DEF FinishOK
    <3> QED
      BY <3>1, <3>2
  <2>6. FinishOK'
    BY <1>1, <1>2, <2>1, <2>4, <2>5, OtherSetup DEF FinishOK
  <2>7. PhaseOK'
    BY <1>1, <2>1, OtherSetup DEF PhaseOK
  <2> QED
    BY <1>1, <1>2, <1>4, <2>1, <2>2, <2>6, <2>7, OtherSetup, OtherKeeps DEF Changes, Begins
<1>7. CASE /\ ret' \in Errors /\ phase' = "end"
           /\ UNCHANGED <<data, tmp, open, at, stepVars>>
  <2>1. UNCHANGED <<data, tmp, open, at, task, before>>
    BY <1>7 DEF stepVars
  <2>2. FinishOK'
    BY <1>1, <1>2, <1>7, <2>1 DEF FinishOK
  <2>3. PhaseOK'
    BY <1>1, <1>7, <2>1, OtherSetup DEF PhaseOK
  <2> QED
    BY <1>1, <1>2, <1>3, <1>4, <1>7, <2>1, <2>2, <2>3, OtherSetup, OtherKeeps
    DEF Changes, Begins
<1> QED
  BY <1>6, <1>7 DEF FinishMember

\* The factory reset does an item.
LEMMA ResetStep ==
    ASSUME IInv, ResetMember
    PROVE  IInv'
<1>1. /\ phase = "work" /\ at <= Len(task.req) /\ task.kind = "reset"
      /\ UNCHANGED <<tmp, upd, undo>>
  BY DEF ResetMember, Working
<1>2. ResetOK /\ task.req = Required
  BY <1>1, OtherSetup DEF WorkOK, TaskOK
<1>3. Empty \in Contents /\ "dataloss" \in Statuses
  BY ContentsTypes DEF Errors
<1>4. data \in [Items -> Contents] /\ tmp \in [Items -> Contents] /\ ret \in Statuses
  BY <1>1, OtherSetup DEF StateOK
<1>5. CASE /\ Member \notin ReadOnly /\ data' = [data EXCEPT ![Member] = Empty]
           /\ NextMember
  <2>1. /\ UNCHANGED <<open, task, before, ret>> /\ at' = at + 1 /\ phase' = "work"
    BY <1>5 DEF NextMember, stepVars
  <2>2. data' \in [Items -> Contents]
    BY <1>1, <1>3, <1>4, <1>5, OtherSetup
  <2>3. ResetOK'
    BY <1>1, <1>2, <1>4, <1>5, <2>1, OtherSetup DEF ResetOK
  <2>4. PhaseOK'
    BY <1>1, <2>1, OtherSetup DEF PhaseOK
  <2> QED
    BY <1>1, <1>2, <1>4, <2>1, <2>2, <2>3, <2>4, OtherSetup, OtherKeeps DEF Changes, Begins
<1>6. CASE UNCHANGED data /\ NextMember
  <2>1. /\ UNCHANGED <<open, task, before, ret>> /\ at' = at + 1 /\ phase' = "work"
    BY <1>6 DEF NextMember, stepVars
  <2>2. ResetOK'
    BY <1>1, <1>2, <1>6, <2>1 DEF ResetOK
  <2>3. PhaseOK'
    BY <1>1, <2>1, OtherSetup DEF PhaseOK
  <2> QED
    BY <1>1, <1>2, <1>4, <1>6, <2>1, <2>2, <2>3, OtherSetup, OtherKeeps DEF Changes, Begins
<1>7. CASE /\ ret' = "dataloss" /\ phase' = "end"
           /\ UNCHANGED <<data, open, at, stepVars>>
  <2>1. UNCHANGED <<data, open, at, task, before>>
    BY <1>7 DEF stepVars
  <2>2. ResetOK'
    BY <1>1, <1>2, <1>7, <2>1 DEF ResetOK
  <2>3. PhaseOK'
    BY <1>1, <1>7, <2>1, OtherSetup DEF PhaseOK, Errors
  <2> QED
    BY <1>1, <1>2, <1>3, <1>4, <1>7, <2>1, <2>2, <2>3, OtherSetup, OtherKeeps
    DEF Changes, Begins
<1> QED
  BY <1>5, <1>6, <1>7 DEF ResetMember

----------------------------------------------------------------------------
(* All steps. *)

\* Every step keeps the invariant.
LEMMA NextIInv ==
    ASSUME IInv, [Next]_vars
    PROVE  IInv'
<1>1. CASE OpenHandle
  BY <1>1, OpenStep
<1>2. ASSUME NEW h \in Handles,
             \/ CloseHandle(h) \/ Refused(h) \/ NothingToDo(h)
             \/ StartSave(h) \/ StartClear(h)
             \/ \E kind \in Begins : StartUpdate(h, kind)
             \/ \E kind \in {"complete", "cancel"} : StartFinish(h, kind)
      PROVE  IInv'
  BY <1>2, CloseStep, IdleStep, StartChangeStep, StartUpdateStep, StartFinishStep
<1>3. CASE StartReset
  BY <1>3, StartResetStep
<1>4. CASE TaskStep
  BY <1>4, ChangeSteps, RevertSteps, BeginSteps, EraseStep, FinishStep, ResetStep, ReturnStep
  DEF TaskStep
<1>5. CASE Restart
  BY <1>5, RestartStep
<1>6. CASE UNCHANGED vars
  <2>1. UNCHANGED <<data, tmp, open, upd, task, phase, at, undo, ret, before>>
    BY <1>6 DEF vars, stepVars
  <2>2. StateOK' /\ DraftsOK' /\ (Running' <=> Running)
    BY <2>1 DEF IInv, StateOK, DraftsOK, Running
  <2>3. ASSUME Running PROVE TaskOK' /\ PhaseOK' /\ WorkOK'
    <3>1. TaskOK' /\ PhaseOK'
      BY <2>1, <2>3 DEF IInv, TaskOK, PhaseOK
    <3>2. Now' = Now /\ Was' = Was /\ Member' = Member
          /\ \A i : Drafted(task.h, i)' <=> Drafted(task.h, i)
      BY <2>1 DEF Now, Was, View, Drafted, Member
    <3>3. ChangeOK => ChangeOK'
      BY <2>1, <3>2 DEF ChangeOK, ElsewhereSame, Written, Recalled, OneDamaged, Whole
    <3>4. (BeginOK => BeginOK') /\ (EraseOK => EraseOK') /\ (FinishOK => FinishOK')
          /\ (ResetOK => ResetOK')
      BY <2>1 DEF BeginOK, EraseOK, FinishOK, ResetOK
    <3> QED
      BY <2>1, <2>3, <3>1, <3>3, <3>4 DEF IInv, WorkOK
  <2> QED
    BY <2>2, <2>3 DEF IInv
<1> QED
  BY <1>1, <1>2, <1>3, <1>4, <1>5, <1>6 DEF Next
(* The invariant holds in every state. *)
THEOREM SpecIInv == Spec => []IInv
<1>1. Init => IInv
  BY InitIInv
<1>2. IInv /\ [Next]_vars => IInv'
  BY NextIInv
<1> QED
  BY <1>1, <1>2, PTL DEF Spec

----------------------------------------------------------------------------
(* OwnAreaOnly, step by step. *)
OwnArea ==
    \A i \in Items :
        /\ data'[i] # data[i] =>
              /\ phase # "idle" /\ i \in Members(task.req)
              /\ task.kind \in Changes => ~Drafted(task.h, i)
              /\ task.kind \in Begins => ~Cancellable
              /\ task.kind # "cancel"
        /\ tmp'[i] # tmp[i] =>
              \/ upd' = [h \in Handles |-> <<>>]
              \/ phase # "idle" /\ i \in Members(task.req)
                 /\ \A h \in Handles : Drafted(h, i) => h = task.h

\* Put reaches the area the handle works in.
LEMMA PutOwns ==
    ASSUME IInv, Running, task.kind \in Changes \cup Begins, at \in 1..Len(task.req),
           NEW v, Put(v)
    PROVE  OwnArea
<1>1. StateOK /\ DraftsOK /\ TaskOK /\ WorkOK
  BY DEF IInv
<1>2. Member \in Items /\ Member \in Members(task.req)
  BY <1>1, MembersType DEF TaskOK, Member
<1>3. task.h \in Handles /\ task.kind # "cancel"
  BY <1>1 DEF TaskOK, Changes, Begins
<1>4. phase # "idle"
  BY DEF Running
<1>5. CASE task.kind \in Begins /\ Cancellable
  <2>1. tmp' = [tmp EXCEPT ![Member] = v] /\ UNCHANGED data
    BY <1>5 DEF Put
  <2>2. \A h \in Handles : Drafted(h, Member) => h = task.h
    BY <1>1, <1>2, <1>5 DEF WorkOK, BeginOK, Drafted
  <2> QED
    BY <1>1, <1>2, <1>4, <2>1, <2>2 DEF OwnArea, StateOK
<1>6. CASE ~(task.kind \in Begins /\ Cancellable) /\ Drafted(task.h, Member)
  <2>1. tmp' = [tmp EXCEPT ![Member] = v] /\ UNCHANGED data
    BY <1>6 DEF Put
  <2>2. \A h \in Handles : Drafted(h, Member) => h = task.h
    BY <1>1, <1>3, <1>6 DEF DraftsOK, Drafted
  <2> QED
    BY <1>1, <1>2, <1>4, <2>1, <2>2 DEF OwnArea, StateOK
<1>7. CASE ~(task.kind \in Begins /\ Cancellable) /\ ~Drafted(task.h, Member)
  <2>1. data' = [data EXCEPT ![Member] = v] /\ UNCHANGED tmp
    BY <1>7 DEF Put
  <2> QED
    BY <1>1, <1>2, <1>3, <1>4, <1>7, <2>1 DEF OwnArea, StateOK, Changes, Begins
<1> QED
  BY <1>5, <1>6, <1>7

\* A step that writes nothing.
LEMMA SameOwns ==
    ASSUME UNCHANGED <<data, tmp>>
    PROVE  OwnArea
  BY DEF OwnArea

\* Where a step may write to a member.
LEMMA WriteAt ==
    ASSUME IInv, \/ phase \in {"work"} /\ at <= Len(task.req)
                 \/ phase \in {"write", "rewrite"}
                 \/ phase = "revert" /\ at >= 1
    PROVE  Running /\ at \in 1..Len(task.req)
<1>1. Running /\ PhaseOK /\ task.req \in Seq(Items)
  BY DEF Running, IInv, TaskOK
<1>2. Len(task.req) \in Nat
  BY <1>1
<1> QED
  BY <1>1, <1>2 DEF PhaseOK

\* The steps of the running call.
LEMMA TaskOwns ==
    ASSUME IInv, TaskStep
    PROVE  OwnArea
<1>1. CASE ChangeRefused \/ ChangeSkipped \/ RevertSkipped \/ BeginRegisters \/ Return
  BY <1>1, SameOwns
  DEF ChangeRefused, ChangeSkipped, RevertSkipped, BeginRegisters, Return
<1>2. CASE ChangeErases \/ ChangeOpens \/ ChangeWritten \/ ChangeFails \/ ChangeInPlace
  <2>1. /\ (phase = "work" /\ at <= Len(task.req)) \/ phase \in {"write", "rewrite"}
        /\ task.kind \in Changes /\ \E v : Put(v)
    BY <1>2 DEF ChangeErases, ChangeOpens, ChangeWritten, ChangeFails, ChangeInPlace,
                Changing, Working
  <2> QED
    BY <2>1, WriteAt, PutOwns
<1>3. CASE RevertErases \/ RevertOpens \/ RevertWritten \/ RevertFails
  <2>1. /\ phase = "rewrite" \/ (phase = "revert" /\ at >= 1)
        /\ UNCHANGED <<data, tmp>> \/ \E v : Put(v)
    BY <1>3 DEF RevertErases, RevertOpens, RevertWritten, RevertFails, Reverting
  <2>2. task.kind \in Changes
    BY <1>3 DEF RevertErases, RevertOpens, RevertWritten, RevertFails, Reverting,
                IInv, PhaseOK, Running
  <2> QED
    BY <2>1, <2>2, WriteAt, PutOwns, SameOwns
<1>4. CASE CopyOpens \/ CopyWritten \/ BeginFails \/ BeginReverts
  <2>1. /\ \/ phase = "work" /\ at <= Len(task.req)
           \/ phase = "write" \/ (phase = "revert" /\ at >= 1)
        /\ UNCHANGED <<data, tmp>> \/ \E v : Put(v)
        /\ task.kind \in Begins
    BY <1>4 DEF CopyOpens, CopyWritten, BeginFails, BeginReverts, Working, Begins
  <2> QED
    BY <2>1, WriteAt, PutOwns, SameOwns
<1>5. CASE BeginErases
  <2>1. /\ phase = "work" /\ at <= Len(task.req) /\ task.kind \in Begins
        /\ UNCHANGED <<data, tmp>> \/ \E v : Put(v)
    BY <1>5 DEF BeginErases, Working, Begins
  <2> QED
    BY <2>1, WriteAt, PutOwns, SameOwns
<1>6. CASE FinishMember
  <2>1. /\ phase = "work" /\ at <= Len(task.req) /\ task.kind \in {"complete", "cancel"}
        /\ \/ UNCHANGED <<data, tmp>>
           \/ /\ tmp' = [tmp EXCEPT ![Member] = Empty]
              /\ data' = (IF task.kind = "cancel" THEN data
                          ELSE [data EXCEPT ![Member] = tmp[Member]])
    BY <1>6 DEF FinishMember, Working
  <2>2. Member \in Items /\ Member \in Members(task.req) /\ Running
    BY <2>1, OtherSetup
  <2>3. upd[task.h] = task.req /\ DraftsOK /\ task.h \in Handles
    BY <2>1, <2>2 DEF IInv, WorkOK, FinishOK, TaskOK
  <2>4. \A h \in Handles : Drafted(h, Member) => h = task.h
    BY <2>2, <2>3 DEF DraftsOK, Drafted
  <2>5. data \in [Items -> Contents] /\ tmp \in [Items -> Contents] /\ phase # "idle"
    BY <2>2 DEF IInv, StateOK, Running
  <2> QED
    BY <2>1, <2>2, <2>4, <2>5, SameOwns DEF OwnArea, Changes, Begins
<1>7. CASE ResetMember
  <2>1. /\ phase = "work" /\ at <= Len(task.req) /\ task.kind = "reset" /\ UNCHANGED tmp
        /\ UNCHANGED data \/ data' = [data EXCEPT ![Member] = Empty]
    BY <1>7 DEF ResetMember, Working
  <2>2. Member \in Items /\ Member \in Members(task.req)
    BY <2>1, OtherSetup
  <2>3. data \in [Items -> Contents]
    BY DEF IInv, StateOK
  <2> QED
    BY <2>1, <2>2, <2>3, SameOwns DEF OwnArea, Changes, Begins
<1> QED
  BY <1>1, <1>2, <1>3, <1>4, <1>5, <1>6, <1>7 DEF TaskStep

(* A handle works in its own area of the items of the running request. *)
THEOREM SpecOwnAreaOnly == Spec => OwnAreaOnly
<1>1. IInv /\ [Next]_vars => [OwnArea]_vars
  <2> SUFFICES ASSUME IInv, Next PROVE OwnArea
    OBVIOUS
  <2>1. CASE TaskStep
    BY <2>1, TaskOwns
  <2>2. CASE Restart
    BY <2>2 DEF Restart, OwnArea
  <2>3. CASE OpenHandle
    BY <2>3, SameOwns DEF OpenHandle
  <2>4. CASE StartReset
    BY <2>4, SameOwns DEF StartReset, Start
  <2>5. ASSUME NEW h \in Handles,
               \/ CloseHandle(h) \/ Refused(h) \/ NothingToDo(h)
               \/ StartSave(h) \/ StartClear(h)
               \/ \E kind \in Begins : StartUpdate(h, kind)
               \/ \E kind \in {"complete", "cancel"} : StartFinish(h, kind)
        PROVE  OwnArea
    BY <2>5, SameOwns DEF CloseHandle, Refused, NothingToDo, StartSave, StartClear,
                          StartUpdate, StartFinish, Start
  <2> QED
    BY <2>1, <2>2, <2>3, <2>4, <2>5 DEF Next
<1> QED
  BY <1>1, SpecIInv, PTL DEF Spec, OwnAreaOnly, OwnArea

\* RollbackRestores, as a formula about a step.
SaveRestores ==
    Returns({"save"}, "error") =>
         Cardinality({i \in Items : <<data[i], tmp[i]>> # <<before.data[i], before.tmp[i]>>}) <= 1

\* The state in which a Save or Clear returns an error.
LEMMA ErrorFacts ==
    ASSUME IInv, Running, task.kind \in Changes, Return, ret = "error"
    PROVE  /\ ElsewhereSame /\ Members(task.req) = {task.req[j] : j \in 1..Len(task.req)}
           /\ Whole => \E k \in 1..Len(task.req) :
                 {i \in Items : data[i] # before.data[i] \/ tmp[i] # before.tmp[i]}
                    \subseteq {task.req[k]}
<1>1. phase = "revert" /\ at = 0
  BY ChangeSetup DEF PhaseOK, ChangeOK, Return
<1>2. ElsewhereSame /\ (Whole => OneDamaged(0))
  BY <1>1, ChangeSetup DEF ChangeOK
<1>3. Members(task.req) = {task.req[j] : j \in 1..Len(task.req)}
  BY DEF Members
<1>4. ASSUME Whole
      PROVE  \E k \in 1..Len(task.req) :
                {i \in Items : data[i] # before.data[i] \/ tmp[i] # before.tmp[i]}
                   \subseteq {task.req[k]}
  <2>1. PICK k \in 1..Len(task.req) :
           \A j \in 1..Len(task.req) : j > 0 /\ j # k => Now[task.req[j]] = Was[task.req[j]]
    BY <1>2, <1>4 DEF OneDamaged
  <2>2. ASSUME NEW i \in Items, data[i] # before.data[i] \/ tmp[i] # before.tmp[i]
        PROVE  i = task.req[k]
    <3>1. i \in Members(task.req) /\ Now[i] # Was[i]
      BY <1>2, <2>2 DEF ElsewhereSame, Now, Was, View
    <3>2. PICK j \in 1..Len(task.req) : i = task.req[j]
      BY <1>3, <3>1
    <3>3. j > 0
      OBVIOUS
    <3> QED
      BY <2>1, <3>1, <3>2, <3>3
  <2> QED
    BY <2>2
<1> QED
  BY <1>2, <1>3, <1>4

(* With whole backups, a Save that reports an error has restored all items it
   had changed but at most one. *)
THEOREM SpecRollbackRestores ==
    ASSUME Whole
    PROVE  Spec => RollbackRestores
<1>1. IInv /\ [Next]_vars => [SaveRestores]_vars
  <2> SUFFICES ASSUME IInv, Next, Returns({"save"}, "error")
               PROVE  Cardinality({i \in Items : <<data[i], tmp[i]>> # <<before.data[i], before.tmp[i]>>}) <= 1
    BY DEF SaveRestores
  <2> DEFINE D == {i \in Items : <<data[i], tmp[i]>> # <<before.data[i], before.tmp[i]>>}
  <2>1. Running /\ task.kind \in Changes /\ Return /\ ret = "error"
    BY DEF Returns, Changes
  <2>2. PICK k \in 1..Len(task.req) :
           {i \in Items : data[i] # before.data[i] \/ tmp[i] # before.tmp[i]} \subseteq {task.req[k]}
    BY <2>1, ErrorFacts
  <2>3. D \subseteq {task.req[k]}
    BY <2>2
  <2>4. IsFiniteSet({task.req[k]}) /\ Cardinality({task.req[k]}) = 1
    BY FS_Singleton
  <2>5. Cardinality(D) <= 1
    BY <2>3, <2>4, FS_Subset
  <2> QED
    BY <2>5
<1> QED
  BY <1>1, SpecIInv, PTL DEF Spec, RollbackRestores, SaveRestores
----------------------------------------------------------------------------
(* The refinement of PsmAtomic: what its variables stand for. *)
aData == IF Running THEN before.data ELSE data
aTmp == IF Running THEN before.tmp ELSE tmp
aRet == IF Running THEN "ok" ELSE ret
aUpd == [h \in Handles |-> IF Running /\ h = task.h THEN before.upd[h] ELSE upd[h]]

\* Set counting is the same in PsmAtomic.
LEMMA AtomicCardinality == \A S : Atomic!Cardinality(S) = Cardinality(S)
  BY DEF Atomic!Cardinality, Cardinality

\* PsmAtomic has the same items, handles and requests.
LEMMA AtomicItems ==
    /\ Atomic!Handles = Handles /\ Atomic!Contents = Contents
    /\ Atomic!Errors = Errors /\ Atomic!Statuses = Statuses
    /\ \A s : Atomic!Members(s) = Members(s)
    /\ Atomic!Requests = Requests
<1>1. /\ Atomic!Handles = Handles /\ Atomic!Contents = Contents
      /\ Atomic!Errors = Errors /\ Atomic!Statuses = Statuses
      /\ \A s : Atomic!Members(s) = Members(s)
  BY DEF Atomic!Handles, Handles, Atomic!Contents, Contents, Atomic!Errors, Errors,
         Atomic!Statuses, Statuses, Atomic!Members, Members
<1>2. \A s : Atomic!Distinct(s) <=> Distinct(s)
  BY DEF Atomic!Distinct, Distinct
<1>3. Atomic!Requests = Requests
  BY <1>2, AtomicCardinality DEF Atomic!Requests, Requests
<1> QED
  BY <1>1, <1>3

\* A step that changes nothing of the promise.
LEMMA AtomicStutter ==
    ASSUME aData' = aData, aTmp' = aTmp, aRet' = aRet, aUpd' = aUpd
    PROVE  UNCHANGED Atomic!avars
  BY DEF Atomic!avars, aData, aTmp, aRet, aUpd

\* A status is all that PsmAtomic sees.
LEMMA AtomicRefuse ==
    ASSUME aData' = aData, aTmp' = aTmp, aRet' \in Statuses, aUpd' = aUpd
    PROVE  Atomic!Next
<1>1. Atomic!Refuse
  BY AtomicItems DEF Atomic!Refuse, aData, aTmp, aRet, aUpd
<1> QED
  BY <1>1 DEF Atomic!Next

\* A step of a handle in PsmAtomic.
LEMMA AtomicOfHandle ==
    ASSUME NEW h \in Handles,
           Atomic!Change(h) \/ Atomic!Begin(h) \/ Atomic!Finish(h) \/ Atomic!Reopen(h)
    PROVE  Atomic!Next
  BY AtomicItems DEF Atomic!Next

\* The first state is one of PsmAtomic.
LEMMA AtomicInit == Init => Atomic!Init
<1> SUFFICES ASSUME Init PROVE Atomic!Init
  OBVIOUS
<1>1. ~Running
  BY DEF Init, Running
<1> QED
  BY <1>1, AtomicItems DEF Init, Atomic!Init, Running
\* What the call does before it returns is not seen.
LEMMA WorkStutters ==
    ASSUME Running, Running', UNCHANGED <<task, before>>,
           \A h \in Handles : h # task.h => upd'[h] = upd[h]
    PROVE  UNCHANGED Atomic!avars
  BY AtomicStutter DEF aData, aTmp, aRet, aUpd

\* What PsmAtomic sees when a call returns.
LEMMA ReturnSeen ==
    ASSUME Running, Return
    PROVE  /\ aData = before.data /\ aTmp = before.tmp
           /\ aUpd = [h \in Handles |-> IF h = task.h THEN before.upd[h] ELSE upd[h]]
           /\ aData' = data /\ aTmp' = tmp /\ aRet' = ret
           /\ aUpd' = [h \in Handles |-> upd'[h]]
<1>1. ~Running' /\ UNCHANGED <<data, tmp, ret>>
  BY DEF Return, Running
<1> QED
  BY <1>1 DEF aData, aTmp, aRet, aUpd

\* Save or Clear returns: one Change.
LEMMA ChangeReturns ==
    ASSUME Whole, IInv, Running, task.kind \in Changes, Return
    PROVE  Atomic!Next
<1> DEFINE h == task.h
           S == Members(task.req)
           Drafts == Members(upd[h])
<1>1. h \in Handles /\ S \in (SUBSET Items) \ {{}}
  <2>1. task.req \in Seq(Items) /\ task.req # <<>> /\ h \in Handles
    BY ChangeSetup DEF TaskOK, Changes
  <2>2. 1 \in 1..Len(task.req)
    BY <2>1
  <2> QED
    BY <2>1, <2>2, MembersType
<1>2. /\ aData = before.data /\ aTmp = before.tmp
      /\ aData' = data /\ aTmp' = tmp /\ aRet' = ret
  BY ReturnSeen
<1>3. aUpd' = aUpd /\ aUpd[h] = upd[h]
  <2>1. upd' = upd
    BY ChangeSetup DEF Return, Changes
  <2>2. before.upd[h] = upd[h]
    BY ChangeSetup DEF ChangeOK
  <2> QED
    BY <1>1, <2>1, <2>2, ReturnSeen
<1>4. \A i : Drafted(h, i) <=> i \in Drafts
  BY DEF Drafted
<1>5. /\ data \in [Items -> Contents] /\ tmp \in [Items -> Contents]
      /\ before.data \in [Items -> Contents] /\ before.tmp \in [Items -> Contents]
      /\ ElsewhereSame
  BY ChangeSetup DEF StateOK, TaskOK, ChangeOK
<1>6. Atomic!Draft(h) = Drafts
  BY <1>3, AtomicItems DEF Atomic!Draft, aUpd
<1> HIDE DEF h, S, Drafts
<1>7. CASE ret = "ok"
  <2>1. phase = "work" /\ at > Len(task.req)
    BY <1>7, ChangeSetup DEF Return, PhaseOK, Errors
  <2>2. \A i \in S : i \notin ReadOnly /\ Now[i] = task.want[i]
    BY <2>1, ChangeSetup DEF ChangeOK, Written, S, Members
  <2>3. \A i \in S : task.want[i] = IF i \in Drafts THEN tmp[i] ELSE data[i]
    BY <1>1, <1>4, <2>2 DEF Now, View, h
  <2>4. data = [i \in Items |-> IF i \in S \ Drafts THEN task.want[i] ELSE before.data[i]]
    BY <1>4, <1>5, <2>3 DEF ElsewhereSame, S, h
  <2>5. tmp = [i \in Items |-> IF i \in S \cap Drafts THEN task.want[i] ELSE before.tmp[i]]
    BY <1>4, <1>5, <2>3 DEF ElsewhereSame, S, h
  <2>6. Atomic!Changed(h, S, task.want)
    BY <1>2, <1>6, <2>4, <2>5 DEF Atomic!Changed, aData, aTmp
  <2>7. task.want \in [S -> Vals \cup {Empty}] /\ S \cap ReadOnly = {}
    BY <2>2, ChangeSetup DEF TaskOK, S
  <2>8. Atomic!Change(h)
    BY <1>1, <1>2, <1>3, <1>7, <2>6, <2>7 DEF Atomic!Change, aRet, aUpd
  <2> QED
    BY <1>1, <2>8, AtomicOfHandle
<1>8. ASSUME NEW n, NEW D \in SUBSET S, Cardinality(D) <= n,
             \A i \in Items : data[i] # before.data[i] \/ tmp[i] # before.tmp[i] => i \in D
      PROVE  Atomic!Damaged(h, S, n)
  <2>1. \A i \in Items : /\ data[i] # before.data[i] => i \in D \ Drafts
                         /\ tmp[i] # before.tmp[i] => i \in D \cap Drafts
    BY <1>4, <1>5, <1>8 DEF ElsewhereSame, h
  <2>2. /\ Atomic!Differing(aData, aData') \subseteq D \ Atomic!Draft(h)
        /\ Atomic!Differing(aTmp, aTmp') \subseteq D \cap Atomic!Draft(h)
    BY <1>2, <1>6, <2>1 DEF Atomic!Differing
  <2> QED
    BY <1>2, <1>5, <1>8, <2>2, AtomicItems, AtomicCardinality DEF Atomic!Damaged, aData, aTmp
<1>9. CASE ret = "error" /\ Whole
  <2>1. PICK k \in 1..Len(task.req) :
           {i \in Items : data[i] # before.data[i] \/ tmp[i] # before.tmp[i]} \subseteq {task.req[k]}
    BY <1>9, ErrorFacts
  <2>2. {task.req[k]} \in SUBSET S /\ Cardinality({task.req[k]}) = 1
    BY FS_Singleton, ChangeSetup DEF S
  <2>3. Atomic!Damaged(h, S, 1)
    BY <1>8, <2>1, <2>2
  <2>4. Atomic!Change(h)
    BY <1>1, <1>2, <1>3, <1>9, <2>3 DEF Atomic!Change, aRet, aUpd
  <2> QED
    BY <1>1, <2>4, AtomicOfHandle
<1>10. CASE ret = "dataloss"
  <2>1. Cardinality(S) \in Nat
    BY <1>1, FS_Subset, FS_CardinalityType, PsmItemsAssumption
  <2>2. \A i \in Items : data[i] # before.data[i] \/ tmp[i] # before.tmp[i] => i \in S
    BY <1>5 DEF ElsewhereSame, S
  <2>3. Atomic!Damaged(h, S, Cardinality(S))
    BY <1>8, <2>1, <2>2
  <2>4. Atomic!Change(h)
    BY <1>1, <1>2, <1>3, <1>10, <2>3, AtomicCardinality DEF Atomic!Change, aRet, aUpd
  <2> QED
    BY <1>1, <2>4, AtomicOfHandle
<1> QED
  BY <1>7, <1>9, <1>10, ChangeSetup DEF StateOK, Statuses, Errors
\* UpdateBegin returns: one Begin.
LEMMA BeginReturns ==
    ASSUME IInv, Running, task.kind \in Begins, Cancellable, Return
    PROVE  Atomic!Next
<1> DEFINE h == task.h
<1>1. /\ h \in Handles /\ task.req \in Requests /\ Len(task.req) <= UpdateMax
      /\ task.req \in Seq(Items) /\ Len(task.req) \in Nat
      /\ data = before.data /\ before.upd[h] = <<>>
      /\ tmp \in [Items -> Contents] /\ upd \in [Handles -> Seq(Items)]
      /\ \A i \in Items : tmp[i] # before.tmp[i] => i \in Members(task.req)
      /\ \A g \in Handles : g # h => Members(task.req) \cap Members(upd[g]) = {}
  BY BeginSetup DEF BeginOK, StateOK, DraftsOK
<1>2. PICK n \in 0..Len(task.req) :
         /\ upd[h] = SubSeq(task.req, 1, n)
         /\ phase \in {"work", "write"} => n = at - 1
  BY BeginSetup DEF BeginOK
<1>3. /\ aData = before.data /\ aTmp = before.tmp
      /\ aData' = data /\ aTmp' = tmp /\ aRet' = ret
      /\ aUpd = [g \in Handles |-> IF g = h THEN <<>> ELSE upd[g]]
      /\ aUpd' = [g \in Handles |-> upd'[g]]
  BY <1>1, ReturnSeen
<1>4. SubSeq(task.req, 1, Len(task.req)) = task.req /\ Members(<<>>) = {}
  BY <1>1, PrefixEnds
<1>5. \/ ret = "ok" /\ aUpd' = [aUpd EXCEPT ![h] = task.req]
      \/ ret = "error" /\ aUpd' = aUpd
      \/ ret = "dataloss" /\ aUpd' = [aUpd EXCEPT ![h] = SubSeq(task.req, 1, n)]
  <2>1. CASE phase = "work" /\ at > Len(task.req)
    <3>1. n = Len(task.req) /\ ret = "ok"
      BY <1>1, <1>2, <2>1, BeginSetup DEF PhaseOK
    <3>2. upd' = upd /\ upd[h] = task.req
      BY <1>2, <1>4, <2>1, <3>1, BeginSetup DEF Return
    <3> QED
      BY <1>1, <1>3, <3>1, <3>2
  <2>2. CASE phase = "revert" /\ at = 0
    <3>1. ret = "error" /\ upd' = [upd EXCEPT ![h] = <<>>]
      BY <2>2, BeginSetup DEF PhaseOK, Return
    <3> QED
      BY <1>1, <1>3, <3>1
  <2>3. CASE phase = "end"
    <3>1. ret = "dataloss" /\ upd' = upd
      BY <2>3, BeginSetup DEF BeginOK, Return
    <3> QED
      BY <1>1, <1>2, <1>3, <3>1
  <2> QED
    BY <2>1, <2>2, <2>3 DEF Return
<1> HIDE DEF h
<1>6. \A i \in Members(task.req), g \in Handles : i \notin Atomic!Draft(g)
  <2>1. \A g \in Handles : Atomic!Draft(g) = Members(aUpd[g])
    BY AtomicItems DEF Atomic!Draft, aUpd
  <2> QED
    BY <1>1, <1>3, <1>4, <2>1
<1>7. aTmp' \in [Items -> Contents] /\ Atomic!Differing(aTmp, aTmp') \subseteq Members(task.req)
  BY <1>1, <1>3 DEF Atomic!Differing
<1>8. aData' = aData /\ aUpd[h] = <<>>
  BY <1>1, <1>3
<1>9. PICK g \in Handles : g = h
  BY <1>1
<1>10. Atomic!Begin(g)
  BY <1>1, <1>2, <1>3, <1>5, <1>6, <1>7, <1>8, <1>9, AtomicItems
  DEF Atomic!Begin, aData, aTmp, aRet, aUpd
<1> QED
  BY <1>10, AtomicOfHandle

\* UpdateBegin without temporary areas returns: one BeginAtOnce.
LEMMA EraseReturns ==
    ASSUME IInv, Running, task.kind \in Begins, ~Cancellable, Return
    PROVE  Atomic!Next
<1>1. /\ TaskOK /\ PhaseOK /\ EraseOK /\ task.req \in Seq(Items) /\ Len(task.req) \in Nat
      /\ upd \in [Handles -> Seq(Items)]
  BY DEF IInv, WorkOK, TaskOK, DraftsOK
<1>2. at - 1 \in 0..Len(task.req)
      /\ ret \in (IF at - 1 = Len(task.req) THEN {"ok"} ELSE Errors)
  BY <1>1 DEF Return, EraseOK, PhaseOK
<1>3. /\ aData = before.data /\ aTmp = before.tmp /\ aData' = data /\ aTmp' = tmp /\ aRet' = ret
      /\ aUpd' = [g \in Handles |-> upd'[g]]
      /\ aUpd = [g \in Handles |-> IF g = task.h THEN before.upd[g] ELSE upd[g]]
  BY ReturnSeen
<1>4. upd' = upd
  BY DEF Return, Begins
<1>5. aUpd' = aUpd /\ aTmp' = aTmp
  BY <1>1, <1>3, <1>4 DEF EraseOK
<1>6. aData' = [i \in Items |-> IF i \in Members(SubSeq(task.req, 1, at - 1))
                                THEN Empty ELSE aData[i]]
  BY <1>1, <1>3 DEF EraseOK
<1>7. task.req \in Requests
  BY <1>1 DEF EraseOK
<1>8. Atomic!BeginAtOnce
  BY <1>2, <1>3, <1>5, <1>6, <1>7, AtomicItems DEF Atomic!BeginAtOnce, aData, aTmp, aRet, aUpd
<1> QED
  BY <1>8 DEF Atomic!Next

\* UpdateComplete or UpdateCancel returns: one Finish.
LEMMA FinishReturns ==
    ASSUME IInv, Running, task.kind \in {"complete", "cancel"}, Return
    PROVE  Atomic!Next
<1> DEFINE h == task.h
<1>1. /\ TaskOK /\ PhaseOK /\ FinishOK /\ task.req \in Seq(Items) /\ Len(task.req) \in Nat
      /\ upd \in [Handles -> Seq(Items)] /\ h \in Handles /\ task.req # <<>>
  BY DEF IInv, WorkOK, TaskOK, DraftsOK
<1>2. at - 1 \in 0..Len(task.req)
      /\ ret \in (IF at - 1 = Len(task.req) THEN {"ok"} ELSE Errors)
  BY <1>1 DEF Return, FinishOK, PhaseOK
<1>3. /\ aData = before.data /\ aTmp = before.tmp /\ aData' = data /\ aTmp' = tmp /\ aRet' = ret
      /\ aUpd' = [g \in Handles |-> upd'[g]]
      /\ aUpd = [g \in Handles |-> IF g = h THEN before.upd[g] ELSE upd[g]]
  BY ReturnSeen
<1>4. upd' = [upd EXCEPT ![h] = <<>>]
  BY DEF Return
<1>5. aUpd[h] = task.req /\ aUpd' = [aUpd EXCEPT ![h] = <<>>]
  BY <1>1, <1>3, <1>4 DEF FinishOK
<1>6. aTmp' = [i \in Items |-> IF i \in Members(SubSeq(task.req, 1, at - 1))
                               THEN Empty ELSE aTmp[i]]
  BY <1>1, <1>3 DEF FinishOK
<1>7. \/ aData' = aData
      \/ aData' = [i \in Items |-> IF i \in Members(SubSeq(task.req, 1, at - 1))
                                   THEN aTmp[i] ELSE aData[i]]
  BY <1>1, <1>3 DEF FinishOK
<1> HIDE DEF h
<1>8. PICK n : n = at - 1
  OBVIOUS
<1>9. PICK g \in Handles : g = h
  BY <1>1
<1>10. /\ n \in 0..Len(aUpd[g]) /\ aUpd[g] # <<>>
       /\ aRet' \in (IF n = Len(aUpd[g]) THEN {"ok"} ELSE Atomic!Errors)
       /\ aTmp' = [i \in Items |-> IF i \in Atomic!Members(SubSeq(aUpd[g], 1, n))
                                   THEN Empty ELSE aTmp[i]]
       /\ \/ aData' = aData
          \/ aData' = [i \in Items |-> IF i \in Atomic!Members(SubSeq(aUpd[g], 1, n))
                                       THEN aTmp[i] ELSE aData[i]]
  BY <1>1, <1>2, <1>3, <1>5, <1>6, <1>7, <1>8, <1>9, AtomicItems
<1>11. Atomic!Finish(g)
  BY <1>5, <1>9, <1>10 DEF Atomic!Finish, aData, aTmp, aRet, aUpd
<1> QED
  BY <1>11, AtomicOfHandle

\* The factory reset returns: one Reset.
LEMMA ResetReturns ==
    ASSUME IInv, Running, task.kind = "reset", Return
    PROVE  Atomic!Next
<1> DEFINE S == {i \in Items : data[i] # before.data[i]}
<1>1. /\ TaskOK /\ PhaseOK /\ ResetOK /\ upd \in [Handles -> Seq(Items)]
      /\ data \in [Items -> Contents] /\ before.data \in [Items -> Contents]
  BY DEF IInv, WorkOK, TaskOK, DraftsOK, StateOK
<1>2. task.h \notin Handles
  BY <1>1, ContentsTypes DEF TaskOK
<1>3. ret \in {"ok", "dataloss"}
  BY <1>1 DEF Return, ResetOK, PhaseOK
<1>4. /\ aData = before.data /\ aTmp = before.tmp /\ aData' = data /\ aTmp' = tmp /\ aRet' = ret
      /\ aUpd' = [g \in Handles |-> upd'[g]]
      /\ aUpd = [g \in Handles |-> IF g = task.h THEN before.upd[g] ELSE upd[g]]
  BY ReturnSeen
<1>5. upd' = upd
  BY DEF Return, Begins
<1>6. aUpd' = aUpd /\ aTmp' = aTmp
  BY <1>1, <1>2, <1>4, <1>5 DEF ResetOK
<1>7. S \in SUBSET (Members(Required) \ ReadOnly)
  BY <1>1 DEF ResetOK
<1>8. aData' = [i \in Items |-> IF i \in S THEN Empty ELSE aData[i]]
  BY <1>1, <1>4 DEF ResetOK
<1> HIDE DEF S
<1>9. Atomic!Reset
  BY <1>3, <1>4, <1>6, <1>7, <1>8, AtomicItems DEF Atomic!Reset, aData, aTmp, aRet, aUpd
<1> QED
  BY <1>9 DEF Atomic!Next

\* A call that begins is not seen.
LEMMA StartRefuses ==
    ASSUME NEW kind, NEW h, NEW req, NEW want, Start(kind, h, req, want)
    PROVE  Atomic!Next
<1>1. ~Running /\ Running' /\ task'.h = h /\ UNCHANGED upd
      /\ before'.data = data /\ before'.tmp = tmp /\ before'.upd = upd
  BY DEF Start, Running, Snapshot
<1>2. aData' = aData /\ aTmp' = aTmp /\ aUpd' = aUpd /\ aRet' = "ok"
  BY <1>1 DEF aData, aTmp, aUpd, aRet
<1> QED
  BY <1>2, AtomicRefuse, ContentsTypes

\* Open: Reopen, whatever call is running.
LEMMA OpenReopens ==
    ASSUME IInv, OpenHandle
    PROVE  Atomic!Next
<1>1. PICK h \in FreeHandles : upd' = [upd EXCEPT ![h] = <<>>]
  BY DEF OpenHandle
<1>2. h \in Handles /\ ~open[h] /\ upd \in [Handles -> Seq(Items)]
  BY DEF FreeHandles, IInv, DraftsOK
<1>3. UNCHANGED <<data, tmp, task, before, phase, ret>>
  BY DEF OpenHandle, stepVars
<1>4. Running => h # task.h
  BY <1>2, ContentsTypes DEF IInv, TaskOK
<1>5. aData' = aData /\ aTmp' = aTmp /\ aRet' = aRet
  BY <1>3 DEF aData, aTmp, aRet, Running
<1>6. aUpd' = [aUpd EXCEPT ![h] = <<>>]
  BY <1>1, <1>2, <1>3, <1>4 DEF aUpd, Running
<1>7. Atomic!Reopen(h)
  BY <1>5, <1>6 DEF Atomic!Reopen, aData, aTmp, aRet, aUpd
<1> QED
  BY <1>2, <1>7, AtomicOfHandle

\* A restart is one, in the middle of a call as well.
LEMMA RestartRestarts ==
    ASSUME IInv, Restart
    PROVE  Atomic!Next
<1>1. ~Running' /\ data' \in [Items -> Contents] /\ tmp' = [i \in Items |-> Empty]
      /\ upd' = [h \in Handles |-> <<>>] /\ ret' = "ok"
  BY DEF Restart, Running, IInv, StateOK
<1>2. aData' = data' /\ aTmp' = tmp' /\ aRet' = "ok" /\ aUpd' = [h \in Handles |-> <<>>]
  BY <1>1 DEF aData, aTmp, aRet, aUpd
<1>3. Atomic!Restart
  BY <1>1, <1>2, AtomicItems DEF Atomic!Restart, aData, aTmp, aRet, aUpd
<1> QED
  BY <1>3 DEF Atomic!Next

\* The steps of the running call are no step of PsmAtomic, but its return.
LEMMA TaskRefines ==
    ASSUME Whole, IInv, TaskStep
    PROVE  Atomic!Next \/ UNCHANGED Atomic!avars
<1>1. Running
  BY DEF TaskStep, Running, Return, Changing, Working, Reverting,
         ChangeRefused, ChangeSkipped, ChangeErases, ChangeOpens, ChangeWritten, ChangeFails,
         ChangeInPlace, RevertSkipped, RevertErases, RevertOpens, RevertWritten, RevertFails,
         BeginRegisters, CopyOpens, CopyWritten, BeginFails, BeginReverts,
         BeginErases, FinishMember, ResetMember
<1>2. CASE Return
  <2>1. task.kind \in Kinds
    BY <1>1 DEF IInv, TaskOK
  <2>2. task.kind \in Changes \cup Begins \cup {"complete", "cancel", "reset"}
    BY <2>1 DEF Kinds, Changes, Begins
  <2> QED
    BY <1>1, <1>2, <2>2, ChangeReturns, BeginReturns, EraseReturns, FinishReturns, ResetReturns
<1>3. CASE ~Return
  <2>1. phase' # "idle" /\ UNCHANGED <<task, before>>
    <3>1. CASE \/ ChangeRefused \/ ChangeSkipped \/ ChangeErases \/ ChangeOpens
               \/ ChangeWritten \/ ChangeFails \/ ChangeInPlace
      BY <3>1 DEF ChangeRefused, ChangeSkipped, ChangeErases, ChangeOpens, ChangeWritten,
                  ChangeFails, ChangeInPlace, Fail, NextMember, stepVars
    <3>2. CASE RevertSkipped \/ RevertErases \/ RevertOpens \/ RevertWritten \/ RevertFails
      BY <3>2 DEF RevertSkipped, RevertErases, RevertOpens, RevertWritten, RevertFails,
                  PrevMember, Lost, stepVars
    <3>3. CASE BeginRegisters \/ CopyOpens \/ CopyWritten \/ BeginFails \/ BeginReverts
      BY <3>3 DEF BeginRegisters, CopyOpens, CopyWritten, BeginFails, BeginReverts,
                  Fail, NextMember, PrevMember, stepVars
    <3>4. CASE BeginErases \/ FinishMember \/ ResetMember
      BY <3>4 DEF BeginErases, FinishMember, ResetMember, NextMember, stepVars
    <3> QED
      BY <1>3, <3>1, <3>2, <3>3, <3>4 DEF TaskStep
  <2>2. upd' = upd \/ Register \/ upd' = [upd EXCEPT ![task.h] = <<>>]
    BY <1>3 DEF TaskStep,
         ChangeRefused, ChangeSkipped, ChangeErases, ChangeOpens, ChangeWritten, ChangeFails,
         ChangeInPlace, RevertSkipped, RevertErases, RevertOpens, RevertWritten, RevertFails,
         BeginRegisters, CopyOpens, CopyWritten, BeginFails, BeginReverts,
         BeginErases, FinishMember, ResetMember, PrevMember, Lost
  <2>3. upd \in [Handles -> Seq(Items)]
    BY DEF IInv, DraftsOK
  <2>4. \A h \in Handles : h # task.h => upd'[h] = upd[h]
    BY <2>2, <2>3 DEF Register
  <2> QED
    BY <1>1, <2>1, <2>4, WorkStutters DEF Running
<1> QED
  BY <1>2, <1>3

\* Every step is a step of PsmAtomic or none.
LEMMA NextRefines ==
    ASSUME Whole, IInv, [Next]_vars
    PROVE  Atomic!Next \/ UNCHANGED Atomic!avars
<1>1. CASE OpenHandle
  BY <1>1, OpenReopens
<1>2. ASSUME NEW h \in Handles, CloseHandle(h)
      PROVE  UNCHANGED Atomic!avars
  <2>1. UNCHANGED <<data, tmp, upd, task, before, phase, ret>>
    BY <1>2 DEF CloseHandle, stepVars
  <2> QED
    BY <2>1, AtomicStutter DEF aData, aTmp, aRet, aUpd, Running
<1>3. ASSUME NEW h \in Handles, Refused(h) \/ NothingToDo(h)
      PROVE  Atomic!Next
  <2>1. UNCHANGED <<data, tmp, upd, task, before, phase>> /\ ~Running /\ ret' \in Statuses
    BY <1>3, ContentsTypes DEF Refused, NothingToDo, stepVars, Running
  <2>2. aData' = aData /\ aTmp' = aTmp /\ aUpd' = aUpd /\ aRet' \in Statuses
    BY <2>1 DEF aData, aTmp, aRet, aUpd, Running
  <2> QED
    BY <2>2, AtomicRefuse
<1>4. ASSUME NEW h \in Handles,
             \/ StartSave(h) \/ StartClear(h)
             \/ \E kind \in Begins : StartUpdate(h, kind)
             \/ \E kind \in {"complete", "cancel"} : StartFinish(h, kind)
      PROVE  Atomic!Next
  BY <1>4, StartRefuses DEF StartSave, StartClear, StartUpdate, StartFinish
<1>5. CASE StartReset
  BY <1>5, StartRefuses DEF StartReset
<1>6. CASE TaskStep
  BY <1>6, TaskRefines
<1>7. CASE Restart
  BY <1>7, RestartRestarts
<1>8. CASE UNCHANGED vars
  <2>1. UNCHANGED <<data, tmp, upd, task, before, phase, ret>>
    BY <1>8 DEF vars, stepVars
  <2> QED
    BY <2>1, AtomicStutter DEF aData, aTmp, aRet, aUpd, Running
<1> QED
  BY <1>1, <1>2, <1>3, <1>4, <1>5, <1>6, <1>7, <1>8 DEF Next

(* With whole backups, every call is one step of PsmAtomic, whatever fails and
   whenever the device restarts. *)
THEOREM SpecAtomicSpec ==
    ASSUME Whole
    PROVE  Spec => AtomicSpec
<1>1. IInv /\ [Next]_vars => [Atomic!Next]_(Atomic!avars)
  BY NextRefines
<1> QED
  BY <1>1, AtomicInit, SpecIInv, PTL DEF Spec, AtomicSpec, Atomic!Spec
=============================================================================
