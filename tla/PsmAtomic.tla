----------------------------- MODULE PsmAtomic -----------------------------
(***************************************************************************)
(* What the Parameter Storage Manager promises its callers: every call is  *)
(* one step on the stored items, with one of three outcomes.               *)
(*                                                                         *)
(*   ok        the change was made, to every member of the request         *)
(*   error     the change was not made: all members have their old value,  *)
(*             but the one whose write failed may be damaged               *)
(*   dataloss  nothing is promised of the members of the request           *)
(*                                                                         *)
(* Items that are not in the request never change, and during an update    *)
(* the actual data of an item only changes when the update completes.      *)
(***************************************************************************)
EXTENDS PsmItems

VARIABLES
    data,       \* data[i]: what is stored for item i
    tmp,        \* tmp[i]: what an update has prepared for item i
    upd,        \* upd[h]: the items handle h updates, in order
    ret         \* the status of the last call

avars == <<data, tmp, upd, ret>>

Init ==
    /\ data \in [Items -> {Empty}] /\ tmp = [i \in Items |-> Empty]
    /\ upd = [h \in Handles |-> <<>>]
    /\ ret = "ok"

Draft(h) == Members(upd[h])

\* The items whose content differs between two areas.
Differing(a, b) == {i \in Items : a[i] # b[i]}

\* The areas reached by a change of S made through handle h.
Changed(h, S, want) ==
    /\ data' = [i \in Items |-> IF i \in S \ Draft(h) THEN want[i] ELSE data[i]]
    /\ tmp' = [i \in Items |-> IF i \in S \cap Draft(h) THEN want[i] ELSE tmp[i]]

\* At most n members of S are damaged, the others have their old value.
Damaged(h, S, n) ==
    /\ data' \in [Items -> Contents] /\ tmp' \in [Items -> Contents]
    /\ \E D \in SUBSET S :
          /\ Cardinality(D) <= n
          /\ Differing(data, data') \subseteq D \ Draft(h)
          /\ Differing(tmp, tmp') \subseteq D \cap Draft(h)

Change(h) ==
    /\ \E S \in (SUBSET Items) \ {{}} :
          \/ /\ ret' = "ok"
             /\ S \cap ReadOnly = {}
             /\ \E want \in [S -> Vals \cup {Empty}] : Changed(h, S, want)
          \/ ret' = "error" /\ Damaged(h, S, 1)
          \/ ret' = "dataloss" /\ Damaged(h, S, Cardinality(S))
    /\ UNCHANGED upd

\* UpdateBegin reserves items no other handle updates.
Begin(h) ==
    /\ Cancellable /\ upd[h] = <<>>
    /\ \E req \in Requests :
          /\ Len(req) <= UpdateMax
          /\ \A i \in Members(req), g \in Handles : i \notin Draft(g)
          /\ tmp' \in [Items -> Contents] /\ Differing(tmp, tmp') \subseteq Members(req)
          /\ \/ ret' = "ok" /\ upd' = [upd EXCEPT ![h] = req]
             \/ ret' = "error" /\ UNCHANGED upd
             \/ ret' = "dataloss" /\ \E n \in 0 .. Len(req) :
                   upd' = [upd EXCEPT ![h] = SubSeq(req, 1, n)]
    /\ UNCHANGED data

\* Without temporary areas, UpdateBegin deletes the items at once, in order.
BeginAtOnce ==
    /\ ~Cancellable
    /\ \E req \in Requests : \E n \in 0 .. Len(req) :
          /\ data' = [i \in Items |-> IF i \in Members(SubSeq(req, 1, n)) THEN Empty ELSE data[i]]
          /\ ret' \in (IF n = Len(req) THEN {"ok"} ELSE Errors)
    /\ UNCHANGED <<tmp, upd>>

\* UpdateComplete and UpdateCancel: all the items, or those before the one
\* that failed.  The update is over in any case.
Finish(h) ==
    /\ upd[h] # <<>>
    /\ upd' = [upd EXCEPT ![h] = <<>>]
    /\ \E n \in 0 .. Len(upd[h]) :
          LET S == Members(SubSeq(upd[h], 1, n)) IN
          /\ ret' \in (IF n = Len(upd[h]) THEN {"ok"} ELSE Errors)
          /\ tmp' = [i \in Items |-> IF i \in S THEN Empty ELSE tmp[i]]
          /\ \/ UNCHANGED data
             \/ data' = [i \in Items |-> IF i \in S THEN tmp[i] ELSE data[i]]

\* InvokeFactoryReset deletes required items of the actual data.
Reset ==
    /\ \E S \in SUBSET (Members(Required) \ ReadOnly) :
          data' = [i \in Items |-> IF i \in S THEN Empty ELSE data[i]]
    /\ ret' \in {"ok", "dataloss"}
    /\ UNCHANGED <<tmp, upd>>

\* A call begins, fails before it touches the storage, or has nothing to do.
Refuse == ret' \in Statuses /\ UNCHANGED <<data, tmp, upd>>

\* A handle is given out again, without the update it was closed with.
Reopen(h) == upd' = [upd EXCEPT ![h] = <<>>] /\ UNCHANGED <<data, tmp, ret>>

\* A restart ends all updates; it may interrupt a call halfway.
Restart ==
    /\ data' \in [Items -> Contents]
    /\ tmp' = [i \in Items |-> Empty]
    /\ upd' = [h \in Handles |-> <<>>]
    /\ ret' = "ok"

Next ==
    \/ \E h \in Handles : Change(h) \/ Begin(h) \/ Finish(h) \/ Reopen(h)
    \/ BeginAtOnce \/ Reset \/ Refuse \/ Restart

Spec == Init /\ [][Next]_avars
=============================================================================
