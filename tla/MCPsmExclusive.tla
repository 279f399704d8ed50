--------------------------- MODULE MCPsmExclusive ---------------------------
(***************************************************************************)
(* Two instances of PsmExclusive that share no variable; a behaviour is    *)
(* one of the instance in focus.  In the first nobody calls Init or Deinit *)
(* and everything else happens; in the second, smaller one, Init and       *)
(* Deinit happen too, so that every kind of wait does, and the threads are *)
(* scheduled fairly.                                                       *)
(***************************************************************************)
EXTENDS PsmExclusive

CONSTANTS LiveCount, LiveHandles, LiveSlots, LiveCalls,
          Lockers   \* the threads that call Lock in the first instance

VARIABLES
  focus,
  lcount, lown, lwaiting, lpc, lop, larg, lsection, lcalls, linited, lvalid,
  lref, lslot, lcb

liveVars ==
  <<lcount, lown, lwaiting, lpc, lop, larg, lsection, lcalls, linited, lvalid,
    lref, lslot, lcb>>

\* The calls of a thread in either instance.
AnyOps == [t \in Threads |->
             EntryOps \cup {"reset"} \cup (IF t \in Lockers THEN {"lock"} ELSE {})]
BusyOps == [t \in Threads |-> Ops]

Live == INSTANCE PsmExclusive
  WITH MaxCount <- LiveCount, HandleMax <- LiveHandles, SlotMax <- LiveSlots,
       MaxCalls <- LiveCalls, ThreadOps <- BusyOps,
       count <- lcount, own <- lown, waiting <- lwaiting, pc <- lpc, op <- lop,
       arg <- larg, section <- lsection, calls <- lcalls, inited <- linited,
       valid <- lvalid, ref <- lref, slot <- lslot, cb <- lcb

BothInit == focus \in {"steady", "live"} /\ Init /\ Live!Init

Only(part) == focus = part /\ UNCHANGED focus

BothNext ==
  \/ Only("steady") /\ Next /\ UNCHANGED liveVars
  \/ Only("live") /\ Live!Next /\ UNCHANGED vars

\* Live!Fairness, of the behaviours in which it is in focus.
BothSpec ==
  /\ BothInit /\ [][BothNext]_<<focus, vars, liveVars>>
  /\ \A t \in Threads : WF_liveVars(focus = "live" /\ Live!ThreadStep(t))

(* Every call returns, whatever the order of the waits
   (parameter_storage_manager_mutex.c). *)
EveryThreadReturns == Live!EveryCallReturns

=============================================================================
