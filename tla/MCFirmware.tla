----------------------------- MODULE MCFirmware -----------------------------
(***************************************************************************)
(* The Firmware Manager and the Memory Manager, whose buffers it uses, on  *)
(* a device whose memory cannot be mapped.  They share no variable: a      *)
(* behaviour is one of the part in focus.                                  *)
(***************************************************************************)
EXTENDS FirmwareManager

CONSTANTS Tasks, Ids, Offsets, AreaSize, Sizes, Positions, MaxHeapFails

ASSUME MemoryAssumption ==
  Offsets \subseteq Nat /\ Sizes \subseteq Nat /\ Positions \subseteq Nat

VARIABLES focus, minit, entries, access, position, disturbed, misplaced, dangling, heapFails

Memory == INSTANCE MemoryManager WITH Targets <- Positions

memoryVars ==
  <<minit, entries, access, position, disturbed, misplaced, dangling, heapFails>>

BothInit == focus \in {"firmware", "memory"} /\ Init /\ Memory!Init

Only(part) == focus = part /\ UNCHANGED focus

BothNext ==
  \/ Only("firmware") /\ Next /\ UNCHANGED memoryVars
  \/ Only("memory") /\ Memory!Next /\ UNCHANGED vars

BothSpec == BothInit /\ [][BothNext]_<<focus, vars, memoryVars>>

(* A handle used alone is where it should be, and memory that was given    *)
(* back is not in use (memory_manager.c).                                  *)
AloneIsInPlace == Memory!AloneIsInPlace
FreedIsUnused == Memory!FreedIsUnused

\* Images with a header of either version, and without one.
GoodImages == {<<"head", "v1", "body">>, <<"head", "v2", "body">>, <<"body", "body">>}
=============================================================================
