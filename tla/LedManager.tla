----------------------------- MODULE LedManager -----------------------------
(***************************************************************************)
(* The LED manager (led_manager.c, led_manager_internal.c) over the LED    *)
(* driver (pl_led.c): the manager keeps which statuses of each LED are     *)
(* enabled and starts the sequence of the first one of its table; a timer  *)
(* of 50 ms steps the sequences.                                           *)
(*                                                                         *)
(* A call of the manager holds its mutex from the first step to the last;  *)
(* one that times out on it changes nothing.  A call of the driver holds   *)
(* s_mutex_ctrlinfo while it works on a LED, like the timer callback, so   *)
(* it is one step here.                                                    *)
(***************************************************************************)
EXTENDS Integers, Sequences, FiniteSets

CONSTANTS Leds,       \* kEsfLedManagerTargetLedNum
          MaxHwFails  \* bound: how often the hardware refuses

(* kLedControlTable: the statuses of a LED by priority, and what each      *)
(* shows: a constant light, or one that blinks.                            *)
ControlTable == <<[state |-> "Error", seq |-> <<"red", "off">>],
                  [state |-> "Connected", seq |-> <<"green">>]>>
Statuses == {ControlTable[i].state : i \in 1..Len(ControlTable)}
Dark == <<>>

VARIABLES manager,    \* led_manager_status: "Uninit" or "Idle"
          statuses,   \* led_status: the enabled statuses of each LED
          running,    \* led_enabled: the LEDs with a sequence
          keep,       \* led_keep_enabled
          task,       \* the call that holds the mutex of the manager
          sure,       \* the last call that worked on the LEDs succeeded
          driver,     \* s_is_initialized of pl_led
          ledState,   \* s_ctrl_info[].state: "Stop" or "StartSeq"
          seq,        \* s_ctrl_info[].seq
          seqNo,      \* s_ctrl_info[].seq_no
          waiting,    \* s_ctrl_info[].waiting_interval
          light,      \* what the hardware shows
          tick,       \* the timer: "none", "wait" or "callback"
          hwFails

ctrlVars == <<ledState, seq, seqNo, waiting, light>>
managerVars == <<manager, statuses, running, keep, task, sure>>
vars == <<managerVars, driver, ctrlVars, tick, hwFails>>

NoTask == [op |-> "none"]
Each(v) == [l \in Leds |-> v]

Init ==
  /\ manager = "Uninit" /\ statuses = Each({}) /\ running = {} /\ keep = {}
  /\ task = NoTask /\ sure = TRUE /\ driver = FALSE
  /\ ledState = Each("Stop") /\ seq = Each(Dark) /\ seqNo = Each(1)
  /\ waiting = Each(FALSE) /\ light = Each("off")
  /\ tick = "none" /\ hwFails = 0

(* EsfLedManagerGetLedLightingInfo for one LED.                            *)
Wanted(enabled) ==
  LET rows == {i \in 1..Len(ControlTable) : ControlTable[i].state \in enabled}
  IN IF rows = {} THEN Dark
     ELSE ControlTable[CHOOSE i \in rows : \A j \in rows : i <= j].seq

HwFails == hwFails < MaxHwFails /\ hwFails' = hwFails + 1
HwWorks == UNCHANGED hwFails

(***************************************************************************)
(* The driver.  ExecuteSeq shows the current colour unless it is shown     *)
(* already; a LED that refuses is tried again at the next tick.            *)
(***************************************************************************)
Show(l, color) ==
  \/ HwWorks /\ light' = [light EXCEPT ![l] = color]
             /\ waiting' = [waiting EXCEPT ![l] = TRUE]
  \/ HwFails /\ UNCHANGED light /\ waiting' = [waiting EXCEPT ![l] = FALSE]

ExecuteSeq(l, s, n) == Show(l, s[n])

RegisterSeq(l, s) ==
  /\ seq' = [seq EXCEPT ![l] = s] /\ seqNo' = [seqNo EXCEPT ![l] = 1]
  /\ ExecuteSeq(l, s, 1)

UnregisterSeq(l) ==
  /\ seq' = [seq EXCEPT ![l] = Dark] /\ seqNo' = [seqNo EXCEPT ![l] = 1]
  /\ waiting' = [waiting EXCEPT ![l] = FALSE]

\* A sequence may replace one; a LED lit in another way may not have one.
IsValidStartSeqParam(l, s) == s # Dark /\ ledState[l] \in {"Stop", "StartSeq"}

PlLedStartSeq(l, s) ==
  /\ driver /\ IsValidStartSeqParam(l, s)
  /\ ledState' = [ledState EXCEPT ![l] = "StartSeq"]
  /\ RegisterSeq(l, s)

(* PlLedStopSeq, when the LED does not go off: the sequence is gone, the   *)
(* state stays, so that the stop can be repeated.                          *)
PlLedStopSeq(l, ok) ==
  /\ driver /\ ledState[l] = "StartSeq"
  /\ UnregisterSeq(l)
  /\ IF ok
       THEN /\ ledState' = [ledState EXCEPT ![l] = "Stop"]
            /\ light' = [light EXCEPT ![l] = "off"] /\ HwWorks
       ELSE HwFails /\ UNCHANGED <<ledState, light>>

(***************************************************************************)
(* TimerCallback: it waits for the mutex of the control information, then  *)
(* steps every sequence whose interval is over.  Which are over is open.   *)
(* PlLedFinalize stops the timer first, so that no callback starts then.   *)
(***************************************************************************)
Finalizing == task.op = "stop" /\ task.todo = {}

Tick ==
  /\ tick = "wait" /\ tick' = "callback" /\ ~Finalizing
  /\ UNCHANGED <<managerVars, driver, ctrlVars, hwFails>>

Active == {l \in Leds : ledState[l] # "Stop" /\ seq[l] # Dark}
NextNo(l) == IF seqNo[l] < Len(seq[l]) THEN seqNo[l] + 1 ELSE 1

TimerCallback ==
  /\ tick = "callback" /\ tick' = "wait"
  /\ IF Active = {} THEN UNCHANGED <<ctrlVars, hwFails>>
     ELSE \E over \in SUBSET {l \in Active : waiting[l] /\ Len(seq[l]) > 1} :
            LET no(l) == IF l \in over THEN NextNo(l) ELSE seqNo[l]
                due == over \cup {l \in Active : ~waiting[l]}
            IN /\ seqNo' = [l \in Leds |-> no(l)]
               /\ \E refused \in SUBSET due :
                    /\ IF refused = {} THEN HwWorks ELSE HwFails
                    /\ light' = [l \in Leds |-> IF l \in due \ refused
                                                THEN seq[l][no(l)] ELSE light[l]]
                    /\ waiting' = [l \in Leds |-> IF l \in due
                                                  THEN l \notin refused ELSE waiting[l]]
  /\ UNCHANGED <<managerVars, driver, ledState, seq>>

(* LedCtrlInfoInit, and PlLedInitialize around it: what fails after the    *)
(* hardware is taken back, but not the sequences, which are fresh already. *)
LedCtrlInfoInit ==
  /\ ledState' = Each("Stop") /\ seq' = Each(Dark) /\ seqNo' = Each(1)
  /\ waiting' = Each(FALSE)

PlLedInitialize(ok) ==
  /\ ~driver
  /\ LedCtrlInfoInit
  /\ IF ok THEN driver' = TRUE /\ tick' = "wait" /\ HwWorks
           ELSE HwFails /\ UNCHANGED <<driver, tick>>

(***************************************************************************)
(* The manager.  EsfLedManagerInit: when the driver cannot start, the      *)
(* status stays Uninit and the call can be repeated.                       *)
(***************************************************************************)
InitResource == statuses' = Each({}) /\ running' = {} /\ keep' = {}

EsfLedManagerInit ==
  /\ manager = "Uninit" /\ task = NoTask
  /\ InitResource /\ sure' = TRUE
  /\ \/ PlLedInitialize(TRUE) /\ manager' = "Idle"
     \/ PlLedInitialize(FALSE) /\ UNCHANGED manager
  /\ UNCHANGED <<task, light>>

(* EsfLedManagerSetStatus: a status that has the value already is left     *)
(* alone.  EsfLedManagerSetLightingPersistence: the end of it applies what *)
(* was set meanwhile; its start only marks the LED.                        *)
SetStatus(l, s) ==
  /\ manager = "Idle" /\ task = NoTask
  /\ LET new == IF s \in statuses[l] THEN statuses[l] \ {s} ELSE statuses[l] \cup {s}
     IN task' = [op |-> "light", todo |-> Leds, new |-> [statuses EXCEPT ![l] = new]]
  /\ sure' = FALSE
  /\ UNCHANGED <<manager, statuses, running, keep, driver, ctrlVars, tick, hwFails>>

SetLightingPersistence(l) ==
  /\ manager = "Idle" /\ task = NoTask
  /\ IF l \in keep
       THEN /\ keep' = keep \ {l} /\ sure' = FALSE
            /\ task' = [op |-> "light", todo |-> Leds, new |-> statuses]
       ELSE keep' = keep \cup {l} /\ UNCHANGED <<task, sure>>
  /\ UNCHANGED <<manager, statuses, running, driver, ctrlVars, tick, hwFails>>

LightingSkipping(l) ==  \* a mutant: a LED that is dark is not started again
  /\ task.op = "light" /\ l \in task.todo
  /\ LET wanted == Wanted(task.new[l])
         done == task' = [task EXCEPT !.todo = @ \ {l}]
     IN \/ (l \in keep \/ l \in running) /\ done
           /\ UNCHANGED <<running, ctrlVars, hwFails>>
        \/ /\ l \notin keep \cup running /\ wanted = Dark /\ done
           /\ UNCHANGED <<running, ctrlVars, hwFails>>
        \/ /\ l \notin keep \cup running /\ wanted # Dark
           /\ PlLedStartSeq(l, wanted) /\ done /\ running' = running \cup {l}
  /\ UNCHANGED <<manager, statuses, keep, sure, driver, tick>>

(* EsfLedManagerLedLighting, one LED a step, in the order of their         *)
(* numbers (any order here): the first LED that refuses ends the call, and *)
(* the statuses are as before it.                                          *)
Lighting(l) ==
  /\ task.op = "light" /\ l \in task.todo
  /\ LET wanted == Wanted(task.new[l])
         done == task' = [task EXCEPT !.todo = @ \ {l}]
     IN \/ l \in keep /\ done /\ UNCHANGED <<running, ctrlVars, hwFails>>
        \/ /\ l \notin keep /\ wanted = Dark /\ l \notin running /\ done
           /\ UNCHANGED <<running, ctrlVars, hwFails>>
        \/ /\ l \notin keep /\ wanted = Dark /\ l \in running
           /\ \/ PlLedStopSeq(l, TRUE) /\ done /\ running' = running \ {l}
              \/ PlLedStopSeq(l, FALSE) /\ task' = NoTask /\ UNCHANGED running
        \/ /\ l \notin keep /\ wanted # Dark
           /\ \/ PlLedStartSeq(l, wanted) /\ done /\ running' = running \cup {l}
              \/ HwFails /\ task' = NoTask /\ UNCHANGED <<running, ctrlVars>>
  /\ UNCHANGED <<manager, statuses, keep, sure, driver, tick>>

LightingDone ==
  /\ task.op = "light" /\ task.todo = {}
  /\ statuses' = task.new /\ sure' = TRUE /\ task' = NoTask
  /\ UNCHANGED <<manager, running, keep, driver, ctrlVars, tick, hwFails>>

(***************************************************************************)
(* EsfLedManagerDeinit: every LED is stopped, the first that refuses ends  *)
(* the call; then PlLedFinalize stops the timer, which waits for a         *)
(* callback, before it takes the mutex that the callback needs.            *)
(***************************************************************************)
Deinit ==
  /\ manager = "Idle" /\ task = NoTask
  /\ task' = [op |-> "stop", todo |-> running] /\ sure' = FALSE
  /\ UNCHANGED <<manager, statuses, running, keep, driver, ctrlVars, tick, hwFails>>

LedStop(l) ==
  /\ task.op = "stop" /\ l \in task.todo
  /\ \/ /\ PlLedStopSeq(l, TRUE) /\ running' = running \ {l}
        /\ task' = [task EXCEPT !.todo = @ \ {l}]
     \/ PlLedStopSeq(l, FALSE) /\ task' = NoTask /\ UNCHANGED running
  /\ UNCHANGED <<manager, statuses, keep, sure, driver, tick>>

PlLedFinalize ==
  /\ Finalizing /\ driver
  /\ tick = "wait" /\ tick' = "none"
  /\ ledState' = Each("Stop") /\ seq' = Each(Dark)
  /\ driver' = FALSE
  /\ \/ manager' = "Uninit" /\ HwWorks
     \/ HwFails /\ UNCHANGED manager  \* PlLedHwFinalize: the manager stays Idle
  /\ task' = NoTask
  /\ UNCHANGED <<statuses, running, keep, sure, seqNo, waiting, light>>

(* The driver is gone and the manager Idle: every call fails.              *)
Stuck ==
  /\ manager = "Idle" /\ ~driver /\ task # NoTask /\ task' = NoTask
  /\ UNCHANGED <<manager, statuses, running, keep, sure, driver, ctrlVars, tick,
                 hwFails>>

Call ==
  \/ EsfLedManagerInit \/ Deinit
  \/ \E l \in Leds : SetLightingPersistence(l) \/ \E s \in Statuses : SetStatus(l, s)
CallGoesOn ==
  \/ \E l \in Leds : Lighting(l) \/ LedStop(l)
  \/ LightingDone \/ PlLedFinalize \/ Stuck
Timer == Tick \/ TimerCallback
Next == Call \/ CallGoesOn \/ Timer

Spec == Init /\ [][Next]_vars

(***************************************************************************)
(* Properties                                                              *)
(***************************************************************************)

(* After a call that worked on the LEDs and succeeded, every LED that is   *)
(* not kept plays the sequence of its first enabled status, whatever       *)
(* failed before and what was set while it was kept.                       *)
LedPlaysItsStatus ==
  (manager = "Idle" /\ task = NoTask /\ sure) =>
    \A l \in Leds \ keep : seq[l] = Wanted(statuses[l])

=============================================================================
