------------------------------ MODULE Watchdog ------------------------------
(***************************************************************************)
(* The hardware watchdogs of the power manager (pl_wdt.c over              *)
(* pl_wdt_lib.c): a thread of low priority sends KeepAlive messages while  *)
(* the dogs run, a thread of high priority receives them and feeds the     *)
(* dogs, and gives each dog a last meal when no message came for too long. *)
(* Terminate ends the feeding for good, so that the dogs reset the device. *)
(*                                                                         *)
(* The calls come from the power manager, one at a time (its mutex): each  *)
(* is an action here that PowerManager runs as a step of its own.  A call  *)
(* of the threads is not under s_api_mutex, nor are their reads of the     *)
(* flags.                                                                  *)
(***************************************************************************)
EXTENDS Integers, FiniteSets, Sequences

CONSTANTS Dogs,       \* CONFIG_EXTERNAL_PL_WDT_NUM watchdogs
          WdtQueue    \* queue_size of the messages

VARIABLES wdt,        \* s_state: "Ready", "Stop" or "Start"
          wexit,      \* s_is_exit
          wqueue,     \* the messages of s_msg_handle, in the order of receipt
          wopen,      \* the queue is open
          lib,        \* s_is_initialized of pl_wdt_lib
          dog,        \* the state of each handle: "Close", "Stop" or "Start"
          irq,        \* s_is_registered
          low, high,  \* the threads: "none", "loop", "send"/"receive" or "gone"
          timeover    \* the dogs that had their last meal (s_is_wdtN_timeover)

wdtVars == <<wdt, wexit, wqueue, wopen, lib, dog, irq, low, high, timeover>>

AllDogs(s) == [d \in Dogs |-> s]

(***************************************************************************)
(* pl_wdt_lib.c: what each call makes of the state of a dog.  In any other *)
(* state the call is refused, and nothing changes.                         *)
(***************************************************************************)
LibOpen(s)  == IF s = "Close" THEN "Stop" ELSE s
LibStart(s) == IF s = "Stop" THEN "Start" ELSE s
LibStop(s)  == IF s = "Start" THEN "Stop" ELSE s
LibClose(s) == IF s = "Stop" THEN "Close" ELSE s

\* PlWdtLibInitialize takes every dog for closed.
LibInitialize == /\ ~lib /\ lib' = TRUE
                 /\ dog' = AllDogs("Close")

\* PlWdtLibFinalize tries to stop and close what still runs.
LibFinalize ==
  /\ lib' = FALSE
  /\ \E stuck \in SUBSET {d \in Dogs : dog[d] = "Start"} :
        dog' = [d \in Dogs |->
                  LibClose(IF d \in stuck THEN dog[d] ELSE LibStop(dog[d]))]

\* PlWdtLibRegisterIrqHandler: for a stopped dog without a handler, once.
LibRegisterIrqHandler == ~irq /\ irq' = TRUE

WdtInit ==
  /\ wdt = "Ready" /\ wexit = FALSE /\ wqueue = <<>> /\ wopen = FALSE
  /\ lib = FALSE /\ dog = AllDogs("Close") /\ irq = FALSE
  /\ low = "none" /\ high = "none" /\ timeover = {}

(***************************************************************************)
(* PlWdtInitialize with all it calls.  Each way it can fail leaves         *)
(* something else behind: the library without a queue, the queue without   *)
(* the library, or everything and, when only the second thread is missing, *)
(* a low thread that finds s_state Ready.                                  *)
(***************************************************************************)
InitializeOk ==
  /\ wdt = "Ready" /\ ~lib
  /\ wdt' = "Stop" /\ wexit' = FALSE
  /\ lib' = TRUE /\ wopen' = TRUE /\ wqueue' = <<>>
  /\ dog' = AllDogs(LibOpen("Close")) /\ timeover' = {}
  /\ low' = "loop" /\ high' = "loop"
  /\ UNCHANGED irq

InitializeFails ==
  /\ wexit' = IF wdt = "Ready" THEN FALSE ELSE wexit
  /\ \/ /\ wdt # "Ready" \/ lib          \* the state, or PlWdtLibInitialize
        /\ UNCHANGED <<wopen, wqueue, lib, dog, low>>
     \/ /\ wdt = "Ready" /\ ~lib          \* UtilityMsgOpen
        /\ LibInitialize
        /\ UNCHANGED <<wopen, wqueue, low>>
     \/ /\ wdt = "Ready" /\ ~lib          \* WdtStartup: the library is given
        /\ wopen' = TRUE /\ wqueue' = <<>> \* back, the queue is not
        /\ dog' = AllDogs("Close")
        /\ UNCHANGED <<lib, low>>
     \/ /\ wdt = "Ready" /\ ~lib          \* one of the two threads
        /\ lib' = TRUE /\ wopen' = TRUE /\ wqueue' = <<>>
        /\ dog' = AllDogs("Stop") /\ low' \in {low, "loop"}
  /\ UNCHANGED <<wdt, irq, high, timeover>>

RegisterIrqHandler ==
  /\ wdt = "Stop" /\ LibRegisterIrqHandler
  /\ UNCHANGED <<wdt, wexit, wqueue, wopen, lib, dog, low, high, timeover>>

(* PlWdtStart: the dogs are started in turn, and one that does not start   *)
(* leaves those before it running.                                         *)
StartOk ==
  /\ wdt = "Stop" /\ \A d \in Dogs : dog[d] = "Stop"
  /\ wdt' = "Start" /\ dog' = [d \in Dogs |-> LibStart(dog[d])]
  /\ UNCHANGED <<wexit, wqueue, wopen, lib, irq, low, high, timeover>>

StartFails ==
  /\ wdt = "Stop"
  /\ \E running \in SUBSET Dogs :
        dog' = [d \in Dogs |-> IF d \in running THEN LibStart(dog[d]) ELSE dog[d]]
  /\ UNCHANGED <<wdt, wexit, wqueue, wopen, lib, irq, low, high, timeover>>

(* PlWdtStop: when a dog cannot be stopped the state stays Start.          *)
StopWdt ==
  \/ /\ wdt = "Start"
     /\ \/ wdt' = "Stop" /\ dog' = [d \in Dogs |-> LibStop(dog[d])]
        \/ UNCHANGED <<wdt, dog>>
     /\ UNCHANGED <<wexit, wqueue, wopen, lib, irq, low, high, timeover>>
  \/ wdt # "Start" /\ UNCHANGED wdtVars

UnregisterIrqHandler ==
  /\ irq' = IF wdt = "Stop" THEN FALSE ELSE irq
  /\ UNCHANGED <<wdt, wexit, wqueue, wopen, lib, dog, low, high, timeover>>

(***************************************************************************)
(* PlWdtFinalize up to the joins, the joins, and the close of the queue:   *)
(* PlWdtLibFinalize tries again to stop what still runs, closes what it    *)
(* can, and the threads are told by s_is_exit.                             *)
(***************************************************************************)
FinalizeBegins ==
  /\ wdt # "Ready"
  /\ wdt' = "Ready" /\ wexit' = TRUE
  /\ irq' = FALSE /\ LibFinalize
  /\ UNCHANGED <<wqueue, wopen, low, high, timeover>>

Joined == high = "gone" /\ low = "gone"

FinalizeEnds ==
  /\ Joined
  /\ wopen' = FALSE /\ wqueue' = <<>> /\ low' = "none" /\ high' = "none"
  /\ UNCHANGED <<wdt, wexit, lib, dog, irq, timeover>>

(***************************************************************************)
(* PlWdtTerminate: the message overtakes the KeepAlive messages, and waits *)
(* for room like they do.  The flag is set right after the send: the low   *)
(* thread, which sends once in 300 ms, does not fill the queue in between. *)
(***************************************************************************)
Terminate ==
  /\ wdt = "Start" /\ Len(wqueue) < WdtQueue
  /\ wqueue' = <<"Terminate">> \o wqueue
  /\ wexit' = TRUE
  /\ UNCHANGED <<wdt, wopen, lib, dog, irq, low, high, timeover>>

(* PlWdtKeepAlive feeds the dogs whatever the state and clears the marks.  *)
WdtKeepAlive ==
  /\ timeover' = {}
  /\ UNCHANGED <<wdt, wexit, wqueue, wopen, lib, dog, irq, low, high>>

(* KeepAliveLowThread: it waits for room in a full queue.                  *)
LowLoop ==
  /\ low = "loop"
  /\ low' = IF wexit THEN "gone" ELSE IF wdt = "Start" THEN "send" ELSE "loop"
  /\ UNCHANGED <<wdt, wexit, wqueue, wopen, lib, dog, irq, high, timeover>>

LowSend ==
  /\ low = "send" /\ Len(wqueue) < WdtQueue
  /\ low' = "loop" /\ wqueue' = Append(wqueue, "KeepAlive")
  /\ UNCHANGED <<wdt, wexit, wopen, lib, dog, irq, high, timeover>>

(***************************************************************************)
(* KeepAliveHighThread: the head of its loop, and the receive with what    *)
(* follows, where an empty queue is the timeout.  For how long the low     *)
(* thread has been silent is left open: any dogs may have waited so long   *)
(* that they get their last meal.                                          *)
(***************************************************************************)
HighLoop ==
  /\ high = "loop"
  /\ high' = IF wexit THEN "gone" ELSE IF wdt = "Start" THEN "receive" ELSE "loop"
  /\ UNCHANGED <<wdt, wexit, wqueue, wopen, lib, dog, irq, low, timeover>>

HighReceive ==
  /\ high = "receive"
  /\ \/ /\ wqueue # <<>> /\ wqueue' = Tail(wqueue)
        /\ IF Head(wqueue) = "Terminate"
             THEN high' = "gone" /\ UNCHANGED timeover
             ELSE high' = "loop" /\ timeover' = {}
     \/ /\ wqueue = <<>> /\ UNCHANGED wqueue
        /\ \E silenced \in SUBSET Dogs : timeover' = timeover \cup silenced
        /\ high' = "loop"
  /\ UNCHANGED <<wdt, wexit, wopen, lib, dog, irq, low>>

LowThread == LowLoop \/ LowSend
HighThread == HighLoop \/ HighReceive

=============================================================================
