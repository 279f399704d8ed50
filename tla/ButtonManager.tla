---------------------------- MODULE ButtonManager ----------------------------
(***************************************************************************)
(* The button manager (button_manager.c, button_manager_internal.c) over   *)
(* the driver of the buttons (pl_button.c, pl_button_os_impl.c), for one   *)
(* button: buttons share nothing but the queue and the threads.            *)
(*                                                                         *)
(* The driver's thread turns an edge of the pin into a message, a timer of *)
(* one second adds "LongPressed" messages while the button is held, and    *)
(* the manager's thread takes the messages and calls the clients.          *)
(*                                                                         *)
(* static_button_manager_mutex_ext is held by a call from its first to its *)
(* last step: bcall is that call.  What runs under the inner mutex is one  *)
(* step, the callbacks of the clients included.                            *)
(*                                                                         *)
(* A send, a start, a stop or a delete that fails is only logged.  What    *)
(* Finalize could not end is "stray": a thread that was not told to end,   *)
(* or a timer that was not deleted, goes on with button data that is freed *)
(* (2365-2376), and neither it nor a later Open is modelled.               *)
(***************************************************************************)
EXTENDS Integers, Sequences, FiniteSets

CONSTANTS Handles,     \* CONFIG_ESF_BUTTON_MANAGER_HANDLE_MAX_NUM
          ButtonQueue, \* BUTTON_MANAGER_QUEUE_SIZE
          MaxSeconds,  \* bound: the time a handle counts
          MaxEdges,    \* bound: how often the button is pressed or released
          MaxFaults    \* bound: how often something fails

VARIABLES bopen,      \* the state of the manager: Open
          bcall,      \* the call that holds the outer mutex
          handles,    \* static_handle_list: what is registered, and enabled
          bqueue,     \* the messages; NoQueue while it is closed
          bstate,     \* button_data->state
          btimer,     \* the timer: "none", "off", "on", "stray"
          bfired,     \* the timer thread: a callback that still has to send
          bthread,    \* EsfButtonManagerThread: "none", "wait", "event", "calls",
                      \*   "ended", "stray"
          pin,        \* what the hardware shows
          edges,      \* edges of the pin that the driver did not see yet
          pl,         \* the driver: "closed", "open", "halfway"
          plcallback, \* a handler is registered with the driver
          plthread,   \* ButtonCallbackThread: "none", "wait", "ended", or what
                      \*   it is about to send
          astray,     \* "edge": the last status that was sent is not that of the
                      \*   last edge, which was lost or overtook the initial one;
                      \* "timer": it was not started or stopped for the last status
          edgeCount, faults

managerVars == <<bopen, handles>>
plVars == <<pl, plcallback, plthread>>
buttonVars == <<bopen, bcall, handles, bqueue, bstate, btimer, bfired, bthread, pin,
                edges, pl, plcallback, plthread, astray, edgeCount, faults>>

NoQueue == <<"closed">>
NoCall == "none"
Kinds == {"released", "long"}  \* pressed callbacks count no time
Held == {"Pressed", "LongPressed"}

Init ==
  /\ bopen = FALSE /\ bcall = NoCall
  /\ handles = <<>> /\ bqueue = NoQueue /\ bstate = "Unknown"
  /\ btimer = "none" /\ bfired = FALSE /\ bthread = "none"
  /\ pin \in {"Pressed", "Released"} /\ edges = <<>>
  /\ pl = "closed" /\ plcallback = FALSE /\ plthread = "none"
  /\ astray = {} /\ edgeCount = 0 /\ faults = 0

Works == UNCHANGED faults
Fails == faults < MaxFaults /\ faults' = faults + 1

(* UtilityMsgSend waits for room.  Without memory the message is lost (with *)
(* its place, UtilityMsg: that only makes the queue shorter), and a closed *)
(* queue refuses.                                                          *)
CanSend == bqueue # NoQueue /\ Len(bqueue) < ButtonQueue
Sent(m) == CanSend /\ bqueue' = Append(bqueue, m) /\ Works
NotSent == UNCHANGED bqueue /\ IF bqueue = NoQueue THEN Works ELSE CanSend /\ Fails

(***************************************************************************)
(* The hardware and the driver's thread.  PlButtonWaitEventCamImpl and     *)
(* PlButtonGetValCamImpl give the edges in order; ExecCallback calls the   *)
(* handler without s_button_mutex.                                         *)
(***************************************************************************)
Edge ==
  /\ edgeCount < MaxEdges /\ edgeCount' = edgeCount + 1
  /\ pin' = IF pin = "Pressed" THEN "Released" ELSE "Pressed"
  /\ edges' = IF plcallback THEN Append(edges, pin') ELSE edges
  /\ UNCHANGED <<managerVars, bcall, bqueue, bstate, btimer, bfired, bthread, plVars,
                 astray, faults>>

ButtonCallbackThread ==
  /\ plthread = "wait" /\ pl # "closed"
  /\ IF pl = "halfway" THEN plthread' = "ended" /\ UNCHANGED edges
     ELSE /\ edges # <<>> /\ edges' = Tail(edges)
          /\ plthread' = IF plcallback THEN Head(edges) ELSE "wait"
  /\ UNCHANGED <<managerVars, bcall, bqueue, bstate, btimer, bfired, bthread, pin, pl,
                 plcallback, astray, edgeCount, faults>>

(* EsfButtonManagerButtonDetectionCallback.                                *)
DetectionCallback ==
  /\ plthread \in {"Pressed", "Released"} /\ plthread' = "wait"
  /\ \/ /\ Sent(plthread)
        /\ astray' = IF bcall \in {"Pressed", "Released"} THEN astray \cup {"edge"}
                     ELSE astray \ {"edge"}
     \/ NotSent /\ astray' = astray \cup {"edge"}
  /\ UNCHANGED <<managerVars, bcall, bstate, btimer, bfired, bthread, pin, edges, pl,
                 plcallback, edgeCount>>

(* The timer, and EsfButtonManagerTimerCallback.                           *)
TimerFires ==
  /\ btimer = "on" /\ ~bfired /\ bfired' = TRUE
  /\ \A i \in DOMAIN handles : handles[i].time < MaxSeconds
  /\ UNCHANGED <<managerVars, bcall, bqueue, bstate, btimer, bthread, pin, edges, plVars,
                 astray, edgeCount, faults>>

TimerCallback ==
  /\ bfired /\ bfired' = FALSE
  /\ Sent("LongPressed") \/ NotSent
  /\ UNCHANGED <<managerVars, bcall, bstate, btimer, bthread, pin, edges, plVars,
                 astray, edgeCount>>

(***************************************************************************)
(* EsfButtonManagerThread.  PreProcess sets the state without the inner    *)
(* mutex; a release of a button that was never seen pressed is dropped.    *)
(***************************************************************************)
Receive ==
  /\ bthread = "wait" /\ bqueue \notin {NoQueue, <<>>}
  /\ LET m == Head(bqueue) IN
       IF m = "CloseThread"  \* EsfButtonManagerCancelRemainedTimer
         THEN /\ bthread' = "ended" /\ UNCHANGED bstate
              /\ \/ Works /\ btimer' = IF bstate \in Held /\ btimer = "on" THEN "off" ELSE btimer
                 \/ bstate \in Held /\ Fails /\ UNCHANGED btimer
         ELSE /\ bstate' = m /\ UNCHANGED btimer /\ Works
              /\ bthread' = IF bstate = "Unknown" /\ m = "Released" THEN "wait" ELSE "event"
  /\ bqueue' = Tail(bqueue)
  /\ UNCHANGED <<managerVars, bcall, bfired, pin, edges, plVars, astray, edgeCount>>

ExecuteButtonEventNoStop ==  \* a mutant: the timer of a released button goes on
  /\ bthread = "event" /\ bthread' = "calls"
  /\ btimer' = IF bstate = "Pressed" /\ btimer # "none" THEN "on" ELSE btimer
  /\ astray' = IF bstate \in {"Pressed", "Released"} THEN astray \ {"timer"} ELSE astray
  /\ UNCHANGED <<managerVars, bcall, bqueue, bstate, bfired, pin, edges, plVars, edgeCount,
                 faults>>

(* EsfButtonManagerExecuteButtonEvent, up to the callbacks: it acts on the *)
(* state, which only this thread writes.                                   *)
ExecuteButtonEvent ==
  /\ bthread = "event" /\ bthread' = "calls"
  /\ \/ /\ bstate \in {"Pressed", "Released"} /\ astray' = astray \ {"timer"} /\ Works
        /\ btimer' = IF btimer = "none" THEN "none"
                     ELSE IF bstate = "Pressed" THEN "on" ELSE "off"
     \/ /\ bstate \in {"Pressed", "Released"} /\ astray' = astray \cup {"timer"} /\ Fails
        /\ UNCHANGED btimer
     \/ /\ bstate = "LongPressed" /\ Works /\ UNCHANGED <<btimer, astray>>
  /\ UNCHANGED <<managerVars, bcall, bqueue, bstate, bfired, pin, edges, plVars, edgeCount>>

(* EsfButtonManagerExecuteButtonCallback for one handle: the time it has   *)
(* counted picks the callbacks that are called, which change nothing here. *)
ExecuteButtonCallback(h) ==
  CASE bstate = "Pressed" -> h
    [] bstate = "Released" -> [h EXCEPT !.time = 0]
    [] bstate = "LongPressed" -> [h EXCEPT !.time = @ + 1]

ExecuteButtonCallbackAllHandles ==
  /\ bthread = "calls" /\ bthread' = "wait"
  /\ handles' = [i \in DOMAIN handles |->
                   IF handles[i].enabled /\ handles[i].kinds # {}
                     THEN ExecuteButtonCallback(handles[i])
                     ELSE handles[i]]
  /\ UNCHANGED <<bopen, bcall, bqueue, bstate, btimer, bfired, pin, edges, plVars,
                 astray, edgeCount, faults>>

(***************************************************************************)
(* EsfButtonManagerOpen: the first handle initializes the manager, step by *)
(* step; a step that fails goes to Finalize.                               *)
(***************************************************************************)
CreateHandle(i) == handles' = [j \in DOMAIN handles \cup {i} |->
  IF j = i THEN [enabled |-> FALSE, kinds |-> {}, time |-> 0]
  ELSE handles[j]]

Open(i) ==
  /\ bcall = NoCall /\ i \in Handles \ DOMAIN handles
  /\ IF bopen THEN CreateHandle(i) /\ UNCHANGED <<bcall, bqueue>>
     ELSE /\ btimer = "none" /\ bthread = "none"
          /\ bcall' = "initialize" /\ UNCHANGED handles
          /\ bqueue' = <<>>
  /\ UNCHANGED <<bopen, bstate, btimer, bfired, bthread, pin, edges, plVars, astray,
                 edgeCount, faults>>

(* PlButtonInitialize, and the data of the buttons.                        *)
PlButtonInitialize ==
  /\ bcall = "initialize"
  /\ \/ /\ pl = "closed" /\ pl' = "open" /\ plthread' = "wait" /\ Works
        /\ bstate' = "Unknown" /\ bcall' = "register"
     \/ /\ IF pl = "closed" THEN Fails ELSE Works
        /\ bcall' = "close queue" /\ UNCHANGED <<pl, plthread, bstate>>
  /\ UNCHANGED <<managerVars, bqueue, btimer, bfired, bthread, pin, edges, plcallback,
                 astray, edgeCount>>

(* PlButtonRegisterHandler: the handler is registered, the pin read, and   *)
(* the handler called with what was read: three steps for the other thread. *)
RegisterHandler ==
  /\ bcall = "register"
  /\ \/ plcallback' = TRUE /\ bcall' = pin /\ Works
     \/ plcallback' = FALSE /\ bcall' = "pl finalize" /\ Fails
  /\ astray' = {}
  /\ UNCHANGED <<managerVars, bqueue, bstate, btimer, bfired, bthread, pin, edges, pl,
                 plthread, edgeCount>>

InitialStatus ==
  /\ bcall \in {"Pressed", "Released"} /\ bcall' = "timers"
  /\ \/ Sent(bcall) /\ UNCHANGED astray
     \/ NotSent /\ astray' = astray \cup {"edge"}
  /\ UNCHANGED <<managerVars, bstate, btimer, bfired, bthread, pin, edges, plVars,
                 edgeCount>>

(* EsfButtonManagerSetTimerCallback, CreateThread and CreateHandle.        *)
CreateThread(i) ==
  /\ bcall = "timers" /\ i \in Handles
  /\ btimer' = "off"
  /\ \/ /\ bthread' = "wait" /\ bcall' = NoCall /\ bopen' = TRUE /\ CreateHandle(i) /\ Works
     \/ /\ bthread' \in {"none", "wait"} /\ bcall' = "unset detection" /\ Fails
        /\ UNCHANGED managerVars
  /\ UNCHANGED <<bqueue, bstate, bfired, pin, edges, plVars, astray, edgeCount>>

(***************************************************************************)
(* EsfButtonManagerRegister...Callback and Unregister...Callback want the  *)
(* handle disabled; the data of a handle goes with its last callback.      *)
(***************************************************************************)
Register(i, k) ==
  /\ bcall = NoCall /\ i \in DOMAIN handles /\ ~handles[i].enabled
  /\ LET h == handles[i]
         kinds == IF k \in h.kinds THEN h.kinds \ {k} ELSE h.kinds \cup {k}
     IN handles' = [handles EXCEPT ![i].kinds = kinds,
                                   ![i].time = IF kinds = {} THEN 0 ELSE @]
  /\ UNCHANGED <<bopen, bcall, bqueue, bstate, btimer, bfired, bthread, pin, edges,
                 plVars, astray, edgeCount, faults>>

(* EsfButtonManagerEnable...: the pressed callbacks of a button that is    *)
(* held are called here; EsfButtonManagerDisable... resets the times.      *)
SetCallbackExecutableState(i) ==
  /\ bcall = NoCall /\ i \in DOMAIN handles
  /\ handles' = [handles EXCEPT ![i].enabled = ~@,
                                ![i].time = IF handles[i].enabled THEN 0 ELSE @]
  /\ UNCHANGED <<bopen, bcall, bqueue, bstate, btimer, bfired, bthread, pin, edges,
                 plVars, astray, edgeCount, faults>>

(***************************************************************************)
(* EsfButtonManagerClose: the last handle finalizes the manager.  A step   *)
(* that fails is noted and the next one runs; the state is Close in the    *)
(* end whatever failed.                                                    *)
(***************************************************************************)
Close(i) ==
  /\ bcall = NoCall /\ bopen /\ i \in DOMAIN handles
  /\ handles' = [j \in DOMAIN handles \ {i} |-> handles[j]]
  /\ bcall' = IF DOMAIN handles = {i} THEN "unset detection" ELSE NoCall
  /\ UNCHANGED <<bopen, bqueue, bstate, btimer, bfired, bthread, pin, edges, plVars,
                 astray, edgeCount, faults>>

UnsetDetectionCallback ==
  /\ bcall = "unset detection"
  /\ \/ plcallback' = FALSE /\ Works
     \/ Fails /\ UNCHANGED plcallback
  /\ bcall' = IF bthread = "none" THEN "delete timer" ELSE "close thread"
  /\ UNCHANGED <<managerVars, bqueue, bstate, btimer, bfired, bthread, pin, edges, pl,
                 plthread, astray, edgeCount>>

DestroyThread ==
  /\ \/ bcall = "close thread" /\ Sent("CloseThread") /\ bcall' = "join" /\ UNCHANGED bthread
     \/ bcall = "close thread" /\ NotSent /\ bcall' = "delete timer" /\ UNCHANGED bthread
     \/ /\ bcall = "join" /\ bthread = "ended" /\ bthread' = "none"
        /\ bcall' = "delete timer" /\ Works /\ UNCHANGED bqueue
  /\ UNCHANGED <<managerVars, bstate, btimer, bfired, pin, edges, plVars, astray, edgeCount>>

UnsetTimerNoWait ==  \* a mutant: the timer goes while its callback runs
  /\ bcall = "delete timer" /\ btimer # "on" /\ btimer' = "none" /\ bcall' = "pl finalize"
  /\ bthread' = IF bthread = "none" THEN "none" ELSE "stray"
  /\ UNCHANGED <<managerVars, bqueue, bstate, bfired, pin, edges, plVars, astray, edgeCount,
                 faults>>

(* EsfButtonManagerUnsetTimerCallback: UtilityTimerDelete refuses a timer  *)
(* that runs and waits for a callback that runs.                           *)
UnsetTimerCallback ==
  /\ bcall = "delete timer" /\ bcall' = "pl finalize"
  /\ \/ btimer # "on" /\ ~bfired /\ btimer' = "none" /\ Works
     \/ btimer = "on" /\ btimer' = "stray" /\ Works
     \/ btimer = "off" /\ btimer' = "stray" /\ Fails
  /\ bthread' = IF bthread = "none" THEN "none" ELSE "stray"
  /\ UNCHANGED <<managerVars, bqueue, bstate, bfired, pin, edges, plVars, astray, edgeCount>>

(* PlButtonFinalize: the thread is told to end; a button that cannot be    *)
(* closed ends the call before the join.                                   *)
PlButtonFinalize ==
  /\ \/ /\ bcall = "pl finalize" /\ pl' = "halfway" /\ UNCHANGED plthread
        /\ \/ bcall' = "pl join" /\ plcallback' = FALSE /\ edges' = <<>> /\ Works
           \/ bcall' = "close queue" /\ Fails /\ UNCHANGED <<plcallback, edges>>
     \/ /\ bcall = "pl join" /\ plthread = "ended" /\ plthread' = "none"
        /\ pl' = "closed" /\ bcall' = "close queue" /\ Works /\ UNCHANGED <<plcallback, edges>>
  /\ UNCHANGED <<managerVars, bqueue, bstate, btimer, bfired, bthread, pin, astray,
                 edgeCount>>

(* UtilityMsgClose takes the queue away whatever it answers; a handle that *)
(* is kept for it (2389-2396) is overwritten by the next Open.             *)
CloseQueue ==
  /\ bcall = "close queue" /\ bqueue' = NoQueue
  /\ bcall' = NoCall /\ bopen' = FALSE
  /\ UNCHANGED <<handles, bstate, btimer, bfired, bthread, pin, edges, plVars, astray,
                 edgeCount, faults>>

DriverThread == ButtonCallbackThread \/ DetectionCallback
ManagerThread == Receive \/ ExecuteButtonEvent \/ ExecuteButtonCallbackAllHandles
ButtonTimer == TimerFires \/ TimerCallback
CallGoesOn ==
  \/ PlButtonInitialize \/ RegisterHandler \/ InitialStatus
  \/ \E i \in Handles : CreateThread(i)
  \/ UnsetDetectionCallback \/ DestroyThread \/ UnsetTimerCallback \/ PlButtonFinalize
  \/ CloseQueue
Call ==
  \E i \in Handles : \/ Open(i) \/ Close(i) \/ SetCallbackExecutableState(i)
                     \/ \E k \in Kinds : Register(i, k)
Next == Edge \/ DriverThread \/ ManagerThread \/ ButtonTimer \/ CallGoesOn \/ Call

Spec == Init /\ [][Next]_buttonVars

(***************************************************************************)
(* Properties                                                              *)
(***************************************************************************)

(* Once every message was handled, the timer runs exactly while the button *)
(* is held, unless what is last to say so was lost: a status that was not  *)
(* sent, or that the initial one overtook, and a timer that refused, count *)
(* until the next edge only.  The release leaves no handle with time       *)
(* counted; a callback that fired before it and sends after it is handled  *)
(* as a long press all the same, and counts until the next release.        *)
TimerFollowsButton ==
  (bopen /\ bcall = NoCall /\ astray = {} /\ bthread = "wait" /\ bqueue = <<>>
   /\ edges = <<>> /\ plthread = "wait")
    => /\ btimer = "on" <=> pin = "Pressed"
       /\ bstate = "Released" => \A i \in DOMAIN handles : handles[i].time = 0

(* The queue is closed when nobody can send any more, but for what         *)
(* Finalize could not end, as long as the driver's thread could be joined. *)
QueueOutlivesSenders ==
  bqueue = NoQueue =>
    /\ btimer # "stray" => btimer = "none" /\ ~bfired
    /\ bthread \in {"none", "stray"}
    /\ pl = "closed" => plthread = "none"

(* The driver, the timer, the queue and the handles agree                  *)
(* (button_manager.c, button_manager_internal.c).                          *)
ButtonPartsAgree == TimerFollowsButton /\ QueueOutlivesSenders

=============================================================================
