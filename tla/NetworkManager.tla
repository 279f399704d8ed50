--------------------------- MODULE NetworkManager ---------------------------
(***************************************************************************)
(* The Network Manager over an Ethernet interface: the calls of the        *)
(* clients under resource_lock, the handles they use, the thread of the    *)
(* porting layer that polls the interface, the one that hands its events   *)
(* to EtherEventHandler, the DHCP client of a build that has one, and the  *)
(* parameters saved with the Parameter Storage Manager.                    *)
(*                                                                         *)
(* A call holds resource_lock from its middle step on; a handler that      *)
(* waits for the lock a second behind a Stop loses its event.              *)
(***************************************************************************)
EXTENDS Naturals, Sequences, FiniteSets

CONSTANTS
  NetClients,    \* threads that call the Network Manager
  NetHandles,    \* handles; the first the manager gives may control
  NetMsgs,       \* NETWORK_MSG_MAX_SIZE, the messages of the event thread
  MaxCable,      \* bound: how often the cable is plugged or pulled
  MaxNetStarts,  \* bound: successful starts
  MaxNetFails    \* bound: requests the device or the DHCP server refuses

ASSUME FreeIsNobody == "free" \notin NetClients
ASSUME QueueAssumption == NetMsgs \in Nat

VARIABLES
  ninit,      \* resource.status
  nlock,      \* resource_lock: a client inside Stop, or "free"
  nhandle,    \* handle_manager: valid, control, count, is_in_use_control
  ncall,      \* the call of a client: operation, handle, step
  conn,       \* connect_status
  view,       \* status_info: is_if_up and is_link_up
  info,       \* notify_info
  told,       \* what the registered callback last heard, "none" before
  last,       \* connect_info once it is saved, and NoParams before
  plnet,      \* the interface is started at the porting layer
  handler,    \* the event handler is registered
  nqueue,     \* messages of PlNetworkEventThread; the head may be handled
  handling,   \* the head of the queue is with its handler
  stopDone,   \* s_if_down_pre_event_handle.done
  ifReal,     \* the interface is up
  cable,      \* the link is up
  seen,       \* what the monitor thread saw last
  dhcpc,      \* s_dhcp_handle is open
  leased,     \* s_dhcp_lease_time is not 0
  addressed,  \* the interface has an address
  lost,       \* an event found the queue full, or an IfDown the lock taken
  netBounds   \* changes of the cable, starts and failures so far

callVars   == <<nhandle, ncall>>
infoVars   == <<conn, view, info, told>>
dhcpVars   == <<dhcpc, leased, addressed>>
deviceVars == <<ifReal, cable, seen>>
eventVars  == <<nqueue, handling, lost>>
netVars == <<ninit, nlock, nhandle, ncall, conn, view, info, told, last,
             plnet, handler, nqueue, handling, stopDone, ifReal,
             cable, seen, dhcpc, leased, addressed, lost, netBounds>>

NoCall   == <<"none">>
NoParams == [method |-> "none", address |-> "empty"]
Params   == {[method |-> "dhcp", address |-> "empty"],
             [method |-> "static", address |-> "empty"],
             [method |-> "static", address |-> "good"]}
Unused   == [valid |-> FALSE, control |-> FALSE, count |-> 0, inUse |-> FALSE]
Down     == [iface |-> FALSE, link |-> FALSE]

NetInit ==
  /\ ninit = FALSE /\ nlock = "free"
  /\ nhandle = [h \in NetHandles |-> Unused]
  /\ ncall = [t \in NetClients |-> NoCall]
  /\ conn = "Disconnected" /\ view = Down
  /\ info = "Disconnected" /\ told = "none"
  /\ last = NoParams
  /\ plnet = FALSE /\ handler = FALSE
  /\ nqueue = <<>> /\ handling = FALSE /\ stopDone = FALSE
  /\ ifReal = FALSE /\ cable \in BOOLEAN /\ seen = Down
  /\ dhcpc = FALSE /\ leased = FALSE /\ addressed = FALSE
  /\ lost = FALSE
  /\ netBounds = [cable |-> 0, starts |-> 0, fails |-> 0]

Fails == /\ netBounds.fails < MaxNetFails
         /\ netBounds' = [netBounds EXCEPT !.fails = @ + 1]

\* PlNetworkStart is refused to an interface that is started.
PlNetworkStart == ~plnet /\ plnet' = TRUE
PlNetworkStop == plnet' = FALSE
PlNetworkRegisterEventHandler == handler' = TRUE
PlNetworkUnregisterEventHandler == handler' = FALSE

\* NetworkSendMsg: a message that finds no slot is lost.
Send(queue, e) == IF Len(queue) < NetMsgs THEN Append(queue, e) ELSE queue

\* CallCallback: the callback, when there is one, hears notify_info.
Tell(i) == /\ info' = i
           /\ told' = IF told = "none" THEN "none" ELSE i

-----------------------------------------------------------------------------
(* Parameters *)

\* The validators of the fields: an address may be left empty when it is
\* saved, not when the interface is started with it.
ValidAddress(p, isConnect) ==
  p.address \in (IF isConnect THEN {"good"} ELSE {"good", "empty"})

ValidMethod(p) == p.method \in {"dhcp", "static"}

\* ValidateConnectInfo: only the static method needs its address.
ValidConnectInfo(p) == /\ ValidMethod(p)
                       /\ p.method = "static" => ValidAddress(p, TRUE)

\* SaveParameter stores any of the fields by themselves, each of them valid.
Savable(p) == ValidMethod(p) /\ ValidAddress(p, FALSE)

\* GetStartConnectInfo: given by the caller, saved, or of the last start.
LoadConnectInfo == {p \in Params : Savable(p)}
StartInfos == LoadConnectInfo \cup ({last} \ {NoParams})

-----------------------------------------------------------------------------
(* Initialisation and handles *)

\* Init allocates what Deinit freed; the interface is that of before.
EsfNetworkManagerInit ==
  /\ ~ninit /\ ~handling
  /\ ninit' = TRUE
  /\ nhandle' = [h \in NetHandles |-> Unused]
  /\ conn' = "Disconnected" /\ view' = Down
  /\ info' = "Disconnected" /\ told' = "none"
  /\ last' = NoParams
  /\ UNCHANGED <<nlock, ncall, plnet, handler, eventVars, stopDone,
                 deviceVars, dhcpVars, netBounds>>

\* Deinit stops the interface, drops its handler and frees every handle. The
\* code does not wait for calls in flight: none is, here.
EsfNetworkManagerDeinit ==
  /\ ninit /\ nlock = "free"
  /\ \A t \in NetClients : ncall[t] = NoCall
  /\ ninit' = FALSE
  /\ PlNetworkStop /\ PlNetworkUnregisterEventHandler
  /\ UNCHANGED <<nlock, callVars, infoVars, last, eventVars, stopDone,
                 deviceVars, dhcpVars, netBounds>>

\* NewHandle: one control handle at a time.
NewHandle(h, control) ==
  /\ ~nhandle[h].valid
  /\ control => \A k \in NetHandles : ~(nhandle[k].valid /\ nhandle[k].control)
  /\ nhandle' = [nhandle EXCEPT ![h] = [Unused EXCEPT !.valid = TRUE,
                                                      !.control = control]]

EsfNetworkManagerOpen ==
  \E h \in NetHandles, control \in BOOLEAN :
     /\ ninit /\ NewHandle(h, control)
     /\ UNCHANGED <<ninit, nlock, ncall, infoVars, last, plnet,
                    handler, eventVars, stopDone, deviceVars, dhcpVars,
                    netBounds>>

\* DeleteHandle: refused while the handle is used, and for the control handle
\* while the interface is not being stopped.
DeleteHandle(h) ==
  /\ nhandle[h].valid /\ nhandle[h].count = 0
  /\ nhandle[h].control => conn \in {"Disconnected", "Disconnecting"}
  /\ nhandle' = [nhandle EXCEPT ![h] = Unused]

EsfNetworkManagerClose ==
  \E h \in NetHandles :
     /\ ninit /\ DeleteHandle(h)
     /\ UNCHANGED <<ninit, nlock, ncall, infoVars, last, plnet,
                    handler, eventVars, stopDone, deviceVars, dhcpVars,
                    netBounds>>

\* OpenHandle, the first step of every call on a handle.
OpenHandle(t) ==
  \E h \in NetHandles, op \in {"start", "stop", "other"} :
     LET control == op \in {"start", "stop"} IN
     /\ ninit /\ ncall[t] = NoCall
     /\ nhandle[h].valid
     /\ control => nhandle[h].control /\ ~nhandle[h].inUse
     /\ nhandle' = [nhandle EXCEPT ![h].count = @ + 1,
                                   ![h].inUse = @ \/ control]
     /\ ncall' = [ncall EXCEPT ![t] = <<op, h, "lock">>]
     /\ UNCHANGED <<ninit, nlock, infoVars, last, plnet, handler,
                    eventVars, stopDone, deviceVars, dhcpVars, netBounds>>

At(t, op, step) == /\ ncall[t] # NoCall
                   /\ ncall[t][1] = op /\ ncall[t][3] = step

Goes(t, step) == ncall' = [ncall EXCEPT ![t][3] = step]

\* CloseHandle, the last step.
CloseHandle(t) ==
  /\ ncall[t] # NoCall /\ ncall[t][3] = "close"
  /\ LET h == ncall[t][2] IN
     nhandle' = [nhandle EXCEPT
                   ![h].count = @ - 1,
                   ![h].inUse = @ /\ ncall[t][1] \notin {"start", "stop"}]
  /\ ncall' = [ncall EXCEPT ![t] = NoCall]
  /\ UNCHANGED <<ninit, nlock, infoVars, last, plnet, handler,
                 eventVars, stopDone, deviceVars, dhcpVars, netBounds>>

\* The timed lock: a call that finds a Stop waiting for the event thread
\* gives up. Stop itself locks without a limit.
LockTimesOut(t) ==
  /\ ncall[t] # NoCall /\ ncall[t][3] = "lock" /\ ncall[t][1] # "stop"
  /\ nlock # "free"
  /\ Goes(t, "close")
  /\ UNCHANGED <<ninit, nlock, nhandle, infoVars, last, plnet,
                 handler, eventVars, stopDone, deviceVars, dhcpVars, netBounds>>

-----------------------------------------------------------------------------
(* Start and Stop *)

\* Start: refused unless Disconnected and with usable parameters.
StartRefused(t) ==
  /\ At(t, "start", "lock") /\ nlock = "free"
  /\ conn # "Disconnected" \/ \E p \in StartInfos : ~ValidConnectInfo(p)
  /\ Goes(t, "close")
  /\ UNCHANGED <<ninit, nlock, nhandle, infoVars, last, plnet,
                 handler, eventVars, stopDone, deviceVars, dhcpVars, netBounds>>

\* PreStart resets what is known of the interface.
PreStart(t, p) ==
  /\ At(t, "start", "lock") /\ nlock = "free"
  /\ conn = "Disconnected" /\ ValidConnectInfo(p)
  /\ view' = Down /\ info' = "Disconnected"
  /\ Goes(t, "close")

\* AccessorStart sets or clears the address, registers the handler and starts
\* the interface.
Start(t) ==
  \E p \in StartInfos :
     /\ PreStart(t, p)
     /\ netBounds.starts < MaxNetStarts
     /\ addressed' = (p.method = "static")
     /\ PlNetworkRegisterEventHandler /\ PlNetworkStart
     /\ last' = p /\ conn' = "Connecting"
     /\ netBounds' = [netBounds EXCEPT !.starts = @ + 1]
     /\ UNCHANGED <<ninit, nlock, nhandle, told, eventVars, stopDone,
                    deviceVars, dhcpc, leased>>

\* The interface does not start: by the step that failed the address is set or
\* not, and the handler is the old one still, none, as it was unregistered, or
\* the new one.
StartFails(t) ==
  \E p \in StartInfos :
     /\ PreStart(t, p) /\ Fails
     /\ addressed' \in {addressed, p.method = "static"}
     /\ \/ UNCHANGED handler
        \/ PlNetworkUnregisterEventHandler
        \/ PlNetworkRegisterEventHandler
     /\ UNCHANGED <<ninit, nlock, nhandle, conn, told, last, plnet,
                    eventVars, stopDone, deviceVars, dhcpc, leased>>

\* Stop takes the lock, and asks the event thread to release the lease; when
\* the queue is full it does not wait for it.
StopBegins(t) ==
  /\ At(t, "stop", "lock") /\ nlock = "free"
  /\ conn \in {"Connecting", "Connected"}
  /\ nlock' = t
  /\ nqueue' = Send(nqueue, "IfDownPre")
  /\ stopDone' = (nqueue' = nqueue)
  /\ Goes(t, "wait")
  /\ UNCHANGED <<ninit, nhandle, infoVars, last, plnet, handler,
                 handling, lost, deviceVars, dhcpVars, netBounds>>

StopRefused(t) ==
  /\ At(t, "stop", "lock") /\ nlock = "free"
  /\ conn \in {"Disconnected", "Disconnecting"}
  /\ Goes(t, "close")
  /\ UNCHANGED <<ninit, nlock, nhandle, infoVars, last, plnet,
                 handler, eventVars, stopDone, deviceVars, dhcpVars, netBounds>>

\* Mutants: a Stop that never waits for the interface, and one that always does.
UpdateStopStatusDown == conn' = "Disconnected"
UpdateStopStatusWaits == conn' = "Disconnecting"

\* UpdateStopStatus: an interface that is up will send IfDown; one that the
\* manager does not know to be up is Disconnected at once.
UpdateStopStatus == conn' = IF view.iface THEN "Disconnecting" ELSE "Disconnected"

StopEnds(t) ==
  /\ At(t, "stop", "wait") /\ stopDone
  /\ PlNetworkStop
  /\ UpdateStopStatus
  /\ nlock' = "free"
  /\ Goes(t, "close")
  /\ UNCHANGED <<ninit, nhandle, view, info, told, last, handler,
                 eventVars, stopDone, deviceVars, dhcpVars, netBounds>>

\* The interface cannot be stopped: the status stays.
StopFails(t) ==
  /\ At(t, "stop", "wait") /\ stopDone /\ Fails
  /\ nlock' = "free"
  /\ Goes(t, "close")
  /\ UNCHANGED <<ninit, nhandle, infoVars, last, plnet, handler,
                 eventVars, stopDone, deviceVars, dhcpVars>>

\* RegisterCallback tells the client at once; UnregisterCallback forgets it.
RegisterCallback == told = "none" /\ told' = info
UnregisterCallback == told # "none" /\ told' = "none"

Register(t) ==
  /\ At(t, "other", "lock") /\ nlock = "free"
  /\ RegisterCallback \/ UnregisterCallback
  /\ Goes(t, "close")
  /\ UNCHANGED <<ninit, nlock, nhandle, conn, view, info, last, plnet,
                 handler, eventVars, stopDone, deviceVars, dhcpVars, netBounds>>

\* GetIFStatus and GetIFInfo read under the lock, GetNetstat without it.
GetIFStatus(t) ==
  /\ At(t, "other", "lock") /\ nlock = "free"
  /\ Goes(t, "close")
  /\ UNCHANGED <<ninit, nlock, nhandle, infoVars, last, plnet,
                 handler, eventVars, stopDone, deviceVars, dhcpVars, netBounds>>

GetNetstat(t) ==
  /\ At(t, "other", "lock")
  /\ Goes(t, "close")
  /\ UNCHANGED <<ninit, nlock, nhandle, infoVars, last, plnet,
                 handler, eventVars, stopDone, deviceVars, dhcpVars, netBounds>>

-----------------------------------------------------------------------------
(* The porting layer: the device, the monitor thread, the event thread *)

\* SetIfStatus takes effect later, and only with a cable; a cable pulled
\* takes the interface down.
GetIfStatus == plnet /\ cable

InterfaceFollows ==
  /\ ifReal # GetIfStatus
  /\ ifReal' = ~ifReal
  /\ UNCHANGED <<ninit, nlock, callVars, infoVars, last, plnet,
                 handler, eventVars, stopDone, cable, seen, dhcpVars, netBounds>>

CableMoves ==
  /\ netBounds.cable < MaxCable
  /\ cable' = ~cable
  /\ netBounds' = [netBounds EXCEPT !.cable = @ + 1]
  /\ UNCHANGED <<ninit, nlock, callVars, infoVars, last, plnet,
                 handler, eventVars, stopDone, ifReal, seen, dhcpVars>>

\* EtherMonitorThread: every two seconds, an event for each change, and a
\* link-up again after an interface that came up.
IfEvents == IF ifReal = seen.iface THEN <<>>
            ELSE IF ifReal THEN <<"IfUp">> ELSE <<"IfDown">>

LinkEvents == IF cable # seen.link
                THEN IF cable THEN <<"LinkUp">> ELSE <<"LinkDown">>
              ELSE IF ifReal /\ ~seen.iface /\ cable THEN <<"LinkUp">>
              ELSE <<>>

EtherMonitorThread ==
  LET both == nqueue \o IfEvents \o LinkEvents
  IN /\ both # nqueue
     /\ seen' = [iface |-> ifReal, link |-> cable]
     /\ nqueue' = SubSeq(both, 1, IF Len(both) < NetMsgs THEN Len(both)
                                                         ELSE NetMsgs)
     /\ lost' = (lost \/ Len(both) > NetMsgs)
     /\ UNCHANGED <<ninit, nlock, callVars, infoVars, last, plnet,
                    handler, handling, stopDone, ifReal, cable, dhcpVars,
                    netBounds>>

\* The event thread gives a message to the handler, if there is one.
EventTaken ==
  /\ nqueue # <<>> /\ ~handling
  /\ handling' = handler
  /\ nqueue' = IF handler THEN nqueue ELSE Tail(nqueue)
  /\ UNCHANGED <<ninit, nlock, callVars, infoVars, last, plnet,
                 handler, stopDone, deviceVars, dhcpVars, lost, netBounds>>

Handled == /\ handling
           /\ handling' = FALSE
           /\ nqueue' = Tail(nqueue)

\* IfDownPre is handled without the lock, which Stop holds.
IfDownPre ==
  /\ Handled /\ Head(nqueue) = "IfDownPre"
  /\ stopDone' = TRUE
  /\ UNCHANGED <<ninit, nlock, callVars, infoVars, last, plnet,
                 handler, deviceVars, dhcpVars, lost, netBounds>>

\* LockResource of the handler fails after a second, or the manager is
\* deinitialised: the event is lost.
EventLost ==
  /\ Handled /\ Head(nqueue) # "IfDownPre"
  /\ nlock # "free" \/ ~ninit
  /\ lost' = (lost \/ Head(nqueue) = "IfDown")
  /\ UNCHANGED <<ninit, nlock, callVars, infoVars, last, plnet,
                 handler, stopDone, deviceVars, dhcpVars, netBounds>>

EventHandled(e) == /\ Handled /\ Head(nqueue) = e
                   /\ nlock = "free" /\ ninit

\* CloseDhcp: the client is closed; nobody clears the address.
CloseDhcp == /\ dhcpc' = FALSE /\ leased' = FALSE
             /\ UNCHANGED addressed

\* RequestDhcp opens the client when it is closed; the answer is an address.
RequestDhcp == dhcpc' = TRUE /\ leased' = TRUE /\ addressed' = TRUE
RequestDhcpFails == Fails /\ dhcpc' = TRUE /\ leased' = FALSE

\* IpSetDhcpAddress: an interface that still has an address asks for none; a
\* new request opens the client and may be refused.
IpSetDhcpAddress ==
  IF addressed THEN UNCHANGED <<dhcpVars, netBounds>>
  ELSE RequestDhcp /\ UNCHANGED netBounds

\* IfUp and LinkUp: Connected once both are up, and the address is there.
LinkedUp(v) ==
  /\ view' = v
  /\ IF conn = "Connecting" /\ v.iface /\ v.link
       THEN \/ /\ IF last.method = "dhcp" THEN IpSetDhcpAddress
                                          ELSE UNCHANGED <<dhcpVars, netBounds>>
               /\ conn' = "Connected" /\ Tell("Connected")
            \/ /\ last.method = "dhcp" /\ ~addressed
               /\ RequestDhcpFails
               /\ UNCHANGED <<conn, info, told, addressed>>
       ELSE UNCHANGED <<conn, info, told, dhcpVars, netBounds>>

EventUp(e) ==
  /\ EventHandled(e)
  /\ LinkedUp(IF e = "IfUp" THEN [view EXCEPT !.iface = TRUE]
                            ELSE [view EXCEPT !.link = TRUE])
  /\ UNCHANGED <<ninit, nlock, callVars, last, plnet, handler,
                 stopDone, deviceVars, lost>>

\* IfDown and LinkDown: Connected falls back to Connecting; IfDown completes
\* a Stop.
EventDown(e) ==
  /\ EventHandled(e)
  /\ view' = IF e = "IfDown" THEN [view EXCEPT !.iface = FALSE]
                             ELSE [view EXCEPT !.link = FALSE]
  /\ IF conn = "Connected"
       THEN /\ CloseDhcp
            /\ conn' = "Connecting" /\ Tell("Disconnected")
     ELSE IF conn = "Disconnecting" /\ e = "IfDown"
       THEN /\ CloseDhcp
            /\ conn' = "Disconnected" /\ Tell("Disconnected")
     ELSE UNCHANGED <<conn, info, told, dhcpVars>>
  /\ UNCHANGED <<ninit, nlock, callVars, last, plnet, handler,
                 stopDone, deviceVars, lost, netBounds>>

\* RenewDhcp in time, or RecoveryDhcp past the lease: the address is cleared
\* and asked for again; with the client closed, that fails. Either may be
\* refused, which ends the lease.
RenewDhcp ==
  /\ dhcpc
  /\ \/ leased' = TRUE /\ addressed' = TRUE /\ UNCHANGED netBounds
     \/ leased' = FALSE /\ UNCHANGED addressed /\ Fails

RecoveryDhcp ==
  /\ addressed' = FALSE
  /\ IF dhcpc THEN leased' = FALSE /\ Fails
              ELSE UNCHANGED <<leased, netBounds>>

\* LeaseEvent, every second the thread is idle.
LeaseEvent ==
  /\ nqueue = <<>> /\ handler /\ ninit /\ nlock = "free"
  /\ view.iface /\ view.link /\ last.method = "dhcp"
  /\ RenewDhcp \/ RecoveryDhcp
  /\ UNCHANGED <<ninit, nlock, callVars, infoVars, last, plnet,
                 handler, eventVars, stopDone, deviceVars, dhcpc>>

-----------------------------------------------------------------------------
CallGoesOn(t) ==
  \/ LockTimesOut(t)
  \/ StartRefused(t) \/ Start(t) \/ StartFails(t)
  \/ StopBegins(t) \/ StopRefused(t) \/ StopEnds(t) \/ StopFails(t)
  \/ Register(t) \/ GetIFStatus(t) \/ GetNetstat(t)
  \/ CloseHandle(t)

EventThread ==
  \/ EventTaken \/ IfDownPre \/ EventLost
  \/ \E e \in {"IfUp", "LinkUp"} : EventUp(e)
  \/ \E e \in {"IfDown", "LinkDown"} : EventDown(e)

NetNext ==
  \/ EsfNetworkManagerInit \/ EsfNetworkManagerDeinit
  \/ EsfNetworkManagerOpen \/ EsfNetworkManagerClose
  \/ \E t \in NetClients : OpenHandle(t) \/ CallGoesOn(t)
  \/ InterfaceFollows \/ CableMoves \/ EtherMonitorThread
  \/ EventThread \/ LeaseEvent

(***************************************************************************)
(* A call under way goes on, the interface follows what it was told, and   *)
(* the two threads of the porting layer run.                               *)
(***************************************************************************)
NetSpec ==
  /\ NetInit /\ [][NetNext]_netVars
  /\ \A t \in NetClients : WF_netVars(CallGoesOn(t))
  /\ WF_netVars(InterfaceFollows)
  /\ WF_netVars(EtherMonitorThread)
  /\ WF_netVars(EventThread)

-----------------------------------------------------------------------------
(***************************************************************************)
(* A registered client knows: the callback last heard Connected when the   *)
(* manager is, and Disconnected when it is looking for the network or has  *)
(* let it go, whichever of Stop, an event of the interface or an event of  *)
(* the link brought it there.                                              *)
(***************************************************************************)
CallbackIsUpToDate ==
  ninit /\ told # "none" =>
    /\ conn = "Connected" => told = "Connected"
    /\ conn \in {"Connecting", "Disconnected"} => told = "Disconnected"

(***************************************************************************)
(* While the manager waits for the interface to tell that it is down, the  *)
(* interface was told to go down, the handler is there to hear of it, and  *)
(* the IfDown is in the queue or is what the monitor thread sees next; or  *)
(* one was lost.  Stop decides by view.iface, which the events queued      *)
(* before it and behind it may already have outrun.                        *)
(***************************************************************************)
StopIsAnswered ==
  ninit /\ conn = "Disconnecting" /\ ~lost =>
    /\ ~plnet /\ handler
    /\ seen.iface \/ \E i \in DOMAIN nqueue : nqueue[i] = "IfDown"

(***************************************************************************)
(* Both: what the manager says of the network is so, or about to be.       *)
(***************************************************************************)
ClientsAreAnswered == CallbackIsUpToDate /\ StopIsAnswered

(***************************************************************************)
(* A Stop completes: Disconnecting lasts until the interface tells that it *)
(* is down, and it does unless that event was lost: Disconnecting, in      *)
(* which no call is accepted, is entered only if an IfDown is to come.     *)
(***************************************************************************)
StopCompletesUnlessLost ==
  conn = "Disconnecting" ~> (conn # "Disconnecting" \/ lost \/ ~ninit)

(***************************************************************************)
(* The state table of the manager: a Stop that leaves it Disconnecting is  *)
(* followed by the IfDown that makes it Disconnected.                      *)
(***************************************************************************)
StopCompletes == conn = "Disconnecting" ~> (conn # "Disconnecting" \/ ~ninit)

=============================================================================
