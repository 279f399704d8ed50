--------------------------- MODULE NetworkProofs ---------------------------
(***************************************************************************)
(* Proofs about the Network Manager, for any number of clients, handles    *)
(* and messages.                                                           *)
(*                                                                         *)
(* That a registered client is up to date rests on notify_info, which is   *)
(* what a client hears when it registers, on what Connected says of the    *)
(* interface, and on the lock that a Stop holds while it waits: no event   *)
(* is handled then, so that the status it began with is the one it ends.   *)
(***************************************************************************)
EXTENDS NetworkManager, TLAPS

Ops   == {"start", "stop", "other"}
Steps == {"lock", "wait", "close"}

\* A call is none, or its operation, its handle and its step.
CallsAreKnown ==
  /\ ncall \in [NetClients -> {NoCall} \cup (Ops \X NetHandles \X Steps)]
  /\ view = [iface |-> view.iface, link |-> view.link]
  /\ ~ninit => \A t \in NetClients : ncall[t] = NoCall

\* Only a Stop waits, with the lock, for what it found connected.
StopHoldsTheLock ==
  \A t \in NetClients :
    ncall[t] # NoCall /\ ncall[t][3] = "wait"
      => nlock = t /\ conn \in {"Connecting", "Connected"}

\* What a client that registers would hear, and what one has heard.
InfoIsUpToDate ==
  /\ conn = "Connected" => info = "Connected" /\ view.iface
  /\ conn \in {"Connecting", "Disconnected"} => info = "Disconnected"
  /\ told \in {"none", info}

NetIInv == CallsAreKnown /\ StopHoldsTheLock /\ InfoIsUpToDate

----------------------------------------------------------------------------
\* A call is no longer none, and a step of it changes the step alone.
LEMMA CallShapes ==
  ASSUME NEW c \in Ops \X NetHandles \X Steps
  PROVE  /\ c # NoCall /\ c[1] \in Ops /\ c[2] \in NetHandles /\ c[3] \in Steps
         /\ \A s \in Steps : /\ [c EXCEPT ![3] = s] \in Ops \X NetHandles \X Steps
                             /\ [c EXCEPT ![3] = s][3] = s
  BY DEF NoCall

\* A call that goes on is where it goes to, and the others are where they were.
LEMMA GoesOn ==
  ASSUME CallsAreKnown, NEW t \in NetClients, ncall[t] # NoCall, NEW s \in Steps, Goes(t, s)
  PROVE  /\ ncall' \in [NetClients -> {NoCall} \cup (Ops \X NetHandles \X Steps)]
         /\ ncall'[t] # NoCall /\ ncall'[t][3] = s
         /\ \A u \in NetClients \ {t} : ncall'[u] = ncall[u]
<1>1. ncall[t] \in Ops \X NetHandles \X Steps
  BY DEF CallsAreKnown
<1>2. ncall' = [ncall EXCEPT ![t] = [ncall[t] EXCEPT ![3] = s]]
  BY DEF Goes, CallsAreKnown
<1> QED
  BY <1>1, <1>2, CallShapes DEF CallsAreKnown

\* A step that neither moves a call nor changes what the clients know.
LEMMA NothingToTell ==
  ASSUME NetIInv, UNCHANGED <<ncall, nlock, ninit, conn, view, info, told>>
  PROVE  NetIInv'
  BY DEF NetIInv, CallsAreKnown, StopHoldsTheLock, InfoIsUpToDate

\* The steps of the calls under way keep the invariant.
LEMMA CallKeeps ==
  ASSUME NetIInv, NEW t \in NetClients, CallGoesOn(t)
  PROVE  NetIInv'
<1> USE DEF NetIInv, StopHoldsTheLock, InfoIsUpToDate
<1>1. ninit /\ ncall[t] # NoCall
  BY DEF CallsAreKnown, CallGoesOn, LockTimesOut, StartRefused, Start, StartFails, PreStart, StopBegins,
     StopRefused, StopEnds, StopFails, Register, GetIFStatus, GetNetstat, CloseHandle, At
<1>2. CASE \/ LockTimesOut(t) \/ StartRefused(t) \/ StopRefused(t) \/ GetIFStatus(t) \/ GetNetstat(t)
  <2>1. Goes(t, "close") /\ UNCHANGED <<nlock, ninit, infoVars>>
    BY <1>2 DEF LockTimesOut, StartRefused, StopRefused, GetIFStatus, GetNetstat
  <2> QED BY <1>1, <2>1, GoesOn DEF Steps, infoVars, CallsAreKnown
<1>3. CASE Start(t) \/ StartFails(t)
  <2>1. /\ Goes(t, "close") /\ UNCHANGED <<nlock, ninit, told>> /\ nlock = "free"
        /\ conn = "Disconnected" /\ conn' \in {"Disconnected", "Connecting"}
        /\ info' = "Disconnected" /\ view' = Down
    BY <1>3 DEF Start, StartFails, PreStart
  <2> QED BY <1>1, <2>1, GoesOn, FreeIsNobody DEF Steps, Down, CallsAreKnown
<1>4. CASE StopBegins(t)
  <2>1. /\ Goes(t, "wait") /\ UNCHANGED <<ninit, infoVars>> /\ nlock = "free" /\ nlock' = t
        /\ conn \in {"Connecting", "Connected"}
    BY <1>4 DEF StopBegins
  <2> QED BY <1>1, <2>1, GoesOn, FreeIsNobody DEF Steps, infoVars, CallsAreKnown
<1>5. CASE StopEnds(t) \/ StopFails(t)
  <2>1. /\ Goes(t, "close") /\ UNCHANGED <<ninit, view, info, told>>
        /\ ncall[t][3] = "wait"
        /\ conn' = conn \/ conn' = IF view.iface THEN "Disconnecting" ELSE "Disconnected"
    BY <1>5 DEF StopEnds, StopFails, At, UpdateStopStatus, infoVars
  <2>2. nlock = t /\ conn \in {"Connecting", "Connected"}
    BY <1>1, <2>1
  <2> QED BY <1>1, <2>1, <2>2, GoesOn DEF Steps, CallsAreKnown
<1>6. CASE Register(t)
  <2>1. /\ Goes(t, "close") /\ UNCHANGED <<ninit, nlock, conn, view, info>>
        /\ told' \in {"none", info}
    BY <1>6 DEF Register, RegisterCallback, UnregisterCallback
  <2> QED BY <1>1, <2>1, GoesOn DEF Steps, CallsAreKnown
<1>7. CASE CloseHandle(t)
  BY <1>7 DEF CloseHandle, infoVars, CallsAreKnown
<1> QED BY <1>2, <1>3, <1>4, <1>5, <1>6, <1>7 DEF CallGoesOn

\* The events that the handler takes tell what they change.
LEMMA EventKeeps ==
  ASSUME NetIInv, EventThread
  PROVE  NetIInv'
<1> USE DEF NetIInv, StopHoldsTheLock, InfoIsUpToDate, CallsAreKnown
<1>1. CASE EventTaken \/ IfDownPre \/ EventLost
  BY <1>1, NothingToTell DEF EventTaken, IfDownPre, EventLost, callVars, infoVars
<1>2. ASSUME NEW e \in {"IfUp", "LinkUp"}, EventUp(e) PROVE NetIInv'
  <2>1. PICK v \in {[view EXCEPT !.iface = TRUE], [view EXCEPT !.link = TRUE]} : LinkedUp(v)
    BY <1>2 DEF EventUp
  <2>2. /\ v = [iface |-> v.iface, link |-> v.link] /\ (view.iface => v.iface) /\ view' = v
        /\ UNCHANGED <<ninit, nlock, ncall>> /\ nlock = "free"
    BY <1>2, <2>1 DEF EventUp, LinkedUp, EventHandled, callVars
  <2>3. \/ UNCHANGED <<conn, info, told>>
        \/ v.iface /\ conn' = "Connected" /\ Tell("Connected")
    BY <2>1 DEF LinkedUp
  <2> QED BY <2>2, <2>3, FreeIsNobody DEF Tell
<1>3. ASSUME NEW e \in {"IfDown", "LinkDown"}, EventDown(e) PROVE NetIInv'
  <2>1. /\ view' = [iface |-> view'.iface, link |-> view'.link]
        /\ UNCHANGED <<ninit, nlock, ncall>> /\ nlock = "free"
    BY <1>3 DEF EventDown, EventHandled, callVars
  <2>2. \/ conn # "Connected" /\ UNCHANGED <<conn, info, told>>
        \/ conn' \in {"Connecting", "Disconnected"} /\ Tell("Disconnected")
    BY <1>3 DEF EventDown
  <2> QED BY <2>1, <2>2, FreeIsNobody DEF Tell
<1> QED BY <1>1, <1>2, <1>3 DEF EventThread

\* Every step keeps the invariant.
LEMMA NetStep == NetIInv /\ [NetNext]_netVars => NetIInv'
<1> SUFFICES ASSUME NetIInv, [NetNext]_netVars PROVE NetIInv'
  OBVIOUS
<1>1. CASE EsfNetworkManagerInit
  BY <1>1 DEF EsfNetworkManagerInit, NetIInv, StopHoldsTheLock, InfoIsUpToDate, CallsAreKnown, Down
<1>2. CASE EsfNetworkManagerDeinit
  BY <1>2 DEF EsfNetworkManagerDeinit, NetIInv, StopHoldsTheLock, InfoIsUpToDate, CallsAreKnown,
     callVars, infoVars
<1>3. CASE EsfNetworkManagerOpen \/ EsfNetworkManagerClose
  BY <1>3, NothingToTell DEF EsfNetworkManagerOpen, EsfNetworkManagerClose, infoVars
<1>4. ASSUME NEW t \in NetClients, OpenHandle(t) PROVE NetIInv'
  <2>1. PICK h \in NetHandles, op \in Ops :
          /\ ninit /\ ncall' = [ncall EXCEPT ![t] = <<op, h, "lock">>]
          /\ UNCHANGED <<ninit, nlock, infoVars>>
    BY <1>4 DEF OpenHandle, Ops
  <2>2. <<op, h, "lock">> \in Ops \X NetHandles \X Steps /\ <<op, h, "lock">>[3] = "lock"
    BY DEF Steps
  <2> QED
    BY <2>1, <2>2 DEF NetIInv, StopHoldsTheLock, InfoIsUpToDate, CallsAreKnown, infoVars
<1>5. ASSUME NEW t \in NetClients, CallGoesOn(t) PROVE NetIInv'
  BY <1>5, CallKeeps
<1>6. CASE InterfaceFollows \/ CableMoves \/ EtherMonitorThread \/ LeaseEvent
  BY <1>6, NothingToTell
     DEF InterfaceFollows, CableMoves, EtherMonitorThread, LeaseEvent, callVars, infoVars
<1>7. CASE EventThread
  BY <1>7, EventKeeps
<1>8. CASE UNCHANGED netVars
  BY <1>8, NothingToTell DEF netVars
<1> QED BY <1>1, <1>2, <1>3, <1>4, <1>5, <1>6, <1>7, <1>8 DEF NetNext

(* The callback last heard what the status is, whichever call or event     *)
(* brought the manager there (network_manager.c, CallCallback).            *)
THEOREM SpecCallbackIsUpToDate == NetSpec => []CallbackIsUpToDate
<1>1. NetInit => NetIInv
  BY DEF NetInit, NetIInv, StopHoldsTheLock, InfoIsUpToDate, CallsAreKnown, Down
<1>2. NetIInv => CallbackIsUpToDate
  BY DEF NetIInv, InfoIsUpToDate, CallbackIsUpToDate
<1> QED BY <1>1, <1>2, NetStep, PTL DEF NetSpec

----------------------------------------------------------------------------
(* A Stop that waits is answered.  view.iface is behind the interface by the *)
(* events that are queued, seen.iface by what the monitor thread has not yet *)
(* looked at: an interface the manager takes for up is seen up, or its       *)
(* IfDown is queued behind whatever made the manager take it for up.         *)

Events == {"IfUp", "IfDown", "LinkUp", "LinkDown", "IfDownPre"}

\* An IfDown is queued behind place k.
DownAfter(s, k) == \E j \in 1..Len(s) : j > k /\ s[j] = "IfDown"

\* Every IfUp is followed by an IfDown.
UpsEnd(s) == \A i \in 1..Len(s) : s[i] = "IfUp" => DownAfter(s, i)

QueueIsKnown ==
  /\ nqueue \in Seq(Events) /\ Len(nqueue) <= NetMsgs
  /\ handling => nqueue # <<>>

HandlerHears == ninit /\ conn # "Disconnected" => handler

StopsWaitForDown == ninit /\ conn = "Disconnecting" => view.iface /\ ~plnet

DownIsDue ==
  ~lost /\ ~seen.iface => /\ UpsEnd(nqueue)
                          /\ ninit /\ conn # "Disconnected" /\ view.iface => DownAfter(nqueue, 0)

EventsIInv == QueueIsKnown /\ HandlerHears /\ StopsWaitForDown /\ DownIsDue

\* The messages behind the first.
LEMMA TailIs ==
  ASSUME NEW s \in Seq(Events), s # <<>>
  PROVE  /\ Tail(s) \in Seq(Events) /\ Len(Tail(s)) = Len(s) - 1 /\ Len(s) \in Nat \ {0}
         /\ \A k \in 1..Len(Tail(s)) : Tail(s)[k] = s[k + 1]
         /\ Head(s) = s[1] /\ Head(s) \in Events
  OBVIOUS

\* What was due behind the first message is still due when it is gone.
LEMMA DueInTail ==
  ASSUME NEW s \in Seq(Events), s # <<>>
  PROVE  /\ UpsEnd(s) => UpsEnd(Tail(s))
         /\ DownAfter(s, 0) /\ Head(s) # "IfDown" => DownAfter(Tail(s), 0)
         /\ UpsEnd(s) /\ Head(s) = "IfUp" => DownAfter(Tail(s), 0)
<1>1. \A k \in 1..Len(s) : DownAfter(s, k) => DownAfter(Tail(s), k - 1)
  <2> SUFFICES ASSUME NEW k \in 1..Len(s), NEW j \in 1..Len(s), j > k, s[j] = "IfDown"
               PROVE  \E i \in 1..Len(Tail(s)) : i > k - 1 /\ Tail(s)[i] = "IfDown"
    BY DEF DownAfter
  <2>1. j - 1 \in 1..Len(Tail(s)) /\ j - 1 > k - 1 /\ (j - 1) + 1 = j
    BY TailIs
  <2>2. Tail(s)[j - 1] = "IfDown"
    BY <2>1, TailIs
  <2> QED
    BY <2>1, <2>2
<1>2. UpsEnd(s) => UpsEnd(Tail(s))
  <2> SUFFICES ASSUME UpsEnd(s), NEW k \in 1..Len(Tail(s)), Tail(s)[k] = "IfUp"
               PROVE  DownAfter(Tail(s), k)
    BY DEF UpsEnd
  <2>1. k + 1 \in 1..Len(s) /\ s[k + 1] = "IfUp" /\ (k + 1) - 1 = k
    BY TailIs
  <2>2. DownAfter(s, k + 1)
    BY <2>1 DEF UpsEnd
  <2>3. DownAfter(Tail(s), (k + 1) - 1)
    BY <1>1, <2>1, <2>2
  <2> QED
    BY <2>1, <2>3
<1>3. 1 \in 1..Len(s) /\ s[1] = Head(s)
  BY TailIs
<1>4. DownAfter(s, 1) => DownAfter(Tail(s), 0)
  BY <1>1, <1>3
<1>5. DownAfter(s, 0) /\ Head(s) # "IfDown" => DownAfter(s, 1)
  BY <1>3 DEF DownAfter
<1>6. UpsEnd(s) /\ Head(s) = "IfUp" => DownAfter(s, 1)
  BY <1>3 DEF UpsEnd
<1> QED
  BY <1>2, <1>4, <1>5, <1>6

\* Messages w queued behind those of s.
LEMMA JoinedIs ==
  ASSUME NEW s \in Seq(Events), NEW w \in Seq(Events)
  PROVE  /\ s \o w \in Seq(Events) /\ Len(s \o w) = Len(s) + Len(w)
         /\ Len(s) \in Nat /\ Len(w) \in Nat
         /\ \A k \in 1..Len(s) : (s \o w)[k] = s[k]
         /\ \A k \in 1..Len(w) : (s \o w)[Len(s) + k] = w[k]
  OBVIOUS

LEMMA DueWhenJoined ==
  ASSUME NEW s \in Seq(Events), NEW w \in Seq(Events), \A k \in 1..Len(w) : w[k] # "IfUp"
  PROVE  /\ DownAfter(s, 0) => DownAfter(s \o w, 0)
         /\ UpsEnd(s) => UpsEnd(s \o w)
         /\ (\E k \in 1..Len(w) : w[k] = "IfDown") => UpsEnd(s \o w) /\ DownAfter(s \o w, 0)
<1>1. \A k \in 0..Len(s) : DownAfter(s, k) => DownAfter(s \o w, k)
  <2> SUFFICES ASSUME NEW k \in 0..Len(s), NEW j \in 1..Len(s), j > k, s[j] = "IfDown"
               PROVE  \E i \in 1..Len(s \o w) : i > k /\ (s \o w)[i] = "IfDown"
    BY DEF DownAfter
  <2>1. j \in 1..Len(s \o w) /\ (s \o w)[j] = "IfDown"
    BY JoinedIs
  <2> QED
    BY <2>1
<1>2. \A i \in 1..Len(s \o w) : (s \o w)[i] = "IfUp" => i \in 1..Len(s) /\ s[i] = "IfUp"
  <2> SUFFICES ASSUME NEW i \in 1..Len(s \o w), (s \o w)[i] = "IfUp"
               PROVE  i \in 1..Len(s) /\ s[i] = "IfUp"
    OBVIOUS
  <2>1. CASE i \in 1..Len(s)
    BY <2>1, JoinedIs
  <2>2. CASE i \notin 1..Len(s)
    <3>1. i - Len(s) \in 1..Len(w) /\ Len(s) + (i - Len(s)) = i
      BY <2>2, JoinedIs
    <3>2. (s \o w)[Len(s) + (i - Len(s))] = w[i - Len(s)]
      BY <3>1, JoinedIs
    <3> QED
      BY <3>1, <3>2
  <2> QED
    BY <2>1, <2>2
<1>3. UpsEnd(s) => UpsEnd(s \o w)
  <2> SUFFICES ASSUME UpsEnd(s), NEW i \in 1..Len(s \o w), (s \o w)[i] = "IfUp"
               PROVE  DownAfter(s \o w, i)
    BY DEF UpsEnd
  <2>1. i \in 1..Len(s) /\ s[i] = "IfUp"
    BY <1>2
  <2>2. DownAfter(s, i) /\ i \in 0..Len(s)
    BY <2>1, JoinedIs DEF UpsEnd
  <2> QED
    BY <1>1, <2>2
<1>4. 0 \in 0..Len(s)
  BY JoinedIs
<1>5. ASSUME NEW n \in 1..Len(w), w[n] = "IfDown"
      PROVE  UpsEnd(s \o w) /\ DownAfter(s \o w, 0)
  <2>1. Len(s) + n \in 1..Len(s \o w) /\ (s \o w)[Len(s) + n] = "IfDown"
    BY <1>5, JoinedIs
  <2>2. \A k \in 0..Len(s) : Len(s) + n > k
    BY JoinedIs
  <2>3. \A k \in 0..Len(s) : DownAfter(s \o w, k)
    BY <2>1, <2>2 DEF DownAfter
  <2>4. \A k \in 1..Len(s) : k \in 0..Len(s)
    BY JoinedIs
  <2> QED
    BY <1>2, <1>4, <2>3, <2>4 DEF UpsEnd
<1> QED
  BY <1>1, <1>3, <1>4, <1>5

\* A step that handles no event, queues none and changes nothing they tell of.
LEMMA NoEvent ==
  ASSUME EventsIInv, UNCHANGED <<nqueue, handling, handler, lost, seen, ninit, view, conn>>,
         plnet' => plnet \/ conn # "Disconnecting"
  PROVE  EventsIInv'
  BY DEF EventsIInv, QueueIsKnown, HandlerHears, StopsWaitForDown, DownIsDue

LEMMA CallEvents ==
  ASSUME NetIInv, EventsIInv, NEW t \in NetClients, CallGoesOn(t)
  PROVE  EventsIInv'
<1>1. CASE \/ LockTimesOut(t) \/ StartRefused(t) \/ StopRefused(t) \/ GetIFStatus(t)
           \/ GetNetstat(t) \/ Register(t) \/ CloseHandle(t) \/ StopFails(t)
  <2>1. UNCHANGED <<nqueue, handling, handler, lost, seen, ninit, view, conn, plnet>>
    BY <1>1 DEF LockTimesOut, StartRefused, StopRefused, GetIFStatus, GetNetstat, Register,
       CloseHandle, StopFails, eventVars, deviceVars, infoVars
  <2> QED BY <2>1, NoEvent
<1>2. CASE Start(t) \/ StartFails(t)
  <2>1. /\ UNCHANGED <<nqueue, handling, lost, seen, ninit>> /\ view' = Down
        /\ \/ conn' = "Disconnected"
           \/ conn' = "Connecting" /\ handler' = TRUE
    BY <1>2 DEF Start, StartFails, PreStart, PlNetworkRegisterEventHandler, eventVars, deviceVars
  <2>2. ~view'.iface
    BY <2>1 DEF Down
  <2> QED
    BY <2>1, <2>2 DEF EventsIInv, QueueIsKnown, HandlerHears, StopsWaitForDown, DownIsDue
<1>3. CASE StopBegins(t)
  <2>1. /\ UNCHANGED <<handling, handler, lost, seen, ninit, view, conn, plnet>>
        /\ nqueue' = nqueue
           \/ (Len(nqueue) < NetMsgs /\ nqueue' = Append(nqueue, "IfDownPre"))
    BY <1>3 DEF StopBegins, Send, deviceVars, infoVars
  <2>2. CASE nqueue' = nqueue
    BY <2>1, <2>2, NoEvent
  <2>3. CASE Len(nqueue) < NetMsgs /\ nqueue' = Append(nqueue, "IfDownPre")
    <3>1. PICK w : w = <<"IfDownPre">>
      OBVIOUS
    <3>2. nqueue \in Seq(Events) /\ w \in Seq(Events) /\ Len(w) = 1 /\ w[1] = "IfDownPre"
      BY <3>1 DEF Events, EventsIInv, QueueIsKnown
    <3>3. nqueue' = nqueue \o w
      BY <2>3, <3>1, <3>2
    <3>4. \A k \in 1..Len(w) : w[k] # "IfUp"
      BY <3>2
    <3>5. nqueue' \in Seq(Events) /\ Len(nqueue') <= NetMsgs /\ nqueue' # <<>>
      BY <2>3, <3>2, <3>3, JoinedIs, QueueAssumption
    <3>6. /\ DownAfter(nqueue, 0) => DownAfter(nqueue', 0)
          /\ UpsEnd(nqueue) => UpsEnd(nqueue')
      BY <3>2, <3>3, <3>4, DueWhenJoined
    <3> QED
      BY <2>1, <3>5, <3>6
         DEF EventsIInv, QueueIsKnown, HandlerHears, StopsWaitForDown, DownIsDue
  <2> QED BY <2>1, <2>2, <2>3
<1>4. CASE StopEnds(t)
  <2>1. /\ UNCHANGED <<nqueue, handling, handler, lost, seen, ninit, view>> /\ plnet' = FALSE
        /\ conn' = IF view.iface THEN "Disconnecting" ELSE "Disconnected"
    BY <1>4 DEF StopEnds, PlNetworkStop, UpdateStopStatus, eventVars, deviceVars
  <2>2. conn # "Disconnected"
    BY <1>4 DEF StopEnds, At, NetIInv, StopHoldsTheLock, CallsAreKnown
  <2> QED
    BY <2>1, <2>2 DEF EventsIInv, QueueIsKnown, HandlerHears, StopsWaitForDown, DownIsDue
<1> QED BY <1>1, <1>2, <1>3, <1>4 DEF CallGoesOn

LEMMA SingleEvents ==
  /\ <<>> \in Seq(Events)
  /\ \A e \in Events : <<e>> \in Seq(Events)
<1>1. <<>> \in Seq(Events)
  OBVIOUS
<1>2. ASSUME NEW e \in Events PROVE <<e>> \in Seq(Events)
  OBVIOUS
<1> QED BY <1>1, <1>2

LEMMA SeenEvents == IfEvents \in Seq(Events) /\ LinkEvents \in Seq(Events)
<1>1. "IfUp" \in Events /\ "IfDown" \in Events /\ "LinkUp" \in Events /\ "LinkDown" \in Events
  BY DEF Events
<1> QED BY <1>1, SingleEvents DEF IfEvents, LinkEvents

\* The monitor thread queues what it sees, or some of it is lost.
LEMMA MonitorEvents ==
  ASSUME EventsIInv, EtherMonitorThread
  PROVE  EventsIInv'
<1>1. PICK w : w = IfEvents \o LinkEvents
  OBVIOUS
<1>2. /\ w \in Seq(Events) /\ (~ifReal => \A k \in 1..Len(w) : w[k] # "IfUp")
      /\ ~ifReal /\ ~(ifReal = seen.iface) => \E k \in 1..Len(w) : w[k] = "IfDown"
  <2>1. IfEvents \in {<<>>, <<"IfUp">>, <<"IfDown">>} /\ (~ifReal => IfEvents # <<"IfUp">>)
        /\ (~ifReal /\ ~(ifReal = seen.iface) => IfEvents = <<"IfDown">>)
    BY DEF IfEvents
  <2>2. LinkEvents \in {<<>>, <<"LinkUp">>, <<"LinkDown">>}
    BY DEF LinkEvents
  <2>3. PICK a \in {<<>>, <<"IfUp">>, <<"IfDown">>}, b \in {<<>>, <<"LinkUp">>, <<"LinkDown">>} :
          a = IfEvents /\ b = LinkEvents
    BY <2>1, <2>2
  <2>4. a \in Seq(Events) /\ b \in Seq(Events)
    BY <2>3, SeenEvents
  <2>5. w = a \o b
    BY <1>1, <2>3
  <2>6. \A k \in 1..Len(w) : w[k] = "IfUp" => a = <<"IfUp">>
    BY <2>3, <2>4, <2>5, JoinedIs
  <2>7. a = <<"IfDown">> => 1 \in 1..Len(w) /\ w[1] = "IfDown"
    BY <2>3, <2>4, <2>5, JoinedIs
  <2> QED
    BY <2>1, <2>3, <2>4, <2>5, <2>6, <2>7, JoinedIs
<1>3. PICK both : both = nqueue \o w
  OBVIOUS
<1>4. nqueue \in Seq(Events) /\ Len(nqueue) \in Nat /\ Len(nqueue) <= NetMsgs /\ NetMsgs \in Nat
  BY QueueAssumption DEF EventsIInv, QueueIsKnown
<1>5. both \in Seq(Events) /\ Len(both) = Len(nqueue) + Len(w) /\ Len(w) \in Nat
  BY <1>2, <1>3, <1>4, JoinedIs
<1>6. nqueue \o IfEvents \o LinkEvents = both
  <2>1. IfEvents \in Seq(Events) /\ LinkEvents \in Seq(Events)
    BY SeenEvents
  <2> QED
    BY <1>1, <1>3, <1>4, <2>1
<1>7. /\ seen' = [iface |-> ifReal, link |-> cable]
      /\ nqueue' = SubSeq(both, 1, IF Len(both) < NetMsgs THEN Len(both) ELSE NetMsgs)
      /\ lost' = (lost \/ Len(both) > NetMsgs)
      /\ UNCHANGED <<handling, handler, ninit, view, conn, plnet>>
  BY <1>6 DEF EtherMonitorThread, infoVars
<1>8. nqueue' \in Seq(Events) /\ Len(nqueue') <= NetMsgs
  BY <1>4, <1>5, <1>7
<1>9. handling => nqueue' # <<>>
  <2>1. handling => Len(nqueue) > 0
    BY <1>4 DEF EventsIInv, QueueIsKnown
  <2>2. handling => Len(nqueue') > 0
    BY <2>1, <1>4, <1>5, <1>7
  <2> QED
    BY <2>2, <1>8
<1>10. ASSUME ~lost', ~seen'.iface
       PROVE  /\ UpsEnd(nqueue')
              /\ ninit /\ conn # "Disconnected" /\ view.iface => DownAfter(nqueue', 0)
  <2>1. ~lost /\ ~(Len(both) > NetMsgs) /\ ~ifReal
    BY <1>7, <1>10
  <2>2. nqueue' = both
    BY <2>1, <1>4, <1>5, <1>7
  <2>3. CASE ifReal = seen.iface
    <3>1. /\ UpsEnd(nqueue)
          /\ ninit /\ conn # "Disconnected" /\ view.iface => DownAfter(nqueue, 0)
      BY <2>1, <2>3 DEF EventsIInv, DownIsDue
    <3> QED
      BY <1>2, <1>3, <1>4, <2>1, <2>2, <3>1, DueWhenJoined
  <2>4. CASE ~(ifReal = seen.iface)
    BY <1>2, <1>3, <1>4, <2>1, <2>2, <2>4, DueWhenJoined
  <2> QED
    BY <2>3, <2>4
<1> QED
  BY <1>7, <1>8, <1>9, <1>10
     DEF EventsIInv, QueueIsKnown, HandlerHears, StopsWaitForDown, DownIsDue

\* A message leaves the queue with its handler.
LEMMA HandledIs ==
  ASSUME EventsIInv, Handled
  PROVE  /\ handling /\ ~handling'
         /\ nqueue' \in Seq(Events) /\ Len(nqueue') <= NetMsgs
         /\ UpsEnd(nqueue) => UpsEnd(nqueue')
         /\ DownAfter(nqueue, 0) /\ Head(nqueue) # "IfDown" => DownAfter(nqueue', 0)
         /\ UpsEnd(nqueue) /\ Head(nqueue) = "IfUp" => DownAfter(nqueue', 0)
<1>1. handling /\ nqueue \in Seq(Events) /\ nqueue # <<>> /\ nqueue' = Tail(nqueue) /\ ~handling'
      /\ Len(nqueue) <= NetMsgs
  BY DEF Handled, EventsIInv, QueueIsKnown
<1>2. nqueue' \in Seq(Events) /\ Len(nqueue') <= NetMsgs
  BY <1>1, TailIs, QueueAssumption
<1> QED
  BY <1>1, <1>2, DueInTail

LEMMA EventEvents ==
  ASSUME NetIInv, EventsIInv, EventThread
  PROVE  EventsIInv'
<1> USE DEF EventsIInv, QueueIsKnown, HandlerHears, StopsWaitForDown, DownIsDue
<1>1. CASE EventTaken
  <2>1. /\ nqueue # <<>> /\ ~handling /\ handling' = handler
        /\ nqueue' = IF handler THEN nqueue ELSE Tail(nqueue)
        /\ UNCHANGED <<handler, lost, seen, ninit, view, conn, plnet>>
    BY <1>1 DEF EventTaken, infoVars, deviceVars
  <2>2. CASE handler
    BY <2>1, <2>2
  <2>3. CASE ~handler
    <3>1. nqueue' \in Seq(Events) /\ Len(nqueue') <= NetMsgs
          /\ (UpsEnd(nqueue) => UpsEnd(nqueue'))
      BY <2>1, <2>3, TailIs, DueInTail, QueueAssumption
    <3>2. ~(ninit /\ conn # "Disconnected")
      BY <2>3
    <3> QED
      BY <2>1, <2>3, <3>1, <3>2
  <2> QED BY <2>2, <2>3
<1>2. CASE IfDownPre
  <2>1. Handled /\ Head(nqueue) # "IfDown"
        /\ UNCHANGED <<handler, lost, seen, ninit, view, conn, plnet>>
    BY <1>2 DEF IfDownPre, infoVars, deviceVars
  <2> QED BY <2>1, HandledIs
<1>3. CASE EventLost
  <2>1. Handled /\ lost' = (lost \/ Head(nqueue) = "IfDown")
        /\ UNCHANGED <<handler, seen, ninit, view, conn, plnet>>
    BY <1>3 DEF EventLost, infoVars, deviceVars
  <2> QED BY <2>1, HandledIs
<1>4. ASSUME NEW e \in {"IfUp", "LinkUp"}, EventUp(e) PROVE EventsIInv'
  <2>1. Handled /\ Head(nqueue) = e /\ ninit
        /\ UNCHANGED <<handler, lost, seen, ninit, plnet>>
    BY <1>4 DEF EventUp, EventHandled, deviceVars
  <2>2. /\ conn' = "Disconnecting" => conn = "Disconnecting"
        /\ conn' # "Disconnected" => conn # "Disconnected"
    BY <1>4 DEF EventUp, LinkedUp
  <2>3. view'.iface => e = "IfUp" \/ view.iface
    BY <1>4 DEF EventUp, LinkedUp, NetIInv, CallsAreKnown
  <2>4. view.iface => view'.iface
    BY <1>4 DEF EventUp, LinkedUp, NetIInv, CallsAreKnown
  <2> QED BY <2>1, <2>2, <2>3, <2>4, HandledIs
<1>5. ASSUME NEW e \in {"IfDown", "LinkDown"}, EventDown(e) PROVE EventsIInv'
  <2>1. Handled /\ Head(nqueue) = e /\ ninit
        /\ UNCHANGED <<handler, lost, seen, ninit, plnet>>
    BY <1>5 DEF EventDown, EventHandled, deviceVars
  <2>2. /\ conn' = "Disconnecting" => conn = "Disconnecting" /\ e = "LinkDown"
        /\ conn' # "Disconnected" => conn # "Disconnected"
    BY <1>5 DEF EventDown
  <2>3. view'.iface => view.iface /\ e = "LinkDown"
    BY <1>5 DEF EventDown, NetIInv, CallsAreKnown
  <2>4. e = "LinkDown" => (view'.iface <=> view.iface)
    BY <1>5 DEF EventDown, NetIInv, CallsAreKnown
  <2> QED BY <2>1, <2>2, <2>3, <2>4, HandledIs
<1> QED BY <1>1, <1>2, <1>3, <1>4, <1>5 DEF EventThread

LEMMA NetStepEvents == NetIInv /\ EventsIInv /\ [NetNext]_netVars => EventsIInv'
<1> SUFFICES ASSUME NetIInv, EventsIInv, [NetNext]_netVars PROVE EventsIInv'
  OBVIOUS
<1>1. CASE EsfNetworkManagerInit
  <2>1. /\ ~handling' /\ conn' = "Disconnected" /\ view' = Down
        /\ UNCHANGED <<nqueue, handling, lost, seen>>
    BY <1>1 DEF EsfNetworkManagerInit, eventVars, deviceVars
  <2> QED
    BY <2>1 DEF Down, EventsIInv, QueueIsKnown, HandlerHears, StopsWaitForDown, DownIsDue
<1>2. CASE EsfNetworkManagerDeinit
  <2>1. ~ninit' /\ UNCHANGED <<nqueue, handling, lost, seen>>
    BY <1>2 DEF EsfNetworkManagerDeinit, eventVars, deviceVars
  <2> QED
    BY <2>1 DEF EventsIInv, QueueIsKnown, HandlerHears, StopsWaitForDown, DownIsDue
<1>3. CASE \/ EsfNetworkManagerOpen \/ EsfNetworkManagerClose
           \/ \E t \in NetClients : OpenHandle(t)
           \/ InterfaceFollows \/ CableMoves \/ LeaseEvent
  <2>1. UNCHANGED <<nqueue, handling, handler, lost, seen, ninit, view, conn, plnet>>
    BY <1>3 DEF EsfNetworkManagerOpen, EsfNetworkManagerClose, OpenHandle, InterfaceFollows,
       CableMoves, LeaseEvent, eventVars, deviceVars, infoVars
  <2> QED BY <2>1, NoEvent
<1>4. CASE UNCHANGED netVars
  BY <1>4, NoEvent DEF netVars
<1> QED BY <1>1, <1>2, <1>3, <1>4, CallEvents, MonitorEvents, EventEvents DEF NetNext

(* Disconnecting, in which the manager refuses every Start and Stop, is entered
   only if the IfDown that ends it is queued or due: whatever the order of the
   cable, the monitor thread, the events before it and further calls
   (network_manager.c, UpdateStopStatus; the porting layer's monitor thread).
   What can still break it is a lost event, the run network_stop. *)
THEOREM SpecStopIsAnswered == NetSpec => []StopIsAnswered
<1>1. NetInit => NetIInv
  BY DEF NetInit, NetIInv, StopHoldsTheLock, InfoIsUpToDate, CallsAreKnown, Down
<1>2. NetInit => EventsIInv
  <2> SUFFICES ASSUME NetInit PROVE EventsIInv
    OBVIOUS
  <2>1. ~ninit /\ nqueue = <<>> /\ ~handling
    BY DEF NetInit
  <2>2. nqueue \in Seq(Events) /\ Len(nqueue) = 0
    BY <2>1
  <2> QED
    BY <2>1, <2>2, QueueAssumption
       DEF EventsIInv, QueueIsKnown, HandlerHears, StopsWaitForDown, DownIsDue, UpsEnd
<1>3. EventsIInv => StopIsAnswered
  BY DEF EventsIInv, QueueIsKnown, HandlerHears, StopsWaitForDown, DownIsDue, DownAfter,
     StopIsAnswered
<1> QED BY <1>1, <1>2, <1>3, NetStep, NetStepEvents, PTL DEF NetSpec

(* A client that registered hears what the status is, and one that stopped the  *)
(* interface is not left waiting for news that is not to come.                  *)
THEOREM SpecClientsAreAnswered == NetSpec => []ClientsAreAnswered
<1>1. []CallbackIsUpToDate /\ []StopIsAnswered => []ClientsAreAnswered
  BY PTL DEF ClientsAreAnswered
<1> QED BY <1>1, SpecCallbackIsUpToDate, SpecStopIsAnswered, PTL
============================================================================
