---------------------------- MODULE ClockManager ----------------------------
(***************************************************************************)
(* The clock manager: its life cycle (clock_manager.c), its parameters     *)
(* (clock_manager_setting.c), the thread that watches the NTP client       *)
(* (clock_manager_monitor.c) and the one that tells about the first        *)
(* synchronization (clock_manager_notification.c).                         *)
(*                                                                         *)
(* While the time is being synchronized no parameter may be written:       *)
(* m_is_process_in_of_ntp_time_synchronization keeps new writers out and   *)
(* m_is_in_rw says who is inside.  Locks, allocations and conditions do    *)
(* not fail here; the NTP client and the threads' creation may.  The       *)
(* parameters are one value: which members a mask selects is left out.     *)
(***************************************************************************)
EXTENDS Integers, Sequences, FiniteSets

CONSTANTS Clients,       \* threads that read and write parameters
          ParamValues,   \* what they write
          MaxClockFails  \* bound: how often the NTP client or a thread fails

VARIABLES cstate,     \* s_state
          cstep,      \* how far the call that holds the state Lock is
          insync,     \* m_is_process_in_of_ntp_time_synchronization
          barrier,    \* who holds the mutex of that flag
          rw,         \* m_is_in_rw: -1 for a writer, else the readers
          client,     \* what each client is doing
          volatile,   \* g_params_in_volatile
          psm,        \* what the parameter storage holds
          registered, \* g_factory_reset_registration_id and g_psm_handle are valid
          ntpCb,      \* a callback on the synchronization is registered
          monitor,    \* the monitor thread; "none" is an invalid thread id
          finReq,     \* m_req_fin
          posted,     \* has_complete_notif_been_posted
          notifier,   \* the notifier thread; "none" is an invalid thread id
          notes,      \* m_notifications
          ntp,        \* the NTP client: "off", "active" or "synced"
          missed,     \* a notification found no callback
          overrun,    \* Init reset m_is_in_rw below a client
          joinedNone, \* an invalid thread id was joined: the process is gone
          clockFails

lifeVars == <<cstate, cstep, registered>>
barrierVars == <<insync, barrier, rw>>
threadVars == <<monitor, finReq, posted, notifier, notes>>
clockVars == <<lifeVars, barrierVars, client, volatile, psm, ntpCb, threadVars, ntp,
               missed, overrun, joinedNone, clockFails>>

Default == "default"
NoParams == "no params"
Unusable == "out of range"  \* parameters that another version has stored
NoOne == "no one"
Idling == [at |-> "idle", value |-> Default]

Init ==
  /\ cstate = "Idle" /\ cstep = "none" /\ registered = FALSE
  /\ insync = FALSE /\ barrier = NoOne /\ rw = 0
  /\ client = [c \in Clients |-> Idling]
  /\ volatile = NoParams /\ psm \in {Default, Unusable} /\ ntpCb = FALSE
  /\ monitor = "none" /\ finReq = FALSE /\ posted = FALSE
  /\ notifier = "none" /\ notes = <<>> /\ ntp = "off"
  /\ missed = FALSE /\ overrun = FALSE /\ joinedNone = FALSE /\ clockFails = 0

ClockWorks == UNCHANGED clockFails
ClockFails == clockFails < MaxClockFails /\ clockFails' = clockFails + 1

Usable == cstate \in {"Ready", "Running"}

\* The limits of the parameters, for what is set and for what is loaded.
CheckParam(v) == v # Unusable
GetPsmDefault == Default

SubstituteDefault(v) == IF CheckParam(v) THEN v ELSE GetPsmDefault
LoadFromPsm(loaded) == IF loaded THEN SubstituteDefault(psm) ELSE GetPsmDefault

(***************************************************************************)
(* EsfClockManagerInit: the settings are loaded, the default for those     *)
(* that are not; m_is_in_rw starts from 0 whoever is inside.               *)
(***************************************************************************)
InitSetting(loaded) ==
  /\ volatile' = LoadFromPsm(loaded)
  /\ cstate' = "Ready" /\ registered' = TRUE

FreeResource == registered' = FALSE /\ volatile' = NoParams

EsfClockManagerInit ==
  /\ cstate = "Idle"
  /\ \/ InitSetting(TRUE) /\ ClockWorks
     \/ InitSetting(FALSE) /\ ClockFails
     \/ FreeResource /\ ClockFails /\ UNCHANGED cstate
  /\ insync' = FALSE /\ rw' = 0
  /\ overrun' = \E c \in Clients : client[c].at \in {"writing", "saved", "reading"}
  /\ UNCHANGED <<cstep, barrier, client, psm, ntpCb, threadVars, ntp, missed, joinedNone>>

EsfClockManagerDeinit ==
  /\ cstate = "Ready" /\ cstate' = "Idle" /\ FreeResource
  /\ UNCHANGED <<cstep, barrierVars, client, psm, ntpCb, threadVars, ntp, missed,
                 overrun, joinedNone, clockFails>>

(* EsfClockManagerOnFactoryReset, called by the parameter storage manager. *)
OnFactoryReset ==
  /\ registered /\ volatile # NoParams /\ volatile' = Default /\ psm' = Default
  /\ UNCHANGED <<lifeVars, barrierVars, client, ntpCb, threadVars, ntp, missed, overrun,
                 joinedNone, clockFails>>

RegisterNtpSyncCompleteCb ==
  /\ Usable /\ ntpCb' = ~ntpCb
  /\ UNCHANGED <<lifeVars, barrierVars, client, volatile, psm, threadVars, ntp, missed,
                 overrun, joinedNone, clockFails>>

(***************************************************************************)
(* The parameters.  A client asks for the state and then for the barrier,  *)
(* which it keeps while it waits for those who are inside.                 *)
(***************************************************************************)
At(c, at) == client' = [client EXCEPT ![c].at = at]

Ask(c) ==
  /\ Usable /\ registered /\ client[c].at = "idle"
  /\ \/ At(c, "read")
     \/ \E at \in {"set", "set forcibly"}, v \in ParamValues \cup {Unusable} :
          /\ CheckParam(v)
          /\ client' = [client EXCEPT ![c] = [at |-> at, value |-> v]]
  /\ UNCHANGED <<lifeVars, barrierVars, volatile, psm, ntpCb, threadVars, ntp, missed,
                 overrun, joinedNone, clockFails>>

\* A server of the migration data, unless one is configured.
MigrateSettings(c) ==
  /\ Usable /\ registered /\ client[c].at = "idle"
  /\ psm = Default
  /\ \E v \in ParamValues :
        client' = [client EXCEPT ![c] = [at |-> "set forcibly", value |-> v]]
  /\ UNCHANGED <<lifeVars, barrierVars, volatile, psm, ntpCb, threadVars, ntp, missed,
                 overrun, joinedNone, clockFails>>

EnterReadingIfPossible(c) ==
  /\ client[c].at = "read"
  /\ IF rw >= 0 THEN rw' = rw + 1 /\ At(c, "reading")
     ELSE UNCHANGED rw /\ At(c, "idle")
  /\ UNCHANGED <<lifeVars, insync, barrier, volatile, psm, ntpCb, threadVars, ntp, missed,
                 overrun, joinedNone, clockFails>>

LeaveReading(c) ==
  /\ client[c].at = "reading" /\ At(c, "idle")
  /\ rw' = IF rw > 0 THEN rw - 1 ELSE rw
  /\ UNCHANGED <<lifeVars, insync, barrier, volatile, psm, ntpCb, threadVars, ntp, missed,
                 overrun, joinedNone, clockFails>>

EnterWritingUnlocked(c) ==  \* a mutant: the barrier is given up for the wait
  /\ \/ /\ client[c].at \in {"set", "set forcibly"}
        /\ client' = [client EXCEPT ![c].at = IF insync THEN "idle"
                        ELSE IF @ = "set" THEN "wait" ELSE "wait forcibly"]
        /\ UNCHANGED rw
     \/ /\ client[c].at \in {"wait", "wait forcibly"} /\ rw = 0 /\ rw' = -1
        /\ At(c, IF client[c].at = "wait" THEN "saved" ELSE "writing")
  /\ UNCHANGED <<lifeVars, insync, barrier, volatile, psm, ntpCb, threadVars, ntp, missed,
                 overrun, joinedNone, clockFails>>

EnterWritingIfPossible(c) ==
  /\ \/ /\ client[c].at \in {"set", "set forcibly"} /\ barrier = NoOne
        /\ IF insync THEN At(c, "idle") /\ UNCHANGED barrier
           ELSE /\ barrier' = c
                /\ At(c, IF client[c].at = "set" THEN "wait" ELSE "wait forcibly")
        /\ UNCHANGED rw
     \/ /\ client[c].at \in {"wait", "wait forcibly"} /\ rw = 0 /\ rw' = -1
        /\ barrier' = NoOne
        /\ At(c, IF client[c].at = "wait" THEN "saved" ELSE "writing")
  /\ UNCHANGED <<lifeVars, insync, volatile, psm, ntpCb, threadVars, ntp, missed, overrun,
                 joinedNone, clockFails>>

(* EsfClockManagerSetParamsForciblyMain saves before it sets; parameters   *)
(* that were not saved are not set either.                                 *)
SaveParams(c) ==
  /\ client[c].at = "writing"
  /\ \/ psm' = client[c].value /\ At(c, "saved") /\ UNCHANGED rw /\ ClockWorks
     \/ /\ UNCHANGED psm /\ At(c, "idle") /\ ClockFails
        /\ rw' = IF rw < 0 THEN rw + 1 ELSE rw
  /\ UNCHANGED <<lifeVars, insync, barrier, volatile, ntpCb, threadVars, ntp, missed,
                 overrun, joinedNone>>

(* EsfClockManagerSubstituteForVolatileObj and LeaveWriting.               *)
SubstituteForVolatileObj(c) ==
  /\ client[c].at = "saved" /\ At(c, "idle")
  /\ volatile' = IF volatile = NoParams THEN volatile ELSE client[c].value
  /\ rw' = IF rw < 0 THEN rw + 1 ELSE rw
  /\ UNCHANGED <<lifeVars, insync, barrier, psm, ntpCb, threadVars, ntp, missed, overrun,
                 joinedNone, clockFails>>

(***************************************************************************)
(* EsfClockManagerStart.                                                   *)
(***************************************************************************)
StepTo(s) == cstep' = s /\ UNCHANGED <<cstate, registered>>
Ends(state) == cstep' = "none" /\ cstate' = state /\ UNCHANGED registered

Start ==
  /\ cstate = "Ready" /\ cstate' = "Lock" /\ cstep' = "mark"
  /\ UNCHANGED <<registered, barrierVars, client, volatile, psm, ntpCb, threadVars, ntp,
                 missed, overrun, joinedNone, clockFails>>

MarkStartingSync ==
  /\ \/ cstep = "mark" /\ barrier = NoOne /\ insync' = TRUE /\ StepTo("writers")
     \/ cstep = "writers" /\ rw >= 0 /\ StepTo("daemon") /\ UNCHANGED insync
  /\ UNCHANGED <<barrier, rw, client, volatile, psm, ntpCb, threadVars, ntp, missed,
                 overrun, joinedNone, clockFails>>

StartNtpClientDaemon ==
  /\ cstep = "daemon"
  /\ \/ ntp' = "active" /\ StepTo("monitor") /\ ClockWorks
     \/ UNCHANGED ntp /\ StepTo("failed notifier") /\ ClockFails
  /\ UNCHANGED <<barrierVars, client, volatile, psm, ntpCb, threadVars, missed, overrun,
                 joinedNone>>

(* A monitor thread that cannot be created leaves the NTP client running.  *)
CreateMonitorThread ==
  /\ cstep = "monitor"
  /\ \/ /\ monitor' = "check" /\ finReq' = FALSE /\ posted' = FALSE
        /\ StepTo("notifier") /\ UNCHANGED insync /\ ClockWorks
     \/ /\ UNCHANGED <<monitor, posted>> /\ finReq' = FALSE /\ barrier = NoOne
        /\ insync' = FALSE /\ Ends("Ready") /\ ClockFails
  /\ UNCHANGED <<barrier, rw, client, volatile, psm, ntpCb, notifier, notes, ntp, missed,
                 overrun, joinedNone>>

CreateNotifierThread ==
  /\ cstep = "notifier"
  /\ \/ notifier' = "get" /\ Ends("Running") /\ ClockWorks
     \/ UNCHANGED notifier /\ StepTo("failed notifier") /\ ClockFails
  /\ missed' = FALSE
  /\ UNCHANGED <<barrierVars, client, volatile, psm, ntpCb, monitor, finReq, posted, notes,
                 ntp, overrun, joinedNone>>

(***************************************************************************)
(* EsfClockManagerStopInternal: for Stop, and for a Start that failed.     *)
(***************************************************************************)
StopSteps == {"stop notifier", "failed notifier"}
OfStop == cstep \in {"stop notifier", "stop join", "stop monitor", "stop daemon"}
Next2(a, b) == StepTo(IF OfStop THEN a ELSE b)

Stop ==
  /\ cstate = "Running" /\ cstate' = "Lock" /\ cstep' = "stop notifier"
  /\ UNCHANGED <<registered, barrierVars, client, volatile, psm, ntpCb, threadVars, ntp,
                 missed, overrun, joinedNone, clockFails>>

PostNotification(note) == notes' = Append(notes, note)
DeleteAllNotifications == notes' = <<>>

DestroyNotifier ==
  /\ \/ /\ cstep \in StopSteps
        /\ IF notifier = "none" THEN UNCHANGED notes /\ Next2("stop monitor", "failed monitor")
           ELSE PostNotification("fin") /\ Next2("stop join", "failed join")
        /\ UNCHANGED notifier
     \/ /\ cstep \in {"stop join", "failed join"} /\ notifier = "ended"
        /\ notifier' = "none" /\ DeleteAllNotifications /\ Next2("stop monitor", "failed monitor")
  /\ UNCHANGED <<barrierVars, client, volatile, psm, ntpCb, monitor, finReq, posted, ntp,
                 missed, overrun, joinedNone, clockFails>>

(* EsfClockManagerDestroyMonitorThread joins the thread id it finds, which *)
(* is invalid when a Start failed before the thread or a Stop is repeated. *)
DestroyMonitorThread ==
  /\ cstep \in {"stop monitor", "failed monitor"}
  /\ \/ /\ monitor \notin {"none", "ended"} /\ ~finReq /\ finReq' = TRUE
        /\ UNCHANGED <<lifeVars, monitor, joinedNone>>
     \/ /\ monitor = "ended" /\ monitor' = "none" /\ finReq' = FALSE
        /\ Next2("stop daemon", "failed daemon") /\ UNCHANGED joinedNone
     \/ /\ monitor = "none" /\ joinedNone' = TRUE /\ cstep' = "gone" /\ cstate' = "gone"
        /\ UNCHANGED <<registered, monitor, finReq>>
  /\ UNCHANGED <<barrierVars, client, volatile, psm, ntpCb, posted, notifier, notes, ntp,
                 missed, overrun, clockFails>>

WaitForTerminatingDaemon ==
  /\ cstep \in {"stop daemon", "failed daemon"} /\ barrier = NoOne /\ insync' = FALSE
  /\ \/ ntp' = "off" /\ Ends("Ready") /\ ClockWorks
     \/ /\ UNCHANGED ntp /\ ClockFails
        /\ Ends(IF OfStop THEN "Running" ELSE "Ready")
  /\ UNCHANGED <<barrier, rw, client, volatile, psm, ntpCb, threadVars, missed, overrun,
                 joinedNone>>

(***************************************************************************)
(* The monitor thread: a notification that could not be posted, because    *)
(* there is no notifier yet, is posted again in the next round.            *)
(***************************************************************************)
Synchronized ==
  /\ ntp = "active" /\ ntp' = "synced"
  /\ UNCHANGED <<lifeVars, barrierVars, client, volatile, psm, ntpCb, threadVars, missed,
                 overrun, joinedNone, clockFails>>

MonitorThreadOnce ==  \* a mutant: a notification that failed counts as posted
  /\ \/ /\ monitor = "check" /\ monitor' = "wait"
        /\ notes' = IF ntp = "synced" /\ ~posted /\ notifier # "none"
                      THEN Append(notes, "sync") ELSE notes
        /\ posted' = (posted \/ ntp = "synced")
     \/ /\ monitor = "wait" /\ monitor' = IF finReq THEN "ended" ELSE "check"
        /\ UNCHANGED <<notes, posted>>
  /\ UNCHANGED <<lifeVars, barrierVars, client, volatile, psm, ntpCb, finReq, notifier,
                 ntp, missed, overrun, joinedNone, clockFails>>

MonitorThread ==
  /\ \/ /\ monitor = "check" /\ monitor' = "wait"
        /\ IF ntp = "synced" /\ ~posted /\ notifier # "none"
             THEN PostNotification("sync") /\ posted' = TRUE
             ELSE UNCHANGED <<notes, posted>>
     \/ /\ monitor = "wait" /\ monitor' = IF finReq THEN "ended" ELSE "check"
        /\ UNCHANGED <<notes, posted>>
  /\ UNCHANGED <<lifeVars, barrierVars, client, volatile, psm, ntpCb, finReq, notifier,
                 ntp, missed, overrun, joinedNone, clockFails>>

(***************************************************************************)
(* The notifier thread: ProcessNotificationEvent saves the parameters,     *)
(* which it has copied, calls the callback and lets writers in again.      *)
(***************************************************************************)
ProcessNotificationEvent(note) ==
  IF note = "fin" THEN "ended" ELSE IF ntpCb THEN "save" ELSE "get"

GetNotification ==
  /\ notifier = "get" /\ notes # <<>> /\ notes' = Tail(notes)
  /\ notifier' = ProcessNotificationEvent(Head(notes))
  /\ missed' = (missed \/ (Head(notes) = "sync" /\ ~ntpCb))
  /\ UNCHANGED <<lifeVars, barrierVars, client, volatile, psm, ntpCb, monitor, finReq,
                 posted, ntp, overrun, joinedNone, clockFails>>

SaveParamsInternal ==
  /\ notifier = "save" /\ notifier' = "call"
  /\ psm' \in {volatile, psm} \* a save that fails is only logged
  /\ UNCHANGED <<lifeVars, barrierVars, client, volatile, ntpCb, monitor, finReq, posted,
                 notes, ntp, missed, overrun, joinedNone, clockFails>>

MarkCompletedSync ==
  /\ notifier = "call" /\ barrier = NoOne /\ notifier' = "get" /\ insync' = FALSE
  /\ UNCHANGED <<lifeVars, barrier, rw, client, volatile, psm, ntpCb, monitor, finReq,
                 posted, notes, ntp, missed, overrun, joinedNone, clockFails>>

NotifierThread == GetNotification \/ SaveParamsInternal \/ MarkCompletedSync
ClientGoesOn(c) ==
  \/ EnterReadingIfPossible(c) \/ LeaveReading(c)
  \/ EnterWritingIfPossible(c) \/ SaveParams(c) \/ SubstituteForVolatileObj(c)
LifeGoesOn ==
  \/ MarkStartingSync \/ StartNtpClientDaemon \/ CreateMonitorThread
  \/ CreateNotifierThread \/ DestroyNotifier \/ DestroyMonitorThread
  \/ WaitForTerminatingDaemon
Next ==
  /\ ~joinedNone
  /\ \/ EsfClockManagerInit \/ EsfClockManagerDeinit \/ Start \/ Stop
     \/ OnFactoryReset \/ RegisterNtpSyncCompleteCb \/ Synchronized
     \/ LifeGoesOn \/ MonitorThread \/ NotifierThread
     \/ \E c \in Clients : Ask(c) \/ MigrateSettings(c) \/ ClientGoesOn(c)

Spec ==
  /\ Init /\ [][Next]_clockVars
  /\ WF_clockVars(MonitorThread /\ ~joinedNone)
  /\ WF_clockVars(NotifierThread /\ ~joinedNone)
  /\ WF_clockVars(Synchronized /\ ~joinedNone)
  /\ \A c \in Clients : WF_clockVars(ClientGoesOn(c) /\ ~joinedNone)

(***************************************************************************)
(* Properties                                                              *)
(***************************************************************************)

(* From the moment Start has waited for the writers until the time is      *)
(* synchronized, only a factory reset changes the parameters.              *)
Syncing == insync /\ cstep \notin {"mark", "writers"} /\ ~overrun
ParamsStandStill ==
  [][(Syncing /\ Syncing') => volatile' \in {volatile, Default, NoParams}]_clockVars

(* While the writers wait for the time, what will let them in again is     *)
(* never lost between the two threads: the monitor has yet to post that    *)
(* the time is synchronized, or the note is in the queue, or the notifier  *)
(* has taken it; and both threads run until Stop.                          *)
SyncIsOnItsWay ==
  cstate = "Running" /\ insync /\ ~missed =>
    /\ monitor \in {"check", "wait"} /\ ~finReq
    /\ notifier \in {"get", "save", "call"}
    /\ \/ ~posted
       \/ \E i \in DOMAIN notes : notes[i] = "sync"
       \/ notifier \in {"save", "call"}

(* A synchronization that began comes to its end and lets the writers in   *)
(* again, unless its notification found no callback.                       *)
WritersComeBack ==
  (cstate = "Running" /\ insync /\ ntpCb) ~>
    (~insync \/ missed \/ ~ntpCb \/ cstate # "Running")

=============================================================================
