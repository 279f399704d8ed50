----------------------------- MODULE MCLogging -----------------------------
(***************************************************************************)
(* The parts of the log manager, the log library and the timers in one     *)
(* run.  They share no variable, so their interleavings say nothing new:   *)
(* each behaviour is one of the part in focus, and the run explores the    *)
(* sum of their state spaces.                                              *)
(***************************************************************************)
EXTENDS Integers, Sequences, FiniteSets

CONSTANTS Writers, PlaneSize, DlogQueue, MaxLogs,
          UploadListMax, MaxRetry, MaxChunks, MaxUnfilled,
          Senders, ElogQueue, SaveMax, MaxElogs,
          Callers, SysAppModules, SensorModules,
          LogUsers, LogModules,
          MaxThreads, MaxSem

ASSUME ElogAssumption == IsFiniteSet(Senders) /\ ElogQueue \in Nat
ASSUME DlogAssumption == PlaneSize \in Nat \ {0}

VARIABLES focus,
          plane, current, oldest, stored, halfUse, critical, dqueue, writer,
          collector, uploads, logs, overrun,
          list, blob, finFlag, client, given, unfilled, chunks,
          equeue, ecount, sender, thread, eclient, connected, askedReg, saved,
          accepted, delivered, deinit, elogs,
          lifecycle, afterFlag, params, names, kept, callbacks, caller, told, calm,
          active, modParams, modCallback, user, toldSince,
          using, running, callback, result, osTimer, busy, signals, users,
          sem, handler, current_thread, pc, api, signalled

Dlog == INSTANCE LogDlog
Upload == INSTANCE LogUpload
Elog == INSTANCE LogElog
Settings == INSTANCE LogSettings
Library == INSTANCE UtilityLog
Timer == INSTANCE UtilityTimer WITH current <- current_thread

dlogVars ==
    <<plane, current, oldest, stored, halfUse, critical, dqueue, writer,
    collector, uploads, logs, overrun>>
uploadVars ==
    <<list, blob, finFlag, client, given, unfilled, chunks>>
elogVars ==
    <<equeue, ecount, sender, thread, eclient, connected, askedReg, saved,
    accepted, delivered, deinit, elogs>>
settingsVars ==
    <<lifecycle, afterFlag, params, names, kept, callbacks, caller, told,
    calm>>
libraryVars == <<active, modParams, modCallback, user, toldSince>>
timerVars ==
    <<using, running, callback, result, osTimer, busy, signals, users, sem,
    handler, current_thread, pc, api, signalled>>
vars == <<focus, dlogVars, uploadVars, elogVars, settingsVars, libraryVars,
          timerVars>>

Init ==
  /\ focus \in {"dlog", "upload", "elog", "settings", "library", "timer"}
  /\ Dlog!Init /\ Upload!Init /\ Elog!Init /\ Settings!Init /\ Library!Init
  /\ Timer!Init
  /\ focus # "upload" => client = FALSE  \* Init leaves a choice that only
  /\ focus # "elog" => eclient = FALSE   \* the part in focus has to make

Only(part) == focus = part /\ UNCHANGED focus

Next ==
  \/ /\ Only("dlog") /\ Dlog!Next
     /\ UNCHANGED <<uploadVars, elogVars, settingsVars, libraryVars, timerVars>>
  \/ /\ Only("upload") /\ Upload!Next
     /\ UNCHANGED <<dlogVars, elogVars, settingsVars, libraryVars, timerVars>>
  \/ /\ Only("elog") /\ Elog!Next
     /\ UNCHANGED <<dlogVars, uploadVars, settingsVars, libraryVars, timerVars>>
  \/ /\ Only("settings") /\ Settings!Next
     /\ UNCHANGED <<dlogVars, uploadVars, elogVars, libraryVars, timerVars>>
  \/ /\ Only("library") /\ Library!Next
     /\ UNCHANGED <<dlogVars, uploadVars, elogVars, settingsVars, timerVars>>
  \/ /\ Only("timer") /\ Timer!Next
     /\ UNCHANGED <<dlogVars, uploadVars, elogVars, settingsVars, libraryVars>>

(* The elog thread, Deinit once it was called, and the threads of the      *)
(* timers run.  That the agent comes back to the elog thread with an event *)
(* is not assumed.                                                         *)
Spec ==
  /\ Init /\ [][Next]_vars
  /\ WF_elogVars(focus = "elog" /\ Elog!ElogThread)
  /\ WF_elogVars(focus = "elog" /\ Elog!DestroyPut)
  /\ WF_elogVars(focus = "elog" /\ Elog!Close)
  /\ WF_timerVars(focus = "timer" /\ Timer!CallStep)
  /\ \A n \in 1..MaxThreads :
        WF_timerVars(focus = "timer" /\ Timer!ThreadStep(n))

(* No log is lost, repeated or reordered unless a plane is given up, and   *)
(* the flags of the planes agree (bytebuffer.c, ChangeDlogByteBuffer).     *)
DlogIsSound == Dlog!DlogIsSound

(* What a blob callback does to the target of a list it does to its own    *)
(* chunk (log_manager_list.c).                                             *)
GivenIsTheTarget == Upload!GivenIsTheTarget

(* The count of the elog queue is exact, no event log is sent twice, the   *)
(* slot for the destroy command is free, and Deinit ends, with an error    *)
(* when it was not sent, unless the agent keeps the thread for good        *)
(* (log_manager_internal.c).                                               *)
ElogQueueIsSound == Elog!ElogQueueIsSound
DeinitCompletes == Elog!DeinitCompletes

(* Memory, upload names and storage agree between calls (SetParameter).    *)
SettingsAgree == Settings!SettingsAgree

(* A module is told the level that applies to its logs (utility_log.c).    *)
LevelIsTold == Library!LevelIsTold

(* Every event of a timer is taken (utility_timer.c).                      *)
EventsAreTaken == Timer!EventsAreTaken

=============================================================================
