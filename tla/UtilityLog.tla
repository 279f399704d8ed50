----------------------------- MODULE UtilityLog -----------------------------
(***************************************************************************)
(* The log library (utility_log.c): modules write debug logs, bulk debug   *)
(* logs and event logs; where a log goes is decided by the parameters of   *)
(* its module, which the log manager changes by a callback from its own    *)
(* threads.  A module may register a callback for its level.  All tables   *)
(* are read and written under one mutex; the log manager and the callbacks *)
(* of the modules are called without it.                                   *)
(***************************************************************************)
EXTENDS Integers, FiniteSets

CONSTANTS LogUsers,    \* threads that call the library
          LogModules   \* the modules it knows (IS_VALID_MODULE_ID)

VARIABLES active,       \* static_log_state
          modParams,    \* static_module_data_list[].params
          modCallback,  \* static_module_data_list[].callback # NULL
          user,         \* where each caller is
          toldSince     \* levels a module was told since it registered

utilityLogVars == <<active, modParams, modCallback, user, toldSince>>

DlogLevels == {1, 3}  \* Error, Info: a larger level is less important
Dests == {{"uart"}, {"store"}, {"uart", "store"}}
AtRest == [at |-> "idle"]
DefaultParams == [dest |-> {"uart"}, level |-> 3, filter |-> {}]

Init ==
  /\ active = FALSE
  /\ modParams = [m \in LogModules |-> DefaultParams]
  /\ modCallback = [m \in LogModules |-> FALSE]
  /\ user = [u \in LogUsers |-> AtRest]
  /\ toldSince = [m \in LogModules |-> {}]

-----------------------------------------------------------------------------
(* Init and Deinit (un)register every module with the log manager, and do  *)
(* not care if that fails.                                                 *)
UtilityLogInit ==
  /\ ~active /\ active' = TRUE
  /\ UNCHANGED <<modParams, modCallback, user, toldSince>>

UtilityLogDeinit ==
  /\ active /\ active' = FALSE
  /\ modParams' = [m \in LogModules |-> DefaultParams]
  /\ modCallback' = [m \in LogModules |-> FALSE]
  /\ UNCHANGED <<user, toldSince>>

Calls(u, f) == user' = [user EXCEPT ![u] = f]

(* A log that is not important enough or not in the filter of its module   *)
(* is dropped, and the caller is told Ok.                                  *)
Wanted(m, level) ==
  /\ level <= modParams[m].level
  /\ modParams[m].filter # {} => m \in modParams[m].filter

(* UtilityLogWriteVDLog copies the parameters under the mutex.             *)
WriteDLog(u, m, level) ==
  /\ user[u] = AtRest /\ active
  /\ IF Wanted(m, level)
       THEN Calls(u, [at |-> "write", dest |-> modParams[m].dest, critical |-> level = 1])
       ELSE UNCHANGED user
  /\ UNCHANGED <<active, modParams, modCallback, toldSince>>

(* UtilityLogWriteDlogInternal: first the UART, then the log manager; both *)
(* WriteBulkDLog functions do the same with the caller's buffer.           *)
WriteDlogInternal(u) ==
  /\ user[u].at = "write"
  /\ IF "uart" \in user[u].dest /\ "store" \in user[u].dest
       THEN Calls(u, [user[u] EXCEPT !.dest = {"store"}])
       ELSE Calls(u, AtRest)
  /\ UNCHANGED <<active, modParams, modCallback, toldSince>>

(* The bulk log has its callback called when it went to the UART alone;    *)
(* otherwise the log manager calls it after the upload.                    *)
WriteBulkDLog(u, m, level) ==
  /\ user[u] = AtRest /\ active
  /\ IF Wanted(m, level)
       THEN Calls(u, [at |-> "write", dest |-> modParams[m].dest, critical |-> FALSE])
       ELSE UNCHANGED user
  /\ UNCHANGED <<active, modParams, modCallback, toldSince>>

-----------------------------------------------------------------------------
(* UtilityLogUpdateDlogCallback, called by the log manager; it does not    *)
(* look at the state of the library.                                       *)
UpdateDlog(u, m, dest, level, filter) ==
  /\ user[u] = AtRest
  /\ modParams' = [modParams EXCEPT ![m] =
                     [dest |-> dest, level |-> level, filter |-> filter]]
  /\ IF modCallback[m] THEN Calls(u, [at |-> "tell", module |-> m, level |-> level])
     ELSE UNCHANGED user
  /\ UNCHANGED <<active, modCallback, toldSince>>

RegisterSilently(u, m) ==  \* mutant: the level at registration is not told
  /\ user[u] = AtRest /\ active /\ ~modCallback[m]
  /\ modCallback' = [modCallback EXCEPT ![m] = TRUE]
  /\ toldSince' = [toldSince EXCEPT ![m] = {}]
  /\ UNCHANGED <<active, modParams, user>>

(* A registered callback is called with the level it was registered at.    *)
RegisterSetDLogLevelCallback(u, m) ==
  /\ user[u] = AtRest /\ active /\ ~modCallback[m]
  /\ modCallback' = [modCallback EXCEPT ![m] = TRUE]
  /\ Calls(u, [at |-> "tell", module |-> m, level |-> modParams[m].level])
  /\ toldSince' = [toldSince EXCEPT ![m] = {}]
  /\ UNCHANGED <<active, modParams>>

UnregisterSetDLogLevelCallback(m) ==
  /\ active /\ modCallback[m]
  /\ modCallback' = [modCallback EXCEPT ![m] = FALSE]
  /\ UNCHANGED <<active, modParams, user, toldSince>>

Tell(u) ==
  /\ user[u].at = "tell"
  /\ toldSince' = [toldSince EXCEPT ![user[u].module] = @ \cup {user[u].level}]
  /\ Calls(u, AtRest)
  /\ UNCHANGED <<active, modParams, modCallback>>

-----------------------------------------------------------------------------
Next ==
  \/ UtilityLogInit \/ UtilityLogDeinit
  \/ \E u \in LogUsers :
       \/ WriteDlogInternal(u) \/ Tell(u)
       \/ \E m \in LogModules :
            \/ RegisterSetDLogLevelCallback(u, m)
            \/ \E l \in DlogLevels :
                 \/ WriteDLog(u, m, l) \/ WriteBulkDLog(u, m, l)
                 \/ \E d \in Dests, f \in {{}, {"another"}} : UpdateDlog(u, m, d, l, f)
  \/ \E m \in LogModules : UnregisterSetDLogLevelCallback(m)
Spec == Init /\ [][Next]_utilityLogVars

-----------------------------------------------------------------------------
(* A registered module hears of the level its logs are judged by: between  *)
(* calls it was told the current level since it registered, although it is *)
(* told without the mutex.  (It may be told an older one afterwards.)      *)
LevelIsTold ==
  \A m \in LogModules :
    modCallback[m] =>
      \/ modParams[m].level \in toldSince[m]
      \/ \E u \in LogUsers : user[u].at = "tell" /\ user[u].module = m
                             /\ user[u].level = modParams[m].level

=============================================================================
