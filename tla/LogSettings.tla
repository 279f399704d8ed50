---------------------------- MODULE LogSettings ----------------------------
(***************************************************************************)
(* The settings of the log manager (log_manager.c, log_manager_setting.c): *)
(* every block has settings in memory, names for the upload, and, for the  *)
(* blocks the porting layer lists, a copy in the parameter storage.  A     *)
(* call of SetParameter changes the three one after the other, each under  *)
(* its own mutex or none, and then calls back the module that registered   *)
(* for the block.                                                          *)
(*                                                                         *)
(* Settings are cut down to a level (checked against its range) and a      *)
(* storage name (checked by its form); the other levels, the filter and    *)
(* the path are handled as these are.  Two blocks stand for the four.      *)
(***************************************************************************)
EXTENDS Integers, Sequences, SequencesExt

CONSTANTS Callers,        \* threads that call the log manager
          SysAppModules,  \* modules of the block SysApp
          SensorModules   \* modules of another block

VARIABLES lifecycle,   \* s_log_manager_state
          afterFlag,   \* s_after_callback_flag
          params,      \* s_parameter.m_value
          names,       \* s_local_upload_info, s_cloud_upload_info
          kept,        \* the item in the parameter storage
          callbacks,   \* s_change_dlog_callback_list
          caller,      \* where each caller is
          told,        \* per module, the settings it was called back with
          calm         \* no two calls overlapped and no save or load failed

settingsVars == <<lifecycle, afterFlag, params, names, kept, callbacks, caller,
                  told, calm>>

Blocks == {"SysApp", "Sensor"}
Modules == SysAppModules \cup SensorModules
Levels == {"info", "debug"}
Default == [level |-> "info", name |-> ""]
Quiet == [at |-> "idle"]
NoNames == [upload \in {"local", "cloud"} |-> [b \in Blocks |-> ""]]

Init ==
  /\ lifecycle = "invalid" /\ afterFlag = FALSE
  /\ params = [b \in Blocks |-> Default] /\ names = NoNames
  /\ kept = Default
  /\ callbacks = <<>> /\ caller = [c \in Callers |-> Quiet]
  /\ told = [m \in Modules |-> Default] /\ calm = TRUE

-----------------------------------------------------------------------------
(* The porting layer of the Raspberry Pi: one block is loaded and saved,   *)
(* and there is no local upload.                                           *)
LoadableBlock == "SysApp"
SaveableBlocksOne(b) == IF b = "SysApp" THEN {"SysApp"} ELSE {}  \* mutant
SaveableBlocks(b) == IF b \in {"All", "SysApp"} THEN {"SysApp"} ELSE {}
LocalUploadAvailable == FALSE

GetGroupID(m) == IF m \in SysAppModules THEN "SysApp" ELSE "Sensor"

(* EsfLogManagerCheckParameters; a name of the form http... is local.      *)
CheckParameters(v, mask) ==
  /\ "level" \in mask => v.level \in Levels
  /\ "name" \in mask /\ v.name = "http" => LocalUploadAvailable

UploadType(name) == IF name = "http" THEN "local" ELSE "cloud"
Masked(old, v, mask) == [f \in DOMAIN old |-> IF f \in mask THEN v[f] ELSE old[f]]
Affected(b) == IF b = "All" THEN Blocks ELSE {b}

(* EsfLogManagerSearchCallbackList: the first of the block, the one that   *)
(* was registered last.  No module belongs to the block All.               *)
SearchCallback(b) ==
  LET found == SelectSeq(callbacks, LAMBDA m : GetGroupID(m) = b)
  IN IF found = <<>> THEN {} ELSE {found[1]}

-----------------------------------------------------------------------------
EsfLogManagerInit ==
  /\ lifecycle = "invalid"
  /\ lifecycle' = "init" /\ afterFlag' = FALSE /\ callbacks' = <<>>
  /\ UNCHANGED <<params, names, kept, caller, told, calm>>

(* LoadParameter: what cannot be loaded is replaced by the default.        *)
LoadedFrom(v) == [params EXCEPT ![LoadableBlock] = v]
NamesFrom(v) ==
  IF v.name = "" THEN NoNames
  ELSE [NoNames EXCEPT ![UploadType(v.name)][LoadableBlock] = v.name]

(* Start loads, allocates the planes and sets up queues and threads; then  *)
(* the blocks with a callback from the Init state are told.                *)
Start(c) ==
  /\ lifecycle = "init" /\ caller[c] = Quiet
  /\ \E v \in {kept, Default} :
       /\ params' = LoadedFrom(v) /\ names' = NamesFrom(v)
       /\ calm' = (calm /\ v = kept)
  /\ lifecycle' = "start"
  /\ caller' = [caller EXCEPT ![c] =
       IF afterFlag THEN [at |-> "search", blocks |-> <<"SysApp", "Sensor">>]
       ELSE Quiet]
  /\ UNCHANGED <<afterFlag, kept, callbacks, told>>

(* A start that fails after the load, which a further one repeats.         *)
StartFails ==
  /\ lifecycle = "init"
  /\ params' = LoadedFrom(kept) /\ names' = NamesFrom(kept)
  /\ UNCHANGED <<lifecycle, afterFlag, kept, callbacks, caller, told, calm>>

(* Deinit, which is not called beside other calls.                         *)
Deinit ==
  /\ lifecycle # "invalid" /\ \A c \in Callers : caller[c] = Quiet
  /\ lifecycle' = "invalid"
  /\ IF lifecycle = "start" THEN names' = NoNames /\ callbacks' = <<>>
     ELSE UNCHANGED <<names, callbacks>>
  /\ told' = [m \in Modules |-> Default]
  /\ UNCHANGED <<afterFlag, params, kept, caller, calm>>

Restart ==
  /\ lifecycle' = "invalid" /\ afterFlag' = FALSE
  /\ params' = [b \in Blocks |-> Default] /\ names' = NoNames
  /\ callbacks' = <<>> /\ caller' = [c \in Callers |-> Quiet]
  /\ told' = [m \in Modules |-> Default] /\ calm' = TRUE
  /\ UNCHANGED kept

-----------------------------------------------------------------------------
(* Settings of several blocks change under one mutex.                      *)
SetParameter(c, b, v, mask) ==
  /\ lifecycle = "start" /\ caller[c] = Quiet /\ CheckParameters(v, mask)
  /\ params' = [x \in Blocks |->
       IF x \in Affected(b) THEN Masked(params[x], v, mask) ELSE params[x]]
  /\ caller' = [caller EXCEPT ![c] =
       [at |-> "names", block |-> b, value |-> v, mask |-> mask,
        upload |-> IF b = "All" THEN "cloud" ELSE UploadType(params'[b].name)]]
  /\ calm' = (calm /\ \A o \in Callers : caller[o] = Quiet)
  /\ UNCHANGED <<lifecycle, afterFlag, names, kept, callbacks, told>>

(* SetGlobalUploadDataForStorageName for each block.                       *)
SetUploadData(c) ==
  /\ caller[c].at = "names"
  /\ LET f == caller[c] IN
       names' = IF "name" \notin f.mask THEN names
                ELSE [names EXCEPT ![f.upload] =
                        [x \in Blocks |-> IF x \in Affected(f.block)
                                          THEN f.value.name ELSE @[x]]]
  /\ caller' = [caller EXCEPT ![c].at = "save"]
  /\ UNCHANGED <<lifecycle, afterFlag, params, kept, callbacks, told, calm>>

(* EsfLogManagerSaveParamsForPsm: a save that fails may have written some  *)
(* of the members, and nothing is taken back.                              *)
SaveParams(c) ==
  /\ caller[c].at = "save"
  /\ LET f == caller[c]
         notify == [at |-> "search", blocks |-> <<f.block>>]
     IN \/ /\ SaveableBlocks(f.block) = {}
           /\ caller' = [caller EXCEPT ![c] = notify]
           /\ UNCHANGED <<kept, calm>>
        \/ /\ SaveableBlocks(f.block) # {}
           /\ kept' = Masked(kept, f.value, f.mask)
           /\ caller' = [caller EXCEPT ![c] = notify]
           /\ UNCHANGED calm
        \/ /\ SaveableBlocks(f.block) # {}
           /\ \E part \in SUBSET f.mask : kept' = Masked(kept, f.value, part)
           /\ caller' = [caller EXCEPT ![c] = Quiet]
           /\ calm' = FALSE
  /\ UNCHANGED <<lifecycle, afterFlag, params, names, callbacks, told>>

(* EsfLogManagerInternalChangeDlogCallback looks for a callback, copies    *)
(* the settings under the mutex and calls back without it.                 *)
SearchCallbackList(c) ==
  /\ caller[c].at = "search"
  /\ LET blocks == caller[c].blocks
         Goes(r) == caller' = [caller EXCEPT ![c] = r]
     IN \/ blocks = <<>> /\ Goes(Quiet)
        \/ /\ blocks # <<>> /\ SearchCallback(Head(blocks)) = {}
           /\ Goes([at |-> "search", blocks |-> Tail(blocks)])
        \/ /\ blocks # <<>>
           /\ \E m \in SearchCallback(Head(blocks)) :
                Goes([at |-> "read", blocks |-> blocks, module |-> m])
  /\ UNCHANGED <<lifecycle, afterFlag, params, names, kept, callbacks, told, calm>>

CopySettings(c) ==
  /\ caller[c].at = "read"
  /\ caller' = [caller EXCEPT ![c] =
       [at |-> "call", blocks |-> @.blocks, module |-> @.module,
        value |-> params[Head(@.blocks)]]]
  /\ UNCHANGED <<lifecycle, afterFlag, params, names, kept, callbacks, told, calm>>

CallBack(c) ==
  /\ caller[c].at = "call"
  /\ told' = [told EXCEPT ![caller[c].module] = caller[c].value]
  /\ caller' = [caller EXCEPT ![c] = [at |-> "search", blocks |-> Tail(@.blocks)]]
  /\ UNCHANGED <<lifecycle, afterFlag, params, names, kept, callbacks, calm>>

(* Registered in the Init state a module is told by Start; in the Start    *)
(* state it reads its settings itself.  A module registers once.           *)
RegisterChangeDlogCallback(m) ==
  /\ lifecycle # "invalid" /\ ~Contains(callbacks, m)
  /\ callbacks' = <<m>> \o callbacks
  /\ afterFlag' = (afterFlag \/ lifecycle = "init")
  /\ told' = IF lifecycle = "start" THEN [told EXCEPT ![m] = params[GetGroupID(m)]]
             ELSE told
  /\ UNCHANGED <<lifecycle, params, names, kept, caller, calm>>

(* The entry is freed; a caller that has found it would still read it.     *)
UnregisterChangeDlogCallback(m) ==
  /\ lifecycle # "invalid" /\ Contains(callbacks, m)
  /\ \A c \in Callers : caller[c].at \in {"read", "call"} => caller[c].module # m
  /\ callbacks' = Remove(callbacks, m) /\ told' = [told EXCEPT ![m] = Default]
  /\ UNCHANGED <<lifecycle, afterFlag, params, names, kept, caller, calm>>

-----------------------------------------------------------------------------
Values == [level : Levels \cup {"bad"}, name : {"", "bucket", "http"}]

Next ==
  \/ EsfLogManagerInit \/ StartFails \/ Deinit \/ Restart
  \/ \E c \in Callers :
       \/ Start(c)
       \/ \E b \in Blocks \cup {"All"}, v \in Values, mask \in SUBSET {"level", "name"} :
            SetParameter(c, b, v, mask)
       \/ SetUploadData(c) \/ SaveParams(c)
       \/ SearchCallbackList(c) \/ CopySettings(c) \/ CallBack(c)
  \/ \E m \in Modules :
       RegisterChangeDlogCallback(m) \/ UnregisterChangeDlogCallback(m)
Spec == Init /\ [][Next]_settingsVars

-----------------------------------------------------------------------------
Resting == lifecycle = "start" /\ \A c \in Callers : caller[c] = Quiet

(* When nothing failed and no calls overlapped since the process started,  *)
(* the memory, the names for the upload and the storage agree between      *)
(* calls, also after crashes between the three steps: what a restart loads *)
(* is what GetParameter returned before it.                                *)
SettingsAgree ==
  Resting /\ calm =>
    /\ kept = params[LoadableBlock]
    /\ names["cloud"][LoadableBlock] = kept.name
    /\ \A b \in Blocks : names["local"][b] = ""

=============================================================================
