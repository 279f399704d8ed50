--------------------------- MODULE SystemMigration --------------------------
(***************************************************************************)
(* The migration of the system manager (esf/system_manager): the data of an *)
(* older firmware, of four kinds, is copied one kind after the other into   *)
(* the parameter storage, and erased at its source when all of them were.   *)
(* The main thread repeats a migration that failed, and a start after a     *)
(* loss of power begins again (main.c, main_migration.c).                   *)
(***************************************************************************)
EXTENDS Naturals, Sequences

CONSTANTS MaxMgFails   \* bound: refused calls and losses of power

VARIABLES source,      \* what the device holds of each kind
          had,         \* what it held at first
          kept,        \* kinds that are in the parameter storage
          step,        \* where the migration stands, 0 when none runs
          migrated,    \* EsfSystemManagerMigration succeeded
          mgFails
mgVars == <<source, had, kept, step, migrated, mgFails>>

Kinds == <<"RootAuth", "DeviceManifest", "HwInfo", "EvpSetupInfo">>
KindSet == {Kinds[k] : k \in DOMAIN Kinds}

\* The setup of the EVP agent is a text of two lines, "Address:" and "Port:";
\* one that lacks either is not migrated.
MgInit ==
    /\ had \in {h \in [KindSet -> {"none", "data", "malformed"}] :
                   \A k \in KindSet : h[k] = "malformed" => k = "EvpSetupInfo"}
    /\ source = had /\ kept = {} /\ step = 0 /\ migrated = FALSE /\ mgFails = 0

MgFails == mgFails < MaxMgFails /\ mgFails' = mgFails + 1
Starts ==
    /\ step = 0 /\ ~migrated
    /\ step' = 1 /\ UNCHANGED <<source, had, kept, migrated, mgFails>>

\* EsfSystemManagerMigrationData: what the device holds, none being an empty text.
EsfSystemManagerMigrationData(k) == source[k]

\* Mutant of Copy: a migration that failed goes on with the next kind.
CopyGoesOn(k) ==
    /\ step' = step + 1
    /\ \/ EsfSystemManagerMigrationData(k) # "data" /\ UNCHANGED <<kept, mgFails>>
       \/ EsfSystemManagerMigrationData(k) = "data" /\ kept' = kept \cup {k} /\ UNCHANGED mgFails
       \/ MgFails /\ UNCHANGED kept

\* A copy: a source that is not read, or a storage that is not opened, does not
\* save or does not close its handle, ends the migration; the last of these
\* after the save.
Copy(k) ==
    \/ /\ EsfSystemManagerMigrationData(k) # "data" /\ step' = step + 1
       /\ UNCHANGED <<kept, mgFails>>
    \/ /\ EsfSystemManagerMigrationData(k) = "data" /\ kept' = kept \cup {k} /\ step' = step + 1
       /\ UNCHANGED mgFails
    \/ /\ EsfSystemManagerMigrationData(k) = "data" /\ kept' \in {kept, kept \cup {k}}
       /\ MgFails /\ step' = 0
    \/ MgFails /\ step' = 0 /\ UNCHANGED kept

EsfSystemManagerMigrateRootAuth == step = 1 /\ Copy("RootAuth")
EsfSystemManagerMigrateDeviceManifest == step = 2 /\ Copy("DeviceManifest")
EsfSystemManagerMigrateHwInfo == step = 3 /\ Copy("HwInfo")
\* EsfSystemManagerExtractEvpSetupValue takes the value of each line.
EsfSystemManagerMigrateEvpSetupInfo == step = 4 /\ Copy("EvpSetupInfo")

Copies ==
    /\ \/ EsfSystemManagerMigrateRootAuth \/ EsfSystemManagerMigrateDeviceManifest
       \/ EsfSystemManagerMigrateHwInfo \/ EsfSystemManagerMigrateEvpSetupInfo
    /\ UNCHANGED <<source, had, migrated>>

\* Each kind is erased, whatever became of the erasure of the one before.
EsfSystemManagerEraseMigrationData(k) ==
    \/ source' = [source EXCEPT ![k] = "none"] /\ UNCHANGED mgFails
    \/ MgFails /\ UNCHANGED source
EsfSystemManagerMigration ==
    /\ step \in 5..8
    /\ EsfSystemManagerEraseMigrationData(Kinds[step - 4])
    /\ step' = IF step = 8 THEN 0 ELSE step + 1
    /\ migrated' = (step = 8)
    /\ UNCHANGED <<had, kept>>

PowerIsLost ==
    /\ step # 0 /\ MgFails /\ step' = 0
    /\ UNCHANGED <<source, had, kept, migrated>>

MgNext == Starts \/ Copies \/ EsfSystemManagerMigration \/ PowerIsLost
MgSpec == MgInit /\ [][MgNext]_mgVars

(* Whatever fails and wherever the power is lost, data of the older firmware *)
(* is at its source or in the parameter storage (system_manager.c            *)
(* EsfSystemManagerMigration).                                               *)
NothingIsLost ==
    \A k \in KindSet : had[k] = "data" => source[k] = "data" \/ k \in kept
=============================================================================
