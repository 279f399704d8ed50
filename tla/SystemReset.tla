----------------------------- MODULE SystemReset ----------------------------
(***************************************************************************)
(* Why the device was reset (esf/system_manager, with what the power       *)
(* manager retains of an exception): at every start the main thread stores *)
(* the exception and the cause of the reset, asks whether to reset once    *)
(* more, writes the cause to the log and uploads the exception.  It clears *)
(* the exception once it was handed over, and the cause once it was        *)
(* offered to the log, which may have refused it.  A reboot that is asked  *)
(* for stores its cause before.  The power may fail between any two steps, *)
(* and the storage, the log and the device refuse calls.                   *)
(*                                                                         *)
(* An exception is its number.  Without SetExceptionInfo's success the     *)
(* start goes on without any report (main.c).                              *)
(***************************************************************************)
EXTENDS Naturals, TLC

CONSTANTS RebootCauses,   \* causes after which PlSystemManagerIsNeedReboot asks for a reset
          MaxResets,      \* bound: resets of the device
          MaxResetFails   \* bound: refused calls

VARIABLES boot,           \* where the start of the device stands
          pmCause,        \* the cause the device gives for its last reset
          retained,       \* the exception it retains, or 0
          cause,          \* stored: ExceptionFactor, a text
          evpCause,       \* stored: EvpExceptionFactor, a text
          exception,      \* stored: ExceptionInfo, the number of the exception or 0
          isException,    \* local of SetExceptionInfo
          told,           \* the causes written to the log in this run, as event ids
          unheard,        \* those the log refused in this run
          uploaded,       \* the exceptions handed to the log manager
          hurt,           \* a call of this start was refused
          resets, resetFails
rsVars == <<boot, pmCause, retained, cause, evpCause, exception, isException, told,
            unheard, uploaded, hurt, resets, resetFails>>

stored == <<cause, evpCause, exception>>
counted == <<resets, resetFails>>

\* The causes of the EVP agent.
EvpCauses == {"MemoryAllocFailure", "FreezeDetection"}
\* Nothing to tell: never stored, or told.
Quiet == {"Clear", "Default"}

\* The texts a cause is stored as, and the causes a text is read as.
ResetCauseText ==
    [SysChipPowerOnReset |-> "0", SysBrownOut |-> "1", CoreSoft |-> "2", CoreDeepSleep |-> "3",
     WDT |-> "4", SoftResetNormal |-> "5", SoftResetError |-> "6", Default |-> "7", Clear |-> ""]
EvpResetCauseText == [MemoryAllocFailure |-> "1", FreezeDetection |-> "2", Clear |-> ""]
CauseOf(text, texts, other) ==
    IF \E c \in DOMAIN texts : texts[c] = text
    THEN CHOOSE c \in DOMAIN texts : texts[c] = text ELSE other
EsfSystemManagerConvertResetCauseToString(c) == ResetCauseText[c]
EsfSystemManagerConvertEvpResetCauseToString(c) == EvpResetCauseText[c]
EsfSystemManagerConvertStringToResetCause(text) == CauseOf(text, ResetCauseText, "Unknown")
EsfSystemManagerConvertStringToEvpResetCause(text) == CauseOf(text, EvpResetCauseText, "Clear")
EsfSystemManagerConvertResetCausePmToSm(c) ==
    IF c \in {"SysChipPowerOnReset", "SysBrownOut", "CoreSoft", "CoreDeepSleep", "WDT"}
    THEN c ELSE "Unknown"
\* The event that is written to the log; a soft reset of the device and one
\* with an error are the same event.
EsfSystemManagerGetResetCauseEventId(text, type) ==
    LET evp == ("1" :> 64) @@ ("2" :> 65)
        pm == ("0" :> 1) @@ ("1" :> 2) @@ ("2" :> 4) @@ ("3" :> 5) @@ ("4" :> 6)
              @@ ("5" :> 3) @@ ("6" :> 4) IN
    IF type = "Evp" THEN evp[text] ELSE pm[text]

RsInit ==
    /\ boot = "info" /\ pmCause = "SysChipPowerOnReset" /\ retained = 0
    /\ cause = "" /\ evpCause = "" /\ exception = 0
    /\ isException = FALSE /\ told = {} /\ unheard = {} /\ uploaded = {} /\ hurt = FALSE
    /\ resets = 0 /\ resetFails = 0

Refuses == resetFails < MaxResetFails /\ resetFails' = resetFails + 1

EsfSystemManagerSetResetCause(c) == cause' = EsfSystemManagerConvertResetCauseToString(c)
EsfSystemManagerSetEvpResetCause(c) == evpCause' = EsfSystemManagerConvertEvpResetCauseToString(c)
EsfSystemManagerGetResetCause == EsfSystemManagerConvertStringToResetCause(cause)
EsfSystemManagerGetEvpResetCause == EsfSystemManagerConvertStringToEvpResetCause(evpCause)

\* A failure of SetExceptionInfo or of IsNeedReboot ends the reports.
NoReport ==
    /\ Refuses /\ hurt' = TRUE /\ boot' = "running" /\ isException' = FALSE
    /\ UNCHANGED <<pmCause, told, unheard, uploaded, resets>>

\* The next step of the start, whatever became of the last one.
Fails(next) ==
    /\ Refuses /\ hurt' = TRUE /\ boot' = next
    /\ UNCHANGED <<pmCause, retained, stored, isException, told, unheard, uploaded, resets>>

\* EsfPwrMgrGetExceptionInfo and EsfPwrMgrClearExceptionInfo.  The latter does
\* nothing when nothing was got before.
EsfPwrMgrGetExceptionInfo == retained
EsfPwrMgrClearExceptionInfo == retained' = 0
CanHoldException == pmCause \in {"WDT", "CoreSoft"}

\* First part of EsfSystemManagerSetExceptionInfo: the exception is stored.
SaveException ==
    /\ boot = "info" /\ CanHoldException /\ EsfPwrMgrGetExceptionInfo # 0
    /\ \/ /\ exception' = EsfPwrMgrGetExceptionInfo
          /\ boot' = "clear" /\ isException' = TRUE
          /\ UNCHANGED <<pmCause, retained, cause, evpCause, told, unheard, uploaded, hurt, counted>>
       \* the exception is given up with the storage that refuses it
       \/ NoReport /\ EsfPwrMgrClearExceptionInfo /\ UNCHANGED stored
\* The device does not give its cause, or its exception, or has none to give: an
\* error after a watchdog only.
InfoRefused ==
    /\ boot = "info"
    /\ \/ NoReport /\ UNCHANGED <<retained, stored>>
       \/ CanHoldException /\ pmCause # "WDT" /\ Fails("cause")
NoException ==
    /\ boot = "info" /\ ~(CanHoldException /\ EsfPwrMgrGetExceptionInfo # 0)
    /\ IF pmCause = "WDT"
       THEN boot' = "running" /\ hurt' = TRUE
       ELSE boot' = "cause" /\ UNCHANGED hurt
    /\ UNCHANGED <<pmCause, retained, stored, isException, told, unheard, uploaded, counted>>
ClearRetained ==
    /\ boot = "clear"
    /\ \/ /\ EsfPwrMgrClearExceptionInfo /\ boot' = "cause"
          /\ UNCHANGED <<pmCause, stored, isException, told, unheard, uploaded, hurt, counted>>
       \/ NoReport /\ UNCHANGED <<retained, stored>>

\* The cause that is stored.  The first start of a device has stored none.
CauseToSave ==
    CASE ~isException /\ EsfSystemManagerGetResetCause = "Clear" -> "SysChipPowerOnReset"
      [] ~(~isException /\ EsfSystemManagerGetResetCause = "Clear") /\ pmCause \in {"SysChipPowerOnReset", "CoreSoft"} ->
           IF isException THEN "WDT" ELSE "SoftResetError"
      [] OTHER -> EsfSystemManagerConvertResetCausePmToSm(pmCause)

\* Last part of EsfSystemManagerSetExceptionInfo.  A cause that was not told
\* yet is kept, but an exception takes its place.
AlreadyKnown ==
    ~isException /\ (EsfSystemManagerGetEvpResetCause # "Clear" \/ EsfSystemManagerGetResetCause \notin Quiet)
EsfSystemManagerSetExceptionInfo ==
    /\ boot = "cause"
    /\ \/ NoReport /\ UNCHANGED <<retained, stored>>
       \/ /\ IF AlreadyKnown THEN UNCHANGED cause
             ELSE EsfSystemManagerSetResetCause(CauseToSave)
          /\ boot' = "reboot" /\ isException' = FALSE
          /\ UNCHANGED <<pmCause, retained, evpCause, exception, told, unheard, uploaded, hurt, counted>>

\* EsfSystemManagerIsNeedReboot: with an exception stored, a soft reset is one
\* of the watchdog.
Seen == IF pmCause = "CoreSoft" /\ exception # 0 THEN "WDT" ELSE pmCause

Restarts(why, holds) ==
    /\ resets < MaxResets /\ resets' = resets + 1
    /\ boot' = "info" /\ pmCause' = why /\ retained' = holds
    /\ isException' = FALSE /\ told' = {} /\ unheard' = {} /\ hurt' = FALSE

\* EsfMainHwReboot: the reset is one of the whole chip, after which the device
\* gives no other cause than its power.
EsfSystemManagerIsNeedReboot ==
    /\ boot = "reboot"
    /\ \/ NoReport /\ UNCHANGED <<retained, stored>>
       \/ /\ Seen \in RebootCauses
          /\ Restarts("SysChipPowerOnReset", retained)
          /\ UNCHANGED <<stored, uploaded, resetFails>>
       \/ /\ Seen \notin RebootCauses /\ boot' = "select"
          /\ UNCHANGED <<pmCause, retained, stored, isException, told, unheard, uploaded, hurt, counted>>

\* EsfSystemManagerSelectResetCause: the cause of the EVP agent goes first.
EsfSystemManagerSelectResetCause ==
    CASE EsfSystemManagerGetEvpResetCause # "Clear" -> "Evp"
      [] EsfSystemManagerGetEvpResetCause = "Clear" /\ EsfSystemManagerGetResetCause \notin Quiet -> "Pm"
      [] OTHER -> "None"

EvpEvent ==
    EsfSystemManagerGetResetCauseEventId(
        EsfSystemManagerConvertEvpResetCauseToString(EsfSystemManagerGetEvpResetCause), "Evp")
PmEvent ==
    EsfSystemManagerGetResetCauseEventId(
        EsfSystemManagerConvertResetCauseToString(EsfSystemManagerGetResetCause), "Pm")
Event == CASE EsfSystemManagerSelectResetCause = "Evp" -> {EvpEvent}
           [] EsfSystemManagerSelectResetCause = "Pm" -> {PmEvent}
           [] OTHER -> {}
EsfSystemManagerSendResetCause ==
    /\ boot = "select"
    /\ \/ Fails("upload")
       \/ /\ boot' = CASE EsfSystemManagerSelectResetCause = "Evp" -> "toldEvp"
                       [] EsfSystemManagerSelectResetCause = "Pm" -> "told"
                       [] OTHER -> "upload"
          /\ \/ told' = told \cup Event /\ UNCHANGED <<unheard, counted>>
             \* WRITE_ELOG_CRITICAL fails, and nobody looks at its result
             \/ Event # {} /\ Refuses /\ unheard' = unheard \cup Event /\ UNCHANGED <<told, resets>>
          /\ UNCHANGED <<pmCause, retained, stored, isException, uploaded, hurt>>

\* What was told is cleared, and so is what the log refused.
ClearCause ==
    /\ boot \in {"told", "toldEvp"}
    /\ \/ Fails("upload")
       \/ /\ IF boot = "told"
             THEN EsfSystemManagerSetResetCause("Default") /\ UNCHANGED evpCause
             ELSE EsfSystemManagerSetEvpResetCause("Clear") /\ UNCHANGED cause
          /\ boot' = "upload"
          /\ UNCHANGED <<pmCause, retained, exception, isException, told, unheard, uploaded, hurt, counted>>

\* Mutant of EsfSystemManagerUploadExceptionInfo: the result of the log manager
\* is not looked at.
UploadUnchecked ==
    /\ boot = "upload"
    /\ \/ exception = 0 /\ boot' = "running" /\ UNCHANGED <<uploaded, hurt, counted>>
       \/ /\ exception # 0 /\ boot' = "sent"
          /\ \/ uploaded' = uploaded \cup {exception} /\ UNCHANGED <<hurt, counted>>
             \/ Refuses /\ hurt' = TRUE /\ UNCHANGED <<uploaded, resets>>
    /\ UNCHANGED <<pmCause, retained, stored, isException, told, unheard>>

\* EsfSystemManagerUploadExceptionInfo: the text made of the exception is handed
\* to the log manager, and then the exception is cleared.
EsfSystemManagerUploadExceptionInfo ==
    /\ boot = "upload"
    /\ \/ Fails("running")
       \/ /\ exception = 0 /\ boot' = "running"
          /\ UNCHANGED <<pmCause, retained, stored, isException, told, unheard, uploaded, hurt, counted>>
       \/ /\ exception # 0 /\ boot' = "sent" /\ uploaded' = uploaded \cup {exception}
          /\ UNCHANGED <<pmCause, retained, stored, isException, told, unheard, hurt, counted>>
EsfSystemManagerClearExceptionInfoOfPsm ==
    /\ boot = "sent"
    /\ \/ Fails("running")
       \/ /\ exception' = 0 /\ boot' = "running"
          /\ UNCHANGED <<pmCause, retained, cause, evpCause, isException, told, unheard, uploaded, hurt, counted>>

\* EsfSystemManagerExecReboot, and EsfMainReboot with it: the cause is stored,
\* or not, and the device is reset.
EsfSystemManagerExecReboot(c, how) ==
    /\ boot = "running"
    /\ Restarts(how, retained)
    /\ \/ UNCHANGED resetFails
          /\ IF c \in EvpCauses THEN EsfSystemManagerSetEvpResetCause(c) /\ UNCHANGED cause
             ELSE EsfSystemManagerSetResetCause(c) /\ UNCHANGED evpCause
       \/ Refuses /\ UNCHANGED <<cause, evpCause>>
    /\ UNCHANGED <<exception, uploaded>>
Reboot ==
    \/ EsfSystemManagerExecReboot("SoftResetNormal", "CoreSoft")
    \/ EsfSystemManagerExecReboot("SoftResetError", "SysChipPowerOnReset")
    \/ \E c \in EvpCauses : EsfSystemManagerExecReboot(c, "SysChipPowerOnReset")

\* The device ends with an exception, by its watchdog or by itself, or loses
\* its power at any moment.  Each of its exceptions is a new one.
Crashes ==
    /\ boot = "running"
    /\ \E why \in {"WDT", "CoreSoft"} : Restarts(why, resets + 1)
    /\ UNCHANGED <<stored, uploaded, resetFails>>
PowerFails ==
    /\ \E why \in {"SysChipPowerOnReset", "SysBrownOut"} : Restarts(why, retained)
    /\ UNCHANGED <<stored, uploaded, resetFails>>

RsNext ==
    \/ SaveException \/ InfoRefused \/ NoException \/ ClearRetained \/ EsfSystemManagerSetExceptionInfo
    \/ EsfSystemManagerIsNeedReboot \/ EsfSystemManagerSendResetCause \/ ClearCause
    \/ EsfSystemManagerUploadExceptionInfo \/ EsfSystemManagerClearExceptionInfoOfPsm
    \/ Reboot \/ Crashes \/ PowerFails
RsSpec == RsInit /\ [][RsNext]_rsVars

(* Nothing is forgotten untold, wherever the power fails: a cause goes from  *)
(* the storage once it was written to the log, or offered to it in this run  *)
(* and refused, or a newer one takes its place; an exception goes once it    *)
(* was handed over or replaced, and the device drops the one it retains once *)
(* it is stored or the storage refused it (system_manager.c                  *)
(* EsfSystemManagerSendResetCause).                                          *)
NothingIsForgotten ==
    [][ /\ EsfSystemManagerGetResetCause' \in Quiet /\ EsfSystemManagerGetResetCause \notin Quiet
           => PmEvent \in told \cup unheard
        /\ EsfSystemManagerGetEvpResetCause' = "Clear" /\ EsfSystemManagerGetEvpResetCause # "Clear"
           => EvpEvent \in told \cup unheard
        /\ exception' = 0 /\ exception # 0 => exception \in uploaded
        /\ retained' = 0 /\ retained # 0 => exception = retained \/ hurt' ]_rsVars

=============================================================================
