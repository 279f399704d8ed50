---------------------------- MODULE SystemManager ---------------------------
(***************************************************************************)
(* The parameters of the system manager (esf/system_manager): every getter *)
(* and setter opens a handle of the parameter storage manager of its own,  *)
(* and the manager keeps nothing between two calls and locks nothing.  A   *)
(* getter asks for the size of the item first and for the item next, and   *)
(* another call may save the item in between.                              *)
(*                                                                         *)
(* A text is its length, and 0 is an item that is empty or not stored.  A  *)
(* mask selects one item of a structure, so calls about different items do *)
(* not meet: a behaviour is about one item, the subject.  Arguments that   *)
(* are refused at once (null, of size 0, without a terminator) change      *)
(* nothing and are left out.                                               *)
(***************************************************************************)
EXTENDS Naturals, FiniteSets

CONSTANTS SmCallers,     \* threads that call the manager
          MaxText,       \* bound: the longest text of an item
          HwInfoKinds,   \* what PlSystemManagerIsHwInfoSupported may answer
          MaxSmFails     \* bound: failures of the storage and of the heap

VARIABLES subject,       \* the item the calls are about
          item,          \* what is stored for each item
          at,            \* where each caller stands
          ask,           \* the call of each caller
          answer,        \* what the last call to end gave
          opened,        \* handles of the storage that are open
          leftOpen,      \* handles whose close failed
          smFails
smVars == <<subject, item, at, ask, answer, opened, leftOpen, smFails>>

EnrollmentItems == {"DpsURL", "CommonName", "DpsScopeID", "ProjectID", "RegisterToken"}
EvpItems == {"EvpHubURL", "EvpHubPort", "EvpIotPlatform", "EvpTls"}
RootAuthItems == {"PkiRootCerts", "PkiRootCertsHash"}
Texts == EnrollmentItems \cup EvpItems \cup {"PkiRootCertsHash"}
\* Loaded as far as the size that was asked before, into the caller's buffer.
Blobs == {"DeviceManifest", "PkiRootCerts", "HwInfo"}
Items == Texts \cup Blobs \cup {"QrModeTimeoutValue", "InitialSettingFlag"}

\* CONFIG_EXTERNAL_SYSTEM_MANAGER_DEFAULT_*: only Evp TLS has a text, "0",
\* which is 1 here, and "1" is 2.
DefaultOf(i) == IF i = "EvpTls" THEN 1 ELSE 0
Filled(i) == IF item[i] = 0 THEN DefaultOf(i) ELSE item[i]
Shorter(m, n) == IF m < n THEN m ELSE n

Ok(n) == [result |-> "Ok", size |-> n, room |-> 0]
Err(r) == [result |-> r, size |-> 0, room |-> 0]
NoAnswer == Err("none")
NoCall == [op |-> "none", of |-> "none", room |-> 0, asked |-> 0, got |-> 0,
           serial |-> FALSE]

SmInit ==
    /\ subject \in Items
    /\ \E n, manifest \in 0..MaxText :
         item = [i \in Items |-> CASE i = subject -> n
                                   [] i = "DeviceManifest" /\ subject = "HwInfo" -> manifest
                                   [] OTHER -> 0]
    /\ at = [t \in SmCallers |-> "idle"]
    /\ ask = [t \in SmCallers |-> NoCall]
    /\ answer = NoAnswer
    /\ opened = 0 /\ leftOpen = 0 /\ smFails = 0

SmFails == smFails < MaxSmFails /\ smFails' = smFails + 1

Step(t, place, call) ==
    /\ at' = [at EXCEPT ![t] = place]
    /\ ask' = [ask EXCEPT ![t] = call]

\* The serial number is a claim of the token that the device manifest is: its
\* middle part, decoded and read as JSON.  The handle of the JSON component
\* is closed on every path of it.
EsfSystemManagerParseJwtPayload == {Ok(0), Err("InternalError")}

\* What GetHwInfo makes of the device manifest: none at all leaves the serial
\* number empty.
EsfSystemManagerParseSerialNumberFromDeviceManifest(a) ==
    CASE a.result = "Ok" -> EsfSystemManagerParseJwtPayload
      [] a.result = "EmptyData" -> {Ok(0)}
      [] OTHER -> {Err("InternalError")}

Answered(t, a) ==
    /\ Step(t, "idle", NoCall)
    /\ \E b \in IF ask[t].serial THEN EsfSystemManagerParseSerialNumberFromDeviceManifest(a)
                 ELSE {a} :
         answer' = [b EXCEPT !.room = IF b.size = 0 THEN 0 ELSE ask[t].room]

\* The end of an error path: the handle is closed and the result of that is
\* not looked at.
Refused(t, r) ==
    /\ Answered(t, Err(r))
    /\ UNCHANGED <<subject, item>>
    /\ \/ opened' = opened - 1 /\ UNCHANGED <<leftOpen, smFails>>
       \/ SmFails /\ leftOpen' = leftOpen + 1 /\ UNCHANGED opened

\* EsfParameterStorageManagerOpen, the first step of every call.
Opens(t, place, call) ==
    /\ \/ opened' = opened + 1 /\ Step(t, place, call) /\ UNCHANGED <<answer, smFails>>
       \/ SmFails /\ Answered(t, Err("InternalError")) /\ UNCHANGED opened
    /\ UNCHANGED <<subject, item, leftOpen>>

Call(op, i, n) == [NoCall EXCEPT !.op = op, !.of = i, !.room = n]

\* A getter of a text or of a blob is given a buffer, one of a number is not.
Get(t, i) ==
    /\ at[t] = "idle" /\ subject = i
    /\ \E room \in 1..MaxText + 1 : Opens(t, "sizing", Call("get", i, room))
GetNumber(t, i) ==
    /\ at[t] = "idle" /\ subject = i
    /\ Opens(t, "loading", Call("number", i, 0))
Set(t, i, values) ==
    /\ at[t] = "idle" /\ subject = i
    /\ \E n \in values : Opens(t, "saving", Call("set", i, n))

EsfSystemManagerGetDeviceManifest(t) == Get(t, "DeviceManifest")
EsfSystemManagerGetDpsUrl(t) == Get(t, "DpsURL")
EsfSystemManagerSetDpsUrl(t) == Set(t, "DpsURL", 0..MaxText)
EsfSystemManagerGetCommonName(t) == Get(t, "CommonName")
EsfSystemManagerSetCommonName(t) == Set(t, "CommonName", 0..MaxText)
EsfSystemManagerGetDpsScopeId(t) == Get(t, "DpsScopeID")
EsfSystemManagerSetDpsScopeId(t) == Set(t, "DpsScopeID", 0..MaxText)
EsfSystemManagerGetProjectId(t) == Get(t, "ProjectID")
EsfSystemManagerSetProjectId(t) == Set(t, "ProjectID", 0..MaxText)
EsfSystemManagerGetRegisterToken(t) == Get(t, "RegisterToken")
EsfSystemManagerSetRegisterToken(t) == Set(t, "RegisterToken", 0..MaxText)
EsfSystemManagerGetEvpHubUrl(t) == Get(t, "EvpHubURL")
EsfSystemManagerSetEvpHubUrl(t) == Set(t, "EvpHubURL", 0..MaxText)
EsfSystemManagerGetEvpHubPort(t) == Get(t, "EvpHubPort")
EsfSystemManagerSetEvpHubPort(t) == Set(t, "EvpHubPort", 0..MaxText)
EsfSystemManagerGetEvpIotPlatform(t) == Get(t, "EvpIotPlatform")
EsfSystemManagerSetEvpIotPlatform(t) == Set(t, "EvpIotPlatform", 0..MaxText)
EsfSystemManagerGetEvpTls(t) == GetNumber(t, "EvpTls")
EsfSystemManagerSetEvpTls(t) == Set(t, "EvpTls", 1..2)
EsfSystemManagerGetRootCa(t) == Get(t, "PkiRootCerts")
EsfSystemManagerGetRootCaHash(t) == Get(t, "PkiRootCertsHash")
EsfSystemManagerGetQrModeTimeoutValue(t) == GetNumber(t, "QrModeTimeoutValue")
EsfSystemManagerSetQrModeTimeoutValue(t) == Set(t, "QrModeTimeoutValue", 0..MaxText)
EsfSystemManagerGetInitialSettingFlag(t) == GetNumber(t, "InitialSettingFlag")
EsfSystemManagerSetInitialSettingFlag(t) == Set(t, "InitialSettingFlag", 0..1)

\* The hardware information may come from elsewhere than the storage, and
\* its serial number from the device manifest.
EsfSystemManagerGetHwInfo(t) ==
    /\ at[t] = "idle" /\ subject = "HwInfo"
    /\ \/ TRUE \in HwInfoKinds /\ Opens(t, "loading", Call("hwinfo", "HwInfo", MaxText))
       \/ /\ FALSE \in HwInfoKinds
          /\ Step(t, "parsing", Call("hwinfo", "HwInfo", MaxText))
          /\ UNCHANGED <<subject, item, answer, opened, leftOpen, smFails>>

\* EsfParameterStorageManagerGetSize and what the getters do with it: an
\* empty blob is an error at once.
NothingThere(c) == c.of \in {"DeviceManifest", "PkiRootCerts"} /\ item[c.of] = 0
TooSmall(c) == c.room < item[c.of] + 1
SizeOk(t) ==
    /\ ~NothingThere(ask[t]) /\ ~TooSmall(ask[t])
    /\ Step(t, "loading", [ask[t] EXCEPT !.asked = item[ask[t].of]])
    /\ UNCHANGED <<subject, item, answer, opened, leftOpen, smFails>>

\* Mutant of SizeKnown: the buffer that is too small is an early return.
SizeKnownLeaks(t) ==
    /\ at[t] = "sizing"
    /\ \/ NothingThere(ask[t]) /\ Refused(t, "EmptyData")
       \/ /\ ~NothingThere(ask[t]) /\ TooSmall(ask[t])
          /\ Answered(t, Err("OutOfRange"))
          /\ UNCHANGED <<subject, item, opened, leftOpen, smFails>>
       \/ SizeOk(t)

SizeKnown(t) ==
    /\ at[t] = "sizing"
    /\ \/ NothingThere(ask[t]) /\ Refused(t, "EmptyData")
       \/ ~NothingThere(ask[t]) /\ TooSmall(ask[t]) /\ Refused(t, "OutOfRange")
       \/ SizeOk(t)

\* The loaders: an item of a text that is not stored is given its default, a
\* blob or a hash that is not stored is an error.
EsfSystemManagerLoadEnrollmentFromPsm(c) == Ok(Filled(c.of))
EsfSystemManagerLoadEvpFromPsm(c) == Ok(Filled(c.of))
EsfSystemManagerLoadQrModeTimeoutValueFromPsm(c) == Ok(Filled(c.of))
EsfSystemManagerLoadInitialSettingFlagFromPsm(c) == Ok(Filled(c.of))
EsfSystemManagerLoadRootAuthFromPsm(c) ==
    IF item[c.of] = 0 THEN Err("EmptyData")
    ELSE Ok(IF c.of \in Blobs THEN Shorter(item[c.of], c.asked) ELSE item[c.of])
EsfSystemManagerLoadDeviceManifestFromPsm(c) ==
    IF item[c.of] = 0 THEN Err("EmptyData") ELSE Ok(Shorter(item[c.of], c.asked))
EsfSystemManagerLoadHwInfoFromPsm(c) ==
    IF item[c.of] = 0 THEN Err("EmptyData") ELSE Ok(Shorter(item[c.of], c.room))

LoadedBy(c) ==
    CASE c.of \in EnrollmentItems -> EsfSystemManagerLoadEnrollmentFromPsm(c)
      [] c.of \in EvpItems -> EsfSystemManagerLoadEvpFromPsm(c)
      [] c.of \in RootAuthItems -> EsfSystemManagerLoadRootAuthFromPsm(c)
      [] c.of = "DeviceManifest" -> EsfSystemManagerLoadDeviceManifestFromPsm(c)
      [] c.of = "HwInfo" -> EsfSystemManagerLoadHwInfoFromPsm(c)
      [] c.of = "QrModeTimeoutValue" -> EsfSystemManagerLoadQrModeTimeoutValueFromPsm(c)
      [] c.of = "InitialSettingFlag" -> EsfSystemManagerLoadInitialSettingFlagFromPsm(c)

\* A call whose storage or heap fails in the middle of it; the close after it
\* may fail as well.
GivesUp(t) ==
    /\ at[t] \in {"sizing", "loading", "saving"}
    /\ SmFails
    /\ \/ opened' = opened - 1 /\ UNCHANGED leftOpen
       \/ leftOpen' = leftOpen + 1 /\ UNCHANGED opened
    /\ Answered(t, Err("InternalError"))
    /\ UNCHANGED <<subject, item>>

Load(t) ==
    LET loaded == LoadedBy(ask[t]) IN
    /\ at[t] = "loading"
    /\ \/ loaded.result # "Ok" /\ Refused(t, loaded.result)
       \/ /\ loaded.result = "Ok"
          /\ Step(t, "closing", [ask[t] EXCEPT !.got = loaded.size])
          /\ UNCHANGED <<subject, item, answer, opened, leftOpen, smFails>>

Save(t) ==
    /\ at[t] = "saving"
    /\ item' = [item EXCEPT ![ask[t].of] = ask[t].room]
    /\ Step(t, "closing", ask[t])
    /\ UNCHANGED <<subject, answer, opened, leftOpen, smFails>>

\* Mutant of Given: the text is copied without measuring it again.
GivenUnmeasured(c) == IF c.op = "get" THEN Ok(c.got + 1) ELSE Ok(0)

\* What a getter gives, after it has closed its handle.  The text may be
\* longer than the size that was asked: it is measured again.
Given(c) ==
    CASE c.op = "get" /\ c.of \in Texts /\ c.got + 1 > c.room -> Err("OutOfRange")
      [] c.op = "get" /\ ~(c.of \in Texts /\ c.got + 1 > c.room) -> Ok(c.got + 1)
      [] c.op = "number" /\ c.of = "InitialSettingFlag" /\ c.got > 1 -> Err("OutOfRange")
      [] OTHER -> Ok(0)

\* An error of the close is the answer of the call, even of a setter that has
\* saved.
CloseFails(t) ==
    /\ at[t] = "closing"
    /\ SmFails /\ leftOpen' = leftOpen + 1
    /\ Answered(t, Err("InternalError"))
    /\ UNCHANGED <<subject, item, opened>>

Close(t) ==
    /\ at[t] = "closing"
    /\ opened' = opened - 1
    /\ IF ask[t].op = "hwinfo"
       THEN Step(t, "parsing", ask[t]) /\ UNCHANGED answer
       ELSE Answered(t, Given(ask[t]))
    /\ UNCHANGED <<subject, item, leftOpen, smFails>>

\* EsfSystemManagerParseHwInfo: the device may know nothing of itself, and
\* its serial number may have to be taken from the device manifest.
EsfSystemManagerParseHwInfo(t) ==
    /\ at[t] = "parsing"
    /\ \/ /\ \E a \in {Err("EmptyData"), Err("InternalError"), Ok(0)} : Answered(t, a)
          /\ UNCHANGED <<subject, item, opened, leftOpen, smFails>>
       \/ Opens(t, "sizing", [Call("get", "DeviceManifest", MaxText + 1) EXCEPT !.serial = TRUE])

Getter(t) ==
    \/ EsfSystemManagerGetDeviceManifest(t) \/ EsfSystemManagerGetDpsUrl(t)
    \/ EsfSystemManagerGetCommonName(t) \/ EsfSystemManagerGetDpsScopeId(t)
    \/ EsfSystemManagerGetProjectId(t) \/ EsfSystemManagerGetRegisterToken(t)
    \/ EsfSystemManagerGetEvpHubUrl(t) \/ EsfSystemManagerGetEvpHubPort(t)
    \/ EsfSystemManagerGetEvpIotPlatform(t) \/ EsfSystemManagerGetEvpTls(t)
    \/ EsfSystemManagerGetRootCa(t) \/ EsfSystemManagerGetRootCaHash(t)
    \/ EsfSystemManagerGetQrModeTimeoutValue(t)
    \/ EsfSystemManagerGetInitialSettingFlag(t) \/ EsfSystemManagerGetHwInfo(t)
Setter(t) ==
    \/ EsfSystemManagerSetDpsUrl(t) \/ EsfSystemManagerSetCommonName(t)
    \/ EsfSystemManagerSetDpsScopeId(t) \/ EsfSystemManagerSetProjectId(t)
    \/ EsfSystemManagerSetRegisterToken(t) \/ EsfSystemManagerSetEvpHubUrl(t)
    \/ EsfSystemManagerSetEvpHubPort(t) \/ EsfSystemManagerSetEvpIotPlatform(t)
    \/ EsfSystemManagerSetEvpTls(t) \/ EsfSystemManagerSetQrModeTimeoutValue(t)
    \/ EsfSystemManagerSetInitialSettingFlag(t)
CallProceeds(t) ==
    \/ SizeKnown(t) \/ Load(t) \/ Save(t) \/ GivesUp(t) \/ CloseFails(t) \/ Close(t)
    \/ EsfSystemManagerParseHwInfo(t)

SmNext == \E t \in SmCallers : Getter(t) \/ Setter(t) \/ CallProceeds(t)
SmSpec == SmInit /\ [][SmNext]_smVars

(* A getter that succeeds has put a text and its terminator into the buffer *)
(* of its caller, whatever was saved between its look at the size and its   *)
(* load (system_manager.c EsfSystemManagerGetDpsUrl).                       *)
AnswerFits == answer.size <= answer.room

(* No path of a call leaves its handle of the storage open: as many are     *)
(* open as calls are between their open and their close, and those whose    *)
(* close failed (system_manager.c).                                         *)
HandlesComeBack ==
    LET inside == {t \in SmCallers : at[t] \in {"sizing", "loading", "saving", "closing"}} IN
    opened = leftOpen + Cardinality(inside)

(* A call ends clean: what it gives fits, and its handle is closed again     *)
(* (system_manager.c).                                                      *)
CallsEndClean == AnswerFits /\ HandlesComeBack

=============================================================================
