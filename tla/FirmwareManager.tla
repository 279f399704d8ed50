-------------------------- MODULE FirmwareManager --------------------------
(***************************************************************************)
(* The Firmware Manager: one update session at a time, from Open to Close. *)
(* A client promises the hash of an image, copies it piece by piece to the *)
(* internal buffer and writes each piece from there; PostProcess compares  *)
(* the hash of what was written with the promise and lets the submodule    *)
(* put it into use.                                                        *)
(*                                                                         *)
(* Every call takes s_main_apis_mutex with trylock and returns Busy when   *)
(* another call has it, so a call is one step.  GetInfo and                *)
(* GetBinaryHeaderInfo change nothing.  The hash of a sequence of pieces   *)
(* is the sequence; the software SHA-256 does not fail.                    *)
(***************************************************************************)
EXTENDS FirmwareSubmodules

CONSTANTS
    Images,     \* the images whose hash clients promise at Open
    Targets,    \* the kinds of targets with a submodule in the build
    MaxPieces   \* bound: the pieces a client writes in one session

ASSUME FirmwareManagerAssumption ==
    /\ Images \subseteq Seq(Pieces) /\ <<>> \notin Images
    /\ Targets \subseteq Kinds /\ MaxPieces \in Nat
    /\ MapSupport \in BOOLEAN

VARIABLES
    state,      \* s_state
    want,       \* the image whose hash the context holds
    hashed,     \* what the SHA-256 context has been updated with
    sound,      \* that context is neither finished nor freed
    buf,        \* internal_buffer_state: "free", "allocated", "ready"
                \* (mapped or open)
    data,       \* the piece in the internal buffer
    last        \* the last call and its result, as its client sees it

contextVars == <<want, hashed, sound, buf, data>>
vars == <<state, contextVars, last, subVars>>

Sessions == {"Erasable", "Writable", "Done", "Error"}
Results == {"Ok", "Aborted", "Error"}

\* Clients copy pieces of the images they know.
Offered == UNION {{w[i] : i \in DOMAIN w} : w \in Images}

Returns(call, ret) == last' = <<call, ret>>

Init ==
    /\ SubInit
    /\ state = "Uninit"
    /\ want = <<>> /\ hashed = <<>> /\ sound = FALSE
    /\ buf = "free" /\ data = Junk
    /\ last = <<"none", "Ok">>

\* No context: nothing of it is left.
Forget ==
    /\ want' = <<>> /\ hashed' = <<>> /\ sound' = FALSE
    /\ buf' = "free" /\ data' = Junk

----------------------------------------------------------------------------
\* EsfFwMgrInit; when it fails, nothing has changed.
InitManager ==
    /\ state = "Uninit" /\ state' = "Idle"
    /\ Returns("Init", "Ok")
    /\ UNCHANGED <<contextVars, subVars>>

Deinit ==
    /\ state = "Idle" /\ state' = "Uninit"
    /\ Returns("Deinit", "Ok")
    /\ UNCHANGED <<contextVars, subVars>>

\* EsfFwMgrOpen to write image w.  An Open that fails frees its context.
OpenForWrite(k, w) ==
    /\ state = "Idle" /\ state' = "Writable"
    /\ SubOpen(k)
    /\ want' = w /\ hashed' = <<>> /\ sound' = TRUE
    /\ buf' = "ready" /\ data' = Junk
    /\ Returns("Open", "Ok")

\* EsfFwMgrOpen without prepare_write; only the sensor can erase.
OpenForErase(k) ==
    /\ state = "Idle" /\ state' = "Erasable"
    /\ k # "processor"
    /\ SubOpen(k)
    /\ Returns("Open", "Ok")
    /\ UNCHANGED contextVars

\* EsfFwMgrCopyToInternalBuffer.  A freed buffer has size 0, so the range
\* check refuses it; a buffer left unmapped aborts the session.
Copy(p) ==
    /\ state = "Writable"
    /\ \/ /\ buf = "ready" /\ data' = p
          /\ Returns("Copy", "Ok") /\ UNCHANGED state
       \/ /\ buf = "ready" /\ ~MapSupport /\ data' \in {data, Junk}
          /\ Returns("Copy", "Error") /\ UNCHANGED state
       \/ /\ buf = "free"
          /\ Returns("Copy", "Error") /\ UNCHANGED <<state, data>>
       \/ /\ buf = "allocated" /\ state' = "Error"
          /\ Returns("Copy", "Aborted") /\ UNCHANGED data
    /\ UNCHANGED <<want, hashed, sound, buf, subVars>>

----------------------------------------------------------------------------
Unmapped == IF buf = "ready" THEN "allocated" ELSE buf

\* What the submodule finds where the buffer is, or was.
Source == IF buf = "free" THEN Junk ELSE data

\* EsfFwMgrWrite: the buffer cannot be unmapped.
WriteNotUnmapped ==
    /\ state = "Writable" /\ buf = "ready"
    /\ state' = "Error" /\ Returns("Write", "Aborted")
    /\ UNCHANGED <<contextVars, subVars>>

\* The submodule fails: the buffer stays unmapped, the hash as it was.
WriteFails(ret) ==
    /\ state = "Writable" /\ ret # "Ok"
    /\ SubWrite(Source, ret)
    /\ buf' = Unmapped
    /\ state' = IF ret = "Aborted" THEN "Error" ELSE state
    /\ Returns("Write", ret)
    /\ UNCHANGED <<want, hashed, sound, data>>

\* Wrong on purpose: a buffer that cannot be hashed does not end the session.
WriteNotHashedTolerated ==
    /\ state = "Writable"
    /\ SubWrite(Source, "Ok")
    /\ buf' \in {Unmapped, buf}
    /\ Returns("Write", "Error")
    /\ UNCHANGED <<state, want, hashed, sound, data>>

\* The submodule succeeds, but the buffer cannot be mapped again or read.
WriteNotHashed ==
    /\ state = "Writable"
    /\ SubWrite(Source, "Ok")
    /\ buf' \in {Unmapped, buf}
    /\ state' = "Error"
    /\ Returns("Write", "Aborted")
    /\ UNCHANGED <<want, hashed, sound, data>>

Write ==
    /\ state = "Writable" /\ buf # "free" /\ Len(hashed) < MaxPieces
    /\ SubWrite(data, "Ok")
    /\ buf' = "ready"
    /\ hashed' = Append(hashed, data)
    /\ Returns("Write", "Ok")
    /\ UNCHANGED <<state, want, sound, data>>

----------------------------------------------------------------------------
\* VerifyHash; the SHA-256 context is finished by it.
HashMatches == sound /\ hashed = want

Mismatch ==
    /\ state = "Writable" /\ ~HashMatches
    /\ state' = "Error" /\ sound' = FALSE
    /\ Returns("PostProcess", "Aborted")
    /\ UNCHANGED <<want, hashed, buf, data, subVars>>

PostProcess(ret) ==
    /\ state = "Writable" /\ HashMatches
    /\ sound' = FALSE
    /\ SubPostProcess(ret, staged)
    /\ state' = IF ret = "Ok" THEN "Done"
                ELSE IF ret = "Aborted" THEN "Error" ELSE state
    /\ Returns("PostProcess", ret)
    /\ UNCHANGED <<want, hashed, buf, data>>

\* EsfFwMgrErase and the post-processing, whose failure aborts.
EraseFails ==
    /\ state = "Erasable" /\ SubErase("Error")
    /\ Returns("Erase", "Error")
    /\ UNCHANGED <<state, contextVars, subVars>>

Erase(ret) ==
    /\ state = "Erasable" /\ SubErase("Ok")
    /\ SubPostProcess(ret, <<>>)
    /\ state' = IF ret = "Ok" THEN "Done" ELSE "Error"
    /\ Returns("Erase", IF ret = "Ok" THEN "Ok" ELSE "Aborted")
    /\ UNCHANGED contextVars

----------------------------------------------------------------------------
\* EsfFwMgrClose: CloseForWrite frees the SHA-256 context and the buffer ...
CloseForWriteFails ==
    /\ state \in Sessions /\ buf # "free"
    /\ sound' = FALSE
    /\ buf' \in {buf, Unmapped}
    /\ Returns("Close", "Error")
    /\ UNCHANGED <<state, want, hashed, data, subVars>>

\* ... before the submodule is closed, which may fail ...
CloseSubmoduleFails ==
    /\ state \in Sessions
    /\ sound' = FALSE /\ buf' = "free"
    /\ SubClose(state # "Done", "Error")
    /\ Returns("Close", "Error")
    /\ UNCHANGED <<state, want, hashed, data>>

\* ... and leave the session open.
Close ==
    /\ state \in Sessions
    /\ SubClose(state # "Done", "Ok")
    /\ Forget
    /\ state' = "Idle"
    /\ Returns("Close", "Ok")

\* The device restarts; what is installed stays.
Restart ==
    /\ state # "Uninit" /\ state' = "Uninit"
    /\ Forget /\ SubFree
    /\ Returns("none", "Ok")

Next ==
    \/ InitManager \/ Deinit \/ Restart
    \/ \E k \in Targets : OpenForErase(k) \/ \E w \in Images : OpenForWrite(k, w)
    \/ \E p \in Offered : Copy(p)
    \/ WriteNotUnmapped \/ WriteNotHashed \/ Write
    \/ \E ret \in Results : WriteFails(ret) \/ PostProcess(ret) \/ Erase(ret)
    \/ Mismatch \/ EraseFails
    \/ CloseForWriteFails \/ CloseSubmoduleFails \/ Close

Spec == Init /\ [][Next]_vars

----------------------------------------------------------------------------
(* Every variable stays in its range. *)
TypeOK ==
    /\ SubTypeOK
    /\ state \in {"Uninit", "Idle"} \cup Sessions
    /\ want \in Images \cup {<<>>}
    /\ hashed \in Seq(Pieces) /\ Len(hashed) <= MaxPieces
    /\ sound \in BOOLEAN
    /\ buf \in {"free", "allocated", "ready"} /\ data \in Pieces
    /\ last[2] \in Results

\* What a session that is Done is to leave on the device.
Promised == IF state = "Erasable" THEN <<>>
            ELSE IF Sensor THEN want ELSE Payload(want)

(* What the device uses changes only when a session becomes Done, and then
   to the image whose hash was promised, whole and in order, for a processor
   without its header, or to nothing in an erase: through failed and repeated
   writes, aborts, failed closes and restarts. *)
InstallsWhatWasPromised ==
    [][installed' # installed => state' = "Done" /\ installed' = Promised]_vars

(* Without a session of the Firmware Manager there is none with the device:
   a Close that returns Ok, after whatever failures, has ended it. *)
IdleMeansClosed == state \in {"Uninit", "Idle"} => dev = "none" /\ buf = "free"

=============================================================================
