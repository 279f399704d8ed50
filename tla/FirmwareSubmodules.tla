------------------------- MODULE FirmwareSubmodules -------------------------
(***************************************************************************)
(* The submodules of the Firmware Manager: the operations it calls through *)
(* EsfFwMgrSubmoduleOps, with every outcome their own calls may have.  The *)
(* processor submodule writes through the porting layer (FwMgrPl...), the  *)
(* sensor submodule through the sensor's update library; both are external *)
(* and may refuse any call.                                                *)
(*                                                                         *)
(* An operation is an action with its result as parameter: "Ok", "Aborted" *)
(* (kEsfFwMgrResultAborted) or "Error" (every other error).                *)
(***************************************************************************)
EXTENDS FirmwareImage

CONSTANT MapSupport     \* can the internal buffer be mapped?

VARIABLES
    kind,       \* the target of the open submodule, or "none"
    dev,        \* the session with the device: "none", "open" or "aborted"
    hdr,        \* header_load_info and header_info
    requested,  \* total_requested_write_size, counted up to HeaderSize
    staged,     \* what the session has received
    installed   \* what the device will use: the active slot

subVars == <<kind, dev, hdr, requested, staged, installed>>

Kinds == {"processor", "sensor", "model"}
Sensor == kind \in {"sensor", "model"}

SubTypeOK ==
    /\ kind \in Kinds \cup {"none"}
    /\ dev \in {"none", "open", "aborted"}
    /\ hdr \in Headers
    /\ requested \in 0..HeaderSize
    /\ staged \in Seq(Pieces) /\ installed \in Seq(Pieces)

SubInit ==
    /\ kind = "none" /\ dev = "none"
    /\ hdr = NoHeader /\ requested = 0 /\ staged = <<>>
    /\ installed = <<>>

\* Open of either submodule; only the sensor's begins a session at once.
SubOpen(k) ==
    /\ kind' = k
    /\ dev' = IF k = "processor" THEN "none" ELSE "open"
    /\ UNCHANGED <<hdr, requested, staged, installed>>

\* The submodule's context is freed.
SubFree ==
    /\ kind' = "none" /\ dev' = "none"
    /\ hdr' = NoHeader /\ requested' = 0 /\ staged' = <<>>
    /\ UNCHANGED installed

----------------------------------------------------------------------------
\* LoadBinaryHeader maps (or opens) the buffer, reads, unmaps (or closes).
LoadHeader(p, ret) ==
    \/ ret = "Error" /\ ~MapSupport /\ hdr' = MagicOnly(hdr, p)
    \/ \E r \in Loads(hdr, p) :
          /\ hdr' = r[2]
          /\ ret = r[1] \/ ret = "Error"       \* the unmap fails

CountRequested == requested' = IF requested < HeaderSize THEN requested + 1
                               ELSE HeaderSize

\* EsfFwMgrProcessorWrite behind a complete header: what belongs to the
\* header is skipped, the first byte behind it opens the session.
Transfer(p, ret) ==
    /\ IF hdr'.size > requested
       THEN ret = "Ok" /\ UNCHANGED <<dev, staged>>
       ELSE \/ /\ ret = "Ok" /\ dev # "aborted"
               /\ dev' = "open" /\ staged' = Append(staged, p)
            \/ /\ ret = "Aborted"              \* of FwMgrPlOpen or FwMgrPlWrite
               /\ dev' \in {dev} \cup (IF dev = "none" THEN {"open"} ELSE {})
               /\ UNCHANGED staged
    /\ UNCHANGED <<kind, installed>>

ProcessorWrite(p, ret) ==
    \/ ret = "Error" /\ UNCHANGED subVars      \* a bad request, no memory, no map
    \/ /\ ~hdr.completed /\ LoadHeader(p, "Error")
       /\ ret = "Error"
       /\ UNCHANGED <<kind, dev, requested, staged, installed>>
    \/ /\ ~hdr.completed /\ LoadHeader(p, "Ok") /\ ~hdr'.completed
       /\ ret = "Ok"
       /\ CountRequested
       /\ UNCHANGED <<kind, dev, staged, installed>>
    \/ /\ IF hdr.completed THEN hdr' = hdr
          ELSE LoadHeader(p, "Ok") /\ hdr'.completed
       /\ CountRequested
       /\ Transfer(p, ret)

\* A failed write of the update library takes nothing of the piece.
SensorWrite(p, ret) ==
    /\ \/ ret = "Ok" /\ dev = "open" /\ staged' = Append(staged, p)
       \/ ret = "Error" /\ UNCHANGED staged
    /\ UNCHANGED <<kind, dev, hdr, requested, installed>>

SubWrite(p, ret) == IF Sensor THEN SensorWrite(p, ret) ELSE ProcessorWrite(p, ret)

----------------------------------------------------------------------------
\* The slot is switched by FwMgrPlClose, unless the header says version 1.
ProcessorPostProcess(ret) ==
    /\ \/ /\ ret = "Ok" /\ dev # "none"
          /\ dev' = "none"
          /\ installed' = IF dev = "open" /\ ~(hdr.completed /\ hdr.arch = "v1")
                          THEN staged ELSE installed
       \/ ret = "Aborted" /\ UNCHANGED <<dev, installed>>
    /\ UNCHANGED <<kind, hdr, requested, staged>>

\* FwUpdateComplete; when that fails, FwUpdateCancel, which may fail as well.
SensorPostProcess(ret, result) ==
    /\ \/ /\ ret = "Ok" /\ dev = "open"
          /\ dev' = "none" /\ installed' = result
       \/ ret = "Error" /\ dev' \in {dev, "none"} /\ UNCHANGED installed
    /\ UNCHANGED <<kind, hdr, requested, staged>>

SubPostProcess(ret, result) ==
    IF Sensor THEN SensorPostProcess(ret, result) ELSE ProcessorPostProcess(ret)

\* Only AI models can be erased; what Erase did shows after post-processing.
SubErase(ret) ==
    \/ ret = "Error"
    \/ ret = "Ok" /\ kind = "model" /\ dev = "open"

\* Wrong on purpose: an aborted session is not closed.
SubCloseLeaving(aborted, ret) ==
    \/ /\ ret = "Ok"
       /\ kind' = "none" /\ hdr' = NoHeader /\ requested' = 0 /\ staged' = <<>>
       /\ dev' = IF aborted /\ dev = "open" THEN "aborted" ELSE "none"
       /\ UNCHANGED installed
    \/ /\ ret = "Error" /\ aborted /\ dev # "none"
       /\ UNCHANGED subVars

\* Close: an unfinished session is cancelled, in the processor's case by
\* FwMgrPlAbort and FwMgrPlClose, each of which may fail and be retried.
SubClose(aborted, ret) ==
    \/ ret = "Ok" /\ SubFree
    \/ /\ ret = "Error" /\ aborted /\ dev # "none"
       /\ dev' \in IF Sensor THEN {dev} ELSE {dev, "aborted"}
       /\ UNCHANGED <<kind, hdr, requested, staged, installed>>
=============================================================================
