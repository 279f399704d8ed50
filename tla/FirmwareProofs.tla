--------------------------- MODULE FirmwareProofs ---------------------------
(***************************************************************************)
(* Proofs about the Firmware Manager, for any images, targets and session  *)
(* lengths, and about the Memory Manager, for any tasks, ids, offsets and  *)
(* sizes.                                                                  *)
(*                                                                         *)
(* That what is installed is what was promised rests on InStep: as long as *)
(* the SHA-256 context of a session is sound, what the device has received *)
(* is what was hashed, without the header the submodule has recognised.    *)
(*                                                                         *)
(* That a handle used alone is in its place rests on Settled: a file that  *)
(* has no user is where its record says, one whose user is about to store  *)
(* a position is at that position, and a file has a second user only in an *)
(* allocation that is disturbed or while the first is still opening it.    *)
(***************************************************************************)
EXTENDS MCFirmware, FiniteSetTheorems, TLAPS

(* Images somebody would promise: one that begins with a magic number has a
   header behind it, and not one of an unknown version ("oldheader"), which
   leaves header_info as malloc returned it. *)
WellFormed ==
    \A w \in Images :
        /\ \A i \in DOMAIN w : w[i] # "oldheader"
        /\ w[1] = "head" => HasHeader(w)

\* A write has failed in the submodule and the next one must write the same.
Retrying == buf = "allocated"

\* The header is not complete: nothing has gone to the device.
Collecting ==
    /\ ~hdr.completed /\ staged = <<>>
    /\ \A r \in Rests : hdr.loaded # <<"head", r>>
    /\ \/ hdr.loaded = <<>> /\ hashed = <<>>
       \/ /\ hdr.loaded # <<>> /\ hashed = <<>>
          /\ \A i \in DOMAIN hdr.loaded : hdr.loaded[i] \in {"head", "magic"}
          /\ Retrying /\ data = "head"
       \/ /\ hdr.loaded # <<>> /\ hashed = <<"head">>
          /\ hdr.loaded[1] = "magic" => Len(hdr.loaded) >= HeaderSize

\* The image has no header: all of it goes to the device.
Headless ==
    /\ hdr.completed /\ hdr.size = 0 /\ staged = hashed
    /\ IF hashed = <<>> THEN Retrying /\ data # "head" ELSE hashed[1] # "head"

\* The header is complete: what follows it goes to the device.
Headed ==
    /\ hdr.completed /\ hdr.size = HeaderSize
    /\ \/ hashed = <<"head">> /\ Retrying /\ data \in Rests /\ staged = <<>>
       \/ HasHeader(hashed) /\ staged = SubSeq(hashed, HeaderSize + 1, Len(hashed))

\* The processor submodule and the hash have seen the same pieces.
Following ==
    /\ requested = IF Len(hashed) < HeaderSize THEN Len(hashed) ELSE HeaderSize
    /\ Collecting \/ Headless \/ Headed

InStep ==
    state = "Writable" /\ sound =>
        /\ buf # "free" /\ want \in Images /\ kind \in Kinds
        /\ data # "oldheader"
        /\ IF Sensor THEN staged = hashed ELSE Following

\* Only the sensor submodule erases.
ErasesSensor == state = "Erasable" => Sensor

\* Outside a session the submodule has no context, and its fields are fresh.
Fresh == state \in {"Uninit", "Idle"} => hdr = NoHeader /\ requested = 0 /\ staged = <<>>

IInv == TypeOK /\ Fresh /\ ErasesSensor /\ InStep

----------------------------------------------------------------------------
(* Types. *)

LEMMA HeaderTypes ==
    /\ NoHeader \in Headers
    /\ \A size \in 0..HeaderSize, arch \in {"unknown", "v1", "v2"} :
          Completed(size, arch) \in Headers
<1>1. <<>> \in Seq(Pieces \cup {"magic"}) /\ 0 \in 0..HeaderSize
  BY DEF HeaderSize
<1> QED
  BY <1>1 DEF NoHeader, Headers, Completed

\* Whatever loading a piece returns is a result and a header state.
LEMMA LoadsTypes ==
    ASSUME NEW h \in Headers, NEW p \in Pieces, NEW r \in Loads(h, p)
    PROVE  r[2] \in Headers
<1> DEFINE l == IF Full(h.loaded) THEN h.loaded ELSE Append(h.loaded, p)
           loading == [h EXCEPT !.loaded = l]
<1>1. l \in Seq(Pieces \cup {"magic"})
  BY DEF Headers
<1>2. loading \in Headers
  BY <1>1 DEF Headers
<1>3. CASE r = <<"Ok", Completed(0, "unknown")>>
  BY <1>3, HeaderTypes DEF HeaderSize
<1>4. CASE r \in {<<"Ok", loading>>, <<"Error", loading>>}
  BY <1>2, <1>4
<1>5. CASE /\ l \in {<<"head", "v1">>, <<"head", "v2">>}
           /\ r = <<"Ok", Completed(HeaderSize, l[2])>>
  <2>1. l[2] \in {"v1", "v2"} /\ HeaderSize \in 0..HeaderSize
    <3> HIDE DEF l
    <3> QED
      BY <1>5 DEF HeaderSize
  <2> QED
    BY <2>1, <1>5, HeaderTypes
<1>6. CASE r = <<"Error", Completed(HeaderSize, "unknown")>>
  BY <1>6, HeaderTypes DEF HeaderSize
<1>7. CASE \E size \in 0..HeaderSize, arch \in {"unknown", "v1", "v2"} :
              r = <<"Error", Completed(size, arch)>>
  BY <1>7, HeaderTypes
<1> QED
  BY <1>3, <1>4, <1>5, <1>6, <1>7 DEF Loads

LEMMA LoadHeaderTypes ==
    ASSUME hdr \in Headers, NEW p \in Pieces, NEW ret, LoadHeader(p, ret)
    PROVE  hdr' \in Headers
<1>1. MagicOnly(hdr, p) \in Headers
  <2>1. <<"magic">> \in Seq(Pieces \cup {"magic"})
    OBVIOUS
  <2> QED
    BY <2>1 DEF MagicOnly, Headers
<1> QED
  BY <1>1, LoadsTypes DEF LoadHeader

LEMMA WriteTypes ==
    ASSUME SubTypeOK, NEW p \in Pieces, NEW ret, SubWrite(p, ret)
    PROVE  SubTypeOK'
<1>1. Append(staged, p) \in Seq(Pieces)
  BY DEF SubTypeOK
<1>2. CASE Sensor /\ SensorWrite(p, ret)
  BY <1>1, <1>2 DEF SubTypeOK, SensorWrite
<1>3. CASE ProcessorWrite(p, ret)
  <2>1. CASE UNCHANGED subVars
    BY <2>1 DEF SubTypeOK, subVars
  <2>2. CASE \E res : LoadHeader(p, res) /\ UNCHANGED <<kind, dev, requested, staged, installed>>
    BY <2>2, LoadHeaderTypes DEF SubTypeOK
  <2>3. CASE /\ \E res : LoadHeader(p, res)
             /\ CountRequested /\ UNCHANGED <<kind, dev, staged, installed>>
    BY <2>3, LoadHeaderTypes DEF SubTypeOK, CountRequested, HeaderSize
  <2>4. CASE /\ hdr' = hdr \/ LoadHeader(p, "Ok")
             /\ CountRequested /\ Transfer(p, ret)
    <3>1. hdr' \in Headers
      BY <2>4, LoadHeaderTypes DEF SubTypeOK
    <3>2. requested' \in 0..HeaderSize
      BY <2>4 DEF SubTypeOK, CountRequested, HeaderSize
    <3>3. /\ dev' \in {"none", "open", "aborted"} /\ staged' \in Seq(Pieces)
          /\ UNCHANGED <<kind, installed>>
      BY <2>4, <1>1 DEF SubTypeOK, Transfer
    <3> QED
      BY <3>1, <3>2, <3>3 DEF SubTypeOK
  <2> QED
    BY <1>3, <2>1, <2>2, <2>3, <2>4 DEF ProcessorWrite
<1> QED
  BY <1>2, <1>3 DEF SubWrite

\* The other operations of the submodules.
LEMMA SubTypes ==
    ASSUME SubTypeOK
    PROVE  /\ SubFree => SubTypeOK'
           /\ \A k \in Kinds : SubOpen(k) => SubTypeOK'
           /\ \A ret : \A result \in Seq(Pieces) : SubPostProcess(ret, result) => SubTypeOK'
           /\ \A aborted, ret : SubClose(aborted, ret) => SubTypeOK'
           /\ UNCHANGED subVars => SubTypeOK'
<1>1. SubFree => SubTypeOK'
  BY HeaderTypes DEF SubTypeOK, SubFree, HeaderSize
<1>2. ASSUME NEW k \in Kinds, SubOpen(k) PROVE SubTypeOK'
  BY <1>2 DEF SubTypeOK, SubOpen
<1>3. ASSUME NEW ret, NEW result \in Seq(Pieces), SubPostProcess(ret, result)
      PROVE  SubTypeOK'
  BY <1>3 DEF SubTypeOK, SubPostProcess, SensorPostProcess, ProcessorPostProcess
<1>4. ASSUME NEW aborted, NEW ret, SubClose(aborted, ret) PROVE SubTypeOK'
  BY <1>1, <1>4 DEF SubTypeOK, SubClose
<1>5. UNCHANGED subVars => SubTypeOK'
  BY DEF SubTypeOK, subVars
<1> QED
  BY <1>1, <1>2, <1>3, <1>4, <1>5

LEMMA InitType == Init => TypeOK
<1>1. <<>> \in Seq(Pieces) /\ Len(<<>>) <= MaxPieces /\ Junk \in Pieces
  BY FirmwareManagerAssumption DEF Pieces
<1>2. Init => SubTypeOK
  BY <1>1, HeaderTypes DEF Init, SubInit, SubTypeOK, HeaderSize
<1>3. Init => last[2] \in Results
  BY DEF Init, Results
<1> QED
  BY <1>1, <1>2, <1>3 DEF Init, TypeOK

LEMMA TypeStep == TypeOK /\ [Next]_vars => TypeOK'
<1> SUFFICES ASSUME TypeOK, [Next]_vars PROVE TypeOK'
  OBVIOUS
<1> USE FirmwareManagerAssumption
<1>1. Offered \subseteq Pieces
  BY DEF Offered
<1>2. data \in Pieces /\ Source \in Pieces /\ Junk \in Pieces
  BY DEF TypeOK, Source, Pieces
<1>3. /\ SubTypeOK /\ staged \in Seq(Pieces)
      /\ <<>> \in Seq(Pieces) /\ Len(<<>>) <= MaxPieces
  BY DEF TypeOK, SubTypeOK
<1>4. CASE Next
  <2>1. CASE InitManager \/ Deinit
    BY <2>1, <1>3, SubTypes DEF InitManager, Deinit, TypeOK, Returns, Results, contextVars
  <2>2. ASSUME NEW k \in Targets, OpenForErase(k) PROVE TypeOK'
    BY <2>2, <1>3, SubTypes DEF OpenForErase, TypeOK, Sessions, Returns, Results, contextVars
  <2>3. ASSUME NEW k \in Targets, NEW w \in Images, OpenForWrite(k, w) PROVE TypeOK'
    BY <2>3, <1>2, <1>3, SubTypes DEF OpenForWrite, TypeOK, Sessions, Returns, Results
  <2>4. ASSUME NEW p \in Offered, Copy(p) PROVE TypeOK'
    BY <2>4, <1>1, <1>2, <1>3, SubTypes DEF Copy, TypeOK, Sessions, Returns, Results
  <2>5. CASE WriteNotUnmapped
    BY <2>5, <1>3, SubTypes DEF WriteNotUnmapped, TypeOK, Sessions, Returns, Results, contextVars
  <2>6. CASE WriteNotHashed
    BY <2>6, <1>2, <1>3, WriteTypes
       DEF WriteNotHashed, TypeOK, Sessions, Returns, Results, Unmapped
  <2>7. CASE Write
    BY <2>7, <1>2, <1>3, WriteTypes DEF Write, TypeOK, Returns, Results
  <2>8. ASSUME NEW ret \in Results, WriteFails(ret) PROVE TypeOK'
    BY <2>8, <1>2, <1>3, WriteTypes DEF WriteFails, TypeOK, Sessions, Returns, Unmapped
  <2>9. ASSUME NEW ret \in Results, PostProcess(ret) PROVE TypeOK'
    BY <2>9, <1>3, SubTypes DEF PostProcess, TypeOK, Sessions, Returns
  <2>10. ASSUME NEW ret \in Results, Erase(ret) PROVE TypeOK'
    BY <2>10, <1>3, SubTypes DEF Erase, TypeOK, Sessions, Returns, Results, contextVars
  <2>11. CASE Mismatch
    BY <2>11, <1>3, SubTypes DEF Mismatch, TypeOK, Sessions, Returns, Results
  <2>15. CASE EraseFails
    BY <2>15, <1>3, SubTypes DEF EraseFails, TypeOK, Returns, Results, contextVars
  <2>12. CASE CloseForWriteFails
    BY <2>12, <1>3, SubTypes DEF CloseForWriteFails, TypeOK, Sessions, Returns, Results, Unmapped
  <2>13. CASE CloseSubmoduleFails
    BY <2>13, <1>3, SubTypes DEF CloseSubmoduleFails, TypeOK, Sessions, Returns, Results
  <2>14. CASE Close \/ Restart
    <3>1. SubTypeOK'
      BY <2>14, <1>3, SubTypes DEF Close, Restart
    <3>2. hashed' \in Seq(Pieces) /\ Len(hashed') <= MaxPieces
      BY <2>14, <1>3 DEF Close, Restart, Forget
    <3>3. last'[2] \in Results
      BY <2>14 DEF Close, Restart, Returns, Results
    <3> QED
      BY <2>14, <3>1, <3>2, <3>3, <1>2 DEF Close, Restart, Forget, TypeOK
  <2> QED
    BY <1>4, <2>1, <2>2, <2>3, <2>4, <2>5, <2>6, <2>7, <2>8, <2>9, <2>10, <2>11,
       <2>12, <2>13, <2>14, <2>15 DEF Next
<1>5. CASE UNCHANGED vars
  BY <1>3, <1>5, SubTypes DEF vars, contextVars, TypeOK
<1> QED
  BY <1>4, <1>5

(* Every variable of the Firmware Manager and of its submodules keeps its
   type, for any images, targets and bound. *)
THEOREM SpecTypeOK == Spec => []TypeOK
<1>1. Init => TypeOK
  BY InitType
<1>2. TypeOK /\ [Next]_vars => TypeOK'
  BY TypeStep
<1> QED
  BY <1>1, <1>2, PTL DEF Spec

\* The steps that lead out of a session, or happen outside of one.
LEMMA EndOfSession ==
    Next /\ state' \in {"Uninit", "Idle"} => InitManager \/ Deinit \/ Close \/ Restart
<1>1. ASSUME Next PROVE state' \in Sessions \/ InitManager \/ Deinit \/ Close \/ Restart
  BY <1>1 DEF Next, OpenForErase, OpenForWrite, Copy, WriteNotUnmapped,
              WriteNotHashed, Write, WriteFails, PostProcess, Erase, Mismatch, EraseFails,
              CloseForWriteFails, CloseSubmoduleFails, Sessions
<1> QED
  BY <1>1 DEF Sessions

(* A session of the Firmware Manager that has ended, by a Close that returned
   Ok or by a restart, has no session with the device and no buffer. *)
THEOREM SpecIdleMeansClosed == Spec => []IdleMeansClosed
<1>1. Init => IdleMeansClosed
  BY DEF Init, SubInit, IdleMeansClosed
<1>2. IdleMeansClosed /\ [Next]_vars => IdleMeansClosed'
  <2> SUFFICES ASSUME IdleMeansClosed, [Next]_vars, state' \in {"Uninit", "Idle"}
               PROVE  dev' = "none" /\ buf' = "free"
    BY DEF IdleMeansClosed
  <2>1. CASE UNCHANGED <<state, dev, buf>>
    BY <2>1 DEF IdleMeansClosed
  <2>2. CASE Close \/ Restart
    BY <2>2 DEF Close, Restart, Forget, SubClose, SubFree
  <2>3. CASE InitManager \/ Deinit
    BY <2>3 DEF InitManager, Deinit, IdleMeansClosed, contextVars, subVars
  <2> QED
    BY <2>1, <2>2, <2>3, EndOfSession DEF vars, subVars, contextVars
<1> QED
  BY <1>1, <1>2, PTL DEF Spec

----------------------------------------------------------------------------
(* The header of an image, piece by piece. *)

\* What loading piece p leaves of a header that was not complete.
Loaded(h, p) ==
    \/ hashed = <<>> /\ p # "head" /\ h.completed /\ h.size = 0
    \/ hashed = <<"head">> /\ p \in Rests /\ h.completed /\ h.size = HeaderSize
    \/ /\ ~h.completed /\ h.loaded # <<>>
       /\ \A r \in Rests : h.loaded # <<"head", r>>
       /\ \/ /\ hashed = <<>> /\ p = "head"
             /\ \A i \in DOMAIN h.loaded : h.loaded[i] \in {"head", "magic"}
          \/ /\ hashed = <<"head">>
             /\ h.loaded[1] = "magic" => Len(h.loaded) >= HeaderSize

LEMMA CollectingLoads ==
    ASSUME hdr \in Headers, Collecting, NEW p \in Pieces, p # "oldheader",
           Retrying => p = data, NEW r \in Loads(hdr, p)
    PROVE  /\ Loaded(r[2], p)
           /\ r[1] = "Ok" /\ ~r[2].completed =>
                hashed = <<>> /\ (r[2].loaded[1] = "magic" => Len(r[2].loaded) >= HeaderSize)
<1> DEFINE l == IF Full(hdr.loaded) THEN hdr.loaded ELSE Append(hdr.loaded, p)
           loading == [hdr EXCEPT !.loaded = l]
<1>1. /\ hdr.loaded \in Seq(Pieces \cup {"magic"}) /\ p \in Pieces \cup {"magic"}
      /\ loading.loaded = l /\ loading.completed = hdr.completed
  BY DEF Headers
<1>2. /\ l \in Seq(Pieces \cup {"magic"}) /\ l # <<>>
      /\ hdr.loaded # <<>> => l[1] = hdr.loaded[1] /\ Len(l) >= Len(hdr.loaded)
      /\ hdr.loaded = <<>> => l = <<p>>
  <2>1. CASE Full(hdr.loaded)
    <3>1. Len(hdr.loaded) >= 2
      BY <2>1, <1>1 DEF Full, HeaderSize
    <3> QED
      BY <3>1, <2>1, <1>1
  <2>2. CASE ~Full(hdr.loaded)
    <3>1. l = Append(hdr.loaded, p) /\ Len(l) = Len(hdr.loaded) + 1
      BY <2>2, <1>1
    <3>2. hdr.loaded = <<>> => l = <<p>>
      BY <3>1
    <3>3. hdr.loaded # <<>> => l[1] = hdr.loaded[1]
      BY <3>1, <1>1
    <3>4. l \in Seq(Pieces \cup {"magic"})
      BY <3>1, <1>1
    <3> HIDE DEF l
    <3> QED
      BY <3>1, <3>2, <3>3, <3>4, <1>1
  <2> QED
    BY <2>1, <2>2
<1>3. ASSUME hdr.loaded = <<>>, p # "head"
      PROVE  r = <<"Ok", Completed(0, "unknown")>> /\ hashed = <<>>
  BY <1>3 DEF Loads, Collecting
<1>4. ASSUME NEW x \in Rests, l = <<"head", x>>
      PROVE  p = x /\ hashed = <<"head">>
  <2>1. l # hdr.loaded
    BY <1>4 DEF Collecting
  <2>2. l = Append(hdr.loaded, p) /\ Len(l) = Len(hdr.loaded) + 1 /\ l[Len(l)] = p
    BY <2>1, <1>1
  <2>3. p = x /\ hdr.loaded # <<>>
    <3> HIDE DEF l
    <3>1. Len(l) = 2 /\ l[2] = x
      BY <1>4
    <3> QED
      BY <3>1, <2>2, <1>1
  <2>4. x # "head"
    BY DEF Rests
  <2> QED
    BY <2>3, <2>4 DEF Collecting
<1>5. CASE hdr.loaded = <<>> /\ p # "head"
  BY <1>3, <1>5 DEF Loaded, Completed
<1>6. ASSUME ~(hdr.loaded = <<>> /\ p # "head"),
             \A x \in Rests : l # <<"head", x>>
      PROVE  Loaded(loading, p)
  <2>1. CASE hdr.loaded = <<>>
    <3>1. l = <<"head">> /\ p = "head" /\ hashed = <<>> /\ ~hdr.completed
      BY <2>1, <1>2, <1>6 DEF Collecting
    <3>2. \A i \in DOMAIN l : l[i] \in {"head", "magic"}
      BY <3>1
    <3> HIDE DEF l
    <3> QED
      BY <3>1, <3>2, <1>1, <1>2, <1>6 DEF Loaded
  <2>2. CASE hdr.loaded # <<>> /\ hashed = <<>>
    <3>1. p = "head" /\ ~hdr.completed
          /\ \A i \in DOMAIN hdr.loaded : hdr.loaded[i] \in {"head", "magic"}
      BY <2>2 DEF Collecting
    <3>2. \A i \in DOMAIN l : l[i] \in {"head", "magic"}
      BY <3>1, <1>1
    <3> HIDE DEF l
    <3> QED
      BY <3>1, <3>2, <2>2, <1>1, <1>2, <1>6 DEF Loaded
  <2>3. CASE hdr.loaded # <<>> /\ hashed # <<>>
    <3>1. hashed = <<"head">> /\ ~hdr.completed
          /\ (hdr.loaded[1] = "magic" => Len(hdr.loaded) >= HeaderSize)
      BY <2>3 DEF Collecting
    <3>2. l[1] = "magic" => Len(l) >= HeaderSize
      BY <3>1, <2>3, <1>1, <1>2 DEF HeaderSize
    <3> HIDE DEF l
    <3> QED
      BY <3>1, <3>2, <2>3, <1>1, <1>2, <1>6 DEF Loaded
  <2> QED
    BY <2>1, <2>2, <2>3
<1>7. CASE ~(hdr.loaded = <<>> /\ p # "head") /\ ~Full(l)
  <2>1. r = <<"Ok", loading>>
    BY <1>7 DEF Loads
  <2>2. l = Append(hdr.loaded, p)
    BY <1>7
  <2>3. \A x \in Rests : l # <<"head", x>>
    <3>1. SUFFICES ASSUME NEW x \in Rests, l = <<"head", x>> PROVE Full(l)
      BY <1>7
    <3> HIDE DEF l
    <3>2. Len(l) = 2 /\ l[1] = "head"
      BY <3>1
    <3> QED
      BY <3>2 DEF Full, HeaderSize
  <2>4. hashed = <<>>
    <3>1. SUFFICES ASSUME hashed # <<>> PROVE Full(l)
      BY <1>7
    <3>2. hdr.loaded # <<>> /\ (hdr.loaded[1] = "magic" => Len(hdr.loaded) >= HeaderSize)
      BY <3>1 DEF Collecting
    <3> QED
      BY <3>2, <2>2, <1>1 DEF Full, HeaderSize
  <2>5. l[1] = "magic" => Len(l) >= HeaderSize
    <3>1. CASE hdr.loaded = <<>>
      BY <3>1, <1>7, <1>2
    <3>2. CASE hdr.loaded # <<>>
      BY <3>2, <2>2, <1>1 DEF HeaderSize
    <3> QED
      BY <3>1, <3>2
  <2>6. Loaded(loading, p)
    BY <1>6, <1>7, <2>3
  <2> HIDE DEF loading
  <2> QED
    BY <2>1, <2>4, <2>5, <2>6, <1>1
<1>8. CASE ~(hdr.loaded = <<>> /\ p # "head") /\ Full(l)
  <2>1. CASE \E x \in Rests : l = <<"head", x>>
    <3>1. PICK x \in Rests : l = <<"head", x>>
      BY <2>1
    <3>2. p = x /\ hashed = <<"head">> /\ x # "oldheader"
      BY <3>1, <1>4
    <3>3. x \in {"v1", "v2", "oldarch"}
      BY <3>2 DEF Rests
    <3>4. r[2].completed /\ r[2].size = HeaderSize
      <4> HIDE DEF l
      <4>1. CASE x \in {"v1", "v2"}
        <5>1. r = <<"Ok", Completed(HeaderSize, l[2])>>
          BY <4>1, <3>1, <1>8 DEF Loads, l
        <5> QED
          BY <5>1 DEF Completed
      <4>2. CASE x = "oldarch"
        <5>1. r = <<"Error", Completed(HeaderSize, "unknown")>>
          BY <4>2, <3>1, <1>8 DEF Loads, l
        <5> QED
          BY <5>1 DEF Completed
      <4> QED
        BY <3>3, <4>1, <4>2
    <3> QED
      BY <3>1, <3>2, <3>4 DEF Loaded
  <2>2. CASE \A x \in Rests : l # <<"head", x>>
    <3>1. /\ l \notin {<<"head", "v1">>, <<"head", "v2">>}
          /\ l # <<"head", "oldarch">> /\ l # <<"head", "oldheader">>
      BY <2>2 DEF Rests
    <3>2. r = <<"Error", loading>>
      BY <3>1, <1>8 DEF Loads
    <3>3. Loaded(loading, p)
      BY <1>6, <1>8, <2>2
    <3> HIDE DEF loading
    <3> QED
      BY <3>2, <3>3
  <2> QED
    BY <2>1, <2>2
<1> QED
  BY <1>5, <1>7, <1>8

\* The same for the whole of LoadBinaryHeader, whose accesses may fail.
LEMMA CollectingLoadHeader ==
    ASSUME TypeOK, Collecting, data # "oldheader", NEW ret, LoadHeader(data, ret)
    PROVE  /\ ret # "Error" => Loaded(hdr', data)
           /\ Loaded(hdr', data) \/ hdr' = hdr
           /\ ret = "Ok" /\ ~hdr'.completed =>
                hashed = <<>> /\ (hdr'.loaded[1] = "magic" => Len(hdr'.loaded) >= HeaderSize)
<1>1. hdr \in Headers /\ data \in Pieces
  BY DEF TypeOK, SubTypeOK
<1>2. CASE ret = "Error" /\ hdr' = MagicOnly(hdr, data)
  <2>1. CASE hdr.loaded = <<>> /\ data = "head"
    <3>1. /\ hdr'.loaded = <<"magic">> /\ hdr'.completed = hdr.completed
          /\ hashed = <<>> /\ ~hdr.completed
      BY <1>1, <1>2, <2>1 DEF MagicOnly, Headers, Collecting
    <3>2. /\ <<"magic">> # <<>> /\ \A r \in Rests : <<"magic">> # <<"head", r>>
          /\ \A i \in DOMAIN <<"magic">> : <<"magic">>[i] \in {"head", "magic"}
      OBVIOUS
    <3> QED
      BY <3>1, <3>2, <1>2, <2>1 DEF Loaded
  <2>2. CASE ~(hdr.loaded = <<>> /\ data = "head")
    BY <1>2, <2>2 DEF MagicOnly
  <2> QED
    BY <2>1, <2>2
<1>3. CASE \E r \in Loads(hdr, data) : hdr' = r[2] /\ (ret = r[1] \/ ret = "Error")
  BY <1>1, <1>3, CollectingLoads
<1> QED
  BY <1>2, <1>3 DEF LoadHeader

----------------------------------------------------------------------------
(* A write, of the hash and of the device. *)

LEMMA SubSeqAppend ==
    ASSUME NEW S, NEW s \in Seq(S), NEW x \in S, NEW k \in 1..Len(s)+1
    PROVE  SubSeq(Append(s, x), k, Len(Append(s, x))) = Append(SubSeq(s, k, Len(s)), x)
  OBVIOUS

\* After a failed write, the next one can do it again.
LEMMA FailedFollows ==
    ASSUME TypeOK, Following, data # "oldheader",
           ProcessorWrite(data, "Error"),
           hashed' = hashed, data' = data, buf' = "allocated"
    PROVE  Following'
<1>1. CASE UNCHANGED subVars
  BY <1>1 DEF subVars, Following, Collecting, Headless, Headed, Retrying
<1>2. CASE /\ ~hdr.completed /\ LoadHeader(data, "Error")
           /\ UNCHANGED <<kind, dev, requested, staged, installed>>
  <2>1. Collecting
    BY <1>2 DEF Following, Headless, Headed
  <2>2. CASE hdr' = hdr
    BY <1>2, <2>1, <2>2 DEF Following, Collecting, Retrying
  <2>3. CASE Loaded(hdr', data)
    <3>1. CASE hashed = <<>> /\ data # "head" /\ hdr'.completed /\ hdr'.size = 0
      BY <1>2, <2>1, <3>1 DEF Following, Collecting, Headless, Retrying
    <3>2. CASE /\ hashed = <<"head">> /\ data \in Rests
               /\ hdr'.completed /\ hdr'.size = HeaderSize
      BY <1>2, <2>1, <3>2 DEF Following, Collecting, Headed, Retrying
    <3>3. CASE ~hdr'.completed
      BY <1>2, <2>1, <2>3, <3>3 DEF Following, Collecting, Loaded, Retrying
    <3> QED
      BY <2>3, <3>1, <3>2, <3>3 DEF Loaded
  <2> QED
    BY <1>2, <2>1, <2>2, <2>3, CollectingLoadHeader
<1>3. ~Transfer(data, "Error")
  BY DEF Transfer
<1> QED
  BY <1>1, <1>2, <1>3 DEF ProcessorWrite

\* A write that succeeds is hashed, and transferred unless it is the header.
LEMMA WriteFollows ==
    ASSUME TypeOK, Following, data # "oldheader",
           ProcessorWrite(data, "Ok"),
           hashed' = Append(hashed, data), data' = data, buf' = "ready"
    PROVE  Following'
<1>1. /\ hashed \in Seq(Pieces) /\ data \in Pieces /\ staged \in Seq(Pieces)
      /\ Len(hashed) \in Nat
      /\ requested = IF Len(hashed) < 2 THEN Len(hashed) ELSE 2
  BY DEF TypeOK, SubTypeOK, Following, HeaderSize
<1>2. /\ Len(hashed') = Len(hashed) + 1 /\ hashed' # <<>>
      /\ hashed = <<>> => hashed' = <<data>> /\ hashed'[1] = data
      /\ hashed # <<>> => hashed'[1] = hashed[1]
      /\ hashed = <<"head">> => hashed'[2] = data
      /\ Len(hashed) >= 2 => hashed'[2] = hashed[2]
  <2>1. Len(hashed') = Len(hashed) + 1
    BY <1>1
  <2>2. hashed' # <<>>
    BY <1>1, <2>1
  <2>3. hashed = <<>> => hashed' = <<data>> /\ hashed'[1] = data
    BY <1>1
  <2>4. hashed # <<>> => hashed'[1] = hashed[1]
    BY <1>1
  <2>5. hashed = <<"head">> => hashed'[2] = data
    BY <1>1
  <2>6. Len(hashed) >= 2 => hashed'[2] = hashed[2]
    BY <1>1
  <2> QED
    BY <2>1, <2>2, <2>3, <2>4, <2>5, <2>6
<1>3. CountRequested => requested' = IF Len(hashed') < HeaderSize THEN Len(hashed') ELSE HeaderSize
  BY <1>1, <1>2 DEF CountRequested, HeaderSize
<1>4. CASE /\ ~hdr.completed /\ LoadHeader(data, "Ok") /\ ~hdr'.completed
           /\ CountRequested /\ UNCHANGED <<kind, dev, staged, installed>>
  <2>1. Collecting
    BY <1>4 DEF Following, Headless, Headed
  <2>2. /\ Loaded(hdr', data) /\ hashed = <<>>
        /\ hdr'.loaded[1] = "magic" => Len(hdr'.loaded) >= HeaderSize
    BY <1>4, <2>1, CollectingLoadHeader
  <2>3. hashed' = <<"head">>
    BY <1>2, <1>4, <2>2 DEF Loaded
  <2> QED
    BY <1>3, <1>4, <2>1, <2>2, <2>3 DEF Following, Collecting, Loaded
<1>5. CASE Headless /\ hdr' = hdr /\ CountRequested /\ Transfer(data, "Ok")
  <2>1. staged' = Append(staged, data)
    BY <1>1, <1>5 DEF Headless, Transfer
  <2>2. hashed'[1] # "head"
    BY <1>2, <1>5 DEF Headless
  <2> QED
    BY <1>2, <1>3, <1>5, <2>1, <2>2 DEF Following, Headless
<1>6. CASE Headed /\ hdr' = hdr /\ CountRequested /\ Transfer(data, "Ok")
  <2>1. CASE hashed = <<"head">> /\ data \in Rests /\ staged = <<>>
    <3>1. Len(hashed) = 1 /\ hashed[1] = "head"
      BY <2>1
    <3>2. staged' = <<>>
      BY <1>1, <1>6, <2>1, <3>1 DEF Headed, Transfer, HeaderSize
    <3>3. HasHeader(hashed') /\ Len(hashed') = 2
      BY <1>2, <2>1, <3>1 DEF HasHeader, HeaderSize
    <3>4. SubSeq(hashed', HeaderSize + 1, Len(hashed')) = <<>>
      BY <3>3, <1>1 DEF HeaderSize
    <3> QED
      BY <1>3, <1>6, <3>2, <3>3, <3>4 DEF Following, Headed
  <2>2. CASE HasHeader(hashed) /\ staged = SubSeq(hashed, HeaderSize + 1, Len(hashed))
    <3>1. Len(hashed) >= 2 /\ requested = 2
      BY <2>2, <1>1 DEF HasHeader, HeaderSize
    <3>2. staged' = Append(staged, data)
      BY <3>1, <1>6 DEF Headed, Transfer, HeaderSize
    <3>3. staged' = SubSeq(hashed', HeaderSize + 1, Len(hashed'))
      <4>1. SubSeq(hashed', 3, Len(hashed')) = Append(SubSeq(hashed, 3, Len(hashed)), data)
        <5>1. 3 \in 1..Len(hashed)+1
          BY <3>1, <1>1
        <5> QED
          BY <5>1, <1>1, SubSeqAppend, Zenon
      <4> QED
        BY <4>1, <3>2, <2>2 DEF HeaderSize
    <3>4. HasHeader(hashed')
      BY <2>2, <3>1, <1>2 DEF HasHeader, HeaderSize
    <3> QED
      BY <1>3, <1>6, <3>3, <3>4 DEF Following, Headed
  <2> QED
    BY <1>6, <2>1, <2>2 DEF Headed
<1>7. CASE /\ ~hdr.completed /\ LoadHeader(data, "Ok") /\ hdr'.completed
           /\ CountRequested /\ Transfer(data, "Ok")
  <2>1. Collecting
    BY <1>7 DEF Following, Headless, Headed
  <2>2. Loaded(hdr', data) /\ staged = <<>>
    BY <1>7, <2>1, CollectingLoadHeader DEF Collecting
  <2>3. CASE hashed = <<>> /\ data # "head" /\ hdr'.size = 0
    <3>1. staged' = Append(staged, data)
      BY <1>1, <1>7, <2>3 DEF Transfer
    <3>2. staged' = hashed' /\ hashed'[1] # "head"
      BY <3>1, <2>2, <2>3, <1>2
    <3> QED
      BY <1>2, <1>3, <1>7, <2>3, <3>2 DEF Following, Headless
  <2>4. CASE hashed = <<"head">> /\ data \in Rests /\ hdr'.size = HeaderSize
    <3>1. Len(hashed) = 1 /\ hashed[1] = "head"
      BY <2>4
    <3>2. staged' = <<>>
      BY <1>1, <1>7, <2>2, <2>4, <3>1 DEF Transfer, HeaderSize
    <3>3. HasHeader(hashed') /\ Len(hashed') = 2
      BY <1>2, <2>4, <3>1 DEF HasHeader, HeaderSize
    <3>4. SubSeq(hashed', HeaderSize + 1, Len(hashed')) = <<>>
      BY <3>3, <1>1 DEF HeaderSize
    <3> QED
      BY <1>3, <1>7, <2>4, <3>2, <3>3, <3>4 DEF Following, Headed
  <2> QED
    BY <1>7, <2>2, <2>3, <2>4 DEF Loaded
<1> QED
  BY <1>4, <1>5, <1>6, <1>7 DEF ProcessorWrite, Following, Collecting

----------------------------------------------------------------------------
(* The inductive invariant. *)

LEMMA WriteKeeps ==
    ASSUME NEW p, NEW ret, SubWrite(p, ret) PROVE UNCHANGED <<kind, installed>>
  BY DEF SubWrite, SensorWrite, ProcessorWrite, Transfer, subVars

LEMMA FreshStep == Fresh /\ [Next]_vars => Fresh'
<1> SUFFICES ASSUME Fresh, [Next]_vars, state' \in {"Uninit", "Idle"}
             PROVE  hdr' = NoHeader /\ requested' = 0 /\ staged' = <<>>
  BY DEF Fresh
<1>1. CASE UNCHANGED vars
  BY <1>1 DEF Fresh, vars, subVars
<1>2. CASE InitManager \/ Deinit
  BY <1>2 DEF InitManager, Deinit, Fresh, subVars
<1>3. CASE Close \/ Restart
  BY <1>3 DEF Close, Restart, SubClose, SubFree
<1> QED
  BY <1>1, <1>2, <1>3, EndOfSession

LEMMA ErasesSensorStep == ErasesSensor /\ [Next]_vars => ErasesSensor'
<1> SUFFICES ASSUME ErasesSensor, [Next]_vars, state' = "Erasable" PROVE Sensor'
  BY DEF ErasesSensor
<1>1. ASSUME NEW k \in Targets, OpenForErase(k) PROVE Sensor'
  BY <1>1, FirmwareManagerAssumption DEF OpenForErase, SubOpen, Sensor, Kinds
<1>2. CASE state = "Erasable" /\ kind' = kind
  BY <1>2 DEF ErasesSensor, Sensor
<1>3. ASSUME NEW ret \in Results, Erase(ret) PROVE state' # "Erasable"
  BY <1>3 DEF Erase
<1>4. CASE EraseFails \/ CloseForWriteFails \/ CloseSubmoduleFails
  <2>1. state = "Erasable" /\ kind' = kind
    BY <1>4 DEF EraseFails, CloseForWriteFails, CloseSubmoduleFails, SubClose, subVars
  <2> QED
    BY <2>1, <1>2
<1>5. CASE UNCHANGED vars
  BY <1>2, <1>5 DEF vars, subVars
<1>6. ASSUME Next
      PROVE  \/ \E k \in Targets : OpenForErase(k)
             \/ \E ret \in Results : Erase(ret)
             \/ EraseFails \/ CloseForWriteFails \/ CloseSubmoduleFails
  BY <1>6 DEF Next, InitManager, Deinit, OpenForWrite, Copy, WriteNotUnmapped,
              WriteNotHashed, Write, WriteFails, PostProcess, Mismatch, Close, Restart
<1> QED
  BY <1>1, <1>3, <1>4, <1>5, <1>6

LEMMA InStepStep ==
    ASSUME WellFormed, TypeOK, Fresh, InStep, [Next]_vars PROVE InStep'
<1> SUFFICES ASSUME state' = "Writable", sound'
             PROVE  /\ buf' # "free" /\ want' \in Images /\ kind' \in Kinds
                    /\ data' # "oldheader"
                    /\ Sensor' => staged' = hashed'
                    /\ ~Sensor' => Following'
  BY DEF InStep
<1> USE FirmwareManagerAssumption
<1> DEFINE Held == /\ state = "Writable" /\ sound
                   /\ buf # "free" /\ want \in Images /\ kind \in Kinds
                   /\ data # "oldheader"
                   /\ Sensor => staged = hashed
                   /\ ~Sensor => Following
<1>1. state = "Writable" /\ sound => Held
  BY DEF InStep
<1>2. ASSUME NEW k \in Targets, NEW w \in Images, OpenForWrite(k, w)
      PROVE  /\ buf' # "free" /\ want' \in Images /\ kind' \in Kinds
             /\ data' # "oldheader" /\ staged' = hashed' /\ Following'
  <2>1. /\ hdr' = NoHeader /\ requested' = 0 /\ staged' = <<>> /\ hashed' = <<>>
    BY <1>2 DEF OpenForWrite, SubOpen, Fresh
  <2>2. Collecting'
    <3>1. \A r \in Rests : <<>> # <<"head", r>>
      OBVIOUS
    <3> QED
      BY <2>1, <3>1 DEF Collecting, NoHeader
  <2>3. requested' = IF Len(hashed') < HeaderSize THEN Len(hashed') ELSE HeaderSize
    <3>1. Len(<<>>) = 0 /\ 0 < 2
      OBVIOUS
    <3> QED
      BY <2>1, <3>1 DEF HeaderSize
  <2>4. /\ buf' # "free" /\ want' \in Images /\ kind' \in Kinds /\ data' # "oldheader"
    BY <1>2 DEF OpenForWrite, SubOpen, Junk
  <2> QED
    BY <2>1, <2>2, <2>3, <2>4 DEF Following
<1>3. CASE /\ Held /\ data' # "oldheader"
           /\ UNCHANGED <<want, hashed, buf, subVars>>
           /\ UNCHANGED data \/ buf = "ready"
  BY <1>3 DEF Following, Collecting, Headless, Headed, Retrying, Sensor, subVars
<1>4. ASSUME NEW p \in Offered, Copy(p) PROVE Held /\ data' # "oldheader"
  <2>1. p # "oldheader"
    BY DEF Offered, WellFormed
  <2> QED
    BY <1>1, <1>4, <2>1 DEF Copy, Junk
<1>5. ASSUME NEW ret \in Results, WriteFails(ret)
      PROVE  /\ buf' # "free" /\ want' \in Images /\ kind' \in Kinds
             /\ data' # "oldheader"
             /\ Sensor' => staged' = hashed'
             /\ ~Sensor' => Following'
  <2>1. Held /\ ret = "Error"
    BY <1>1, <1>5 DEF WriteFails, Results
  <2>2. /\ SubWrite(data, "Error") /\ buf' = "allocated"
        /\ UNCHANGED <<want, hashed, data>>
    BY <1>5, <2>1 DEF WriteFails, Source, Unmapped, TypeOK
  <2>3. kind' = kind /\ Sensor' = Sensor
    BY <2>2, WriteKeeps DEF Sensor
  <2>4. CASE Sensor
    BY <2>1, <2>2, <2>3, <2>4 DEF SubWrite, SensorWrite
  <2>5. CASE ~Sensor
    <3>1. Following'
      BY <2>1, <2>2, <2>5, FailedFollows DEF SubWrite
    <3> QED
      BY <2>1, <2>2, <2>3, <2>5, <3>1
  <2> QED
    BY <2>4, <2>5
<1>6. ASSUME Write
      PROVE  /\ buf' # "free" /\ want' \in Images /\ kind' \in Kinds
             /\ data' # "oldheader"
             /\ Sensor' => staged' = hashed'
             /\ ~Sensor' => Following'
  <2>1. /\ Held /\ SubWrite(data, "Ok") /\ buf' = "ready"
        /\ hashed' = Append(hashed, data) /\ UNCHANGED <<want, data>>
    BY <1>1, <1>6 DEF Write
  <2>2. kind' = kind /\ Sensor' = Sensor
    BY <2>1, WriteKeeps DEF Sensor
  <2>3. CASE Sensor
    BY <2>1, <2>2, <2>3 DEF SubWrite, SensorWrite
  <2>4. CASE ~Sensor
    <3>1. Following'
      BY <2>1, <2>4, WriteFollows DEF SubWrite
    <3> QED
      BY <2>1, <2>2, <2>4, <3>1
  <2> QED
    BY <2>3, <2>4
<1>7. ASSUME Next
      PROVE  \/ \E k \in Targets, w \in Images : OpenForWrite(k, w)
             \/ \E p \in Offered : Copy(p)
             \/ \E ret \in Results : WriteFails(ret)
             \/ Write
  BY <1>7 DEF Next, InitManager, Deinit, OpenForErase, WriteNotUnmapped, WriteNotHashed,
              PostProcess, Erase, EraseFails, Mismatch, CloseForWriteFails,
              CloseSubmoduleFails, Close, Restart
<1>8. ASSUME NEW p \in Offered, Copy(p)
      PROVE  UNCHANGED <<want, hashed, buf, subVars>> /\ (UNCHANGED data \/ buf = "ready")
  BY <1>8 DEF Copy
<1>9. CASE UNCHANGED vars
  BY <1>1, <1>3, <1>9 DEF vars, contextVars
<1> QED
  BY <1>2, <1>3, <1>4, <1>5, <1>6, <1>7, <1>8, <1>9

\* At a PostProcess whose hash matches, the device has what was promised.
LEMMA MatchMeansPromised ==
    ASSUME WellFormed, TypeOK, InStep, state = "Writable", HashMatches, dev = "open"
    PROVE  staged = Promised
<1>1. /\ hashed = want /\ want \in Images /\ want \in Seq(Pieces) /\ want # <<>>
      /\ Sensor => staged = hashed
      /\ ~Sensor => Following
  BY FirmwareManagerAssumption DEF InStep, HashMatches
<1>2. CASE Sensor
  BY <1>1, <1>2 DEF Promised
<1>3. hashed # <<"head">>
  <2> SUFFICES ASSUME want = <<"head">> PROVE FALSE
    BY <1>1
  <2>1. Len(want) = 1 /\ want[1] = "head"
    OBVIOUS
  <2>2. HasHeader(want)
    BY <1>1, <2>1 DEF WellFormed
  <2> QED
    BY <2>1, <2>2 DEF HasHeader, HeaderSize
<1>4. CASE ~Sensor /\ Headless
  <2>1. staged = want /\ ~HasHeader(want)
    BY <1>1, <1>4 DEF Headless, HasHeader
  <2> QED
    BY <1>4, <2>1 DEF Promised, Payload
<1>5. CASE ~Sensor /\ Headed
  BY <1>1, <1>3, <1>5 DEF Headed, Promised, Payload
<1>6. CASE ~Sensor /\ Collecting
  BY <1>1, <1>3, <1>6 DEF Collecting
<1> QED
  BY <1>1, <1>2, <1>4, <1>5, <1>6 DEF Following

LEMMA IInvInit == Init => IInv
<1>1. Init => Fresh /\ ErasesSensor /\ InStep
  BY DEF Init, SubInit, Fresh, ErasesSensor, InStep
<1> QED
  BY <1>1, InitType DEF IInv

LEMMA IInvStep == WellFormed /\ IInv /\ [Next]_vars => IInv'
  BY TypeStep, FreshStep, ErasesSensorStep, InStepStep DEF IInv

LEMMA InstallsStep ==
    ASSUME WellFormed, IInv, [Next]_vars, installed' # installed
    PROVE  state' = "Done" /\ installed' = Promised
<1>1. ASSUME NEW ret \in Results, PostProcess(ret)
      PROVE  state' = "Done" /\ installed' = Promised
  <2>1. state = "Writable" /\ HashMatches /\ SubPostProcess(ret, staged)
    BY <1>1 DEF PostProcess
  <2>2. ret = "Ok" /\ dev = "open" /\ installed' = staged
    BY <2>1 DEF SubPostProcess, SensorPostProcess, ProcessorPostProcess
  <2>3. state' = "Done"
    BY <1>1, <2>2 DEF PostProcess
  <2> QED
    BY <2>1, <2>2, <2>3, MatchMeansPromised DEF IInv
<1>2. ASSUME NEW ret \in Results, Erase(ret)
      PROVE  state' = "Done" /\ installed' = Promised
  <2>1. state = "Erasable" /\ Sensor /\ SubPostProcess(ret, <<>>)
    BY <1>2 DEF Erase, IInv, ErasesSensor
  <2>2. ret = "Ok" /\ installed' = <<>>
    BY <2>1 DEF SubPostProcess, SensorPostProcess
  <2> QED
    BY <1>2, <2>1, <2>2 DEF Erase, Promised
<1>3. ASSUME Next
      PROVE  \/ \E ret \in Results : PostProcess(ret) \/ Erase(ret)
             \/ UNCHANGED installed
  <2>1. CASE InitManager \/ Deinit \/ WriteNotUnmapped \/ Mismatch \/ EraseFails
             \/ CloseForWriteFails
    BY <2>1 DEF InitManager, Deinit, WriteNotUnmapped, Mismatch, EraseFails,
                CloseForWriteFails, subVars
  <2>2. CASE CloseSubmoduleFails \/ Close \/ Restart
    BY <2>2 DEF CloseSubmoduleFails, Close, Restart, SubClose, SubFree
  <2>3. CASE WriteNotHashed \/ Write \/ \E ret \in Results : WriteFails(ret)
    BY <2>3, WriteKeeps DEF WriteNotHashed, Write, WriteFails
  <2>4. CASE \/ \E k \in Targets : OpenForErase(k) \/ \E w \in Images : OpenForWrite(k, w)
             \/ \E p \in Offered : Copy(p)
    BY <2>4 DEF OpenForErase, OpenForWrite, SubOpen, Copy, subVars
  <2> QED
    BY <1>3, <2>1, <2>2, <2>3, <2>4 DEF Next
<1> QED
  BY <1>1, <1>2, <1>3 DEF vars, subVars

(* What the device uses changes only when a session becomes Done, and then to
   the image whose hash was promised, whole, in order and without its header,
   for any images that are well formed, whatever fails and is repeated. *)
THEOREM SpecInstallsWhatWasPromised ==
    ASSUME WellFormed
    PROVE  Spec => InstallsWhatWasPromised
<1>1. Init => IInv
  BY IInvInit
<1>2. IInv /\ [Next]_vars => IInv'
  BY IInvStep
<1>3. IInv /\ [Next]_vars =>
          [installed' # installed => state' = "Done" /\ installed' = Promised]_vars
  BY InstallsStep
<1> QED
  BY <1>1, <1>2, <1>3, PTL DEF Spec, InstallsWhatWasPromised

----------------------------------------------------------------------------
(* The Memory Manager.                                                     *)

\* What the lists and the accesses of the Memory Manager are.
Infos == [file : {FALSE}] \cup [file : {TRUE}, opens : Nat \ {0}, pos : Nat]
InfoLists == UNION {[S -> Infos] : S \in SUBSET Offsets}
Entries ==
    [area : {"none", "LargeHeap", "Dma"}, mapped : BOOLEAN, fd : BOOLEAN, count : Nat,
     infos : InfoLists]
Opening == [at : {"opened", "gone"}, id : Ids, off : Offsets]
Accessing ==
    [at : {"wait", "seek", "file", "store", "gone"}, kind : {"seek", "access", "paccess"},
     id : Ids, off : Offsets, to : Nat, size : Nat, from : Nat]

MemoryTyped ==
    /\ minit \in BOOLEAN
    /\ entries \in [Ids -> Entries]
    /\ access \in [Tasks -> {Memory!Idle} \cup Opening \cup Accessing]
    /\ position \in [Ids -> Nat]

\* The areas whose memory is used through files.
FileArea(e) == e.area = "LargeHeap" /\ ~MapSupport

\* An entry counts its handles, and while it has any it is mapped or its file
\* is open; which of the two, its area decides.
EntryIsSound(e) ==
    /\ IsFiniteSet(Memory!MapInfo(e))
    /\ e.count = Cardinality(Memory!MapInfo(e))
    /\ \A o \in Memory!MapInfo(e) : e.infos[o].file <=> FileArea(e)
    /\ Memory!MapInfo(e) # {} => IF FileArea(e) THEN e.fd ELSE e.mapped
    /\ e.mapped => ~FileArea(e)
    /\ e.area = "none" => e = Memory!NoEntry

ListIsSound ==
    /\ \A i \in Ids : EntryIsSound(entries[i])
    /\ ~minit => \A i \in Ids : ~Memory!Exists(i)

EInv == MemoryTyped /\ ListIsSound

----------------------------------------------------------------------------
\* The helpers on entries, field by field.
LEMMA EntryFields ==
    ASSUME NEW e \in Entries
    PROVE  /\ e.area \in {"none", "LargeHeap", "Dma"} /\ e.mapped \in BOOLEAN
           /\ e.fd \in BOOLEAN /\ e.count \in Nat
           /\ e.infos \in InfoLists /\ DOMAIN e.infos \subseteq Offsets
           /\ \A o \in DOMAIN e.infos : e.infos[o] \in Infos
<1>1. e.infos \in InfoLists
  BY DEF Entries
<1>2. PICK S \in SUBSET Offsets : e.infos \in [S -> Infos]
  BY <1>1 DEF InfoLists
<1>3. QED
  BY <1>1, <1>2 DEF Entries

LEMMA InfoListIs ==
    ASSUME NEW S \in SUBSET Offsets, NEW f \in [S -> Infos]
    PROVE  f \in InfoLists
  BY DEF InfoLists

LEMMA NoEntryIs ==
    /\ Memory!NoEntry \in Entries
    /\ Memory!NoEntry.area = "none" /\ ~Memory!NoEntry.mapped /\ ~Memory!NoEntry.fd
    /\ Memory!NoEntry.count = 0 /\ Memory!MapInfo(Memory!NoEntry) = {}
<1>1. [o \in {} |-> 0] \in [{} -> Infos]
  OBVIOUS
<1>2. [o \in {} |-> 0] \in InfoLists
  BY <1>1, InfoListIs
<1>3. QED
  BY <1>2 DEF Memory!NoEntry, Entries, Memory!MapInfo

LEMMA WithInfoIs ==
    ASSUME NEW e \in Entries, NEW o \in Offsets, NEW info \in Infos
    PROVE  LET f == Memory!WithInfo(e, o, info)
           IN  /\ f \in Entries /\ f.area = e.area /\ f.mapped = e.mapped /\ f.fd = e.fd
               /\ f.count = e.count
               /\ Memory!MapInfo(f) = Memory!MapInfo(e) \cup {o} /\ f.infos[o] = info
               /\ \A p \in Memory!MapInfo(e) : p # o => f.infos[p] = e.infos[p]
<1>. DEFINE D == Memory!MapInfo(e) \cup {o}
            g == [p \in D |-> IF p = o THEN info ELSE e.infos[p]]
<1>1. D \subseteq Offsets
  BY EntryFields DEF Memory!MapInfo
<1>2. g \in [D -> Infos]
  BY EntryFields DEF Memory!MapInfo
<1>3. g \in InfoLists
  BY <1>1, <1>2, InfoListIs
<1>4. Memory!WithInfo(e, o, info) = [e EXCEPT !.infos = g]
  BY DEF Memory!WithInfo, Entries
<1>5. DOMAIN g = D /\ g[o] = info /\ \A p \in Memory!MapInfo(e) : p # o => g[p] = e.infos[p]
  OBVIOUS
<1>. HIDE DEF g, D
<1>6. [e EXCEPT !.infos = g] \in Entries /\ [e EXCEPT !.infos = g].infos = g
  BY <1>3 DEF Entries
<1>7. QED
  BY <1>4, <1>5, <1>6 DEF Memory!MapInfo, Entries, D

LEMMA WithoutInfoIs ==
    ASSUME NEW e \in Entries, NEW o
    PROVE  LET f == Memory!WithoutInfo(e, o)
           IN  /\ f \in Entries /\ f.area = e.area /\ f.mapped = e.mapped /\ f.fd = e.fd
               /\ f.count = e.count
               /\ Memory!MapInfo(f) = Memory!MapInfo(e) \ {o}
               /\ \A p \in Memory!MapInfo(f) : f.infos[p] = e.infos[p]
<1>. DEFINE D == Memory!MapInfo(e) \ {o}
            g == [p \in D |-> e.infos[p]]
<1>1. D \subseteq Offsets
  BY EntryFields DEF Memory!MapInfo
<1>2. g \in [D -> Infos]
  BY EntryFields DEF Memory!MapInfo
<1>3. g \in InfoLists
  BY <1>1, <1>2, InfoListIs
<1>4. Memory!WithoutInfo(e, o) = [e EXCEPT !.infos = g]
  BY DEF Memory!WithoutInfo, Entries
<1>5. DOMAIN g = D /\ \A p \in D : g[p] = e.infos[p]
  OBVIOUS
<1>. HIDE DEF g, D
<1>6. [e EXCEPT !.infos = g] \in Entries /\ [e EXCEPT !.infos = g].infos = g
  BY <1>3 DEF Entries
<1>7. QED
  BY <1>4, <1>5, <1>6 DEF Memory!MapInfo, Entries, D

LEMMA CountedIs ==
    ASSUME NEW e \in Entries, NEW n \in Nat
    PROVE  LET f == Memory!Counted(e, n)
           IN  /\ f \in Entries /\ f.area = e.area /\ f.mapped = e.mapped /\ f.fd = e.fd
               /\ f.count = n /\ f.infos = e.infos
               /\ Memory!MapInfo(f) = Memory!MapInfo(e)
  BY DEF Memory!Counted, Memory!MapInfo, Entries

LEMMA MappedIs ==
    ASSUME NEW e \in Entries, NEW b \in BOOLEAN
    PROVE  LET f == [e EXCEPT !.mapped = b]
           IN  /\ f \in Entries /\ f.area = e.area /\ f.mapped = b /\ f.fd = e.fd
               /\ f.count = e.count /\ f.infos = e.infos
               /\ Memory!MapInfo(f) = Memory!MapInfo(e)
  BY DEF Memory!MapInfo, Entries

LEMMA FdIs ==
    ASSUME NEW e \in Entries, NEW b \in BOOLEAN
    PROVE  LET f == [e EXCEPT !.fd = b]
           IN  /\ f \in Entries /\ f.area = e.area /\ f.mapped = e.mapped /\ f.fd = b
               /\ f.count = e.count /\ f.infos = e.infos
               /\ Memory!MapInfo(f) = Memory!MapInfo(e)
  BY DEF Memory!MapInfo, Entries

\* The record of a file with another count of opens, or another position.
FileInfos == [file : {TRUE}, opens : Nat \ {0}, pos : Nat]
LEMMA FileInfoIs ==
    ASSUME NEW r \in Infos, r.file
    PROVE  /\ r \in FileInfos /\ r.opens \in Nat /\ r.opens # 0
           /\ \A n \in Nat \ {0} :
                LET q == [r EXCEPT !.opens = n]
                IN  q \in Infos /\ q.file /\ q.pos = r.pos
           /\ \A n \in Nat :
                LET q == [r EXCEPT !.pos = n]
                IN  q \in Infos /\ q.file /\ q.pos = n
<1>1. r \notin [file : {FALSE}]
  OBVIOUS
<1>2. r \in FileInfos
  BY <1>1 DEF Infos, FileInfos
<1>3. \A n \in Nat \ {0} :
         LET q == [r EXCEPT !.opens = n]
         IN  q \in FileInfos /\ q.file /\ q.pos = r.pos
  BY <1>2 DEF FileInfos
<1>4. \A n \in Nat :
         LET q == [r EXCEPT !.pos = n]
         IN  q \in FileInfos /\ q.file /\ q.pos = n
  BY <1>2 DEF FileInfos
<1>5. FileInfos \subseteq Infos
  BY DEF Infos, FileInfos
<1>6. r.opens \in Nat /\ r.opens # 0
  BY <1>2 DEF FileInfos
<1>7. QED
  BY <1>2, <1>3, <1>4, <1>5, <1>6

\* The record of a handle is changed in its place.
LEMMA InfoSetIs ==
    ASSUME NEW e \in Entries, NEW o \in Memory!MapInfo(e), NEW info \in Infos
    PROVE  LET f == [e EXCEPT !.infos = [@ EXCEPT ![o] = info]]
           IN  /\ f \in Entries /\ f.area = e.area /\ f.mapped = e.mapped /\ f.fd = e.fd
               /\ f.count = e.count
               /\ Memory!MapInfo(f) = Memory!MapInfo(e) /\ f.infos[o] = info
               /\ \A p \in Memory!MapInfo(e) : p # o => f.infos[p] = e.infos[p]
<1>1. PICK S \in SUBSET Offsets : e.infos \in [S -> Infos]
  BY DEF Entries, InfoLists
<1>2. S = Memory!MapInfo(e)
  BY <1>1 DEF Memory!MapInfo
<1>. DEFINE g == [e.infos EXCEPT ![o] = info]
<1>3. g \in [S -> Infos] /\ DOMAIN g = S /\ g[o] = info
  BY <1>1, <1>2
<1>4. \A p \in S : p # o => g[p] = e.infos[p]
  BY <1>1, <1>2
<1>5. g \in InfoLists
  BY <1>3, InfoListIs
<1>6. [e EXCEPT !.infos = [@ EXCEPT ![o] = info]] = [e EXCEPT !.infos = g]
  BY DEF Entries
<1>. HIDE DEF g
<1>7. [e EXCEPT !.infos = g] \in Entries /\ [e EXCEPT !.infos = g].infos = g
  BY <1>5 DEF Entries
<1>8. QED
  BY <1>2, <1>3, <1>4, <1>6, <1>7 DEF Memory!MapInfo, Entries

----------------------------------------------------------------------------
\* What a step that changes one entry keeps.
LEMMA OneEntryKeeps ==
    ASSUME EInv, MemoryTyped', NEW i \in Ids, NEW f \in Entries, EntryIsSound(f),
           entries' = [entries EXCEPT ![i] = f], minit, minit'
    PROVE  EInv'
<1>1. \A j \in Ids : entries'[j] = IF j = i THEN f ELSE entries[j]
  BY DEF EInv, MemoryTyped
<1>2. \A j \in Ids : EntryIsSound(entries[j])
  BY DEF EInv, ListIsSound
<1>3. \A j \in Ids : EntryIsSound(entries'[j])
  BY <1>1, <1>2
<1>4. \A j \in Ids : EntryIsSound(entries[j])'
  BY <1>3 DEF EntryIsSound, FileArea, Memory!MapInfo
<1>5. QED
  BY <1>4 DEF EInv, ListIsSound

\* ... and one that changes none.
LEMMA NoEntryKeeps ==
    ASSUME EInv, MemoryTyped', UNCHANGED <<entries, minit>>
    PROVE  EInv'
<1>1. \A j \in Ids : EntryIsSound(entries[j])'
  BY DEF EInv, ListIsSound, EntryIsSound, FileArea, Memory!MapInfo
<1>2. QED
  BY <1>1 DEF EInv, ListIsSound, Memory!Exists

LEMMA NoEntryIsSound == EntryIsSound(Memory!NoEntry)
  BY NoEntryIs, FS_EmptySet DEF EntryIsSound, FileArea

\* The entry of an id, in an initialized manager.
LEMMA EntryOf ==
    ASSUME EInv, NEW i \in Ids
    PROVE  /\ entries[i] \in Entries /\ EntryIsSound(entries[i])
           /\ (Memory!FileIoPreCheck(i) <=> FileArea(entries[i]))
           /\ (Memory!Exists(i) => minit)
           /\ (minit \in BOOLEAN /\ position[i] \in Nat)
  BY DEF EInv, MemoryTyped, ListIsSound, Memory!FileIoPreCheck, FileArea, Memory!Exists

\* A handle more.
LEMMA HandleAdded ==
    ASSUME NEW e \in Entries, EntryIsSound(e), e.area # "none",
           NEW o \in Offsets, o \notin Memory!MapInfo(e), NEW info \in Infos,
           info.file <=> FileArea(e), IF FileArea(e) THEN e.fd ELSE e.mapped
    PROVE  LET f == Memory!Counted(Memory!WithInfo(e, o, info), e.count + 1)
           IN  /\ f \in Entries /\ EntryIsSound(f) /\ f.area = e.area
               /\ Memory!MapInfo(f) = Memory!MapInfo(e) \cup {o} /\ f.infos[o] = info
               /\ \A p \in Memory!MapInfo(e) : f.infos[p] = e.infos[p]
<1>. DEFINE w == Memory!WithInfo(e, o, info)
            f == Memory!Counted(w, e.count + 1)
            M == Memory!MapInfo(e)
<1>1. /\ w \in Entries /\ w.area = e.area /\ w.mapped = e.mapped /\ w.fd = e.fd
      /\ w.count = e.count /\ Memory!MapInfo(w) = M \cup {o} /\ w.infos[o] = info
      /\ \A p \in M : p # o => w.infos[p] = e.infos[p]
  BY WithInfoIs
<1>2. e.count + 1 \in Nat
  BY EntryFields
<1>3. /\ f \in Entries /\ f.area = w.area /\ f.mapped = w.mapped /\ f.fd = w.fd
      /\ f.count = e.count + 1 /\ f.infos = w.infos /\ Memory!MapInfo(f) = Memory!MapInfo(w)
  BY <1>1, <1>2, CountedIs
<1>. HIDE DEF w, f
<1>4. IsFiniteSet(M) /\ e.count = Cardinality(M)
  BY DEF EntryIsSound
<1>5. IsFiniteSet(M \cup {o}) /\ Cardinality(M \cup {o}) = e.count + 1
  BY <1>4, FS_AddElement
<1>6. FileArea(f) <=> FileArea(e)
  BY <1>1, <1>3 DEF FileArea
<1>7. \A p \in M \cup {o} : f.infos[p].file <=> FileArea(e)
  BY <1>1, <1>3 DEF EntryIsSound
<1>8. EntryIsSound(f)
  BY <1>1, <1>3, <1>5, <1>6, <1>7 DEF EntryIsSound
<1>9. QED
  BY <1>1, <1>3, <1>8 DEF f, w

\* A handle less, for an entry that gets n as its count.
LEMMA HandleRemoved ==
    ASSUME NEW e \in Entries, EntryIsSound(e), e.area # "none",
           NEW o \in Memory!MapInfo(e)
    PROVE  /\ e.count \in Nat /\ e.count > 0
           /\ LET f == Memory!WithoutInfo(Memory!Counted(e, e.count - 1), o)
              IN  /\ f \in Entries /\ EntryIsSound(f) /\ f.area = e.area
                  /\ f.mapped = e.mapped /\ f.fd = e.fd /\ f.count = e.count - 1
                  /\ Memory!MapInfo(f) = Memory!MapInfo(e) \ {o}
                  /\ f.count = 0 => Memory!MapInfo(f) = {}
                  /\ \A p \in Memory!MapInfo(f) : f.infos[p] = e.infos[p]
<1>. DEFINE c == Memory!Counted(e, e.count - 1)
            f == Memory!WithoutInfo(c, o)
            M == Memory!MapInfo(e)
<1>1. IsFiniteSet(M) /\ e.count = Cardinality(M) /\ o \in M
  BY DEF EntryIsSound
<1>2. IsFiniteSet(M \ {o}) /\ Cardinality(M \ {o}) = e.count - 1
  BY <1>1, FS_RemoveElement
<1>3. Cardinality(M \ {o}) \in Nat /\ e.count \in Nat
  BY <1>2, FS_CardinalityType, EntryFields
<1>4. e.count > 0 /\ e.count - 1 \in Nat
  BY <1>2, <1>3
<1>5. /\ c \in Entries /\ c.area = e.area /\ c.mapped = e.mapped /\ c.fd = e.fd
      /\ c.count = e.count - 1 /\ c.infos = e.infos /\ Memory!MapInfo(c) = M
  BY <1>4, CountedIs
<1>. HIDE DEF c
<1>6. /\ f \in Entries /\ f.area = c.area /\ f.mapped = c.mapped /\ f.fd = c.fd
      /\ f.count = c.count /\ Memory!MapInfo(f) = Memory!MapInfo(c) \ {o}
      /\ \A p \in Memory!MapInfo(f) : f.infos[p] = c.infos[p]
  BY <1>5, WithoutInfoIs
<1>. HIDE DEF f
<1>7. FileArea(f) <=> FileArea(e)
  BY <1>5, <1>6 DEF FileArea
<1>8. f.count = 0 => Memory!MapInfo(f) = {}
  BY <1>2, <1>5, <1>6, FS_EmptySet
<1>9. EntryIsSound(f)
  BY <1>2, <1>5, <1>6, <1>7 DEF EntryIsSound
<1>10. QED
  BY <1>3, <1>4, <1>5, <1>6, <1>8, <1>9 DEF c, f

----------------------------------------------------------------------------
\* What emptying the list keeps.
LEMMA CleanUpKeeps ==
    ASSUME MemoryTyped', Memory!CleanUpAllMemoryInfo
    PROVE  EInv'
<1>1. \A i \in Ids : entries'[i] = Memory!NoEntry
  BY DEF Memory!CleanUpAllMemoryInfo
<1>2. \A i \in Ids : EntryIsSound(entries'[i])
  BY <1>1, NoEntryIsSound
<1>3. \A i \in Ids : EntryIsSound(entries[i])'
  BY <1>2 DEF EntryIsSound, FileArea, Memory!MapInfo
<1>4. \A i \in Ids : ~Memory!Exists(i)'
  BY <1>1, NoEntryIs DEF Memory!Exists
<1>5. QED
  BY <1>3, <1>4 DEF EInv, ListIsSound

----------------------------------------------------------------------------
\* The handles of an allocation that are files, and their positions.
Files(i) == {o \in Memory!MapInfo(entries[i]) : entries[i].infos[o].file}
Pos(i, o) == entries[i].infos[o].pos

\* The accesses that hold or wait for the mutex of their handle, and those
\* that have to do with a handle.
Busy(t) == access[t].at \in {"wait", "seek", "file"}
Uses(t, i, o) == access[t].at # "idle" /\ access[t].id = i /\ access[t].off = o

\* The handle of such an access is there.
Reached == \A t \in Tasks : Busy(t) => access[t].off \in Files(access[t].id)

\* In an allocation that is not disturbed there is one file, and one access.
OneFile == \A i \in Ids \ disturbed : \A o, p \in Files(i) : o = p
OneAccess ==
    \A t, u \in Tasks :
        /\ Busy(t) /\ access[t].id \notin disturbed
        /\ Uses(u, access[t].id, access[t].off)
        => u = t \/ access[u].at = "opened"

\* That access finds the descriptor where its handle is.
InPlace ==
    \A t \in Tasks : LET a == access[t] IN
        /\ a.id \notin disturbed
        /\ a.at = "file" \/ (a.at = "wait" /\ a.kind = "access")
        => position[a.id] = a.off + a.from

\* A file that nobody is opening has at most one user, who leaves it, as
\* everybody left it, with the position it has.
Settled ==
    \A i \in Ids \ disturbed : \A o \in Files(i) :
        (\A t \in Tasks : Uses(t, i, o) => access[t].at # "opened") =>
            /\ \A t, u \in Tasks : Uses(t, i, o) /\ Uses(u, i, o) => t = u
            /\ (\A t \in Tasks : ~Uses(t, i, o)) => position[i] = o + Pos(i, o)
            /\ \A t \in Tasks : Uses(t, i, o) =>
                  /\ access[t].at # "gone"
                  /\ access[t].at = "store" => position[i] = o + access[t].from

PInv ==
    /\ Reached /\ OneFile /\ OneAccess /\ InPlace /\ Settled
    /\ Memory!AloneIsInPlace

MInv == EInv /\ PInv

\* What is busy is an access, and has a handle.
LEMMA BusyIs ==
    ASSUME EInv, NEW t \in Tasks, access[t].at \in {"wait", "seek", "file", "store"}
    PROVE  /\ access[t] \in Accessing /\ access[t].id \in Ids /\ access[t].off \in Offsets
           /\ access[t].from \in Nat /\ access[t].to \in Nat /\ access[t].size \in Nat
           /\ access[t].off \in Nat /\ access[t].kind \in {"seek", "access", "paccess"}
<1>1. access[t] \in {Memory!Idle} \cup Opening \cup Accessing
  BY DEF EInv, MemoryTyped
<1>2. access[t] # Memory!Idle
  BY DEF Memory!Idle
<1>3. access[t] \notin Opening
  BY DEF Opening
<1>4. access[t] \in Accessing
  BY <1>1, <1>2, <1>3
<1>5. access[t].id \in Ids /\ access[t].off \in Offsets
  BY <1>4 DEF Accessing
<1>6. /\ access[t].from \in Nat /\ access[t].to \in Nat /\ access[t].size \in Nat
      /\ access[t].kind \in {"seek", "access", "paccess"}
  BY <1>4 DEF Accessing
<1>7. QED
  BY <1>4, <1>5, <1>6, MemoryAssumption

\* A task in a call has a handle.
LEMMA UserIs ==
    ASSUME EInv, NEW t \in Tasks, access[t].at # "idle"
    PROVE  access[t] \in Opening \cup Accessing /\ access[t].id \in Ids /\ access[t].off \in Offsets
  BY DEF EInv, MemoryTyped, Opening, Accessing, Memory!Idle

\* A step that leaves the accesses alone and touches no file but those of
\* allocations without any.
LEMMA FilesUntouched ==
    ASSUME EInv, PInv, access' = access,
           \A i \in Ids : Files(i)' = Files(i),
           \A i \in Ids : Files(i) # {} =>
              /\ position'[i] = position[i]
              /\ i \in disturbed' <=> i \in disturbed
              /\ \A o \in Files(i) : Pos(i, o)' = Pos(i, o),
           misplaced' \subseteq disturbed'
    PROVE  PInv'
<1>1. \A t \in Tasks : (Busy(t)' <=> Busy(t))
  BY DEF Busy
<1>2. \A t \in Tasks, i \in Ids : \A o : (Uses(t, i, o)' <=> Uses(t, i, o))
  BY DEF Uses
<1>3. \A t \in Tasks : Busy(t) =>
         /\ access[t].id \in Ids
         /\ Files(access[t].id) # {}
  BY BusyIs DEF Busy, PInv, Reached
<1>4. Reached'
  BY <1>1, <1>3 DEF PInv, Reached
<1>5. OneFile'
  BY DEF PInv, OneFile
<1>6. OneAccess'
  BY <1>1, <1>2, <1>3 DEF PInv, OneAccess
<1>7. InPlace'
  BY <1>3 DEF PInv, InPlace, Busy
<1>8. Settled'
  BY <1>2 DEF PInv, Settled
<1>9. QED
  BY <1>4, <1>5, <1>6, <1>7, <1>8 DEF PInv, Memory!AloneIsInPlace

----------------------------------------------------------------------------
(* The calls that touch no file. *)

\* How the files follow from the entries.
LEMMA FilesOf ==
    ASSUME EInv, NEW i \in Ids
    PROVE  /\ Files(i) \subseteq Memory!MapInfo(entries[i])
           /\ Files(i) \subseteq Offsets
           /\ Files(i) # {} => FileArea(entries[i]) /\ entries[i].fd
           /\ FileArea(entries[i]) => Files(i) = Memory!MapInfo(entries[i])
<1>1. entries[i] \in Entries /\ EntryIsSound(entries[i])
  BY EntryOf
<1>2. QED
  BY <1>1, EntryFields DEF Files, EntryIsSound, Memory!MapInfo

\* The files after a step that changes one entry.
LEMMA FilesAfter ==
    ASSUME EInv, NEW i \in Ids, NEW f, entries' = [entries EXCEPT ![i] = f]
    PROVE  /\ \A j \in Ids \ {i} : Files(j)' = Files(j) /\ \A o : Pos(j, o)' = Pos(j, o)
           /\ Files(i)' = {o \in Memory!MapInfo(f) : f.infos[o].file}
           /\ \A o : Pos(i, o)' = f.infos[o].pos
<1>1. \A j \in Ids : entries'[j] = IF j = i THEN f ELSE entries[j]
  BY DEF EInv, MemoryTyped
<1>2. QED
  BY <1>1 DEF Files, Pos, Memory!MapInfo

LEMMA InitializeKeeps == MInv /\ Memory!Initialize => MInv'
<1>. SUFFICES ASSUME MInv, Memory!Initialize PROVE MInv'
  OBVIOUS
<1>1. /\ ~minit /\ minit' = TRUE /\ Memory!CleanUpAllMemoryInfo
      /\ UNCHANGED <<access, position, disturbed, misplaced, dangling, heapFails>>
  BY DEF Memory!Initialize, Memory!fileVars
<1>2. entries' = [i \in Ids |-> Memory!NoEntry]
  BY <1>1 DEF Memory!CleanUpAllMemoryInfo
<1>3. MemoryTyped'
  BY <1>1, <1>2, NoEntryIs DEF MInv, EInv, MemoryTyped
<1>4. EInv'
  BY <1>1, <1>3, CleanUpKeeps
<1>5. \A i \in Ids : entries[i] = Memory!NoEntry
  BY <1>1 DEF MInv, EInv, ListIsSound, EntryIsSound, Memory!Exists
<1>6. \A i \in Ids : Files(i)' = Files(i) /\ Files(i) = {}
  BY <1>2, <1>5, NoEntryIs DEF Files
<1>7. misplaced' \subseteq disturbed'
  BY <1>1 DEF MInv, PInv, Memory!AloneIsInPlace
<1>8. PInv'
  BY <1>1, <1>6, <1>7, FilesUntouched DEF MInv
<1>9. QED
  BY <1>4, <1>8 DEF MInv

\* A step on an allocation whose files, before and after, are none.
LEMMA NoFilesThere ==
    ASSUME MInv, NEW i \in Ids, NEW f \in Entries, EntryIsSound(f),
           entries' = [entries EXCEPT ![i] = f], minit, minit' = minit,
           access' = access, position' \in [Ids -> Nat],
           \A j \in Ids \ {i} : position'[j] = position[j],
           \A j \in Ids \ {i} : j \in disturbed' <=> j \in disturbed,
           misplaced' \subseteq disturbed',
           Files(i) = {}, \A o \in Memory!MapInfo(f) : ~f.infos[o].file
    PROVE  MInv'
<1>1. MemoryTyped'
  BY DEF MInv, EInv, MemoryTyped
<1>2. EInv'
  BY <1>1, OneEntryKeeps DEF MInv
<1>3. /\ \A j \in Ids \ {i} : Files(j)' = Files(j) /\ \A o : Pos(j, o)' = Pos(j, o)
      /\ Files(i)' = {}
  BY FilesAfter DEF MInv
<1>4. PInv'
  BY <1>3, FilesUntouched DEF MInv
<1>5. QED
  BY <1>2, <1>4 DEF MInv

LEMMA AllocateKeeps ==
    ASSUME NEW a \in {"LargeHeap", "Dma"} PROVE MInv /\ Memory!Allocate(a) => MInv'
<1>. SUFFICES ASSUME MInv, minit, NEW i \in Ids, Memory!GetFreeHandleId(i),
                     entries' = [entries EXCEPT ![i] = [Memory!NoEntry EXCEPT !.area = a]],
                     position' = [position EXCEPT ![i] = 0],
                     disturbed' = disturbed \ {i}, misplaced' = misplaced \ {i},
                     UNCHANGED <<minit, access, dangling, heapFails>>
              PROVE  MInv'
  BY DEF Memory!Allocate
<1>. DEFINE f == [Memory!NoEntry EXCEPT !.area = a]
<1>1. /\ f \in Entries /\ f.area = a /\ ~f.mapped /\ f.count = 0 /\ Memory!MapInfo(f) = {}
  BY NoEntryIs DEF Entries, Memory!MapInfo, Memory!NoEntry
<1>2. EntryIsSound(f)
  BY <1>1, FS_EmptySet DEF EntryIsSound
<1>3. position' \in [Ids -> Nat]
  BY DEF MInv, EInv, MemoryTyped
<1>4. Files(i) = {}
  BY NoEntryIs
     DEF Files, MInv, EInv, ListIsSound, EntryIsSound, Memory!GetFreeHandleId, Memory!Exists
<1>5. /\ \A j \in Ids \ {i} : position'[j] = position[j]
      /\ \A j \in Ids \ {i} : j \in disturbed' <=> j \in disturbed
      /\ misplaced' \subseteq disturbed'
  BY DEF MInv, EInv, MemoryTyped, PInv, Memory!AloneIsInPlace
<1>6. \A o \in Memory!MapInfo(f) : ~f.infos[o].file
  BY <1>1
<1>. HIDE DEF f
<1>7. QED
  BY <1>1, <1>2, <1>3, <1>4, <1>5, <1>6, NoFilesThere DEF f

\* What the steps under the mutex that change neither positions nor accesses
\* have in common.
LEMMA StillThere ==
    ASSUME MInv, UNCHANGED <<position, disturbed, misplaced>>
    PROVE  /\ position' \in [Ids -> Nat]
           /\ \A j \in Ids : position'[j] = position[j]
           /\ \A j \in Ids : j \in disturbed' <=> j \in disturbed
           /\ misplaced' \subseteq disturbed'
  BY DEF MInv, EInv, MemoryTyped, PInv, Memory!AloneIsInPlace

LEMMA FreeKeeps == ASSUME NEW i \in Ids PROVE MInv /\ Memory!Free(i) => MInv'
<1>. SUFFICES ASSUME MInv, Memory!Free(i) PROVE MInv'
  OBVIOUS
<1>1. /\ minit /\ minit' = minit /\ ~entries[i].mapped /\ ~entries[i].fd
      /\ entries' = [entries EXCEPT ![i] = Memory!NoEntry]
      /\ UNCHANGED <<access, position, disturbed, misplaced>>
  BY DEF Memory!Free, Memory!fileVars
<1>2. Files(i) = {}
  BY <1>1, FilesOf DEF MInv
<1>3. QED
  BY <1>1, <1>2, NoEntryIs, NoEntryIsSound, StillThere, NoFilesThere

LEMMA MapKeeps ==
    ASSUME NEW i \in Ids, NEW o \in Offsets PROVE MInv /\ Memory!Map(i, o) => MInv'
<1>. SUFFICES ASSUME MInv, Memory!Map(i, o) PROVE MInv'
  OBVIOUS
<1>. DEFINE e == [entries[i] EXCEPT !.mapped = TRUE]
            h == Memory!Counted(Memory!WithInfo(e, o, [file |-> FALSE]), e.count + 1)
<1>1. /\ minit /\ minit' = minit /\ Memory!Exists(i) /\ Memory!CanMap(i)
      /\ UNCHANGED <<access, position, disturbed, misplaced>>
  BY DEF Memory!Map, Memory!fileVars
<1>2. \/ o \notin Memory!MapInfo(e) /\ entries' = [entries EXCEPT ![i] = h]
      \/ entries' = [entries EXCEPT ![i] = e]
  BY DEF Memory!Map
<1>3. /\ entries[i] \in Entries /\ EntryIsSound(entries[i])
      /\ entries[i].area # "none" /\ ~FileArea(entries[i])
  BY <1>1, EntryOf DEF Memory!Exists, Memory!CanMap, FileArea, MInv
<1>4. /\ e \in Entries /\ e.area = entries[i].area /\ e.mapped /\ e.count = entries[i].count
      /\ e.infos = entries[i].infos /\ Memory!MapInfo(e) = Memory!MapInfo(entries[i])
  BY <1>3, MappedIs
<1>. HIDE DEF e
<1>5. EntryIsSound(e) /\ ~FileArea(e) /\ e.area # "none"
  BY <1>3, <1>4 DEF EntryIsSound, FileArea
<1>6. Files(i) = {}
  BY <1>3, FilesOf DEF MInv
<1>7. CASE entries' = [entries EXCEPT ![i] = e]
  <2>1. \A p \in Memory!MapInfo(e) : ~e.infos[p].file
    BY <1>5 DEF EntryIsSound
  <2>2. QED
    BY <1>1, <1>4, <1>5, <1>6, <1>7, <2>1, StillThere, NoFilesThere
<1>8. CASE o \notin Memory!MapInfo(e) /\ entries' = [entries EXCEPT ![i] = h]
  <2>1. [file |-> FALSE] \in Infos /\ [file |-> FALSE].file = FALSE
    BY DEF Infos
  <2>2. h \in Entries /\ EntryIsSound(h) /\ h.area = e.area
    BY <1>4, <1>5, <1>8, <2>1, HandleAdded
  <2>. HIDE DEF h
  <2>3. \A p \in Memory!MapInfo(h) : ~h.infos[p].file
    BY <1>5, <2>2 DEF EntryIsSound, FileArea
  <2>4. QED
    BY <1>1, <1>6, <1>8, <2>2, <2>3, StillThere, NoFilesThere
<1>9. QED
  BY <1>2, <1>7, <1>8

LEMMA UnmapKeeps ==
    ASSUME NEW i \in Ids, NEW o \in Offsets PROVE MInv /\ Memory!Unmap(i, o) => MInv'
<1>. SUFFICES ASSUME MInv, Memory!Unmap(i, o) PROVE MInv'
  OBVIOUS
<1>. DEFINE e == entries[i]
            w == Memory!WithoutInfo(Memory!Counted(e, e.count - 1), o)
            f == [w EXCEPT !.mapped = w.count # 0]
<1>1. /\ minit /\ minit' = minit /\ Memory!Exists(i) /\ e.mapped /\ o \in Memory!MapInfo(e)
      /\ UNCHANGED <<access, position, disturbed, misplaced>>
  BY DEF Memory!Unmap, Memory!fileVars
<1>2. e \in Entries /\ EntryIsSound(e) /\ e.area # "none" /\ ~FileArea(e)
  BY <1>1, EntryOf DEF Memory!Exists, MInv, EntryIsSound
<1>3. /\ e.count \in Nat /\ e.count > 0
      /\ w \in Entries /\ EntryIsSound(w) /\ w.area = e.area /\ w.mapped = e.mapped
      /\ w.count = 0 => Memory!MapInfo(w) = {}
  BY <1>1, <1>2, HandleRemoved
<1>4. entries' = [entries EXCEPT ![i] = f]
  BY <1>3 DEF Memory!Unmap, Memory!UnmapMemory
<1>. HIDE DEF w
<1>5. /\ f \in Entries /\ f.area = w.area /\ (f.mapped <=> w.count # 0) /\ f.count = w.count
      /\ f.infos = w.infos /\ Memory!MapInfo(f) = Memory!MapInfo(w)
  BY <1>3, MappedIs
<1>. HIDE DEF f
<1>6. ~FileArea(f) /\ f.area # "none" /\ ~FileArea(w)
  BY <1>2, <1>3, <1>5 DEF FileArea
<1>7. EntryIsSound(f)
  BY <1>3, <1>5, <1>6 DEF EntryIsSound
<1>8. \A p \in Memory!MapInfo(f) : ~f.infos[p].file
  BY <1>6, <1>7 DEF EntryIsSound
<1>9. Files(i) = {}
  BY <1>2, FilesOf DEF MInv
<1>10. QED
  BY <1>1, <1>4, <1>5, <1>7, <1>8, <1>9, StillThere, NoFilesThere

----------------------------------------------------------------------------
(* Files are opened and closed. *)

\* A thread that opens a file: the handle is one more file of its allocation,
\* which is disturbed when it had another.
LEMMA OpenedKeeps ==
    ASSUME EInv, PInv, NEW t \in Tasks, NEW i \in Ids, NEW o \in Offsets,
           access[t] = Memory!Idle, Memory!Opened(t, i, o),
           \A j \in Ids \ {i} : Files(j)' = Files(j),
           Files(i)' = Files(i) \cup {o},
           \A j \in Ids : \A p \in Files(j) : Pos(j, p)' = Pos(j, p),
           \A j \in Ids : Files(j) # {} => position'[j] = position[j],
           misplaced' = misplaced
    PROVE  PInv'
<1>. DEFINE r == [at |-> "opened", id |-> i, off |-> o]
<1>1. /\ access' = [access EXCEPT ![t] = r]
      /\ disturbed' = IF Memory!MapInfo(entries[i]) \ {o} # {} THEN disturbed \cup {i}
                      ELSE disturbed
  BY DEF Memory!Opened
<1>2. /\ access'[t].at = "opened" /\ access'[t].id = i /\ access'[t].off = o
      /\ \A u \in Tasks \ {t} : access'[u] = access[u]
  BY <1>1 DEF EInv, MemoryTyped
<1>3. access[t].at = "idle"
  BY DEF Memory!Idle
<1>4. /\ ~Busy(t) /\ ~Busy(t)' /\ \A u \in Tasks \ {t} : (Busy(u)' <=> Busy(u))
  BY <1>2, <1>3 DEF Busy
<1>5. /\ \A j, p : ~Uses(t, j, p)
      /\ \A j, p : (Uses(t, j, p)' <=> j = i /\ p = o)
      /\ \A u \in Tasks \ {t} : \A j, p : (Uses(u, j, p)' <=> Uses(u, j, p))
  BY <1>2, <1>3 DEF Uses
<1>6. disturbed \subseteq disturbed' /\ disturbed' \subseteq disturbed \cup {i}
  BY <1>1
<1>7. i \notin disturbed' => Files(i) \subseteq {o} /\ Files(i)' = {o}
  BY <1>1, FilesOf
<1>8. \A u \in Tasks : Busy(u) => access[u].id \in Ids /\ Files(access[u].id) # {}
  BY BusyIs DEF Busy, PInv, Reached
<1>9. Reached'
  BY <1>2, <1>4, <1>8 DEF PInv, Reached
<1>10. OneFile'
  BY <1>6, <1>7 DEF PInv, OneFile
<1>11. OneAccess'
  <2>. SUFFICES ASSUME NEW u \in Tasks, NEW v \in Tasks, Busy(u)',
                       access'[u].id \notin disturbed',
                       Uses(v, access[u].id, access[u].off)'
                PROVE  v = u \/ access'[v].at = "opened"
    BY DEF OneAccess
  <2>1. u # t /\ Busy(u) /\ access'[u] = access[u] /\ access[u].id \notin disturbed
    BY <1>2, <1>4, <1>6
  <2>2. CASE v = t
    BY <2>2, <1>2
  <2>3. CASE v # t
    <3>1. Uses(v, access[u].id, access[u].off) /\ access'[v] = access[v]
      BY <2>1, <2>3, <1>2 DEF Uses
    <3>2. QED
      BY <3>1, <2>1 DEF PInv, OneAccess
  <2>4. QED
    BY <2>2, <2>3
<1>12. InPlace'
  <2>. SUFFICES ASSUME NEW u \in Tasks, access'[u].id \notin disturbed',
                       access'[u].at = "file"
                          \/ (access'[u].at = "wait" /\ access'[u].kind = "access")
                PROVE  position'[access'[u].id] = access'[u].off + access'[u].from
    BY DEF InPlace
  <2>1. u # t /\ access'[u] = access[u]
    BY <1>2
  <2>2. Busy(u)
    BY <2>1 DEF Busy
  <2>3. position'[access[u].id] = position[access[u].id]
    BY <2>2, <1>8
  <2>4. access[u].id \notin disturbed
    BY <2>1, <1>6
  <2>5. QED
    BY <2>1, <2>3, <2>4 DEF PInv, InPlace
<1>13. Settled'
  <2>. SUFFICES ASSUME NEW j \in Ids \ disturbed', NEW p \in Files(j)',
                       \A u \in Tasks : Uses(u, j, p)' => access'[u].at # "opened"
                PROVE  /\ \A u, v \in Tasks : Uses(u, j, p)' /\ Uses(v, j, p)' => u = v
                       /\ (\A u \in Tasks : ~Uses(u, j, p)')
                             => position'[j] = p + Pos(j, p)'
                       /\ \A u \in Tasks : Uses(u, j, p)' =>
                             /\ access'[u].at # "gone"
                             /\ access'[u].at = "store" => position'[j] = p + access'[u].from
    BY DEF Settled
  <2>1. ~(j = i /\ p = o)
    BY <1>2, <1>5
  <2>2. j # i
    BY <2>1, <1>7
  <2>3. p \in Files(j) /\ j \notin disturbed /\ position'[j] = position[j] /\ Pos(j, p)' = Pos(j, p)
    BY <2>2, <1>6
  <2>4. \A u \in Tasks : (Uses(u, j, p)' <=> Uses(u, j, p))
    BY <1>5, <2>1
  <2>5. \A u \in Tasks : Uses(u, j, p) => u # t /\ access'[u] = access[u]
    BY <1>2, <1>5
  <2>6. QED
    BY <2>3, <2>4, <2>5 DEF PInv, Settled
<1>14. Memory!AloneIsInPlace'
  BY <1>6 DEF PInv, Memory!AloneIsInPlace
<1>15. QED
  BY <1>9, <1>10, <1>11, <1>12, <1>13, <1>14 DEF PInv

\* A file is opened: its first handle moves the descriptor to the start.
LEMMA FopenKeeps ==
    ASSUME NEW t \in Tasks, NEW i \in Ids, NEW o \in Offsets
    PROVE  MInv /\ Memory!Fopen(t, i, o) => MInv'
<1>. SUFFICES ASSUME MInv, Memory!Fopen(t, i, o) PROVE MInv'
  OBVIOUS
<1>. DEFINE e == [entries[i] EXCEPT !.fd = TRUE]
            new == [file |-> TRUE, opens |-> 1, pos |-> 0]
            h == Memory!Counted(Memory!WithInfo(e, o, new), e.count + 1)
<1>1. /\ minit /\ minit' = minit /\ access[t] = Memory!Idle /\ Memory!Exists(i)
      /\ position' = [position EXCEPT ![i] = IF entries[i].fd THEN @ ELSE 0]
      /\ misplaced' = misplaced
  BY DEF Memory!Fopen
<1>2. \/ /\ o \in Memory!MapInfo(e) /\ e.infos[o].file
         /\ entries' = [entries EXCEPT ![i].infos[o].opens = @ + 1]
         /\ Memory!Opened(t, i, o)
      \/ /\ o \notin Memory!MapInfo(e) /\ Memory!FileIoPreCheck(i)
         /\ entries' = [entries EXCEPT ![i] = h] /\ Memory!Opened(t, i, o)
      \/ /\ o \notin Memory!MapInfo(e) /\ Memory!FileIoPreCheck(i)
         /\ entries' = [entries EXCEPT ![i] = e] /\ UNCHANGED <<access, disturbed>>
  BY DEF Memory!Fopen
<1>3. /\ entries[i] \in Entries /\ EntryIsSound(entries[i]) /\ entries[i].area # "none"
      /\ (Memory!FileIoPreCheck(i) <=> FileArea(entries[i]))
  BY <1>1, EntryOf DEF Memory!Exists, MInv
<1>4. /\ e \in Entries /\ e.area = entries[i].area /\ e.mapped = entries[i].mapped /\ e.fd
      /\ e.count = entries[i].count
      /\ e.infos = entries[i].infos /\ Memory!MapInfo(e) = Memory!MapInfo(entries[i])
  BY <1>3, FdIs
<1>. HIDE DEF e
<1>5. EntryIsSound(e)
  BY <1>3, <1>4 DEF EntryIsSound, FileArea
<1>6. position' \in [Ids -> Nat]
  BY <1>1 DEF MInv, EInv, MemoryTyped
<1>7. \A j \in Ids : Files(j) # {} => position'[j] = position[j]
  BY <1>1, FilesOf DEF MInv, EInv, MemoryTyped
<1>8. Memory!Opened(t, i, o) => access' \in [Tasks -> {Memory!Idle} \cup Opening \cup Accessing]
  BY DEF Memory!Opened, MInv, EInv, MemoryTyped, Opening
<1>9. ASSUME o \in Memory!MapInfo(e), e.infos[o].file,
             entries' = [entries EXCEPT ![i].infos[o].opens = @ + 1],
             Memory!Opened(t, i, o)
      PROVE  MInv'
  <2>. DEFINE d == entries[i]
              info == [d.infos[o] EXCEPT !.opens = @ + 1]
              f == [d EXCEPT !.infos = [@ EXCEPT ![o] = info]]
  <2>1. d.infos[o] \in Infos /\ o \in Memory!MapInfo(d) /\ d.infos[o].file
    BY <1>3, <1>4, <1>9, EntryFields DEF Memory!MapInfo
  <2>2. info \in Infos /\ info.file /\ info.pos = d.infos[o].pos
    <3>1. d.infos[o].opens \in Nat /\ d.infos[o].opens # 0
      BY <2>1, FileInfoIs
    <3>2. d.infos[o].opens + 1 \in Nat \ {0}
      BY <3>1
    <3>3. info = [d.infos[o] EXCEPT !.opens = d.infos[o].opens + 1]
      OBVIOUS
    <3>. HIDE DEF info
    <3>4. QED
      BY <2>1, <3>2, <3>3, FileInfoIs
  <2>3. entries' = [entries EXCEPT ![i] = f]
    BY <1>9, <1>3
  <2>4. info.pos = d.infos[o].pos
    BY <2>2
  <2>. HIDE DEF info
  <2>5. /\ f \in Entries /\ f.area = d.area /\ f.mapped = d.mapped /\ f.fd = d.fd
        /\ f.count = d.count
        /\ Memory!MapInfo(f) = Memory!MapInfo(d) /\ f.infos[o] = info
        /\ \A p \in Memory!MapInfo(d) : p # o => f.infos[p] = d.infos[p]
    BY <1>3, <2>1, <2>2, InfoSetIs
  <2>. HIDE DEF f
  <2>6. EntryIsSound(f)
    BY <1>3, <2>1, <2>2, <2>5 DEF EntryIsSound, FileArea
  <2>7. MemoryTyped'
    BY <1>1, <1>6, <1>8, <1>9, <2>3, <2>5 DEF MInv, EInv, MemoryTyped
  <2>8. EInv'
    BY <1>1, <2>3, <2>5, <2>6, <2>7, OneEntryKeeps DEF MInv
  <2>9. /\ \A j \in Ids \ {i} : Files(j)' = Files(j) /\ \A p : Pos(j, p)' = Pos(j, p)
        /\ Files(i)' = {p \in Memory!MapInfo(f) : f.infos[p].file}
        /\ \A p : Pos(i, p)' = f.infos[p].pos
    BY <2>3, FilesAfter DEF MInv
  <2>10. Files(i)' = Files(i) \cup {o}
    BY <2>1, <2>2, <2>5, <2>9 DEF Files
  <2>11. \A p \in Files(i) : Pos(i, p)' = Pos(i, p)
    BY <2>4, <2>5, <2>9 DEF Files, Pos
  <2>12. PInv'
    BY <1>1, <1>7, <1>9, <2>9, <2>10, <2>11, OpenedKeeps DEF MInv
  <2>13. QED
    BY <2>8, <2>12 DEF MInv
<1>10. ASSUME o \notin Memory!MapInfo(e), Memory!FileIoPreCheck(i),
              entries' = [entries EXCEPT ![i] = h], Memory!Opened(t, i, o)
       PROVE  MInv'
  <2>1. new \in Infos /\ new.file = TRUE
    BY DEF Infos
  <2>2. FileArea(e)
    BY <1>3, <1>4, <1>10 DEF FileArea
  <2>. HIDE DEF new
  <2>3. /\ h \in Entries /\ EntryIsSound(h) /\ h.area = e.area
        /\ Memory!MapInfo(h) = Memory!MapInfo(e) \cup {o} /\ h.infos[o] = new
        /\ \A p \in Memory!MapInfo(e) : h.infos[p] = e.infos[p]
    BY <1>3, <1>4, <1>5, <1>10, <2>1, <2>2, HandleAdded
  <2>. HIDE DEF h
  <2>4. MemoryTyped'
    BY <1>1, <1>6, <1>8, <1>10, <2>3 DEF MInv, EInv, MemoryTyped
  <2>5. EInv'
    BY <1>1, <1>10, <2>3, <2>4, OneEntryKeeps DEF MInv
  <2>6. /\ \A j \in Ids \ {i} : Files(j)' = Files(j) /\ \A p : Pos(j, p)' = Pos(j, p)
        /\ Files(i)' = {p \in Memory!MapInfo(h) : h.infos[p].file}
        /\ \A p : Pos(i, p)' = h.infos[p].pos
    BY <1>10, FilesAfter DEF MInv
  <2>7. Files(i)' = Files(i) \cup {o}
    BY <1>4, <2>1, <2>3, <2>6 DEF Files
  <2>8. \A p \in Files(i) : Pos(i, p)' = Pos(i, p)
    BY <1>4, <2>3, <2>6 DEF Files, Pos
  <2>9. PInv'
    BY <1>1, <1>7, <1>10, <2>6, <2>7, <2>8, OpenedKeeps DEF MInv
  <2>10. QED
    BY <2>5, <2>9 DEF MInv
<1>11. ASSUME entries' = [entries EXCEPT ![i] = e], UNCHANGED <<access, disturbed>>
       PROVE  MInv'
  <2>1. MemoryTyped'
    BY <1>1, <1>4, <1>6, <1>11 DEF MInv, EInv, MemoryTyped
  <2>2. EInv'
    BY <1>1, <1>4, <1>5, <1>11, <2>1, OneEntryKeeps DEF MInv
  <2>3. /\ \A j \in Ids \ {i} : Files(j)' = Files(j) /\ \A p : Pos(j, p)' = Pos(j, p)
        /\ Files(i)' = {p \in Memory!MapInfo(e) : e.infos[p].file}
        /\ \A p : Pos(i, p)' = e.infos[p].pos
    BY <1>11, FilesAfter DEF MInv
  <2>4. /\ \A j \in Ids : Files(j)' = Files(j) /\ \A p \in Files(j) : Pos(j, p)' = Pos(j, p)
    BY <1>4, <2>3 DEF Files, Pos
  <2>5. misplaced' \subseteq disturbed'
    BY <1>1, <1>11 DEF MInv, PInv, Memory!AloneIsInPlace
  <2>6. PInv'
    BY <1>7, <1>11, <2>4, <2>5, FilesUntouched DEF MInv
  <2>7. QED
    BY <2>2, <2>6 DEF MInv
<1>12. QED
  BY <1>2, <1>9, <1>10, <1>11

\* The handle that is closed for the last time leaves with the accesses that
\* wait for it.
LEMMA ClosedKeeps ==
    ASSUME EInv, PInv, NEW i \in Ids, NEW o \in Offsets,
           Memory!InFile(i, o) = {},
           access' = [t \in Tasks |->
              IF t \in {u \in Memory!Using(i, o) : access[u].at = "wait"}
              THEN [access[t] EXCEPT !.at = "gone"] ELSE access[t]],
           \A j \in Ids \ {i} : Files(j)' = Files(j),
           Files(i)' = Files(i) \ {o},
           \A j \in Ids : \A p \in Files(j)' : Pos(j, p)' = Pos(j, p),
           UNCHANGED <<position, disturbed, misplaced>>
    PROVE  /\ PInv'
           /\ access' \in [Tasks -> {Memory!Idle} \cup Opening \cup Accessing]
<1>. DEFINE waiting == {u \in Memory!Using(i, o) : access[u].at = "wait"}
<1>1. \A t \in Tasks : t \in waiting <=> Uses(t, i, o) /\ access[t].at = "wait"
  BY DEF Memory!Using, Uses
<1>2. \A t \in Tasks : t \in waiting =>
         /\ access[t] \in Accessing
         /\ [access[t] EXCEPT !.at = "gone"] \in Accessing
         /\ access'[t].at = "gone" /\ access'[t].id = access[t].id
         /\ access'[t].off = access[t].off
  <2>1. TAKE t \in Tasks
  <2>2. HAVE t \in waiting
  <2>3. access[t] \in Accessing
    BY <2>2, <1>1, BusyIs
  <2>4. access'[t] = [access[t] EXCEPT !.at = "gone"]
    BY <2>2
  <2>5. QED
    BY <2>3, <2>4 DEF Accessing
<1>3. \A t \in Tasks : t \notin waiting => access'[t] = access[t]
  OBVIOUS
<1>4. access' \in [Tasks -> {Memory!Idle} \cup Opening \cup Accessing]
  BY <1>2, <1>3 DEF EInv, MemoryTyped
<1>. HIDE DEF waiting
<1>5. \A t \in Tasks : \A j, p : (Uses(t, j, p)' <=> Uses(t, j, p))
  BY <1>1, <1>2, <1>3 DEF Uses
<1>6. \A t \in Tasks : Busy(t)' =>
         /\ Busy(t) /\ access'[t] = access[t]
         /\ ~(access[t].id = i /\ access[t].off = o)
  <2>1. TAKE t \in Tasks
  <2>2. HAVE Busy(t)'
  <2>3. t \notin waiting /\ access'[t] = access[t] /\ Busy(t)
    BY <2>2, <1>2, <1>3 DEF Busy
  <2>4. ~(access[t].id = i /\ access[t].off = o)
    BY <2>3, <1>1 DEF Busy, Uses, Memory!InFile, Memory!Using
  <2>5. QED
    BY <2>3, <2>4
<1>7. \A j \in Ids : Files(j)' \subseteq Files(j)
  OBVIOUS
<1>8. \A t \in Tasks : Busy(t) => access[t].id \in Ids
  BY BusyIs DEF Busy
<1>9. Reached'
  <2>. SUFFICES ASSUME NEW t \in Tasks, Busy(t)'
                PROVE  (access[t].off \in Files(access[t].id))'
    BY DEF Reached
  <2>1. PICK j \in Ids : j = access[t].id
    BY <1>6, <1>8
  <2>2. access[t].off \in Files(j) /\ ~(j = i /\ access[t].off = o)
    BY <2>1, <1>6 DEF PInv, Reached
  <2>3. access[t].off \in Files(j)'
    BY <2>2
  <2>4. QED
    BY <2>1, <2>3, <1>6
<1>10. OneFile'
  BY <1>7 DEF PInv, OneFile
<1>11. \A t \in Tasks : access[t].at = "opened" => access'[t].at = "opened"
  BY <1>1, <1>3
<1>12. OneAccess'
  <2>. SUFFICES ASSUME NEW u \in Tasks, NEW v \in Tasks, Busy(u)',
                       access'[u].id \notin disturbed',
                       Uses(v, access[u].id, access[u].off)'
                PROVE  v = u \/ access'[v].at = "opened"
    BY DEF OneAccess
  <2>1. Busy(u) /\ access'[u] = access[u]
    BY <1>6
  <2>2. Uses(v, access[u].id, access[u].off)
    BY <2>1, <1>1, <1>2, <1>3 DEF Uses
  <2>3. v = u \/ access[v].at = "opened"
    BY <2>1, <2>2 DEF PInv, OneAccess
  <2>4. QED
    BY <2>3, <1>11
<1>13. InPlace'
  BY <1>6 DEF PInv, InPlace, Busy
<1>14. Settled'
  <2>. SUFFICES ASSUME NEW j \in Ids \ disturbed', NEW p \in Files(j)',
                       \A u \in Tasks : Uses(u, j, p)' => access'[u].at # "opened"
                PROVE  /\ \A u, v \in Tasks : Uses(u, j, p)' /\ Uses(v, j, p)' => u = v
                       /\ (\A u \in Tasks : ~Uses(u, j, p)')
                             => position'[j] = p + Pos(j, p)'
                       /\ \A u \in Tasks : Uses(u, j, p)' =>
                             /\ access'[u].at # "gone"
                             /\ access'[u].at = "store" => position'[j] = p + access'[u].from
    BY DEF Settled
  <2>1. ~(j = i /\ p = o)
    OBVIOUS
  <2>2. \A u \in Tasks : Uses(u, j, p) => access'[u] = access[u]
    BY <2>1, <1>1, <1>3 DEF Uses
  <2>3. j \in Ids \ disturbed /\ p \in Files(j) /\ Pos(j, p)' = Pos(j, p)
    BY <1>7
  <2>4. \A u \in Tasks : (Uses(u, j, p)' <=> Uses(u, j, p))
    BY <1>5
  <2>5. \A u \in Tasks : Uses(u, j, p) => access[u].at # "opened"
    BY <2>2, <2>4
  <2>6. /\ \A u, v \in Tasks : Uses(u, j, p) /\ Uses(v, j, p) => u = v
        /\ (\A u \in Tasks : ~Uses(u, j, p)) => position[j] = p + Pos(j, p)
        /\ \A u \in Tasks : Uses(u, j, p) =>
              /\ access[u].at # "gone"
              /\ access[u].at = "store" => position[j] = p + access[u].from
    BY <2>3, <2>5 DEF PInv, Settled
  <2>7. QED
    BY <2>2, <2>3, <2>4, <2>6
<1>15. QED
  BY <1>4, <1>9, <1>10, <1>12, <1>13, <1>14 DEF PInv, Memory!AloneIsInPlace

\* A file is closed, by its last user or another.
LEMMA FcloseKeeps ==
    ASSUME NEW i \in Ids, NEW o \in Offsets PROVE MInv /\ Memory!Fclose(i, o) => MInv'
<1>. SUFFICES ASSUME MInv, Memory!Fclose(i, o) PROVE MInv'
  OBVIOUS
<1>. DEFINE d == entries[i]
            e == Memory!Counted(Memory!WithoutInfo(d, o), d.count - 1)
<1>1. /\ minit /\ minit' = minit /\ Memory!Exists(i)
      /\ o \in Memory!MapInfo(d) /\ d.infos[o].file
      /\ UNCHANGED <<position, disturbed, misplaced>>
  BY DEF Memory!Fclose
<1>2. d \in Entries /\ EntryIsSound(d) /\ d.area # "none" /\ FileArea(d)
  BY <1>1, EntryOf DEF Memory!Exists, MInv, EntryIsSound
<1>3. CASE d.infos[o].opens > 1
  <2>. DEFINE info == [d.infos[o] EXCEPT !.opens = @ - 1]
              f == [d EXCEPT !.infos = [@ EXCEPT ![o] = info]]
  <2>1. d.infos[o] \in Infos
    BY <1>1, <1>2, EntryFields DEF Memory!MapInfo
  <2>2. info \in Infos /\ info.file /\ info.pos = d.infos[o].pos
    <3>1. d.infos[o].opens \in Nat /\ d.infos[o].opens # 0
      BY <1>1, <2>1, FileInfoIs
    <3>2. d.infos[o].opens - 1 \in Nat \ {0}
      BY <1>3, <3>1
    <3>3. info = [d.infos[o] EXCEPT !.opens = d.infos[o].opens - 1]
      OBVIOUS
    <3>. HIDE DEF info
    <3>4. QED
      BY <1>1, <2>1, <3>2, <3>3, FileInfoIs
  <2>3. entries' = [entries EXCEPT ![i] = f] /\ access' = access
    BY <1>3, <1>2 DEF Memory!Fclose
  <2>. HIDE DEF info
  <2>4. /\ f \in Entries /\ f.area = d.area /\ f.mapped = d.mapped /\ f.fd = d.fd
        /\ f.count = d.count
        /\ Memory!MapInfo(f) = Memory!MapInfo(d) /\ f.infos[o] = info
        /\ \A p \in Memory!MapInfo(d) : p # o => f.infos[p] = d.infos[p]
    BY <1>1, <1>2, <2>2, InfoSetIs
  <2>. HIDE DEF f
  <2>5. EntryIsSound(f)
    BY <1>1, <1>2, <2>2, <2>4 DEF EntryIsSound, FileArea
  <2>6. MemoryTyped'
    BY <1>1, <2>3, <2>4 DEF MInv, EInv, MemoryTyped
  <2>7. EInv'
    BY <1>1, <2>3, <2>4, <2>5, <2>6, OneEntryKeeps DEF MInv
  <2>8. /\ \A j \in Ids \ {i} : Files(j)' = Files(j) /\ \A p : Pos(j, p)' = Pos(j, p)
        /\ Files(i)' = {p \in Memory!MapInfo(f) : f.infos[p].file}
        /\ \A p : Pos(i, p)' = f.infos[p].pos
    BY <2>3, FilesAfter DEF MInv
  <2>9. \A j \in Ids : Files(j)' = Files(j) /\ \A p \in Files(j) : Pos(j, p)' = Pos(j, p)
    BY <1>1, <2>2, <2>4, <2>8 DEF Files, Pos
  <2>10. misplaced' \subseteq disturbed'
    BY <1>1 DEF MInv, PInv, Memory!AloneIsInPlace
  <2>11. PInv'
    BY <1>1, <2>3, <2>9, <2>10, FilesUntouched DEF MInv
  <2>12. QED
    BY <2>7, <2>11 DEF MInv
<1>4. CASE ~(d.infos[o].opens > 1)
  <2>1. /\ Memory!InFile(i, o) = {}
        /\ \/ entries' = [entries EXCEPT ![i] = [e EXCEPT !.fd = e.count # 0]]
           \/ e.count = 0 /\ entries' = [entries EXCEPT ![i] = e]
        /\ access' = [t \in Tasks |->
              IF t \in {u \in Memory!Using(i, o) : access[u].at = "wait"}
              THEN [access[t] EXCEPT !.at = "gone"] ELSE access[t]]
    BY <1>4 DEF Memory!Fclose
  <2>2. e = Memory!WithoutInfo(Memory!Counted(d, d.count - 1), o)
    BY <1>2 DEF Memory!Counted, Memory!WithoutInfo, Memory!MapInfo, Entries
  <2>. HIDE DEF e
  <2>3. /\ e \in Entries /\ EntryIsSound(e) /\ e.area = d.area /\ e.fd = d.fd
        /\ e.mapped = d.mapped
        /\ Memory!MapInfo(e) = Memory!MapInfo(d) \ {o}
        /\ (e.count = 0 => Memory!MapInfo(e) = {})
        /\ \A p \in Memory!MapInfo(e) : e.infos[p] = d.infos[p]
    BY <1>1, <1>2, <2>2, HandleRemoved
  <2>4. PICK f \in Entries :
           /\ entries' = [entries EXCEPT ![i] = f] /\ EntryIsSound(f)
           /\ f.infos = e.infos /\ Memory!MapInfo(f) = Memory!MapInfo(e)
    <3>. DEFINE g == [e EXCEPT !.fd = e.count # 0]
    <3>1. /\ g \in Entries /\ g.area = e.area /\ g.mapped = e.mapped
          /\ (g.fd <=> e.count # 0)
          /\ g.count = e.count /\ g.infos = e.infos /\ Memory!MapInfo(g) = Memory!MapInfo(e)
      BY <2>3, FdIs
    <3>. HIDE DEF g
    <3>2. EntryIsSound(g)
      BY <1>2, <2>3, <3>1 DEF EntryIsSound, FileArea
    <3>3. QED
      BY <2>1, <2>3, <3>1, <3>2 DEF g
  <2>5. /\ \A j \in Ids \ {i} : Files(j)' = Files(j) /\ \A p : Pos(j, p)' = Pos(j, p)
        /\ Files(i)' = {p \in Memory!MapInfo(f) : f.infos[p].file}
        /\ \A p : Pos(i, p)' = f.infos[p].pos
    BY <2>4, FilesAfter DEF MInv
  <2>6. Files(i)' = Files(i) \ {o} /\ \A p \in Files(i)' : Pos(i, p)' = Pos(i, p)
    BY <2>3, <2>4, <2>5 DEF Files, Pos
  <2>7. /\ PInv'
        /\ access' \in [Tasks -> {Memory!Idle} \cup Opening \cup Accessing]
    BY <1>1, <2>1, <2>5, <2>6, ClosedKeeps DEF MInv
  <2>8. MemoryTyped'
    BY <1>1, <2>4, <2>7 DEF MInv, EInv, MemoryTyped
  <2>9. EInv'
    BY <1>1, <2>4, <2>8, OneEntryKeeps DEF MInv
  <2>10. QED
    BY <2>7, <2>9 DEF MInv
<1>5. QED
  BY <1>3, <1>4

----------------------------------------------------------------------------
(* The accesses. *)

\* The entries do not change: neither do the files and their positions.
LEMMA SameFiles ==
    ASSUME entries' = entries
    PROVE  /\ \A j : Files(j)' = Files(j)
           /\ \A j, p : Pos(j, p)' = Pos(j, p)
  BY DEF Files, Pos, Memory!MapInfo

\* The checks of an access that begins: it is alone with its handle, or the
\* allocation is disturbed.
LEMMA FileIoKeeps ==
    ASSUME NEW t \in Tasks, NEW how \in {"seek", "access", "paccess"}, NEW i \in Ids,
           NEW o \in Offsets, NEW to \in Nat, NEW size \in Nat,
           MInv, Memory!FileIo(t, how, i, o, to, size),
           \/ access[t].at = "idle"
           \/ how = "seek" /\ access[t].at = "opened" /\ access[t].id = i /\ access[t].off = o
    PROVE  MInv'
<1>. DEFINE from == IF how = "access" THEN entries[i].infos[o].pos ELSE 0
            r == [at |-> "wait", kind |-> how, id |-> i, off |-> o, to |-> to,
                  size |-> size, from |-> from]
<1>1. /\ Memory!Exists(i) /\ o \in Memory!MapInfo(entries[i]) /\ entries[i].infos[o].file
      /\ access' = [access EXCEPT ![t] = r]
      /\ disturbed' = IF Memory!Using(i, o) \ {t} # {} THEN disturbed \cup {i} ELSE disturbed
      /\ UNCHANGED <<minit, entries, position, misplaced>>
  BY DEF Memory!FileIo
<1>2. entries[i].infos[o] \in Infos
  BY <1>1, EntryOf, EntryFields DEF Memory!MapInfo, MInv
<1>3. entries[i].infos[o].pos \in Nat
  BY <1>1, <1>2, FileInfoIs DEF FileInfos
<1>4. from \in Nat
  BY <1>3
<1>. HIDE DEF from
<1>5. r \in Accessing
  BY <1>4 DEF Accessing
<1>6. MemoryTyped'
  BY <1>1, <1>5 DEF MInv, EInv, MemoryTyped
<1>7. EInv'
  BY <1>1, <1>6, NoEntryKeeps DEF MInv
<1>8. /\ access'[t] = r /\ \A u \in Tasks \ {t} : access'[u] = access[u]
  BY <1>1 DEF MInv, EInv, MemoryTyped
<1>9. /\ access'[t].at = "wait" /\ access'[t].id = i /\ access'[t].off = o
      /\ access'[t].kind = how /\ access'[t].from = from
  BY <1>8
<1>. HIDE DEF r
<1>10. /\ \A j : Files(j)' = Files(j)
       /\ \A j, p : Pos(j, p)' = Pos(j, p)
  BY <1>1, SameFiles
<1>11. o \in Files(i)
  BY <1>1 DEF Files
<1>12. disturbed \subseteq disturbed' /\ disturbed' \subseteq disturbed \cup {i}
  BY <1>1
<1>13. i \notin disturbed' => \A u \in Tasks : Uses(u, i, o) => u = t
  BY <1>1 DEF Memory!Using, Uses
<1>14. /\ \A j, p : (Uses(t, j, p)' <=> j = i /\ p = o)
       /\ \A j, p : Uses(t, j, p) => j = i /\ p = o
       /\ \A u \in Tasks \ {t} : \A j, p : (Uses(u, j, p)' <=> Uses(u, j, p))
  BY <1>8, <1>9 DEF Uses
<1>15. ~Busy(t) /\ \A u \in Tasks \ {t} : (Busy(u)' <=> Busy(u))
  BY <1>8 DEF Busy
<1>16. Reached'
  BY <1>8, <1>9, <1>10, <1>11, <1>15 DEF MInv, PInv, Reached
<1>17. OneFile'
  BY <1>10, <1>12 DEF MInv, PInv, OneFile
<1>18. OneAccess'
  <2>. SUFFICES ASSUME NEW u \in Tasks, NEW v \in Tasks, Busy(u)',
                       access'[u].id \notin disturbed',
                       Uses(v, access[u].id, access[u].off)', v # u
                PROVE  access'[v].at = "opened"
    BY DEF OneAccess
  <2>1. CASE u = t
    <3>1. i \notin disturbed' /\ v # t
      BY <2>1, <1>9
    <3>2. Uses(v, i, o)'
      BY <2>1, <1>9 DEF Uses
    <3>3. Uses(v, i, o)
      BY <3>1, <3>2, <1>14
    <3>4. QED
      BY <3>1, <3>3, <1>13
  <2>2. CASE u # t
    <3>1. Busy(u) /\ access'[u] = access[u] /\ access[u].id \notin disturbed
      BY <2>2, <1>8, <1>12, <1>15
    <3>2. CASE v = t
      <4>1. access[u].id = i /\ access[u].off = o /\ i \notin disturbed'
        BY <3>1, <3>2, <1>9 DEF Uses
      <4>2. Uses(u, i, o)
        BY <3>1, <4>1 DEF Uses, Busy
      <4>3. QED
        BY <2>2, <4>1, <4>2, <1>13
    <3>3. CASE v # t
      <4>1. Uses(v, access[u].id, access[u].off) /\ access'[v] = access[v]
        BY <3>1, <3>3, <1>8 DEF Uses
      <4>2. QED
        BY <3>1, <4>1 DEF MInv, PInv, OneAccess
    <3>4. QED
      BY <3>2, <3>3
  <2>3. QED
    BY <2>1, <2>2
<1>19. InPlace'
  <2>. SUFFICES ASSUME NEW u \in Tasks, access'[u].id \notin disturbed',
                       access'[u].at = "file"
                          \/ (access'[u].at = "wait" /\ access'[u].kind = "access")
                PROVE  position'[access'[u].id] = access'[u].off + access'[u].from
    BY DEF InPlace
  <2>1. CASE u = t
    <3>1. how = "access" /\ i \notin disturbed' /\ i \notin disturbed
      BY <2>1, <1>9, <1>12
    <3>2. \A v \in Tasks : ~Uses(v, i, o)
      BY <3>1, <1>13 DEF Uses
    <3>3. position[i] = o + Pos(i, o)
      BY <3>1, <3>2, <1>11 DEF MInv, PInv, Settled
    <3>4. from = Pos(i, o)
      BY <3>1 DEF from, Pos
    <3>5. QED
      BY <2>1, <3>3, <3>4, <1>1, <1>9
  <2>2. CASE u # t
    BY <2>2, <1>1, <1>8, <1>12 DEF MInv, PInv, InPlace
  <2>3. QED
    BY <2>1, <2>2
<1>20. Settled'
  <2>. SUFFICES ASSUME NEW j \in Ids \ disturbed', NEW p \in Files(j),
                       \A u \in Tasks : Uses(u, j, p)' => access'[u].at # "opened"
                PROVE  /\ \A u, v \in Tasks : Uses(u, j, p)' /\ Uses(v, j, p)' => u = v
                       /\ (\A u \in Tasks : ~Uses(u, j, p)')
                             => position'[j] = p + Pos(j, p)'
                       /\ \A u \in Tasks : Uses(u, j, p)' =>
                             /\ access'[u].at # "gone"
                             /\ access'[u].at = "store" => position'[j] = p + access'[u].from
    BY <1>10 DEF Settled
  <2>1. CASE j = i /\ p = o
    <3>1. \A u \in Tasks : Uses(u, j, p)' => u = t
      BY <2>1, <1>13, <1>14
    <3>2. Uses(t, j, p)'
      BY <2>1, <1>14
    <3>3. QED
      BY <3>1, <3>2, <1>9
  <2>2. CASE ~(j = i /\ p = o)
    <3>1. \A u \in Tasks : (Uses(u, j, p)' <=> Uses(u, j, p))
      BY <2>2, <1>14
    <3>2. \A u \in Tasks : Uses(u, j, p) => access'[u] = access[u]
      BY <2>2, <1>8, <1>14
    <3>3. j \in Ids \ disturbed
      BY <1>12
    <3>4. \A u \in Tasks : Uses(u, j, p) => access[u].at # "opened"
      BY <3>1, <3>2
    <3>5. /\ \A u, v \in Tasks : Uses(u, j, p) /\ Uses(v, j, p) => u = v
          /\ (\A u \in Tasks : ~Uses(u, j, p)) => position[j] = p + Pos(j, p)
          /\ \A u \in Tasks : Uses(u, j, p) =>
                /\ access[u].at # "gone"
                /\ access[u].at = "store" => position[j] = p + access[u].from
      BY <3>3, <3>4 DEF MInv, PInv, Settled
    <3>6. QED
      BY <3>1, <3>2, <3>5, <1>1, <1>10
  <2>3. QED
    BY <2>1, <2>2
<1>21. Memory!AloneIsInPlace'
  BY <1>1, <1>12 DEF MInv, PInv, Memory!AloneIsInPlace
<1>22. QED
  BY <1>7, <1>16, <1>17, <1>18, <1>19, <1>20, <1>21 DEF MInv, PInv

\* An access that ends: what it leaves behind is settled.
LEMMA EndsKeeps ==
    ASSUME PInv, EInv, NEW t \in Tasks, access' = [access EXCEPT ![t] = Memory!Idle],
           \A j \in Ids : Files(j)' = Files(j),
           disturbed \subseteq disturbed', misplaced' \subseteq disturbed',
           \A j \in Ids \ disturbed' : position'[j] = position[j],
           \A j \in Ids : \A p \in Files(j) : ~Uses(t, j, p) => Pos(j, p)' = Pos(j, p),
           \A j \in Ids \ disturbed' : \A p \in Files(j) :
              /\ Uses(t, j, p)
              /\ \A u \in Tasks \ {t} : ~Uses(u, j, p)
              => position[j] = p + Pos(j, p)',
           \A j \in Ids \ disturbed' : \A p \in Files(j) :
              /\ Uses(t, j, p)
              /\ \A u \in Tasks \ {t} : Uses(u, j, p) => access[u].at # "opened"
              => \A u \in Tasks \ {t} : ~Uses(u, j, p)
    PROVE  PInv'
<1>1. /\ access'[t].at = "idle" /\ \A u \in Tasks \ {t} : access'[u] = access[u]
  BY DEF EInv, MemoryTyped, Memory!Idle
<1>2. ~Busy(t)' /\ \A u \in Tasks \ {t} : (Busy(u)' <=> Busy(u))
  BY <1>1 DEF Busy
<1>3. /\ \A j, p : ~Uses(t, j, p)'
      /\ \A u \in Tasks \ {t} : \A j, p : (Uses(u, j, p)' <=> Uses(u, j, p))
  BY <1>1 DEF Uses
<1>4. \A u \in Tasks : Busy(u) => access[u].id \in Ids
  BY BusyIs DEF Busy
<1>5. Reached'
  BY <1>1, <1>2, <1>4 DEF PInv, Reached
<1>6. OneFile'
  BY DEF PInv, OneFile
<1>7. OneAccess'
  <2>. SUFFICES ASSUME NEW u \in Tasks, NEW v \in Tasks, Busy(u)',
                       access'[u].id \notin disturbed',
                       Uses(v, access[u].id, access[u].off)'
                PROVE  v = u \/ access'[v].at = "opened"
    BY DEF OneAccess
  <2>1. Busy(u) /\ access'[u] = access[u] /\ access[u].id \notin disturbed
    BY <1>1, <1>2
  <2>2. v # t /\ Uses(v, access[u].id, access[u].off) /\ access'[v] = access[v]
    BY <1>1, <2>1 DEF Uses
  <2>3. QED
    BY <2>1, <2>2 DEF PInv, OneAccess
<1>8. InPlace'
  <2>. SUFFICES ASSUME NEW u \in Tasks, access'[u].id \notin disturbed',
                       access'[u].at = "file"
                          \/ (access'[u].at = "wait" /\ access'[u].kind = "access")
                PROVE  position'[access'[u].id] = access'[u].off + access'[u].from
    BY DEF InPlace
  <2>1. access'[u] = access[u] /\ Busy(u)
    BY <1>1 DEF Busy
  <2>2. access[u].id \in Ids \ disturbed' /\ access[u].id \notin disturbed
    BY <2>1, <1>4
  <2>3. position[access[u].id] = access[u].off + access[u].from
    BY <2>1, <2>2 DEF PInv, InPlace
  <2>4. QED
    BY <2>1, <2>2, <2>3
<1>9. Settled'
  <2>. SUFFICES ASSUME NEW j \in Ids \ disturbed', NEW p \in Files(j),
                       \A u \in Tasks : Uses(u, j, p)' => access'[u].at # "opened"
                PROVE  /\ \A u, v \in Tasks : Uses(u, j, p)' /\ Uses(v, j, p)' => u = v
                       /\ (\A u \in Tasks : ~Uses(u, j, p)')
                             => position'[j] = p + Pos(j, p)'
                       /\ \A u \in Tasks : Uses(u, j, p)' =>
                             /\ access'[u].at # "gone"
                             /\ access'[u].at = "store" => position'[j] = p + access'[u].from
    BY DEF Settled
  <2>1. j \in Ids \ disturbed /\ position'[j] = position[j]
    OBVIOUS
  <2>2. \A u \in Tasks \ {t} : Uses(u, j, p) => access[u].at # "opened"
    BY <1>1, <1>3
  <2>3. CASE Uses(t, j, p)
    <3>1. \A u \in Tasks \ {t} : ~Uses(u, j, p)
      BY <2>2, <2>3
    <3>2. \A u \in Tasks : ~Uses(u, j, p)'
      BY <3>1, <1>3
    <3>3. position[j] = p + Pos(j, p)'
      BY <2>3, <3>1
    <3>4. QED
      BY <2>1, <3>2, <3>3
  <2>4. CASE ~Uses(t, j, p)
    <3>1. \A u \in Tasks : Uses(u, j, p) => access[u].at # "opened"
      BY <2>2, <2>4
    <3>2. /\ \A u, v \in Tasks : Uses(u, j, p) /\ Uses(v, j, p) => u = v
          /\ (\A u \in Tasks : ~Uses(u, j, p)) => position[j] = p + Pos(j, p)
          /\ \A u \in Tasks : Uses(u, j, p) =>
                /\ access[u].at # "gone"
                /\ access[u].at = "store" => position[j] = p + access[u].from
      BY <2>1, <3>1 DEF PInv, Settled
    <3>3. /\ \A u \in Tasks : (Uses(u, j, p)' <=> Uses(u, j, p))
          /\ \A u \in Tasks : Uses(u, j, p) => access'[u] = access[u]
      BY <2>4, <1>1, <1>3
    <3>4. Pos(j, p)' = Pos(j, p)
      BY <2>4
    <3>5. QED
      BY <2>1, <3>2, <3>3, <3>4
  <2>5. QED
    BY <2>3, <2>4
<1>10. QED
  BY <1>5, <1>6, <1>7, <1>8, <1>9 DEF PInv, Memory!AloneIsInPlace

\* An access that goes on, with its handle: r is its new record.
LEMMA GoesOnKeeps ==
    ASSUME PInv, EInv, NEW t \in Tasks, NEW r, NEW i \in Ids, NEW o \in Offsets,
           access' = [access EXCEPT ![t] = r], Busy(t),
           access[t].id = i, access[t].off = o, r.id = i, r.off = o,
           r.at \in {"seek", "file", "store"},
           UNCHANGED <<entries, disturbed>>, misplaced' \subseteq disturbed,
           \A j \in Ids \ {i} : position'[j] = position[j],
           i \notin disturbed /\ r.at \in {"file", "store"}
              => position'[i] = o + r.from
    PROVE  PInv'
<1>1. /\ access'[t] = r /\ \A u \in Tasks \ {t} : access'[u] = access[u]
  BY DEF EInv, MemoryTyped
<1>2. /\ \A j : Files(j)' = Files(j)
      /\ \A j, p : Pos(j, p)' = Pos(j, p)
  BY SameFiles
<1>3. \A u \in Tasks : \A j, p : (Uses(u, j, p)' <=> Uses(u, j, p))
  BY <1>1 DEF Uses, Busy
<1>4. Uses(t, i, o) /\ o \in Files(i)
  BY DEF Uses, Busy, PInv, Reached
<1>5. \A u \in Tasks : Busy(u) => access[u].id \in Ids
  BY BusyIs DEF Busy
<1>6. \A u \in Tasks : Busy(u)' =>
         Busy(u) /\ access'[u].id = access[u].id /\ access'[u].off = access[u].off
  BY <1>1 DEF Busy
<1>7. Reached'
  BY <1>2, <1>6 DEF PInv, Reached
<1>8. OneFile'
  BY <1>2 DEF PInv, OneFile
<1>9. OneAccess'
  <2>. SUFFICES ASSUME NEW u \in Tasks, NEW v \in Tasks, Busy(u)',
                       access'[u].id \notin disturbed',
                       Uses(v, access[u].id, access[u].off)', v # u
                PROVE  access'[v].at = "opened"
    BY DEF OneAccess
  <2>1. /\ Busy(u) /\ access'[u].id = access[u].id /\ access'[u].off = access[u].off
        /\ access[u].id \notin disturbed
    BY <1>6
  <2>2. Uses(v, access[u].id, access[u].off)
    BY <2>1, <1>3 DEF Uses
  <2>3. access[v].at = "opened"
    BY <2>1, <2>2 DEF PInv, OneAccess
  <2>4. QED
    BY <2>3, <1>1 DEF Busy
<1>10. ASSUME NEW u \in Tasks, Busy(u), access[u].id = i, i \notin disturbed
       PROVE  u = t
  <2>1. access[u].off \in Files(i)
    BY <1>10 DEF PInv, Reached
  <2>2. access[u].off = o
    BY <1>4, <1>10, <2>1 DEF PInv, OneFile
  <2>3. Uses(u, access[t].id, access[t].off)
    BY <1>10, <2>2 DEF Uses, Busy
  <2>4. u = t \/ access[u].at = "opened"
    BY <1>10, <2>3 DEF PInv, OneAccess
  <2>5. QED
    BY <1>10, <2>4 DEF Busy
<1>11. InPlace'
  <2>. SUFFICES ASSUME NEW u \in Tasks, access'[u].id \notin disturbed',
                       access'[u].at = "file"
                          \/ (access'[u].at = "wait" /\ access'[u].kind = "access")
                PROVE  position'[access'[u].id] = access'[u].off + access'[u].from
    BY DEF InPlace
  <2>1. CASE u = t
    BY <2>1, <1>1
  <2>2. CASE u # t
    <3>1. access'[u] = access[u] /\ Busy(u) /\ access[u].id \in Ids
      BY <2>2, <1>1, <1>5 DEF Busy
    <3>2. access[u].id # i
      BY <2>2, <3>1, <1>10
    <3>3. QED
      BY <3>1, <3>2 DEF PInv, InPlace
  <2>3. QED
    BY <2>1, <2>2
<1>12. Settled'
  <2>. SUFFICES ASSUME NEW j \in Ids \ disturbed, NEW p \in Files(j),
                       \A u \in Tasks : Uses(u, j, p)' => access'[u].at # "opened"
                PROVE  /\ \A u, v \in Tasks : Uses(u, j, p)' /\ Uses(v, j, p)' => u = v
                       /\ (\A u \in Tasks : ~Uses(u, j, p)')
                             => position'[j] = p + Pos(j, p)'
                       /\ \A u \in Tasks : Uses(u, j, p)' =>
                             /\ access'[u].at # "gone"
                             /\ access'[u].at = "store" => position'[j] = p + access'[u].from
    BY <1>2 DEF Settled
  <2>1. \A u \in Tasks : Uses(u, j, p) => access[u].at # "opened"
    BY <1>1, <1>3 DEF Busy
  <2>2. /\ \A u, v \in Tasks : Uses(u, j, p) /\ Uses(v, j, p) => u = v
        /\ (\A u \in Tasks : ~Uses(u, j, p)) => position[j] = p + Pos(j, p)
        /\ \A u \in Tasks : Uses(u, j, p) =>
              /\ access[u].at # "gone"
              /\ access[u].at = "store" => position[j] = p + access[u].from
    BY <2>1 DEF PInv, Settled
  <2>3. CASE j = i
    <3>1. p = o
      BY <2>3, <1>4 DEF PInv, OneFile
    <3>2. \A u \in Tasks : Uses(u, j, p) => u = t
      BY <2>2, <2>3, <3>1, <1>4
    <3>3. QED
      BY <2>3, <3>1, <3>2, <1>1, <1>3, <1>4
  <2>4. CASE j # i
    <3>1. \A u \in Tasks : Uses(u, j, p) => access'[u] = access[u]
      BY <2>4, <1>1 DEF Uses
    <3>2. position'[j] = position[j]
      BY <2>4
    <3>3. QED
      BY <2>2, <3>1, <3>2, <1>2, <1>3
  <2>5. QED
    BY <2>3, <2>4
<1>13. QED
  BY <1>7, <1>8, <1>9, <1>11, <1>12 DEF PInv, Memory!AloneIsInPlace

\* The end of the manager leaves no handle, and no access that has one.
LEMMA FinalizeKeeps == MInv /\ Memory!Finalize => MInv'
<1>. SUFFICES ASSUME MInv, Memory!Finalize PROVE MInv'
  OBVIOUS
<1>1. /\ minit' = FALSE /\ Memory!CleanUpAllMemoryInfo
      /\ access' = [t \in Tasks |-> IF access[t].at = "idle" THEN Memory!Idle
                                    ELSE [access[t] EXCEPT !.at = "gone"]]
      /\ UNCHANGED <<position, disturbed, misplaced>>
  BY DEF Memory!Finalize
<1>2. entries' = [i \in Ids |-> Memory!NoEntry]
  BY <1>1 DEF Memory!CleanUpAllMemoryInfo
<1>3. access' \in [Tasks -> {Memory!Idle} \cup Opening \cup Accessing]
  <2>. SUFFICES ASSUME NEW t \in Tasks, access[t].at # "idle"
                PROVE  [access[t] EXCEPT !.at = "gone"] \in Opening \cup Accessing
    BY <1>1
  <2>1. access[t] \in Opening \cup Accessing
    BY UserIs DEF MInv
  <2>2. CASE access[t] \in Opening
    BY <2>2 DEF Opening
  <2>3. CASE access[t] \in Accessing
    BY <2>3 DEF Accessing
  <2>4. QED
    BY <2>1, <2>2, <2>3
<1>4. MemoryTyped'
  BY <1>1, <1>2, <1>3, NoEntryIs DEF MInv, EInv, MemoryTyped
<1>5. EInv'
  BY <1>1, <1>4, CleanUpKeeps
<1>6. \A i \in Ids : Files(i)' = {}
  BY <1>2, NoEntryIs DEF Files
<1>7. \A t \in Tasks : access'[t].at \in {"idle", "gone"}
  <2>. SUFFICES ASSUME NEW t \in Tasks, access[t].at # "idle"
                PROVE  [access[t] EXCEPT !.at = "gone"].at = "gone"
    BY <1>1 DEF Memory!Idle
  <2>1. access[t] \in Opening \cup Accessing
    BY UserIs DEF MInv
  <2>2. CASE access[t] \in Opening
    BY <2>2 DEF Opening
  <2>3. CASE access[t] \in Accessing
    BY <2>3 DEF Accessing
  <2>4. QED
    BY <2>1, <2>2, <2>3
<1>8. Reached' /\ OneAccess' /\ InPlace'
  BY <1>7 DEF Reached, OneAccess, InPlace, Busy
<1>9. OneFile' /\ Settled'
  BY <1>6 DEF OneFile, Settled
<1>10. Memory!AloneIsInPlace'
  BY <1>1 DEF MInv, PInv, Memory!AloneIsInPlace
<1>11. QED
  BY <1>5, <1>8, <1>9, <1>10 DEF MInv, PInv

\* An access without its handle ends.
LEMMA WithoutHandleKeeps ==
    ASSUME MInv, NEW t \in Tasks, access' = [access EXCEPT ![t] = Memory!Idle],
           UNCHANGED <<minit, entries, position, misplaced>>,
           disturbed \subseteq disturbed',
           \A j \in Ids \ disturbed' : \A p \in Files(j) : ~Uses(t, j, p)
    PROVE  MInv'
<1>1. MemoryTyped'
  BY DEF MInv, EInv, MemoryTyped
<1>2. EInv'
  BY <1>1, NoEntryKeeps DEF MInv
<1>3. /\ \A j : Files(j)' = Files(j)
      /\ \A j, p : Pos(j, p)' = Pos(j, p)
  BY SameFiles
<1>4. misplaced' \subseteq disturbed'
  BY DEF MInv, PInv, Memory!AloneIsInPlace
<1>5. PInv'
  BY <1>3, <1>4, EndsKeeps DEF MInv
<1>6. QED
  BY <1>2, <1>5 DEF MInv

\* The seek of a Fopen begins, or its handle is gone.
LEMMA FopenSeekKeeps == ASSUME NEW t \in Tasks PROVE MInv /\ Memory!FopenSeek(t) => MInv'
<1>. SUFFICES ASSUME MInv, Memory!FopenSeek(t) PROVE MInv'
  OBVIOUS
<1>1. access[t].at = "opened"
  BY DEF Memory!FopenSeek
<1>2. PICK i \in Ids, o \in Offsets : i = access[t].id /\ o = access[t].off
  BY <1>1, UserIs DEF MInv
<1>3. CASE Memory!FileIo(t, "seek", i, o, 0, 0)
  BY <1>1, <1>2, <1>3, FileIoKeeps
<1>4. CASE /\ ~(/\ Memory!Exists(i) /\ o \in Memory!MapInfo(entries[i])
                /\ entries[i].infos[o].file)
           /\ access' = [access EXCEPT ![t] = Memory!Idle]
           /\ UNCHANGED <<minit, entries, position, disturbed, misplaced>>
  <2>1. Files(i) # {} => Memory!Exists(i)
    <3>1. Files(i) # {} => FileArea(entries[i])
      BY FilesOf DEF MInv
    <3>2. QED
      BY <3>1 DEF FileArea, Memory!Exists
  <2>2. o \notin Files(i)
    BY <1>4, <2>1 DEF Files
  <2>3. \A j \in Ids : \A p \in Files(j) : ~Uses(t, j, p)
    BY <1>2, <2>2 DEF Uses
  <2>4. QED
    BY <1>4, <2>3, WithoutHandleKeeps
<1>5. QED
  BY <1>2, <1>3, <1>4 DEF Memory!FopenSeek

\* The access gets the mutex of its handle.
LEMMA EnterFileKeeps == ASSUME NEW t \in Tasks PROVE MInv /\ Memory!EnterFile(t) => MInv'
<1>. SUFFICES ASSUME MInv, Memory!EnterFile(t) PROVE MInv'
  OBVIOUS
<1>. DEFINE to == IF access[t].kind = "access" THEN "file" ELSE "seek"
            r == [access[t] EXCEPT !.at = to]
<1>1. /\ access[t].at = "wait"
      /\ access' = [access EXCEPT ![t] = r]
      /\ UNCHANGED <<minit, entries, position, disturbed, misplaced>>
  BY DEF Memory!EnterFile
<1>2. PICK i \in Ids, o \in Offsets : i = access[t].id /\ o = access[t].off
  BY <1>1, BusyIs DEF MInv
<1>3. access[t] \in Accessing /\ access[t].from \in Nat
  BY <1>1, BusyIs DEF MInv
<1>5. i \notin disturbed /\ to = "file" => position[i] = o + access[t].from
  BY <1>1, <1>2 DEF MInv, PInv, InPlace
<1>6. to \in {"seek", "file"}
  OBVIOUS
<1>. HIDE DEF to
<1>4. /\ r \in Accessing /\ r.at = to /\ r.id = i /\ r.off = o /\ r.from = access[t].from
  BY <1>2, <1>3, <1>6 DEF Accessing
<1>. HIDE DEF r
<1>7. MemoryTyped'
  BY <1>1, <1>4 DEF MInv, EInv, MemoryTyped
<1>8. EInv'
  BY <1>1, <1>7, NoEntryKeeps DEF MInv
<1>9. misplaced' \subseteq disturbed /\ Busy(t)
  BY <1>1 DEF MInv, PInv, Memory!AloneIsInPlace, Busy
<1>10. PInv'
  BY <1>1, <1>2, <1>4, <1>5, <1>6, <1>9, GoesOnKeeps DEF MInv
<1>11. QED
  BY <1>8, <1>10 DEF MInv

\* An access that fails: its allocation is disturbed.
LEMMA FailedKeeps ==
    ASSUME MInv, NEW t \in Tasks, Busy(t), access' = [access EXCEPT ![t] = Memory!Idle],
           UNCHANGED <<minit, entries>>, position' \in [Ids -> Nat],
           \A j \in Ids \ {access[t].id} : position'[j] = position[j],
           disturbed' = disturbed \cup {access[t].id},
           misplaced' \subseteq misplaced \cup {access[t].id}
    PROVE  MInv'
<1>1. MemoryTyped'
  BY DEF MInv, EInv, MemoryTyped
<1>2. EInv'
  BY <1>1, NoEntryKeeps DEF MInv
<1>3. /\ \A j : Files(j)' = Files(j)
      /\ \A j, p : Pos(j, p)' = Pos(j, p)
  BY SameFiles
<1>4. misplaced' \subseteq disturbed'
  BY DEF MInv, PInv, Memory!AloneIsInPlace
<1>5. \A j \in Ids \ disturbed' : \A p : ~Uses(t, j, p)
  BY DEF Uses
<1>6. PInv'
  BY <1>3, <1>4, <1>5, EndsKeeps DEF MInv
<1>7. QED
  BY <1>2, <1>6 DEF MInv

\* It moves the descriptor, or fails to.
LEMMA FseekExecKeeps == ASSUME NEW t \in Tasks PROVE MInv /\ Memory!FseekExec(t) => MInv'
<1>. SUFFICES ASSUME MInv, Memory!FseekExec(t) PROVE MInv'
  OBVIOUS
<1>. DEFINE at == IF access[t].kind = "seek" THEN "store" ELSE "file"
            r == [access[t] EXCEPT !.from = access[t].to, !.at = at]
<1>1. access[t].at = "seek" /\ UNCHANGED <<minit, entries, misplaced>>
  BY DEF Memory!FseekExec
<1>2. PICK i \in Ids, o \in Offsets : i = access[t].id /\ o = access[t].off
  BY <1>1, BusyIs DEF MInv
<1>3. /\ access[t] \in Accessing /\ access[t].to \in Nat /\ o \in Nat
      /\ Busy(t)
  BY <1>1, <1>2, BusyIs DEF MInv, Busy
<1>4. CASE /\ position' = [position EXCEPT ![i] = o + access[t].to]
           /\ access' = [access EXCEPT ![t].from = access[t].to, ![t].at = at]
           /\ UNCHANGED disturbed
  <2>2. at \in {"store", "file"}
    OBVIOUS
  <2>3. access' = [access EXCEPT ![t] = r]
    BY <1>4 DEF MInv, EInv, MemoryTyped
  <2>. HIDE DEF at
  <2>1. /\ r \in Accessing /\ r.at = at /\ r.id = i /\ r.off = o
        /\ r.from = access[t].to
    BY <1>2, <1>3, <2>2 DEF Accessing
  <2>. HIDE DEF r
  <2>4. /\ position' \in [Ids -> Nat] /\ position'[i] = o + access[t].to
        /\ \A j \in Ids \ {i} : position'[j] = position[j]
    BY <1>3, <1>4 DEF MInv, EInv, MemoryTyped
  <2>5. MemoryTyped'
    BY <1>1, <2>1, <2>3, <2>4 DEF MInv, EInv, MemoryTyped
  <2>6. EInv'
    BY <1>1, <2>5, NoEntryKeeps DEF MInv
  <2>7. misplaced' \subseteq disturbed
    BY <1>1 DEF MInv, PInv, Memory!AloneIsInPlace
  <2>8. PInv'
    BY <1>1, <1>2, <1>3, <1>4, <2>1, <2>2, <2>3, <2>4, <2>7, GoesOnKeeps DEF MInv
  <2>9. QED
    BY <2>6, <2>8 DEF MInv
<1>5. CASE /\ access' = [access EXCEPT ![t] = Memory!Idle] /\ UNCHANGED position
           /\ disturbed' = disturbed \cup {i}
  <2>1. position' \in [Ids -> Nat]
    BY <1>5 DEF MInv, EInv, MemoryTyped
  <2>2. QED
    BY <1>1, <1>2, <1>3, <1>5, <2>1, FailedKeeps
<1>6. QED
  BY <1>2, <1>4, <1>5 DEF Memory!FseekExec

\* It writes or reads, or fails to.
LEMMA AccessExecKeeps == ASSUME NEW t \in Tasks PROVE MInv /\ Memory!AccessExec(t) => MInv'
<1>. SUFFICES ASSUME MInv, Memory!AccessExec(t) PROVE MInv'
  OBVIOUS
<1>. DEFINE n == access[t].from + access[t].size
            s == [access[t] EXCEPT !.from = n, !.at = "store"]
<1>1. access[t].at = "file" /\ UNCHANGED <<minit, entries>>
  BY DEF Memory!AccessExec
<1>2. PICK i \in Ids, o \in Offsets : i = access[t].id /\ o = access[t].off
  BY <1>1, BusyIs DEF MInv
<1>3. /\ access[t] \in Accessing /\ access[t].from \in Nat /\ access[t].size \in Nat /\ o \in Nat
      /\ Busy(t)
  BY <1>1, <1>2, BusyIs DEF MInv, Busy
<1>. DEFINE inside == position[i] + access[t].size <= AreaSize
<1>4. /\ misplaced' = IF position[i] # o + access[t].from THEN misplaced \cup {i} ELSE misplaced
      /\ position' = [position EXCEPT ![i] = IF inside THEN @ + access[t].size ELSE @]
  BY <1>2 DEF Memory!AccessExec
<1>5. position[i] \in Nat /\ position \in [Ids -> Nat]
  BY DEF MInv, EInv, MemoryTyped
<1>6. /\ position' \in [Ids -> Nat]
      /\ position'[i] = IF inside THEN position[i] + access[t].size ELSE position[i]
      /\ \A j \in Ids \ {i} : position'[j] = position[j]
  <2>1. position[i] + access[t].size \in Nat
    BY <1>3, <1>5
  <2>. DEFINE v == IF inside THEN position[i] + access[t].size ELSE position[i]
  <2>2. v \in Nat /\ position' = [position EXCEPT ![i] = v]
    BY <1>4, <1>5, <2>1
  <2>. HIDE DEF v
  <2>3. /\ position' \in [Ids -> Nat] /\ position'[i] = v
        /\ \A j \in Ids \ {i} : position'[j] = position[j]
    BY <1>5, <2>2
  <2>4. QED
    BY <2>3 DEF v
<1>7. i \notin disturbed => position[i] = o + access[t].from
  BY <1>1, <1>2 DEF MInv, PInv, InPlace
<1>8. CASE /\ inside
           /\ access' = [access EXCEPT ![t].at = "store", ![t].from = @ + access[t].size]
           /\ UNCHANGED disturbed
  <2>1. n \in Nat
    BY <1>3
  <2>3. access' = [access EXCEPT ![t] = s]
    BY <1>3, <1>8 DEF Accessing, MInv, EInv, MemoryTyped
  <2>7. i \notin disturbed => position'[i] = o + n
    BY <1>3, <1>5, <1>6, <1>7, <1>8
  <2>. HIDE DEF n
  <2>2. s \in Accessing /\ s.at = "store" /\ s.id = i /\ s.off = o /\ s.from = n
    BY <1>2, <1>3, <2>1 DEF Accessing
  <2>. HIDE DEF s
  <2>4. MemoryTyped'
    BY <1>1, <1>6, <2>2, <2>3 DEF MInv, EInv, MemoryTyped
  <2>5. EInv'
    BY <1>1, <2>4, NoEntryKeeps DEF MInv
  <2>6. misplaced' \subseteq disturbed
    BY <1>4, <1>7 DEF MInv, PInv, Memory!AloneIsInPlace
  <2>8. /\ PInv /\ EInv /\ Busy(t) /\ access[t].id = i /\ access[t].off = o
        /\ s.id = i /\ s.off = o /\ s.at \in {"seek", "file", "store"}
        /\ UNCHANGED <<entries, disturbed>>
        /\ \A j \in Ids \ {i} : position'[j] = position[j]
        /\ i \notin disturbed /\ s.at \in {"file", "store"} => position'[i] = o + s.from
    BY <1>1, <1>2, <1>3, <1>6, <1>8, <2>2, <2>7 DEF MInv
  <2>. HIDE DEF inside
  <2>9. PInv'
    BY <2>3, <2>6, <2>8, GoesOnKeeps
  <2>10. QED
    BY <2>5, <2>9 DEF MInv
<1>9. CASE /\ access' = [access EXCEPT ![t] = Memory!Idle]
           /\ disturbed' = disturbed \cup {i}
  <2>1. misplaced' \subseteq misplaced \cup {i}
    BY <1>4
  <2>2. QED
    BY <1>1, <1>2, <1>3, <1>6, <1>9, <2>1, FailedKeeps
<1>10. QED
  BY <1>2, <1>8, <1>9 DEF Memory!AccessExec

\* The position of a file, as the access that used it leaves it.
LEMMA StoredKeeps ==
    ASSUME MInv, NEW t \in Tasks, access[t].at = "store",
           access[t].off \in Files(access[t].id), Memory!Store(t)
    PROVE  MInv'
<1>1. PICK i \in Ids, o \in Offsets : i = access[t].id /\ o = access[t].off
  BY BusyIs DEF MInv
<1>2. PICK v \in Nat : v = access[t].from
  BY BusyIs DEF MInv
<1>. DEFINE d == entries[i]
            info == [d.infos[o] EXCEPT !.pos = v]
            f == [d EXCEPT !.infos = [@ EXCEPT ![o] = info]]
<1>3. o \in Memory!MapInfo(d) /\ d.infos[o].file /\ o \in Files(i)
  BY <1>1 DEF Files
<1>4. /\ access' = [access EXCEPT ![t] = Memory!Idle]
      /\ entries' = [entries EXCEPT ![i].infos[o].pos = v]
      /\ UNCHANGED <<minit, position, disturbed, misplaced>>
  BY <1>1, <1>2, <1>3 DEF Memory!Store
<1>5. d \in Entries /\ EntryIsSound(d) /\ FileArea(d) /\ d.area # "none" /\ minit
  BY <1>3, EntryOf, FilesOf DEF MInv, FileArea, Memory!Exists
<1>6. d.infos[o] \in Infos
  BY <1>3, <1>5, EntryFields DEF Memory!MapInfo
<1>7. info \in Infos /\ info.file /\ info.pos = v
  BY <1>3, <1>6, FileInfoIs
<1>8. entries' = [entries EXCEPT ![i] = f]
  BY <1>4, <1>5 DEF MInv, EInv, MemoryTyped
<1>. HIDE DEF info
<1>9. /\ f \in Entries /\ f.area = d.area /\ f.mapped = d.mapped /\ f.fd = d.fd
      /\ f.count = d.count
      /\ Memory!MapInfo(f) = Memory!MapInfo(d) /\ f.infos[o] = info
      /\ \A p \in Memory!MapInfo(d) : p # o => f.infos[p] = d.infos[p]
  BY <1>3, <1>5, <1>7, InfoSetIs
<1>. HIDE DEF f
<1>10. EntryIsSound(f)
  BY <1>3, <1>5, <1>7, <1>9 DEF EntryIsSound, FileArea
<1>11. MemoryTyped'
  BY <1>4, <1>8, <1>9 DEF MInv, EInv, MemoryTyped
<1>12. EInv'
  BY <1>4, <1>5, <1>8, <1>9, <1>10, <1>11, OneEntryKeeps DEF MInv
<1>13. /\ \A j \in Ids \ {i} : Files(j)' = Files(j) /\ \A p : Pos(j, p)' = Pos(j, p)
       /\ Files(i)' = {p \in Memory!MapInfo(f) : f.infos[p].file}
       /\ \A p : Pos(i, p)' = f.infos[p].pos
  BY <1>8, FilesAfter DEF MInv
<1>14. /\ \A j \in Ids : Files(j)' = Files(j)
       /\ Pos(i, o)' = v
       /\ \A p \in Files(i) : p # o => Pos(i, p)' = Pos(i, p)
  BY <1>3, <1>7, <1>9, <1>13 DEF Files, Pos
<1>15. Uses(t, i, o) /\ \A j, p : Uses(t, j, p) => j = i /\ p = o
  BY <1>1 DEF Uses
<1>16. /\ i \notin disturbed
       /\ \A u \in Tasks \ {t} : Uses(u, i, o) => access[u].at # "opened"
       => /\ \A u \in Tasks \ {t} : ~Uses(u, i, o)
          /\ position[i] = o + v
  <2>. SUFFICES ASSUME i \notin disturbed,
                       \A u \in Tasks \ {t} : Uses(u, i, o) => access[u].at # "opened"
                PROVE  /\ \A u \in Tasks \ {t} : ~Uses(u, i, o)
                       /\ position[i] = o + v
    OBVIOUS
  <2>1. \A u \in Tasks : Uses(u, i, o) => access[u].at # "opened"
    OBVIOUS
  <2>2. /\ \A u, w \in Tasks : Uses(u, i, o) /\ Uses(w, i, o) => u = w
        /\ \A u \in Tasks : Uses(u, i, o) /\ access[u].at = "store"
              => position[i] = o + access[u].from
    BY <1>3, <2>1 DEF MInv, PInv, Settled
  <2>3. QED
    BY <1>2, <1>15, <2>2
<1>17. misplaced' \subseteq disturbed'
  BY <1>4 DEF MInv, PInv, Memory!AloneIsInPlace
<1>18. \A j \in Ids : \A p \in Files(j) : ~Uses(t, j, p) => Pos(j, p)' = Pos(j, p)
  BY <1>13, <1>14, <1>15
<1>20. \A j \in Ids \ disturbed' : \A p \in Files(j) :
          /\ Uses(t, j, p)
          /\ \A u \in Tasks \ {t} : Uses(u, j, p) => access[u].at # "opened"
          => /\ \A u \in Tasks \ {t} : ~Uses(u, j, p)
             /\ position[j] = p + Pos(j, p)'
  <2>. SUFFICES ASSUME NEW j \in Ids \ disturbed', NEW p \in Files(j), Uses(t, j, p),
                       \A u \in Tasks \ {t} : Uses(u, j, p) => access[u].at # "opened"
                PROVE  /\ \A u \in Tasks \ {t} : ~Uses(u, j, p)
                       /\ position[j] = p + Pos(j, p)'
    OBVIOUS
  <2>1. j = i /\ p = o
    BY <1>15
  <2>2. QED
    BY <2>1, <1>4, <1>14, <1>16
<1>21. \A j \in Ids \ disturbed' : \A p \in Files(j) :
          /\ Uses(t, j, p)
          /\ \A u \in Tasks \ {t} : ~Uses(u, j, p)
          => position[j] = p + Pos(j, p)'
  BY <1>20
<1>22. PInv'
  BY <1>4, <1>14, <1>17, <1>18, <1>20, <1>21, EndsKeeps DEF MInv
<1>19. QED
  BY <1>12, <1>22 DEF MInv

\* It stores its position, if its handle is still there.
LEMMA StoreKeeps == ASSUME NEW t \in Tasks PROVE MInv /\ Memory!Store(t) => MInv'
<1>. SUFFICES ASSUME MInv, Memory!Store(t) PROVE MInv'
  OBVIOUS
<1>1. access[t].at \in {"store", "gone"} /\ access' = [access EXCEPT ![t] = Memory!Idle]
      /\ UNCHANGED <<minit, position, disturbed, misplaced>>
  BY DEF Memory!Store
<1>2. PICK i \in Ids, o \in Offsets : i = access[t].id /\ o = access[t].off
  BY <1>1, UserIs DEF MInv
<1>3. CASE access[t].at = "store" /\ o \in Files(i)
  BY <1>2, <1>3, StoredKeeps
<1>4. CASE access[t].at = "store" /\ o \notin Files(i)
  <2>1. entries' = entries
    BY <1>2, <1>4 DEF Memory!Store, Files
  <2>2. \A j \in Ids : \A p \in Files(j) : ~Uses(t, j, p)
    BY <1>2, <1>4 DEF Uses
  <2>3. QED
    BY <1>1, <2>1, <2>2, WithoutHandleKeeps
<1>5. CASE access[t].at = "gone"
  <2>1. entries' = entries
    BY <1>5 DEF Memory!Store
  <2>2. MemoryTyped'
    BY <1>1, <2>1 DEF MInv, EInv, MemoryTyped
  <2>3. EInv'
    BY <1>1, <2>1, <2>2, NoEntryKeeps DEF MInv
  <2>4. /\ \A j : Files(j)' = Files(j)
        /\ \A j, p : Pos(j, p)' = Pos(j, p)
    BY <2>1, SameFiles
  <2>5. ASSUME NEW j \in Ids \ disturbed, NEW p \in Files(j), Uses(t, j, p),
               \A u \in Tasks \ {t} : Uses(u, j, p) => access[u].at # "opened"
        PROVE  FALSE
    <3>1. \A u \in Tasks : Uses(u, j, p) => access[u].at # "opened"
      BY <1>5, <2>5
    <3>2. access[t].at # "gone"
      BY <2>5, <3>1 DEF MInv, PInv, Settled
    <3>3. QED
      BY <1>5, <3>2
  <2>6. misplaced' \subseteq disturbed'
    BY <1>1 DEF MInv, PInv, Memory!AloneIsInPlace
  <2>7. PInv'
    BY <1>1, <2>4, <2>5, <2>6, EndsKeeps DEF MInv
  <2>8. QED
    BY <2>3, <2>7 DEF MInv
<1>6. QED
  BY <1>1, <1>3, <1>4, <1>5

----------------------------------------------------------------------------
(* The invariant, and what follows from it. *)

LEMMA MemoryInit == BothInit => MInv
<1>. SUFFICES ASSUME BothInit PROVE MInv
  OBVIOUS
<1>1. /\ minit = FALSE
      /\ entries = [i \in Ids |-> Memory!NoEntry]
      /\ access = [t \in Tasks |-> Memory!Idle]
      /\ position = [i \in Ids |-> 0]
      /\ disturbed = {} /\ misplaced = {}
  BY DEF BothInit, Memory!Init
<1>2. MemoryTyped
  BY <1>1, NoEntryIs DEF MemoryTyped
<1>3. ListIsSound
  BY <1>1, NoEntryIs, NoEntryIsSound DEF ListIsSound, Memory!Exists
<1>4. \A t \in Tasks : access[t].at = "idle"
  BY <1>1 DEF Memory!Idle
<1>5. \A i \in Ids : Files(i) = {}
  BY <1>1, NoEntryIs DEF Files
<1>6. Reached /\ OneAccess /\ InPlace
  BY <1>4 DEF Reached, OneAccess, InPlace, Busy
<1>7. OneFile /\ Settled
  BY <1>5 DEF OneFile, Settled
<1>8. QED
  BY <1>1, <1>2, <1>3, <1>6, <1>7 DEF MInv, EInv, PInv, Memory!AloneIsInPlace

\* The steps of the Firmware Manager, and none.
LEMMA MemoryStill == MInv /\ UNCHANGED memoryVars => MInv'
<1>. SUFFICES ASSUME MInv, UNCHANGED memoryVars PROVE MInv'
  OBVIOUS
<1>1. UNCHANGED <<minit, entries, access, position, disturbed, misplaced>>
  BY DEF memoryVars
<1>2. MemoryTyped'
  BY <1>1 DEF MInv, EInv, MemoryTyped
<1>3. EInv'
  BY <1>1, <1>2, NoEntryKeeps DEF MInv
<1>4. PInv'
  BY <1>1, SameFiles, FilesUntouched DEF MInv, PInv, Memory!AloneIsInPlace
<1>5. QED
  BY <1>3, <1>4 DEF MInv

\* The steps of the Memory Manager.
LEMMA MemoryNext == MInv /\ Memory!Next => MInv'
<1>. SUFFICES ASSUME MInv, Memory!Next PROVE MInv'
  OBVIOUS
<1>1. CASE Memory!Initialize
  BY <1>1, InitializeKeeps
<1>2. CASE Memory!Finalize
  BY <1>2, FinalizeKeeps
<1>3. CASE \E a \in {"LargeHeap", "Dma"} : Memory!Allocate(a)
  BY <1>3, AllocateKeeps
<1>4. CASE \E i \in Ids : Memory!Free(i)
  BY <1>4, FreeKeeps
<1>5. CASE \E i \in Ids, o \in Offsets :
              Memory!Map(i, o) \/ Memory!Unmap(i, o) \/ Memory!Fclose(i, o)
  BY <1>5, MapKeeps, UnmapKeeps, FcloseKeeps
<1>6. CASE \E i \in Ids, o \in Offsets, t \in Tasks : Memory!Fopen(t, i, o)
  BY <1>6, FopenKeeps
<1>7. CASE \E i \in Ids, o \in Offsets, t \in Tasks, to \in Positions : Memory!Fseek(t, i, o, to)
  <2>1. PICK i \in Ids, o \in Offsets, t \in Tasks, to \in Positions : Memory!Fseek(t, i, o, to)
    BY <1>7
  <2>2. Memory!FileIo(t, "seek", i, o, to, 0) /\ access[t].at = "idle"
    BY <2>1 DEF Memory!Fseek, Memory!FileIoFseek, Memory!Calls, Memory!Idle
  <2>3. to \in Nat
    BY MemoryAssumption
  <2>4. QED
    BY <2>2, <2>3, FileIoKeeps
<1>8. CASE \E i \in Ids, o \in Offsets, t \in Tasks, size \in Sizes :
              Memory!Fwrite(t, i, o, size) \/ Memory!Fread(t, i, o, size)
  <2>1. PICK i \in Ids, o \in Offsets, t \in Tasks, size \in Sizes :
           Memory!Fwrite(t, i, o, size) \/ Memory!Fread(t, i, o, size)
    BY <1>8
  <2>2. Memory!FileIo(t, "access", i, o, 0, size) /\ access[t].at = "idle"
    BY <2>1 DEF Memory!Fwrite, Memory!Fread, Memory!FwriteFread, Memory!Calls, Memory!Idle
  <2>3. size \in Nat
    BY MemoryAssumption
  <2>4. QED
    BY <2>2, <2>3, FileIoKeeps
<1>9. CASE \E i \in Ids, o \in Offsets, t \in Tasks, size \in Sizes, to \in Positions :
              Memory!Fpwrite(t, i, o, to, size) \/ Memory!Fpread(t, i, o, to, size)
  <2>1. PICK i \in Ids, o \in Offsets, t \in Tasks, size \in Sizes, to \in Positions :
           Memory!Fpwrite(t, i, o, to, size) \/ Memory!Fpread(t, i, o, to, size)
    BY <1>9
  <2>2. Memory!FileIo(t, "paccess", i, o, to, size) /\ access[t].at = "idle"
    BY <2>1 DEF Memory!Fpwrite, Memory!Fpread, Memory!PwritePread, Memory!Calls, Memory!Idle
  <2>3. size \in Nat /\ to \in Nat
    BY MemoryAssumption
  <2>4. QED
    BY <2>2, <2>3, FileIoKeeps
<1>10. CASE \E t \in Tasks : Memory!FopenSeek(t) \/ Memory!EnterFile(t)
  BY <1>10, FopenSeekKeeps, EnterFileKeeps
<1>11. CASE \E t \in Tasks : Memory!FseekExec(t) \/ Memory!AccessExec(t) \/ Memory!Store(t)
  BY <1>11, FseekExecKeeps, AccessExecKeeps, StoreKeeps
<1>12. QED
  BY <1>1, <1>2, <1>3, <1>4, <1>5, <1>6, <1>7, <1>8, <1>9, <1>10, <1>11 DEF Memory!Next

LEMMA MemoryStep == MInv /\ [BothNext]_<<focus, vars, memoryVars>> => MInv'
<1>. SUFFICES ASSUME MInv, [BothNext]_<<focus, vars, memoryVars>> PROVE MInv'
  OBVIOUS
<1>1. CASE BothNext
  BY <1>1, MemoryNext, MemoryStill DEF BothNext
<1>2. CASE UNCHANGED <<focus, vars, memoryVars>>
  BY <1>2, MemoryStill
<1>3. QED
  BY <1>1, <1>2

\* A handle used alone, opened, sought, written and closed in whatever order,
\* is where it was left (AloneIsInPlace of the run; memory_manager.c).
THEOREM SpecAloneIsInPlace == BothSpec => []AloneIsInPlace
<1>1. MInv => AloneIsInPlace
  BY DEF MInv, PInv, AloneIsInPlace
<1>2. QED
  BY <1>1, MemoryInit, MemoryStep, PTL DEF BothSpec

\* A step of the manager that takes an allocation away, but for its end, finds
\* it unused.
LEMMA FreedStep ==
    ASSUME MInv, Memory!Next, minit', NEW i \in Ids, Memory!Exists(i), ~Memory!Exists(i)'
    PROVE  Memory!MapInfo(entries[i]) = {} /\ ~entries[i].fd
<1>1. minit
  BY EntryOf DEF MInv
<1>2. ~Memory!Initialize /\ ~Memory!Finalize
  BY <1>1 DEF Memory!Initialize, Memory!Finalize
<1>3. entries \in [Ids -> Entries]
  BY DEF MInv, EInv, MemoryTyped
<1>. DEFINE Keeps == \A j \in Ids : entries[j].area # "none" => entries'[j].area # "none"
<1>4. ~Keeps
  BY DEF Memory!Exists
<1>5. ASSUME NEW j \in Ids, NEW f, f.area = entries[j].area, entries' = [entries EXCEPT ![j] = f]
      PROVE  Keeps
  BY <1>3, <1>5
<1>. HIDE DEF Keeps
<1>6. entries' # entries
  BY DEF Memory!Exists
<1>7. ~(\E a \in {"LargeHeap", "Dma"} : Memory!Allocate(a))
  <2>. SUFFICES ASSUME NEW a \in {"LargeHeap", "Dma"}, Memory!Allocate(a) PROVE FALSE
    OBVIOUS
  <2>1. PICK j \in Ids : entries' = [entries EXCEPT ![j] = [Memory!NoEntry EXCEPT !.area = a]]
    BY DEF Memory!Allocate
  <2>2. QED
    BY <1>3, <2>1 DEF Memory!Exists, Memory!NoEntry
<1>8. ASSUME NEW j \in Ids, NEW o \in Offsets,
             Memory!Map(j, o) \/ Memory!Unmap(j, o) \/ Memory!Fclose(j, o)
                \/ \E t \in Tasks : Memory!Fopen(t, j, o)
      PROVE  FALSE
  <2>1. CASE Memory!Map(j, o)
    <3>. DEFINE e == [entries[j] EXCEPT !.mapped = TRUE]
                g == Memory!WithInfo(e, o, [file |-> FALSE])
                h == Memory!Counted(g, e.count + 1)
    <3>1. \/ entries' = [entries EXCEPT ![j] = e]
          \/ entries' = [entries EXCEPT ![j] = h]
      BY <2>1 DEF Memory!Map
    <3>2. e.area = entries[j].area /\ g.area = entries[j].area /\ h.area = entries[j].area
      BY <1>3 DEF Memory!WithInfo, Memory!Counted, Entries
    <3>3. QED
      BY <1>4, <1>5, <3>1, <3>2
  <2>2. CASE Memory!Unmap(j, o)
    <3>1. PICK n : entries' = [entries EXCEPT ![j] =
                      Memory!UnmapMemory(Memory!WithoutInfo(Memory!Counted(entries[j], n), o))]
      BY <1>3, <2>2 DEF Memory!Unmap
    <3>2. Memory!UnmapMemory(Memory!WithoutInfo(Memory!Counted(entries[j], n), o)).area
             = entries[j].area
      BY <1>3 DEF Memory!UnmapMemory, Memory!WithoutInfo, Memory!Counted, Entries
    <3>3. QED
      BY <1>4, <1>5, <3>1, <3>2
  <2>3. CASE Memory!Fclose(j, o)
    <3>. DEFINE e == Memory!Counted(Memory!WithoutInfo(entries[j], o), entries[j].count - 1)
                f == [e EXCEPT !.fd = e.count # 0]
                g == [entries[j] EXCEPT !.infos[o].opens = @ - 1]
    <3>1. \/ entries' = [entries EXCEPT ![j] = g]
          \/ entries' = [entries EXCEPT ![j] = f]
          \/ entries' = [entries EXCEPT ![j] = e]
      BY <1>3, <2>3 DEF Memory!Fclose
    <3>2. e.area = entries[j].area /\ f.area = entries[j].area /\ g.area = entries[j].area
      BY <1>3 DEF Memory!WithoutInfo, Memory!Counted, Entries
    <3>3. QED
      BY <1>4, <1>5, <3>1, <3>2
  <2>4. CASE \E t \in Tasks : Memory!Fopen(t, j, o)
    <3>. DEFINE e == [entries[j] EXCEPT !.fd = TRUE]
                f == Memory!Counted(Memory!WithInfo(e, o, [file |-> TRUE, opens |-> 1, pos |-> 0]),
                                    e.count + 1)
                g == [entries[j] EXCEPT !.infos[o].opens = @ + 1]
    <3>1. \/ entries' = [entries EXCEPT ![j] = g]
          \/ entries' = [entries EXCEPT ![j] = f]
          \/ entries' = [entries EXCEPT ![j] = e]
      BY <1>3, <2>4 DEF Memory!Fopen
    <3>2. e.area = entries[j].area /\ f.area = entries[j].area /\ g.area = entries[j].area
      BY <1>3 DEF Memory!WithInfo, Memory!Counted, Entries
    <3>3. QED
      BY <1>4, <1>5, <3>1, <3>2
  <2>5. QED
    BY <1>8, <2>1, <2>2, <2>3, <2>4
<1>9. \A t, how, j, o, to, size : ~Memory!FileIo(t, how, j, o, to, size)
  BY <1>6 DEF Memory!FileIo
<1>14. \A t \in Tasks : /\ ~Memory!FopenSeek(t) /\ ~Memory!EnterFile(t)
                       /\ ~Memory!FseekExec(t) /\ ~Memory!AccessExec(t)
  BY <1>6, <1>9 DEF Memory!FopenSeek, Memory!EnterFile, Memory!FseekExec, Memory!AccessExec
<1>10. \A t \in Tasks, j \in Ids, o \in Offsets :
          /\ \A to \in Positions : ~Memory!Fseek(t, j, o, to)
          /\ \A size \in Sizes : ~Memory!Fwrite(t, j, o, size) /\ ~Memory!Fread(t, j, o, size)
          /\ \A size \in Sizes, to \in Positions :
                ~Memory!Fpwrite(t, j, o, to, size) /\ ~Memory!Fpread(t, j, o, to, size)
  BY <1>9 DEF Memory!Fseek, Memory!Fwrite, Memory!Fread, Memory!Fpwrite, Memory!Fpread,
              Memory!FileIoFseek, Memory!FwriteFread, Memory!PwritePread
<1>11. \A t \in Tasks : ~Memory!Store(t)
  <2>. SUFFICES ASSUME NEW t \in Tasks, Memory!Store(t) PROVE FALSE
    OBVIOUS
  <2>1. access[t].at # "idle"
    BY DEF Memory!Store
  <2>2. PICK j \in Ids : j = access[t].id
    BY <2>1, UserIs DEF MInv
  <2>. DEFINE g == [entries[j] EXCEPT !.infos[access[t].off].pos = access[t].from]
  <2>3. entries' = [entries EXCEPT ![j] = g]
    BY <1>3, <1>6, <2>2 DEF Memory!Store
  <2>4. g.area = entries[j].area
    BY <1>3 DEF Entries
  <2>5. QED
    BY <1>4, <1>5, <2>3, <2>4
<1>12. PICK j \in Ids : Memory!Free(j)
  BY <1>2, <1>7, <1>8, <1>10, <1>11, <1>14 DEF Memory!Next
<1>13. j = i /\ ~entries[i].mapped /\ ~entries[i].fd
  BY <1>3, <1>12 DEF Memory!Free, Memory!Exists
<1>15. Memory!MapInfo(entries[i]) = {}
  BY <1>13, EntryOf DEF MInv, EntryIsSound
<1>16. QED
  BY <1>13, <1>15

\* Memory goes back to the heap only when no handle maps it and no file of it
\* is open (FreedIsUnused of the run; memory_manager.c
\* EsfMemoryManagerDiscardMemoryInfo).
THEOREM SpecFreedIsUnused == BothSpec => FreedIsUnused
<1>. DEFINE Act == \A i \in Ids : Memory!Exists(i) /\ ~Memory!Exists(i)' /\ minit'
                       => Memory!MapInfo(entries[i]) = {} /\ ~entries[i].fd
<1>1. MInv /\ [BothNext]_<<focus, vars, memoryVars>> => [Act]_Memory!vars
  <2>. SUFFICES ASSUME MInv, [BothNext]_<<focus, vars, memoryVars>>,
                       ~UNCHANGED Memory!vars
                PROVE  Act
    OBVIOUS
  <2>1. Memory!Next
    BY DEF BothNext, memoryVars, Memory!vars
  <2>2. QED
    BY <2>1, FreedStep
<1>2. QED
  BY <1>1, MemoryInit, MemoryStep, PTL DEF BothSpec, FreedIsUnused, Memory!FreedIsUnused
=============================================================================
