--------------------------- MODULE FirmwareImage ---------------------------
(***************************************************************************)
(* The header of a processor firmware image, as EsfFwMgrProcessor-         *)
(* LoadBinaryHeader collects it write by write.                            *)
(*                                                                         *)
(* An image is a sequence of pieces, one for each Write.  A header is two  *)
(* pieces long: "head", which begins with the magic number, and a rest     *)
(* that says what the header holds.  Any other first piece has no magic    *)
(* number: the image has no header.  A piece is at least as long as the    *)
(* magic number, which the API's documentation demands of the first Write. *)
(***************************************************************************)
EXTENDS Integers, Sequences

Junk == "junk"          \* memory nobody wrote
Rests == {"v1", "v2", "oldarch", "oldheader"}
Pieces == {"head", "body", Junk} \cup Rests

HeaderSize == 2
HasHeader(w) == Len(w) >= HeaderSize /\ w[1] = "head" /\ w[2] \in Rests

\* What of an image belongs on the device: the header is not written.
Payload(w) == IF HasHeader(w) THEN SubSeq(w, HeaderSize + 1, Len(w)) ELSE w

----------------------------------------------------------------------------
\* EsfFwMgrProcessorBinaryHeaderLoadInfo with the header_info it fills.
\* "magic" in loaded stands for a magic number read without the rest of its
\* piece.
NoHeader == [loaded |-> <<>>, completed |-> FALSE, size |-> 0, arch |-> "unknown"]
Headers == [loaded : Seq(Pieces \cup {"magic"}), completed : BOOLEAN,
            size : 0..HeaderSize, arch : {"unknown", "v1", "v2"}]

Completed(size, arch) ==
    [loaded |-> <<>>, completed |-> TRUE, size |-> size, arch |-> arch]

\* Enough bytes for a header: its hash is verified.  Only the first entry can
\* be a magic number alone.
Full(loaded) ==
    Len(loaded) >= IF loaded # <<>> /\ loaded[1] = "magic" THEN HeaderSize + 1
                   ELSE HeaderSize

\* LoadBinaryHeader with piece p, every access to the buffer succeeding: the
\* pairs of a result and a header state it may end with.  A header of an
\* unknown version leaves header_info as malloc returned it, completed all
\* the same.
Loads(h, p) ==
    LET l == IF Full(h.loaded) THEN h.loaded ELSE Append(h.loaded, p)
        loading == [h EXCEPT !.loaded = l]
    IN  IF h.loaded = <<>> /\ p # "head" THEN {<<"Ok", Completed(0, "unknown")>>}
        ELSE IF ~Full(l) THEN {<<"Ok", loading>>}
        ELSE CASE l \in {<<"head", "v1">>, <<"head", "v2">>} ->
                    {<<"Ok", Completed(HeaderSize, l[2])>>}
               [] l = <<"head", "oldarch">> ->
                    {<<"Error", Completed(HeaderSize, "unknown")>>}
               [] l = <<"head", "oldheader">> ->
                    {<<"Error", Completed(size, arch)>> :
                        size \in 0..HeaderSize, arch \in {"unknown", "v1", "v2"}}
               [] OTHER -> {<<"Error", loading>>}   \* the hash does not match

\* The rest of the piece could not be read behind the magic number.
MagicOnly(h, p) == IF h.loaded = <<>> /\ p = "head"
                   THEN [h EXCEPT !.loaded = <<"magic">>] ELSE h
=============================================================================
