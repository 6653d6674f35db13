--------------------------- MODULE MCFrameDecoder ---------------------------
(***************************************************************************)
(* A scaled-down wire layout for FrameDecoder, and streams in which every  *)
(* kind of candidate occurs: valid frames of both versions, signed, with a *)
(* long system id, of maximal size; false markers, bad checksums, unknown  *)
(* messages, unsupported flags; frames inside frames and cut-off tails.    *)
(***************************************************************************)
EXTENDS FrameDecoder, FiniteSetsExt

MCExtraCrc(id) == IF id \in {0, 1} THEN id + 1 ELSE NoExtraCrc

\* Position-dependent, so that a swapped or shifted byte changes it.
MCCalculateCrc(bytes, extra) ==
  (extra + MapThenSumSet(LAMBDA i : i * bytes[i], DOMAIN bytes)) % (MaxByte + 1)

Stream(bytes) ==
  [len |-> Len(bytes), at |-> [i \in 0 .. Len(bytes) - 1 |-> bytes[i + 1]]]

WithCrc(marker, covered, id) ==
  <<marker>> \o covered
    \o <<MCCalculateCrc(covered, IF id \in {0, 1} THEN id + 1 ELSE 0)>>

FrameV1(id, payload) ==
  WithCrc(MAV_STX, <<Len(payload), id>> \o payload, id)

FrameV2(flags, id, payload) ==
  WithCrc(MAV_STX_V2,
          <<Len(payload), flags>>
            \o (IF HasFlag(flags, IFLAG_SYSID32) THEN <<0>> ELSE <<>>) \o <<id>> \o payload, id)
    \o (IF HasFlag(flags, IFLAG_SIGNED) THEN <<2>> ELSE <<>>)

\* The same bytes with a wrong checksum.
Corrupted(frame, k) == [frame EXCEPT ![k] = (@ + 1) % (MaxByte + 1)]

Unsupported == MaxByte     \* A flags byte with a bit that is not supported.
Unknown == 2               \* A message id the dialect does not have.

MCInputs == {
  \* Valid frames of both versions, with garbage between them.
  Stream(FrameV1(0, <<1>>) \o <<1>> \o FrameV2(1, 1, <<MAV_STX>>)),
  \* A frame of maximal size, then a small one.
  Stream(FrameV2(3, 0, <<1, 2, 1, 2>>) \o FrameV1(1, <<>>)),
  \* A frame whose checksum is wrong and whose payload holds a valid frame.
  Stream(Corrupted(FrameV2(0, 1, FrameV1(0, <<>>)), 8) \o FrameV2(1, 0, <<>>)),
  \* A valid frame whose payload is a valid frame of the other version.
  Stream(FrameV2(2, 0, FrameV1(1, <<>>)) \o FrameV1(0, <<3>>)),
  \* False markers whose length bytes claim the frames that follow them.
  Stream(<<MAV_STX_V2, MaxByte, 3>> \o FrameV1(0, <<>>) \o FrameV2(0, 1, <<>>)),
  \* Unsupported flags, an unknown message, repeated markers.
  Stream(FrameV2(Unsupported, 0, <<>>) \o FrameV1(Unknown, <<>>)
           \o <<MAV_STX_V2, MAV_STX>> \o FrameV1(1, <<>>)),
  \* A cut-off tail.
  Stream(FrameV1(0, <<>>) \o FrameV2(0, 0, <<>>) \o <<MAV_STX_V2, 1, 0, 0>>) }

\* Few and short, for liveness.
MCShortInputs == {
  Stream(FrameV1(1, <<>>) \o FrameV2(1, 0, <<>>)),
  Stream(<<MAV_STX_V2, MAV_STX>> \o FrameV2(0, 1, <<>>)),
  Stream(Corrupted(FrameV2(0, 1, FrameV1(0, <<>>)), 8)) }
=============================================================================
