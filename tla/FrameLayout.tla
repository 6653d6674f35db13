---------------------------- MODULE FrameLayout ----------------------------
(***************************************************************************)
(* The wire layout of a MAVLink frame, as mavlink-core/src/consts.rs lays  *)
(* it out and mavlink-core/src/frame_decoder.rs reads it.                  *)
(*                                                                         *)
(* A byte is a number of 0 .. MaxByte.  The sizes are parameters: the code *)
(* has MaxByte = 255, V1HeaderSize = 5, V2MinHeaderSize = 9, SysId32Extra  *)
(* = 3, ChecksumSize = 2 and SignatureSize = 13; TLC runs a scaled-down    *)
(* layout.  The fields no decision depends on (sequence, system and        *)
(* component id, compatibility flags) are the anonymous bytes of the       *)
(* header; the message id is one symbol, the header's last, and the        *)
(* checksum is one symbol, the first after the payload.                    *)
(***************************************************************************)
EXTENDS Integers

CONSTANTS
  MaxByte,           \* The largest byte value, hence the largest payload.
  MAV_STX,           \* MAVLink 1 framing marker.
  MAV_STX_V2,        \* MAVLink 2 framing marker.
  V1HeaderSize,      \* Header sizes, without the marker.
  V2MinHeaderSize,
  SysId32Extra,      \* Extra header bytes of a 32 bit system id.
  ChecksumSize,
  SignatureSize,
  NoExtraCrc,        \* What ExtraCrc gives for an unknown message id.
  ExtraCrc(_),       \* The dialect's CRC_EXTRA byte of a message id.
  CalculateCrc(_, _) \* Checksum of the bytes 1 .. k and the CRC_EXTRA byte.

STX_SIZE == 1
PAYLOAD_LEN_OFFSET == 1
INCOMPAT_FLAGS_OFFSET == 2
IFLAG_SIGNED == 1
IFLAG_SYSID32 == 2
SUPPORTED_IFLAGS == IFLAG_SIGNED + IFLAG_SYSID32

Byte == 0 .. MaxByte

\* The largest frame: signed, with a 32 bit system id and a full payload.
MAX_FRAME_SIZE ==
  STX_SIZE + V2MinHeaderSize + SysId32Extra + MaxByte + ChecksumSize + SignatureSize

ASSUME LayoutAssumption ==
  /\ MaxByte \in Nat /\ ChecksumSize \in Nat \ {0} /\ SignatureSize \in Nat
  /\ V1HeaderSize \in Nat /\ V2MinHeaderSize \in Nat /\ SysId32Extra \in Nat
  /\ 2 <= V1HeaderSize /\ V1HeaderSize <= V2MinHeaderSize /\ 3 <= V2MinHeaderSize
  /\ MAV_STX \in Byte /\ MAV_STX_V2 \in Byte /\ MAV_STX # MAV_STX_V2

Versions == {"V1", "V2"}

\* VersionFilter: one version exactly, or any.
Filters == Versions \union {"Any"}

Marker(filter) ==
  CASE filter = "V1"  -> {MAV_STX}
    [] filter = "V2"  -> {MAV_STX_V2}
    [] filter = "Any" -> {MAV_STX, MAV_STX_V2}

MarkerVersion(byte) == IF byte = MAV_STX THEN "V1" ELSE "V2"

(***************************************************************************)
(* The fields of the candidate frame that starts at index p of bytes b.    *)
(* Each is meaningful once the bytes it reads have arrived.                *)
(***************************************************************************)
HeaderPrefix(b, p) == IF MarkerVersion(b[p]) = "V1" THEN 2 ELSE 3

IncompatFlags(b, p) ==
  IF MarkerVersion(b[p]) = "V1" THEN 0 ELSE b[p + INCOMPAT_FLAGS_OFFSET]

\* flags & flag # 0, for a flag that is a power of two.
HasFlag(flags, flag) == (flags \div flag) % 2 = 1

\* flags & !SUPPORTED_IFLAGS = 0: no bit above the two supported ones.
FlagsSupported(b, p) == IncompatFlags(b, p) <= SUPPORTED_IFLAGS

IsSigned(b, p) == HasFlag(IncompatFlags(b, p), IFLAG_SIGNED)

HeaderSize(b, p) ==
  IF MarkerVersion(b[p]) = "V1" THEN V1HeaderSize
  ELSE V2MinHeaderSize
         + (IF HasFlag(IncompatFlags(b, p), IFLAG_SYSID32) THEN SysId32Extra ELSE 0)

ChecksumOffset(b, p) == STX_SIZE + HeaderSize(b, p) + b[p + PAYLOAD_LEN_OFFSET]

FrameLen(b, p) ==
  ChecksumOffset(b, p) + ChecksumSize + (IF IsSigned(b, p) THEN SignatureSize ELSE 0)

MessageId(b, p) == b[p + HeaderSize(b, p)]

\* The message id is known and the checksum covers header, payload and CRC_EXTRA.
CrcMatches(b, p) ==
  LET extra == ExtraCrc(MessageId(b, p))
      sum   == ChecksumOffset(b, p)
  IN  /\ extra # NoExtraCrc
      /\ b[p + sum] = CalculateCrc([i \in 1 .. sum - 1 |-> b[p + i]], extra)

\* Of the bytes b[0] .. b[n - 1], those from p on begin with a whole valid
\* frame that the filter accepts.
FrameAt(b, p, n, filter) ==
  /\ p < n
  /\ b[p] \in Marker(filter)
  /\ p + HeaderPrefix(b, p) <= n
  /\ FlagsSupported(b, p)
  /\ p + FrameLen(b, p) <= n
  /\ CrcMatches(b, p)
=============================================================================
