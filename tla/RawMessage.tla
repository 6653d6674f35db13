----------------------------- MODULE RawMessage -----------------------------
(***************************************************************************)
(* Raw message buffers, MAVLinkV1MessageRaw and MAVLinkV2MessageRaw of     *)
(* mavlink-core/src/lib.rs: a frame written into a fixed buffer, which may *)
(* hold an earlier frame, and read back through accessors that compute     *)
(* every offset from the flags and the length in the buffer; and MavFrame, *)
(* the same without marker, length and flags.                              *)
(*                                                                         *)
(* A buffer is a sequence; offset k of the code is index k + 1.  Ids are   *)
(* bytes below Radix, the length and the checksum are not scaled.          *)
(***************************************************************************)
EXTENDS MavTypes

CONSTANTS
  SIGNATURE_TIMESTAMP_SIZE,
  SIGNATURE_VALUE_SIZE

ASSUME SignatureAssumption ==
  SIGNATURE_TIMESTAMP_SIZE \in 1 .. 8 /\ SIGNATURE_VALUE_SIZE \in 1 .. 8

Versions == {"V1", "V2"}
STX == [V1 |-> 254, V2 |-> 253]
STX_SIZE == 1
CHECKSUM_SIZE == 2
MIN_HEADER_SIZE == [V1 |-> 5, V2 |-> 9]
SYSID32_EXTRA_HEADER_SIZE == 3
IFLAG_SIGNED == 1
IFLAG_SYSID32 == 2
SIGNATURE_SIZE == 1 + SIGNATURE_TIMESTAMP_SIZE + SIGNATURE_VALUE_SIZE
FRAME_SIZE ==
  [V1 |-> STX_SIZE + MIN_HEADER_SIZE.V1 + MAX_PAYLOAD_LEN + CHECKSUM_SIZE,
   V2 |-> STX_SIZE + MIN_HEADER_SIZE.V2 + SYSID32_EXTRA_HEADER_SIZE + MAX_PAYLOAD_LEN
          + CHECKSUM_SIZE + SIGNATURE_SIZE]

MaxId == Radix - 1     \* u8::MAX
Buffer(version) == [1 .. FRAME_SIZE[version] -> 0 .. 255]
NewRaw(version) == Zeroes(FRAME_SIZE[version])

\* System ids of MAVLink 2 may have four bytes.
Header ==
  [sequence : 0 .. MaxId, system_id : 0 .. Power[4] - 1, component_id : 0 .. MaxId]

\* The default header; connections replace the sequence number.
DefaultHeader == [sequence |-> 0, system_id |-> MaxId, component_id |-> 0]

\* The checksum, 16 bits.
calculate_crc(data, extra_crc) == DigestAll(65535, Append(data, extra_crc))

-----------------------------------------------------------------------------
(* Accessors.                                                              *)

Cell(raw, offset) == raw[offset + 1]
Cells(raw, offset, count) == available_bytes(raw, offset, count)

\* Whether a flag, a power of two, is set.
HasFlag(flags, flag) == (flags \div flag) % 2 = 1

incompatibility_flags(raw, version) == IF version = "V1" THEN 0 ELSE Cell(raw, 2)
has_32bit_sysid(raw, version) == HasFlag(incompatibility_flags(raw, version), IFLAG_SYSID32)
is_signed(raw, version) == HasFlag(incompatibility_flags(raw, version), IFLAG_SIGNED)

header_size(raw, version) ==
  MIN_HEADER_SIZE[version]
  + (IF has_32bit_sysid(raw, version) THEN SYSID32_EXTRA_HEADER_SIZE ELSE 0)
header(raw, version) == Cells(raw, STX_SIZE, header_size(raw, version))

payload_length(raw) == Cell(raw, 1)
sequence(raw, version) == Cell(raw, IF version = "V1" THEN 2 ELSE 4)
system_id(raw, version) ==
  CASE version = "V1" -> Cell(raw, 3)
    [] version = "V2" -> FromBytes(Cells(raw, 5, IF has_32bit_sysid(raw, version) THEN 4 ELSE 1))
component_id(raw, version) ==
  CASE version = "V1" -> Cell(raw, 4)
    [] version = "V2" -> Cell(raw, IF has_32bit_sysid(raw, version) THEN 9 ELSE 6)
message_id(raw, version) ==
  CASE version = "V1" -> Cell(raw, 5)
    [] version = "V2" -> FromBytes(Cells(raw, IF has_32bit_sysid(raw, version) THEN 10 ELSE 7, 3))

payload_offset(raw, version) == STX_SIZE + header_size(raw, version)
payload(raw, version) == Cells(raw, payload_offset(raw, version), payload_length(raw))
checksum_offset(raw, version) == payload_offset(raw, version) + payload_length(raw)
checksum(raw, version) ==
  Cell(raw, checksum_offset(raw, version)) + 256 * Cell(raw, checksum_offset(raw, version) + 1)

has_valid_crc(raw, version, extra_crc) ==
  checksum(raw, version)
    = calculate_crc(Cells(raw, STX_SIZE, checksum_offset(raw, version) - STX_SIZE), extra_crc)

\* What the accessors of a buffer and its checksum test give back.
Reads(r, v, hdr, id, bytes, crc_extra) ==
  /\ message_id(r, v) = id
  /\ system_id(r, v) = hdr.system_id
  /\ component_id(r, v) = hdr.component_id
  /\ sequence(r, v) = hdr.sequence
  /\ payload(r, v) = bytes
  /\ has_valid_crc(r, v, crc_extra)

raw_bytes(raw, version) ==
  Take(raw, checksum_offset(raw, version) + CHECKSUM_SIZE
            + (IF is_signed(raw, version) THEN SIGNATURE_SIZE ELSE 0))

\* The signature block follows the checksum: link id, timestamp, value.
link_id_offset(raw) == checksum_offset(raw, "V2") + CHECKSUM_SIZE
signature_link_id(raw) == Cell(raw, link_id_offset(raw))
signature_timestamp_bytes(raw) == Cells(raw, link_id_offset(raw) + 1, SIGNATURE_TIMESTAMP_SIZE)
signature_value(raw) ==
  Cells(raw, link_id_offset(raw) + 1 + SIGNATURE_TIMESTAMP_SIZE, SIGNATURE_VALUE_SIZE)

\* The first bytes of a hash of the key and everything before the signature.
calculate_signature(raw, secret_key) ==
  ToBytes(DigestAll(secret_key,
                    <<STX.V2>> \o header(raw, "V2") \o payload(raw, "V2")
                    \o Cells(raw, checksum_offset(raw, "V2"), CHECKSUM_SIZE)
                    \o <<signature_link_id(raw)>> \o signature_timestamp_bytes(raw)),
          SIGNATURE_VALUE_SIZE)

\* What SigningData::sign_message does to the buffer: see module SignedLink
\* for the timestamps.
sign_message(raw, key, link_id, timestamp) ==
  LET stamped == Overwrite(raw, link_id_offset(raw),
                           <<link_id>> \o ToBytes(timestamp, SIGNATURE_TIMESTAMP_SIZE))
  IN  IF is_signed(raw, "V2")
      THEN Overwrite(stamped, link_id_offset(raw) + 1 + SIGNATURE_TIMESTAMP_SIZE,
                     calculate_signature(stamped, key))
      ELSE raw

-----------------------------------------------------------------------------
(* Writers.                                                                *)

\* Mutant of SetFlags: signing replaces the flag of a large system id.
SetFlagsSignedOnly(raw, hdr, signing) ==
  IF signing THEN Overwrite(raw, 2, <<IFLAG_SIGNED>>)
  ELSE IF hdr.system_id > MaxId THEN Overwrite(raw, 2, <<IFLAG_SYSID32>>) ELSE raw

\* The flags are set before the payload, whose place depends on them.  Only a
\* large system id or signing sets them: otherwise those in the buffer stay.
SetFlags(raw, hdr, signing) ==
  LET large == IF hdr.system_id > MaxId THEN IFLAG_SYSID32 ELSE 0
  IN  IF signing THEN Overwrite(raw, 2, <<large + IFLAG_SIGNED>>)
      ELSE IF large # 0 THEN Overwrite(raw, 2, <<large>>) ELSE raw

HeaderBytes(raw, version, hdr, id, length) ==
  IF version = "V1"
  THEN <<length, hdr.sequence, hdr.system_id, hdr.component_id, id>>
  ELSE <<length, incompatibility_flags(raw, version), 0, hdr.sequence>>
       \o ToBytes(hdr.system_id, IF has_32bit_sysid(raw, version) THEN 4 ELSE 1)
       \o <<hdr.component_id>> \o ToBytes(id, 3)

serialize_stx_and_header_and_crc(raw, version, hdr, id, length, extra_crc) ==
  LET headed == Overwrite(raw, 0, <<STX[version]>> \o HeaderBytes(raw, version, hdr, id, length))
      end    == STX_SIZE + header_size(headed, version) + length
      crc    == calculate_crc(Cells(headed, STX_SIZE, end - STX_SIZE), extra_crc)
  IN  Overwrite(headed, end, <<crc % 256, crc \div 256>>)

\* serialize_message and its variants.  `encoded` is what the dialect gives:
\* [error, id, payload, extra_crc].  An error leaves the flags changed.
serialize_message(raw, version, hdr, encoded, signing) ==
  LET flagged == IF version = "V1" THEN raw ELSE SetFlags(raw, hdr, signing)
      filled  == Overwrite(flagged, payload_offset(flagged, version), encoded.payload)
      result(why, buffer) == [error |-> why, raw |-> buffer]
  IN  CASE version = "V1" /\ hdr.system_id > MaxId -> result("InvalidMAVLink1SystemId", raw)
        [] ~(version = "V1" /\ hdr.system_id > MaxId) /\ encoded.error # "" ->
             result(encoded.error, flagged)
        [] ~(version = "V1" /\ hdr.system_id > MaxId) /\ encoded.error = "" ->
             IF version = "V1" /\ encoded.id > MaxId THEN result("panic", filled)
             ELSE result("", serialize_stx_and_header_and_crc(
                               filled, version, hdr, encoded.id, Len(encoded.payload),
                               encoded.extra_crc))

\* The write functions take a new buffer each time; of the MAVLink 1 ones only
\* those for compiled dialects check the message id first, and they assert that
\* the system id is a byte.
write_versioned_msg_with_dialect(version, hdr, encoded) ==
  serialize_message(NewRaw(version), version, hdr, encoded, FALSE)

write_v1_msg(hdr, encoded) ==
  IF encoded.error = "" /\ encoded.id > MaxId
  THEN [error |-> "MAVLink2Only", raw |-> NewRaw("V1")]
  ELSE IF hdr.system_id > MaxId THEN [error |-> "panic", raw |-> NewRaw("V1")]
  ELSE serialize_message(NewRaw("V1"), "V1", hdr, encoded, FALSE)

write_v2_msg(hdr, encoded) == serialize_message(NewRaw("V2"), "V2", hdr, encoded, FALSE)

write_versioned_msg(version, hdr, encoded) ==
  IF version = "V1" THEN write_v1_msg(hdr, encoded) ELSE write_v2_msg(hdr, encoded)

write_versioned_msg_with_dialect_signed(version, hdr, encoded, key, link_id, timestamp) ==
  LET done == serialize_message(NewRaw(version), version, hdr, encoded, TRUE)
  IN  IF version = "V1" THEN write_versioned_msg_with_dialect(version, hdr, encoded)
      ELSE IF done.error # "" THEN done
      ELSE [done EXCEPT !.raw = sign_message(@, key, link_id, timestamp)]

\* A received frame, copied into a buffer of its own.
FromFrame(bytes, version) == Overwrite(NewRaw(version), 0, bytes)

-----------------------------------------------------------------------------
(* MavFrame: the same frame from its sequence number on.  The reader must  *)
(* be told the flags.                                                      *)

MavFrameSer(version, hdr, id, bytes) ==
  IF version = "V1" /\ (hdr.system_id > MaxId \/ id > MaxId) THEN <<>>
  ELSE <<hdr.sequence>> \o ToBytes(hdr.system_id, IF hdr.system_id > MaxId THEN 4 ELSE 1)
       \o <<hdr.component_id>> \o ToBytes(id, IF version = "V1" THEN 1 ELSE 3) \o bytes

deser_with_flags(version, flags, input) ==
  LET seq    == get_bytes(Bytes(input), 1)
      system == get_bytes(seq, IF HasFlag(flags, IFLAG_SYSID32) THEN 4 ELSE 1)
      comp   == get_bytes(system, 1)
      id     == get_bytes(comp, IF version = "V1" THEN 1 ELSE 3)
  IN  IF id.error THEN [error |-> "NotEnoughBuffer"]
      ELSE [error   |-> "",
            header  |-> [sequence |-> seq.last[1], system_id |-> FromBytes(system.last),
                         component_id |-> comp.last[1]],
            id      |-> FromBytes(id.last),
            payload |-> Drop(input, id.pos)]
=============================================================================
