------------------------------ MODULE MavTypes ------------------------------
(***************************************************************************)
(* The field types of a message definition, their sizes and integer        *)
(* conversions, and the cursors that read and write payload bytes:         *)
(* mavlink-bindgen/src/parser.rs (MavType), mavlink/src/dialects/          *)
(* dynamic_parser.rs, mavlink-core/src/bytes.rs, bytes_mut.rs, utils.rs    *)
(* and types.rs.                                                           *)
(*                                                                         *)
(* A byte is a number below Radix (256 in the code); a value of w bytes is *)
(* a number below Power[w], a signed one in two's complement.  A type is   *)
(* [base, length]: a scalar has NoLength, "char" with a length is a        *)
(* CharArray; an array may have no elements.                               *)
(***************************************************************************)
EXTENDS Integers, SequencesExt

CONSTANTS
  Radix,             \* Values of a byte.
  MAX_PAYLOAD_LEN    \* 255 in the code.

ASSUME RadixAssumption == Radix \in 4 .. 256 /\ Radix % 2 = 0
ASSUME PayloadAssumption == MAX_PAYLOAD_LEN \in 1 .. 255

\* The values of so many bytes; no integer has more than eight.
Power[width \in 0 .. 8] == IF width = 0 THEN 1 ELSE Radix * Power[width - 1]

\* One byte of the 16 bit checksum of the crc_any library, and all of a sequence.
Digest(crc, byte) == (crc * 33 + byte + 1) % 65521
DigestAll(start, data) ==
  LET crc[n \in 0 .. Len(data)] == IF n = 0 THEN start ELSE Digest(crc[n - 1], data[n])
  IN  crc[Len(data)]

\* The operators &, | and ^ of unsigned integers, bit by bit.
BitByBit(x, y, op(_, _)) ==
  LET of[p \in Nat \X Nat] ==
        IF p = <<0, 0>> THEN 0
        ELSE op(p[1] % 2, p[2] % 2) + 2 * of[<<p[1] \div 2, p[2] \div 2>>]
  IN  of[<<x, y>>]
BitAnd(x, y) == BitByBit(x, y, LAMBDA a, b : a * b)
BitOr(x, y)  == BitByBit(x, y, LAMBDA a, b : a + b - a * b)
BitXor(x, y) == BitByBit(x, y, LAMBDA a, b : (a + b) % 2)

NoLength == -1
Lengths == Nat \union {NoLength}
Scalar(base) == [base |-> base, length |-> NoLength]
ArrayOf(base, length) == [base |-> base, length |-> length]

\* Bytes of a scalar of each base type; its domain is what parse_type knows.
Width == [uint8_t_mavlink_version |-> 1, uint8_t |-> 1, int8_t |-> 1, char |-> 1,
          uint16_t |-> 2, int16_t |-> 2, uint32_t |-> 4, int32_t |-> 4, float |-> 4,
          uint64_t |-> 8, int64_t |-> 8, double |-> 8]

BytesUnsigned == {"uint8_t", "uint8_t_mavlink_version", "char"}
Unsigned == BytesUnsigned \union {"uint16_t", "uint32_t", "uint64_t"}
Signed == {"int8_t", "int16_t", "int32_t", "int64_t"}

IsScalar(type) == type.length = NoLength
IsArray(type) == ~IsScalar(type) /\ type.base # "char"
IsCharArray(type) == ~IsScalar(type) /\ type.base = "char"
Element(type) == Scalar(type.base)

\* "Double" is another spelling of double; a name the code does not know has
\* no type, and the caller panics.
Spelled(type) == IF type.base = "Double" THEN [type EXCEPT !.base = "double"] ELSE type
parse_type(type) ==
  IF Spelled(type).base \in DOMAIN Width THEN <<Spelled(type)>> ELSE <<>>

size(type) == Width[type.base] * (IF IsScalar(type) THEN 1 ELSE type.length)
order_len(type) == Width[type.base]
primitive_type(type) ==
  IF type.base = "uint8_t_mavlink_version" THEN "uint8_t" ELSE type.base

Half(width) == Power[width] \div 2

\* Floats count by the whole bytes of their mantissa.
max_int_value(type) ==
  CASE type.base \in Unsigned \ {"char"} -> Power[Width[type.base]] - 1
    [] type.base \in Signed \union {"char"} -> Half(Width[type.base]) - 1
    [] type.base = "float"  -> Power[3] - 1
    [] type.base = "double" -> Power[6] - 1

U64Modulus == Power[8]
NoInteger == -1

\* `value as T as u64`: truncation, then sign extension of a signed T.
Truncated(base, value) ==
  LET width == Width[base]
      low == value % Power[width]
  IN  IF base \in Signed /\ low >= Half(width) THEN low + U64Modulus - Power[width] ELSE low

cast_integer(type, value) ==
  IF IsScalar(type) /\ type.base \in Unsigned \union Signed
  THEN Truncated(type.base, value) ELSE NoInteger

enum_value_fits(type, value) ==
  IF IsScalar(type) /\ type.base \in Signed
  THEN value < Half(Width[type.base])
  ELSE cast_integer(type, value) = value

\* Little-endian bytes, and back.
ToBytes(value, width) == [i \in 1 .. width |-> (value \div Power[i - 1]) % Radix]
FromBytes(bytes) ==
  LET value[n \in 0 .. Len(bytes)] ==
        IF n = 0 THEN 0 ELSE value[n - 1] + bytes[n] * Power[n - 1]
  IN  value[Len(bytes)]

Zeroes(count) == [i \in 1 .. count |-> 0]
Take(bytes, count) == SubSeq(bytes, 1, IF count < Len(bytes) THEN count ELSE Len(bytes))
Drop(bytes, count) == SubSeq(bytes, count + 1, Len(bytes))
padded(bytes, width) == Take(bytes, width) \o Zeroes(width - Len(Take(bytes, width)))
available_bytes(bytes, offset, length) == Take(Drop(bytes, offset), length)

\* Overwrites bytes offset + 1 .. of `bytes`.
Overwrite(bytes, offset, new) ==
  [i \in DOMAIN bytes |-> IF i - offset \in DOMAIN new THEN new[i - offset] ELSE bytes[i]]

\* The elements of a sequence at certain places, in their order.
Selected(seq, places) ==
  LET taken[n \in 0 .. Len(seq)] ==
        IF n = 0 THEN <<>>
        ELSE IF n \in places THEN Append(taken[n - 1], seq[n]) ELSE taken[n - 1]
  IN  taken[Len(seq)]

\* The payload without its trailing zeroes; one byte always stays.
remove_trailing_zeroes(bytes) ==
  LET used == {i \in DOMAIN bytes : i = 1 \/ bytes[i] # 0}
  IN  IF used = {} THEN 0 ELSE CHOOSE i \in used : \A j \in used : j <= i

\* The text of a char array ends at its first zero byte.
str_len(bytes) ==
  LET zeroes == {i \in DOMAIN bytes : bytes[i] = 0}
  IN  IF zeroes = {} THEN Len(bytes) ELSE (CHOOSE i \in zeroes : \A j \in zeroes : i <= j) - 1
to_str(bytes) == Take(bytes, str_len(bytes))

(***************************************************************************)
(* Cursors.  Reading past the end is the error NotEnoughBuffer, and every  *)
(* later read fails with it; writing past the end panics.  The readers and *)
(* writers of the integer types differ only in their width.                *)
(***************************************************************************)
Bytes(data) == [data |-> data, pos |-> 0, last |-> <<>>, error |-> FALSE]
remaining(cursor) == Len(cursor.data) - cursor.pos
get_bytes(cursor, count) ==
  IF cursor.error \/ remaining(cursor) < count
  THEN [cursor EXCEPT !.error = TRUE, !.last = <<>>]
  ELSE [cursor EXCEPT !.pos = @ + count, !.last = available_bytes(cursor.data, cursor.pos, count)]

BytesMut(data) == [data |-> data, len |-> 0, panicked |-> FALSE]
put_slice(cursor, new) ==
  IF cursor.panicked \/ Len(cursor.data) - cursor.len < Len(new)
  THEN [cursor EXCEPT !.panicked = TRUE]
  ELSE [cursor EXCEPT !.data = Overwrite(@, cursor.len, new), !.len = @ + Len(new)]
=============================================================================
