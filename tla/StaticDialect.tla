--------------------------- MODULE StaticDialect ---------------------------
(***************************************************************************)
(* Dialects compiled into the program: what the code does that             *)
(* mavlink-bindgen/src/parser.rs generates (emit_*, rust_reader,           *)
(* rust_writer), and its adapter mavlink-core/src/static_dialect.rs.       *)
(*                                                                         *)
(* A struct is a function from field names to values: a scalar is the u64  *)
(* its integer (or its float's bytes) has, a bitmask its bits, an array    *)
(* the sequence of its elements' bytes.                                    *)
(***************************************************************************)
EXTENDS DynamicDialect

ENCODED_LEN(message) == EncodedSize(message.fields)

MessageWithId(profile, id) ==
  {profile.messages[name] : name \in {n \in DOMAIN profile.messages : profile.messages[n].id = id}}

message_id_from_name(profile, name) ==
  IF name \in DOMAIN profile.messages THEN Some(profile.messages[name].id) ELSE None

\* A message id the dialect does not have has the extra CRC 0.
StaticExtraCrc(profile, id) ==
  IF MessageWithId(profile, id) = {} THEN 0
  ELSE extra_crc(CHOOSE m \in MessageWithId(profile, id) : TRUE)

HasEnum(field) == field.enumtype # None /\ ~IsArray(field.mavtype)
IsBitflags(field) == HasEnum(field) /\ field.display = Some("bitmask")

\* The generator refuses an enum without entries, a message that is empty or
\* too long, and another display of an enum than as a bitmask.
Generates(profile) ==
  /\ \A name \in DOMAIN profile.enums : profile.enums[name].entries # <<>>
  /\ \A name \in DOMAIN profile.messages :
       LET fields == profile.messages[name].fields IN
       /\ EncodedSize(fields) \in 1 .. MAX_PAYLOAD_LEN
       /\ \A i \in DOMAIN fields :
            HasEnum(fields[i]) => fields[i].display \in {None, Some("bitmask")}

\* The type of the bits of a bitmask field: the enum's, or the field's own
\* when the enum does not fit it.
Bits(profile, field) ==
  IF field.is_undersized THEN Element(field.mavtype)
  ELSE Element(profile.enums[field.enumtype[1]].primitive[1])

EnumOf(profile, field) == profile.enums[field.enumtype[1]]

\* DEFAULT: an enum's first entry, the dialect's version, zero.
DefaultValue(profile, field) ==
  LET version == unwrap_or(profile.version, 0) IN
  CASE ~IsScalar(field.mavtype) ->
         IF field.mavtype.base = "uint8_t_mavlink_version"
         THEN [i \in 1 .. field.mavtype.length |-> version] ELSE Zeroes(size(field.mavtype))
    [] IsScalar(field.mavtype) /\ HasEnum(field) ->
         entries_with_values(EnumOf(profile, field), None)[1][2]
    [] IsScalar(field.mavtype) /\ ~HasEnum(field) ->
         IF field.mavtype.base = "uint8_t_mavlink_version" THEN version ELSE 0

FieldCalled(message, name) ==
  CHOOSE field \in {message.fields[i] : i \in DOMAIN message.fields} : field.name = name

FieldNames(message) == {message.fields[i].name : i \in DOMAIN message.fields}

DEFAULT(profile, message) ==
  [name \in FieldNames(message) |-> DefaultValue(profile, FieldCalled(message, name))]

default_message_from_id(profile, id) ==
  IF MessageWithId(profile, id) = {} THEN None
  ELSE Some(DEFAULT(profile, CHOOSE m \in MessageWithId(profile, id) : TRUE))

-----------------------------------------------------------------------------
(* ser: MAVLink 1 writes the base fields, MAVLink 2 also the extension     *)
(* fields, without trailing zeroes.                                        *)

\* `value.bits() as T` and `value as T` keep the low bytes.
rust_writer(field, value) ==
  IF ~IsScalar(field.mavtype) THEN value ELSE ToBytes(value, size(field.mavtype))

WriteFields(cursor, fields, struct) ==
  FoldLeft(LAMBDA c, field : put_slice(c, rust_writer(field, struct[field.name])), cursor, fields)

ser(message, version, struct, buffer) ==
  LET base == WriteFields(BytesMut(buffer), BaseFields(message.fields), struct)
      all  == WriteFields(base, Selected(message.fields, ExtensionPlaces(message.fields)), struct)
      done == IF version = "V1" THEN base ELSE all
      written == Take(done.data, done.len)
  IN  IF Len(buffer) < ENCODED_LEN(message) THEN [panicked |-> TRUE, payload |-> <<>>]
      ELSE [panicked |-> done.panicked,
            payload  |-> IF version = "V1" THEN written
                         ELSE Take(written, remove_trailing_zeroes(written))]

-----------------------------------------------------------------------------
(* deser: a short payload is padded with zeroes, a longer one's end is     *)
(* ignored.  Unknown bits of a bitmask stay, an unknown enum value is an   *)
(* error.                                                                  *)

ReadValue(profile, field, bytes) ==
  LET number == IF field.mavtype.base \in Unsigned \union Signed
                THEN Truncated(field.mavtype.base, FromBytes(bytes)) ELSE FromBytes(bytes)
  IN  CASE ~IsScalar(field.mavtype) -> Some(bytes)
        [] IsScalar(field.mavtype) /\ IsBitflags(field) ->
             Some(Truncated(Bits(profile, field).base, number))
        [] IsScalar(field.mavtype) /\ HasEnum(field) /\ ~IsBitflags(field) ->
             IF \E i \in DOMAIN EnumOf(profile, field).entries :
                  entries_with_values(EnumOf(profile, field), None)[i][2] = number
             THEN Some(number) ELSE None
        [] IsScalar(field.mavtype) /\ ~HasEnum(field) -> Some(number)

rust_reader(profile, reader, field) ==
  LET cursor == get_bytes(reader.cursor, size(field.mavtype))
      value  == ReadValue(profile, field, cursor.last)
  IN  IF reader.error # "" THEN reader
      ELSE IF cursor.error THEN [reader EXCEPT !.error = "NotEnoughBuffer"]
      ELSE IF value = None THEN [reader EXCEPT !.error = "InvalidEnum"]
      ELSE [reader EXCEPT !.cursor = cursor, !.struct = WithEntry(@, field.name, value[1])]

deser(profile, message, payload) ==
  LET input == IF Len(payload) < ENCODED_LEN(message)
               THEN padded(payload, ENCODED_LEN(message)) ELSE payload
      read  == FoldLeft(LAMBDA reader, field : rust_reader(profile, reader, field),
                        [cursor |-> Bytes(input), struct |-> NoEntries, error |-> ""],
                        message.fields)
  IN  [error |-> read.error, struct |-> read.struct]

parse(profile, id, payload) ==
  IF MessageWithId(profile, id) = {} THEN [error |-> "UnknownMessage"]
  ELSE deser(profile, CHOOSE m \in MessageWithId(profile, id) : TRUE, payload)
=============================================================================
