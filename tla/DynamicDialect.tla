--------------------------- MODULE DynamicDialect ---------------------------
(***************************************************************************)
(* Dialects loaded at run time, mavlink/src/dialects/dynamic.rs with       *)
(* dynamic_parser.rs (values to bytes) and dynamic_serde.rs (bytes to      *)
(* names).  All of it is computed from the compiler's profile, without     *)
(* state; identity of the shared definitions is the number of the load     *)
(* that made them.                                                         *)
(***************************************************************************)
EXTENDS DefinitionCompiler

MaxMessageId == Power[3] - 1

-----------------------------------------------------------------------------
(* Definitions.                                                            *)

\* An entry without a value follows the greatest so far; one a restriction has
\* no room for is left out.
NextEntry(restriction, acc, entry) ==
  LET value == unwrap_or(entry.value, acc.previous + 1) IN
  [previous |-> IF value > acc.previous THEN value ELSE acc.previous,
   entries  |-> IF restriction # None /\ value > max_int_value(restriction[1])
                THEN acc.entries ELSE Append(acc.entries, <<entry.name, value>>)]

entries_with_values(enm, restriction) ==
  FoldLeft(LAMBDA acc, entry : NextEntry(restriction, acc, entry),
           [previous |-> 0, entries |-> <<>>], enm.entries).entries

DynamicEnum(enm, restriction) ==
  LET primitive == IF restriction # None THEN restriction ELSE enm.primitive
  IN  [name      |-> enm.name,
       primitive |-> IF primitive # None /\ IsArray(primitive[1])
                     THEN Some(Element(primitive[1])) ELSE primitive,
       entries   |-> entries_with_values(enm, restriction)]

\* An undersized field takes the enum restricted to its own type.
Enumeration(profile, field) ==
  LET known == field.enumtype # None /\ field.enumtype[1] \in DOMAIN profile.enums
      enm   == profile.enums[field.enumtype[1]]
  IN  CASE ~known -> None
        [] known /\ ~field.is_undersized -> Some(DynamicEnum(enm, None))
        [] known /\ field.is_undersized  ->
             IF field.mavtype \in enm.additional_primitives
             THEN Some(DynamicEnum(enm, Some(field.mavtype))) ELSE None

Sum(sizes) == FoldLeft(LAMBDA a, b : a + b, 0, sizes)
Sizes(fields) == [i \in DOMAIN fields |-> size(fields[i].mavtype)]
EncodedSize(fields) == Sum(Sizes(fields))

DynamicField(profile, fields, i) ==
  [name |-> fields[i].name, mavtype |-> fields[i].mavtype,
   enumeration |-> Enumeration(profile, fields[i]),
   offset |-> EncodedSize(SubSeq(fields, 1, i - 1)),
   encoded_size |-> size(fields[i].mavtype), is_extension |-> fields[i].is_extension]

runtime_message_definition(profile, message) ==
  [id |-> message.id, name |-> message.name, extra_crc |-> extra_crc(message),
   base_payload_len |-> EncodedSize(BaseFields(message.fields)),
   encoded_size |-> EncodedSize(message.fields),
   fields |-> [i \in DOMAIN message.fields |-> DynamicField(profile, message.fields, i)]]

\* Mutant of LoadMessage: lengths are not checked.
LoadMessageAnyLength(profile, dialect, name) ==
  LET definition == runtime_message_definition(profile, profile.messages[name]) IN
  IF dialect.error # "" THEN dialect
  ELSE [dialect EXCEPT !.messages = WithEntry(@, definition.id, definition)]

\* Messages are loaded in the order of their names; the first that cannot be
\* represented ends the load.
LoadMessage(profile, dialect, name) ==
  LET definition == runtime_message_definition(profile, profile.messages[name]) IN
  CASE dialect.error # "" -> dialect
    [] dialect.error = "" /\ definition.id > MaxMessageId ->
         [dialect EXCEPT !.error = "MessageIdOutOfRange"]
    [] dialect.error = "" /\ definition.id <= MaxMessageId
         /\ definition.encoded_size > MAX_PAYLOAD_LEN ->
         [dialect EXCEPT !.error = "PayloadTooLong"]
    [] dialect.error = "" /\ definition.id <= MaxMessageId
         /\ definition.encoded_size <= MAX_PAYLOAD_LEN ->
         IF definition.id \in DOMAIN dialect.messages
         THEN [dialect EXCEPT !.error = "DuplicateMessageId"]
         ELSE [dialect EXCEPT !.messages = WithEntry(@, definition.id, definition)]

from_profile(profile, instance) ==
  FoldLeft(LAMBDA dialect, name : LoadMessage(profile, dialect, name),
           [instance |-> instance, version |-> profile.version, error |-> "",
            messages |-> [id \in {} |-> None]],
           InOrder(profile.messages))

-----------------------------------------------------------------------------
(* Values to bytes.  A value is [kind, value]: an integer or a float as    *)
(* the number its bytes hold, an array as its elements, a string as its    *)
(* bytes and the pieces between its bars: the bytes of a text that names   *)
(* no entry, or the pieces of one for an enum.  None is Err.               *)

KindBase == [U8 |-> "uint8_t", U16 |-> "uint16_t", U32 |-> "uint32_t", U64 |-> "uint64_t",
             I8 |-> "int8_t", I16 |-> "int16_t", I32 |-> "int32_t", I64 |-> "int64_t",
             F32 |-> "float", F64 |-> "double"]
IntegerKinds == DOMAIN KindBase \ {"F32", "F64"}

Num(kind, value) == [kind |-> kind, value |-> value]
Arr(values) == [kind |-> "Array", value |-> values]
Name(entry) == <<"name", entry>>
Hex(bits) == <<"hex", bits>>
Text(bytes) == [kind |-> "String", value |-> bytes, pieces |-> <<Name("")>>]
Names(pieces) == [kind |-> "String", value |-> <<>>, pieces |-> pieces]

integer_value(value) ==
  IF value.kind \in IntegerKinds THEN Truncated(KindBase[value.kind], value.value) ELSE NoInteger

enum_entry_value(enumeration, name) ==
  LET entries == enumeration.entries
      found == Selected(entries, {i \in DOMAIN entries : entries[i][1] = name})
  IN  IF found = <<>> THEN NoInteger ELSE found[1][2]

\* A bitmask is the union of its pieces, nothing is 0; a plain enum is one name.
PieceValue(enumeration, piece) ==
  IF piece[1] = "hex" THEN piece[2] ELSE enum_entry_value(enumeration, piece[2])

WithPiece(enumeration, bits, piece) ==
  IF bits = NoInteger \/ PieceValue(enumeration, piece) = NoInteger
  THEN NoInteger ELSE BitOr(bits, PieceValue(enumeration, piece))

parse_enum_value(pieces, enumeration) ==
  IF enumeration.primitive # None
  THEN FoldLeft(LAMBDA bits, piece : WithPiece(enumeration, bits, piece), 0, pieces)
  ELSE IF Len(pieces) = 1 /\ pieces[1][1] = "name"
       THEN enum_entry_value(enumeration, pieces[1][2]) ELSE NoInteger

\* An enum given by name or names.
NamedFits(type, enumeration, value) ==
  IF enumeration.primitive # None
  THEN value < Power[size(enumeration.primitive[1])] ELSE enum_value_fits(type, value)

\* An enum that has the type of a float or of an array has no bytes either way.
NamedBytes(type, enumeration, value) ==
  LET cast == cast_integer(unwrap_or(enumeration.primitive, type), value) IN
  IF value = NoInteger \/ cast = NoInteger THEN None
  ELSE IF NamedFits(type, enumeration, value) THEN Some(ToBytes(cast, size(type))) ELSE None

write_names(type, enumeration, pieces) ==
  NamedBytes(type, enumeration, parse_enum_value(pieces, enumeration))

\* An enum given as a number must survive the bitmask's type, or be an entry.
NumberAllowed(type, enumeration, value) ==
  LET number == integer_value(value) IN
  /\ number # NoInteger
  /\ IF enumeration.primitive # None
     THEN /\ cast_integer(enumeration.primitive[1], number) # NoInteger
          /\ cast_integer(type, cast_integer(enumeration.primitive[1], number)) = number
     ELSE /\ enum_value_fits(type, number)
          /\ \E i \in DOMAIN enumeration.entries : enumeration.entries[i][2] = number

write_scalar(type, enumeration, value) ==
  IF value.kind = "String"
  THEN IF enumeration = None THEN None ELSE write_names(type, enumeration[1], value.pieces)
  ELSE IF /\ enumeration = None \/ NumberAllowed(type, enumeration[1], value)
          /\ value.kind \in DOMAIN KindBase
          /\ \/ KindBase[value.kind] = type.base
             \/ value.kind = "U8" /\ type.base \in BytesUnsigned
       THEN Some(ToBytes(value.value, size(type))) ELSE None

write_char_array(length, value) ==
  CASE value.kind = "String" -> Some(padded(value.value, length))
    [] value.kind = "Array"  ->
         IF Len(value.value) = length /\ \A i \in 1 .. length : value.value[i].kind = "U8"
         THEN Some([i \in 1 .. length |-> value.value[i].value]) ELSE None
    [] OTHER -> None

\* Array elements stay primitive: no enum applies to them.
AllWritten(elements) ==
  IF \E i \in DOMAIN elements : elements[i] = None THEN None
  ELSE Some(FlattenSeq([i \in DOMAIN elements |-> elements[i][1]]))

write_array(type, value) ==
  IF value.kind # "Array" \/ Len(value.value) # type.length THEN None
  ELSE AllWritten([i \in 1 .. type.length |->
                     write_scalar(Element(type), None, value.value[i])])

write_value(type, enumeration, value) ==
  IF IsArray(type) THEN write_array(type, value)
  ELSE IF IsCharArray(type) THEN write_char_array(type.length, value)
  ELSE write_scalar(type, enumeration, value)

\* Mutant of write_default: an enum's default is 0.
WriteDefaultZero(type, enumeration, version) ==
  IF type.base = "uint8_t_mavlink_version"
  THEN [i \in 1 .. size(type) |-> unwrap_or(version, 0)] ELSE Zeroes(size(type))

write_default(type, enumeration, version) ==
  CASE IsArray(type) ->
         FlattenSeq([i \in 1 .. type.length |->
           IF type.base = "uint8_t_mavlink_version"
           THEN <<unwrap_or(version, 0)>> ELSE Zeroes(size(Element(type)))])
    [] ~IsArray(type) /\ enumeration # None /\ enumeration[1].entries # <<>> ->
         padded(ToBytes(enumeration[1].entries[1][2], 8), size(type))
    [] OTHER -> IF type.base = "uint8_t_mavlink_version"
                THEN <<unwrap_or(version, 0)>> ELSE Zeroes(size(type))

-----------------------------------------------------------------------------
(* Messages: [definition, instance, version, payload].                     *)

Message(dialect, definition, version, payload) ==
  [definition |-> definition, instance |-> dialect.instance, version |-> version,
   payload |-> payload]

FieldNamed(definition, name) ==
  Selected(definition.fields,
           {i \in DOMAIN definition.fields : definition.fields[i].name = name})

\* One named value: the draft has the payload so far and the fields supplied.
Place(draft, field, bytes) ==
  IF bytes = None THEN [draft EXCEPT !.error = "InvalidValue"]
  ELSE [draft EXCEPT !.payload = Overwrite(@, field.offset, bytes[1]),
                     !.supplied = @ \union {field.name}]

SupplyField(draft, found, value) ==
  IF draft.error # "" THEN draft
  ELSE IF found = <<>> THEN [draft EXCEPT !.error = "UnknownField"]
  ELSE Place(draft, found[1], write_value(found[1].mavtype, found[1].enumeration, value))

Supply(definition, draft, named) ==
  SupplyField(draft, FieldNamed(definition, named[1]), named[2])

Defaulted(dialect, draft, field) ==
  IF field.name \in draft.supplied THEN draft
  ELSE [draft EXCEPT !.payload = Overwrite(@, field.offset,
          write_default(field.mavtype, field.enumeration, dialect.version))]

\* The complete payload the named values make, with every extension field.
Complete(dialect, definition, supplied) ==
  IF supplied.error # "" THEN supplied
  ELSE FoldLeft(LAMBDA draft, field : Defaulted(dialect, draft, field),
                supplied, definition.fields)

CompletePayload(dialect, definition, fields) ==
  Complete(dialect, definition,
           FoldLeft(LAMBDA draft, named : Supply(definition, draft, named),
                    [payload |-> Zeroes(definition.encoded_size), supplied |-> {}, error |-> ""],
                    fields))

\* The payload a message carries in each version.
Truncate(definition, version, payload) ==
  Take(payload, IF version = "V1" THEN definition.base_payload_len
                ELSE remove_trailing_zeroes(payload))

DefinitionNamed(dialect, name) ==
  {definition \in {dialect.messages[id] : id \in DOMAIN dialect.messages} :
     definition.name = name}

MessageOf(dialect, definition, version, draft) ==
  IF draft.error # "" THEN [error |-> draft.error]
  ELSE [error |-> "", message |-> Message(dialect, definition, version,
                                          Truncate(definition, version, draft.payload))]

message_from_fields(dialect, version, name, fields) ==
  IF DefinitionNamed(dialect, name) = {} THEN [error |-> "UnknownMessage"]
  ELSE LET definition == CHOOSE d \in DefinitionNamed(dialect, name) : TRUE
       IN  MessageOf(dialect, definition, version, CompletePayload(dialect, definition, fields))

\* A MAVLink 2 payload may be longer than the definition knows.
decode(dialect, version, id, payload) ==
  IF id \notin DOMAIN dialect.messages THEN [error |-> "UnknownMessage"]
  ELSE IF version = "V1" /\ Len(payload) > dialect.messages[id].encoded_size
  THEN [error |-> "InvalidPayloadSize"]
  ELSE [error |-> "", message |-> Message(dialect, dialect.messages[id], version, payload)]

\* Mutant of encode: any dialect that has the id encodes the message.
EncodeAnyInstance(dialect, version, message) ==
  IF message.definition.id \notin DOMAIN dialect.messages THEN [error |-> "UnknownMessage"]
  ELSE [error |-> "", payload |-> IF version = "V1"
          THEN padded(message.payload, message.definition.base_payload_len) ELSE message.payload]

\* Only the dialect whose definition the message carries encodes it.
encode(dialect, version, message) ==
  LET id == message.definition.id
      payload == IF version = "V1"
                 THEN padded(message.payload, message.definition.base_payload_len)
                 ELSE message.payload
  IN
  IF id \notin DOMAIN dialect.messages THEN [error |-> "UnknownMessage"]
  ELSE IF message.instance # dialect.instance THEN [error |-> "DialectMismatch"]
  ELSE IF Len(payload) > MAX_PAYLOAD_LEN THEN [error |-> "InvalidPayloadSize"]
  ELSE [error |-> "", payload |-> payload]

field_bytes(message, field) ==
  padded(available_bytes(message.payload, field.offset, field.encoded_size), field.encoded_size)

message_from_payload(dialect, version, id, payload) == decode(dialect, version, id, payload)

-----------------------------------------------------------------------------
(* Bytes to names (serde).  None is an error of the serializer.            *)

read_integer(type, bytes) == cast_integer(type, FromBytes(padded(bytes, 8)))

\* Entries in order while they add bits, then the bits no entry names.
BitmaskName(value, acc, entry) ==
  IF entry[2] # 0 /\ BitAnd(value, entry[2]) = entry[2] /\ BitAnd(acc.remaining, entry[2]) # 0
  THEN [pieces |-> Append(acc.pieces, Name(entry[1])),
        remaining |-> acc.remaining - BitAnd(acc.remaining, entry[2])]
  ELSE acc

\* Mutant of bitmask_names: bits that no entry names are left out.
BitmaskNamesOnly(enumeration, value) ==
  FoldLeft(LAMBDA acc, entry : BitmaskName(value, acc, entry),
           [pieces |-> <<>>, remaining |-> value], enumeration.entries).pieces

bitmask_names(enumeration, value) ==
  LET named == FoldLeft(LAMBDA acc, entry : BitmaskName(value, acc, entry),
                        [pieces |-> <<>>, remaining |-> value], enumeration.entries)
  IN  IF named.remaining = 0 THEN named.pieces ELSE Append(named.pieces, Hex(named.remaining))

SerializeEnum(type, enumeration, bytes) ==
  LET value   == read_integer(type, bytes)
      bits    == cast_integer(enumeration.primitive[1], value)
      entries == Selected(enumeration.entries,
                          {i \in DOMAIN enumeration.entries :
                             enumeration.entries[i][2] = value /\ enum_value_fits(type, value)})
  IN  CASE value = NoInteger -> None
        [] value # NoInteger /\ enumeration.primitive # None ->
             IF bits = NoInteger THEN None
             ELSE Some(bitmask_names(enumeration, bits % Power[size(enumeration.primitive[1])]))
        [] value # NoInteger /\ enumeration.primitive = None ->
             IF entries = <<>> THEN None ELSE Some(<<Name(entries[1][1])>>)
=============================================================================
