--------------------------- MODULE DialectSession ---------------------------
(***************************************************************************)
(* Two peers that each load a dialect from definition files and then       *)
(* exchange messages: DynamicDialect::from_xml_file over the compiler,     *)
(* messages built from fields or payloads, written into raw buffers that   *)
(* are used again, read with the other peer's dialect, and sent on.  The   *)
(* definition files of the peers may differ: older, newer, other fields.   *)
(* What the compiled dialect of the same files does is compared with what  *)
(* the loaded one does.                                                    *)
(***************************************************************************)
EXTENDS StaticDialect, RawMessage

CONSTANTS
  Peers, First,        \* The peers; First loads first and builds messages.
  Scenarios,           \* [root : Peers -> path, extensions : Peers -> BOOLEAN].
  Compositions,        \* <<message name, <<field name, value>> ... >>.
  Payloads,            \* <<message id, payload>>: payloads given as bytes.
  Headers,             \* Headers of frames.
  Key,                 \* The peers' secret key.
  MaxFrames            \* Bound on frames serialized.

ASSUME SessionAssumption ==
  /\ First \in Peers /\ Peers \ {First} # {}
  /\ \A given \in Payloads : given[2] \in Seq(0 .. Radix - 1)
  /\ Headers \subseteq Header
  /\ Key \in Nat /\ MaxFrames \in Nat

\* The values a message is composed of: numbers of the width of their kind,
\* strings of bytes and of pieces, arrays.
IsNumber(value) ==
  value.kind \in DOMAIN KindBase =>
    value.value \in 0 .. Power[Width[KindBase[value.kind]]] - 1
IsPiece(piece) == piece[1] = "hex" => piece[2] \in 0 .. U64Modulus - 1
IsString(value) ==
  value.kind = "String" =>
    /\ value.value \in Seq(0 .. Radix - 1)
    /\ IsList(value.pieces) /\ \A i \in DOMAIN value.pieces : IsPiece(value.pieces[i])
IsValue(value) ==
  /\ IsNumber(value) /\ IsString(value)
  /\ value.kind = "Array" => \A i \in 1 .. Len(value.value) : IsNumber(value.value[i])

ASSUME CompositionAssumption ==
  \A composition \in Compositions :
    IsList(composition[2]) /\ \A i \in DOMAIN composition[2] : IsValue(composition[2][i][2])

VARIABLES
  scenario,            \* Which files the peers load.
  loading,             \* Peers that have not loaded yet.
  dialects,            \* The dialect of each peer, once loaded.
  message,             \* The message each peer holds.
  raw,                 \* Each peer's own buffers, one of each version.
  wire,                \* The frame under way.
  last,                \* History: the last frame serialized, and what into.
  origin,              \* History: the fields as the message was built.
  crossed,             \* History: the message was cut to MAVLink 1 fields.
  frames               \* History: frames serialized.

session == <<scenario, loading, dialects, message, raw, wire, last, origin, crossed, frames>>

Other(peer) == CHOOSE p \in Peers : p # peer
NotLoaded == [status |-> "absent", instance |-> 0]

InitSession ==
  /\ scenario \in Scenarios
  /\ loading = <<First, Other(First)>>
  /\ dialects = [p \in Peers |-> NotLoaded]
  /\ message = [p \in Peers |-> None]
  /\ raw = [p \in Peers |-> [version \in Versions |-> NewRaw(version)]]
  /\ wire = None /\ last = None /\ origin = None
  /\ crossed = FALSE /\ frames = 0
  /\ parses = <<>> /\ parsed_files = {} /\ outcome = Running
  /\ begun = NoEntries

-----------------------------------------------------------------------------
(* Loading: from_xml_file.                                                 *)

Loader == Head(loading)
Idle == parses = <<>> /\ outcome = Running

StartLoading ==
  /\ loading # <<>> /\ Idle
  /\ Enter(<<>>, scenario.root[Loader], scenario.extensions[Loader])
  /\ UNCHANGED session

CompileStep ==
  /\ CompilerStep
  /\ UNCHANGED session

\* The dialect of a profile, or the error that takes its place.  The numbers
\* of the loads stand for the identity of the definitions they made.
DialectOf(compiled, instance) ==
  LET dialect == from_profile(compiled.profile, instance) IN
  IF compiled.status # "ok"
  THEN [status |-> compiled.status, why |-> compiled.why, instance |-> instance]
  ELSE IF dialect.error # ""
  THEN [status |-> "error", why |-> dialect.error, instance |-> instance,
        profile |-> compiled.profile]
  ELSE [status |-> "ok", why |-> "", instance |-> instance, profile |-> compiled.profile,
        dialect |-> dialect]

FinishLoading ==
  /\ loading # <<>> /\ parses = <<>> /\ outcome # Running
  /\ dialects' = [dialects EXCEPT ![Loader] = DialectOf(outcome, Len(loading))]
  /\ loading' = Tail(loading)
  /\ parsed_files' = {} /\ outcome' = Running
  /\ begun' = NoEntries
  /\ UNCHANGED <<scenario, message, raw, wire, last, origin, crossed, frames, parses>>

Loaded(p) == dialects[p].status = "ok"
Ready == loading = <<>> /\ \A p \in Peers : Loaded(p)

-----------------------------------------------------------------------------
(* Messages.                                                               *)

FieldsOf(definition) == {definition.fields[i] : i \in DOMAIN definition.fields}
FieldOf(definition, name) == CHOOSE f \in FieldsOf(definition) : f.name = name

BytesByName(msg) ==
  [name \in {f.name : f \in FieldsOf(msg.definition)} |->
     field_bytes(msg, FieldOf(msg.definition, name))]

Hold(p, msg) ==
  /\ message' = [message EXCEPT ![p] = Some(msg)]
  /\ origin' = Some([name |-> msg.definition.name, bytes |-> BytesByName(msg),
                      payload |-> msg.payload])
  /\ crossed' = (msg.version = "V1")
  /\ UNCHANGED <<scenario, loading, dialects, raw, wire, last, frames>>
  /\ UNCHANGED vars

Fresh == Ready /\ origin = None

\* message_from_fields; a refused value leaves nothing.
BuildFromFields ==
  /\ Fresh
  /\ \E version \in Versions, composition \in Compositions :
       LET built == message_from_fields(dialects[First].dialect, version,
                                        composition[1], composition[2])
       IN  built.error = "" /\ Hold(First, built.message)

\* message_from_payload.
BuildFromPayload ==
  /\ Fresh
  /\ \E version \in Versions, given \in Payloads :
       LET built == message_from_payload(dialects[First].dialect, version, given[1], given[2])
       IN  built.error = "" /\ Hold(First, built.message)

\* What a dialect hands to the raw buffer for a message.
Encoded(dialect, version, msg) ==
  LET done == encode(dialect, version, msg)
      id   == msg.definition.id
  IN  IF done.error # "" THEN [error |-> done.error]
      ELSE [error |-> "", id |-> id, payload |-> done.payload,
            extra_crc |-> dialect.messages[id].extra_crc]

LastFrame(p, encoder, version, hdr, encoded, signed, buffer) ==
  [peer |-> p, encoder |-> encoder, instance |-> message[p][1].instance, version |-> version,
   header |-> hdr, id |-> encoded.id, payload |-> encoded.payload,
   extra_crc |-> encoded.extra_crc, signed |-> signed, raw |-> buffer]

\* A frame is written into the peer's own buffer, or by the write functions
\* into a new one.  Each peer has the dialects of both at hand.
Serialize ==
  /\ Ready /\ wire = None /\ frames < MaxFrames
  /\ \E p \in {q \in Peers : message[q] # None}, encoder \in Peers, version \in Versions,
        hdr \in Headers, signing \in BOOLEAN, own \in BOOLEAN :
       LET encoded == Encoded(dialects[encoder].dialect, version, message[p][1])
           signs == signing /\ version = "V2"
           into  == IF own
                    THEN serialize_message(raw[p][version], version, hdr, encoded, signs)
                    ELSE write_versioned_msg_with_dialect(version, hdr, encoded)
           frame == IF ~own /\ signs
                    THEN write_versioned_msg_with_dialect_signed(
                           version, hdr, encoded, Key, 1, frames).raw
                    ELSE IF signs THEN sign_message(into.raw, Key, 1, frames) ELSE into.raw
       IN  /\ raw' = IF ~own THEN raw
                     ELSE [raw EXCEPT ![p][version] = IF into.error = "" THEN frame ELSE into.raw]
           /\ IF into.error # "" THEN UNCHANGED <<wire, last, crossed>>
              ELSE /\ wire' = Some([version |-> version, bytes |-> raw_bytes(frame, version)])
                   /\ last' = Some(LastFrame(p, encoder, version, hdr, encoded, signs, frame))
                   /\ crossed' = (crossed \/ version = "V1")
  /\ frames' = frames + 1
  /\ UNCHANGED <<scenario, loading, dialects, message, origin>>
  /\ UNCHANGED vars

\* The other peer reads the frame: the checksum needs its dialect's extra CRC,
\* so a message it knows differently is skipped.
Receive ==
  /\ wire # None
  /\ LET reader  == Other(last[1].peer)
         version == wire[1].version
         frame   == FromFrame(wire[1].bytes, version)
         id      == message_id(frame, version)
         dialect == dialects[reader].dialect
         decoded == decode(dialect, version, id, payload(frame, version))
         valid   == /\ id \in DOMAIN dialect.messages
                    /\ has_valid_crc(frame, version, dialect.messages[id].extra_crc)
     IN  message' = IF valid /\ decoded.error = ""
                    THEN [message EXCEPT ![reader] = Some(decoded.message)] ELSE message
  /\ wire' = None
  /\ UNCHANGED <<scenario, loading, dialects, raw, last, origin, crossed, frames>>
  /\ UNCHANGED vars

-----------------------------------------------------------------------------
Next ==
  \/ StartLoading \/ CompileStep \/ FinishLoading
  \/ BuildFromFields \/ BuildFromPayload \/ Serialize \/ Receive
Spec == InitSession /\ [][Next]_<<session, vars>>

-----------------------------------------------------------------------------
(* The files read as one: the reference for what the compiler makes.       *)

Kids(node, el) == SelectSeq(node.kids, LAMBDA kid : kid.el = el)
KidSet(node, el) == ToSet(Kids(node, el))
Has(node, key) == \E i \in DOMAIN node.attrs : node.attrs[i][1] = key
Attr(node, key) == node.attrs[CHOOSE i \in DOMAIN node.attrs : node.attrs[i][1] = key][2]

Includes(path) == {node.text[1] : node \in KidSet(Content[path], "include")}

\* The files a number of includes away at most.
Reached(paths) ==
  LET within[n \in 0 .. Cardinality(DOMAIN Content)] ==
        IF n = 0 THEN paths
        ELSE LET nearer == within[n - 1]
             IN  nearer \union UNION {Includes(path) : path \in nearer \intersect DOMAIN Content}
  IN  within[Cardinality(DOMAIN Content)]

Declared(paths, section, el) ==
  UNION {UNION {KidSet(group, el) : group \in KidSet(Content[path], section)} : path \in paths}

\* The fields of a message element, with the extensions marked or left out.
DeclaredFields(node, extensions) ==
  LET from == {i \in DOMAIN node.kids : node.kids[i].el = "extensions"}
      after(i) == \E j \in from : j < i
      field(i) == [name |-> IF Attr(node.kids[i], "name") = "type" THEN "mavtype"
                            ELSE Attr(node.kids[i], "name"),
                   mavtype |-> parse_type(Attr(node.kids[i], "type"))[1],
                   enum |-> IF Has(node.kids[i], "enum") THEN Some(Attr(node.kids[i], "enum"))
                            ELSE None,
                   is_extension |-> after(i)]
      indices == SelectSeq([i \in DOMAIN node.kids |-> i],
                           LAMBDA i : node.kids[i].el = "field" /\ (extensions \/ ~after(i)))
  IN  [k \in DOMAIN indices |-> field(indices[k])]

\* One field comes before another on the wire.
Precedes(fields, i, j) ==
  LET one == fields[i] two == fields[j] IN
  \/ ~one.is_extension /\ two.is_extension
  \/ one.is_extension /\ two.is_extension /\ i < j
  \/ /\ ~one.is_extension /\ ~two.is_extension
     /\ \/ order_len(one.mavtype) > order_len(two.mavtype)
        \/ order_len(one.mavtype) = order_len(two.mavtype) /\ i < j

EntriesDeclared(paths, name) ==
  UNION {KidSet(enum, "entry") :
           enum \in {e \in Declared(paths, "enums", "enum") : Attr(e, "name") = name}}

MarkedBitmask(paths, name) ==
  \E enum \in Declared(paths, "enums", "enum") : Attr(enum, "name") = name /\ Has(enum, "bitmask")

\* Every definition of the enum says whether it is a bitmask; where none says
\* so, no field is displayed as one.
MarksAgree(paths, name) ==
  LET enums   == {e \in Declared(paths, "enums", "enum") : Attr(e, "name") = name}
      fields  == UNION {KidSet(m, "field") : m \in Declared(paths, "messages", "message")}
      shown   == {f \in fields : Has(f, "enum") /\ Has(f, "display")}
  IN  \/ \A e \in enums : Has(e, "bitmask")
      \/ /\ \A e \in enums : ~Has(e, "bitmask")
         /\ \A f \in shown : Attr(f, "enum") = name => Attr(f, "display") # "bitmask"

TooSmallFor(paths, field) ==
  /\ field.enum # None
  /\ MarkedBitmask(paths, field.enum[1])
  /\ \E entry \in EntriesDeclared(paths, field.enum[1]) :
       Has(entry, "value") /\ Attr(entry, "value") > max_int_value(field.mavtype)

MessageAsDeclared(paths, node, compiled, extensions) ==
  LET fields == DeclaredFields(node, extensions)
      place(name) == CHOOSE k \in DOMAIN compiled.fields : compiled.fields[k].name = name
  IN  /\ compiled.id = Attr(node, "id")
      /\ Len(compiled.fields) = Len(fields)
      /\ \A i \in DOMAIN fields :
           LET made == compiled.fields[place(fields[i].name)] IN
           /\ made.mavtype = fields[i].mavtype /\ made.enumtype = fields[i].enum
           /\ made.is_extension = fields[i].is_extension
           /\ \/ made.is_undersized = TooSmallFor(paths, fields[i])
              \/ ~MarksAgree(paths, fields[i].enum[1])
      /\ \A i, j \in DOMAIN fields :
           Precedes(fields, i, j) => place(fields[i].name) < place(fields[j].name)
      /\ {node.kids[i].el : i \in DOMAIN node.kids} \intersect LifecycleElements
           = {compiled.lifecycle[i].type : i \in DOMAIN compiled.lifecycle}

-----------------------------------------------------------------------------
(* Properties.                                                             *)

\* Definitions are within their bounds, and make messages of bytes.
DialectsTyped ==
  /\ \A p \in Peers : Loaded(p) =>
       \A id \in DOMAIN dialects[p].dialect.messages :
         LET definition == dialects[p].dialect.messages[id] IN
         /\ id \in 0 .. MaxMessageId
         /\ definition.base_payload_len \in 0 .. MAX_PAYLOAD_LEN
         /\ definition.encoded_size \in 0 .. MAX_PAYLOAD_LEN
         /\ definition.extra_crc \in 0 .. 255
  /\ Fresh => \A version \in Versions, composition \in Compositions :
       LET built == message_from_fields(dialects[First].dialect, version,
                                        composition[1], composition[2])
       IN  built.error = "" => built.message.payload \in Seq(0 .. MaxId)

\* A message is made of bytes, wherever it came from.
MessagesTyped ==
  \A p \in Peers : message[p] # None =>
    /\ message[p][1].payload \in Seq(0 .. MaxId)
    /\ message[p][1].definition.base_payload_len \in 0 .. MAX_PAYLOAD_LEN

\* Buffers keep their size and hold bytes, whatever is written into them.
BuffersTyped ==
  /\ raw \in [Peers -> [Versions -> Buffer("V1") \union Buffer("V2")]]
  /\ \A p \in Peers, version \in Versions : raw[p][version] \in Buffer(version)

TypeOK == DialectsTyped /\ MessagesTyped /\ BuffersTyped /\ frames \in 0 .. MaxFrames

\* However the definitions are spread over files that include each other, a
\* compiled dialect has the messages of all files reached, each with its own
\* fields in wire order, extensions only where the build has them, each message
\* its own lifecycle, each enum its entries once; and no file reached is missing
\* (parse_profile, update_enums, add_message, add_enum).  A field is marked
\* undersized exactly when some file gives its bitmask a larger entry, if the
\* files agree that the enum is one: of two definitions that do not agree the
\* mark of the one joined later is lost (try_combine, parser.rs:638-652).  A
\* dialect never changes, so this is looked at before the first message.
CompiledAsOne ==
  \A p \in Peers : Loaded(p) /\ origin = None =>
    LET paths   == Reached({scenario.root[p]})
        profile == dialects[p].profile
        nodes   == Declared(paths, "messages", "message")
    IN  /\ paths \subseteq DOMAIN Content
        /\ DOMAIN profile.messages = {Attr(node, "name") : node \in nodes}
        /\ \A node \in nodes :
             MessageAsDeclared(paths, node, profile.messages[Attr(node, "name")],
                               scenario.extensions[p])
        /\ \A name \in DOMAIN profile.enums :
             LET entries == EntriesDeclared(paths, name)
                 made    == profile.enums[name].entries
             IN  /\ Len(made) = Cardinality(entries)
                 /\ {made[i].name : i \in DOMAIN made} = {Attr(e, "name") : e \in entries}

\* No file is parsed twice, so that files including each other end and a file
\* included along two ways counts once (parsed_files, parser.rs:1839-2248).
ParsedOnce == \A path \in DOMAIN begun : begun[path] <= 1

\* What was just written into a buffer, also one that held another frame, is
\* what its accessors, the checksum test and the signature test give back,
\* there and in the receiver's copy of the slice that is sent; and MavFrame
\* reads what it writes.
ReadBack ==
  last # None =>
    LET l == last[1] r == l.raw v == l.version
        short == MavFrameSer(v, l.header, l.id, l.payload)
        flags == IF l.header.system_id > MaxId THEN IFLAG_SYSID32 ELSE 0
        reads(buffer) == /\ Reads(buffer, v, l.header, l.id, l.payload, l.extra_crc)
                         /\ l.signed => /\ is_signed(buffer, v)
                                        /\ signature_value(buffer)
                                             = calculate_signature(buffer, Key)
    IN  /\ reads(r)
        /\ wire # None => /\ wire[1].bytes = raw_bytes(r, v)
                          /\ reads(FromFrame(wire[1].bytes, v))
        /\ deser_with_flags(v, flags, short)
             = [error |-> "", header |-> l.header, id |-> l.id, payload |-> l.payload]

\* Wherever the message gets, the fields its reader knows have the bytes they
\* were built with, those the builder did not know the bytes it was given at
\* their place, and only extension fields may be zero, once a MAVLink 1 frame
\* carried it; a frame is only made by the dialect the message belongs to
\* (dynamic.rs:266-282, 474-535).
DeliveredFields ==
  \A p \in Peers : message[p] # None =>
    LET msg == message[p][1] IN
    /\ msg.instance = dialects[p].instance
    /\ last # None => last[1].instance = dialects[last[1].encoder].instance
    /\ msg.definition.name = origin[1].name
    /\ \A f \in FieldsOf(msg.definition) :
         LET bytes == field_bytes(msg, f) IN
         \/ f.name \in DOMAIN origin[1].bytes /\ bytes = origin[1].bytes[f.name]
         \/ f.name \notin DOMAIN origin[1].bytes
            /\ bytes = padded(available_bytes(origin[1].payload, f.offset, f.encoded_size),
                              f.encoded_size)
         \/ f.is_extension /\ crossed /\ bytes = Zeroes(f.encoded_size)

\* The compiled dialect writes the same frame; for an id MAVLink 1 has no room for
\* it gives an error where the loaded one panics.
SameFrame(p, version, struct, compiled) ==
  LET msg == message[p][1]
      id  == msg.definition.id
      written == ser(compiled, version, struct, Zeroes(MAX_PAYLOAD_LEN))
      mine == write_versioned_msg(version, DefaultHeader,
                [error |-> "", id |-> id, payload |-> written.payload,
                 extra_crc |-> StaticExtraCrc(dialects[p].profile, id)])
      full == Encoded(dialects[p].dialect, version, msg)
      theirs == write_versioned_msg_with_dialect(version, DefaultHeader,
                  [full EXCEPT !.payload = Take(@, IF version = "V1" THEN Len(@) ELSE
                                                   remove_trailing_zeroes(@))])
  IN  \/ mine.error = "MAVLink2Only" /\ theirs.error = "panic"
      \/ ~written.panicked /\ mine = theirs

\* What a compiled dialect keeps of a field.  Of a bitmask it has room for the
\* bits of its enum's primitive (parser.rs:1393), although the line before wants to
\* "Keep unknown bits for forward compatibility": in a wider field the bytes above
\* come back as zero.
KeptBytes(profile, field, bytes) ==
  IF IsBitflags(field)
  THEN padded(Take(bytes, size(Bits(profile, field))), Len(bytes))
  ELSE bytes

\* The compiled dialect of the same files agrees with the loaded one: it
\* refuses a payload exactly when an enum of it has no name, reads the same
\* bytes into every field, and has the message built from no fields as its
\* default.  Only a bitmask field wider than the bits of its enum loses its upper
\* bytes (KeptBytes).  Where none loses a bit, and the payload is not longer than
\* the message, it writes the same frame.
StaticMatchesDynamic ==
  \A p \in Peers : message[p] # None =>
    LET msg      == message[p][1]
        profile  == dialects[p].profile
        compiled == profile.messages[msg.definition.name]
        parsed   == parse(profile, msg.definition.id, msg.payload)
        scalars  == {f \in FieldsOf(msg.definition) : IsScalar(f.mavtype)}
        bytes(f) == field_bytes(msg, f)
        written(f) == rust_writer(FieldCalled(compiled, f.name), parsed.struct[f.name])
        kept(f)  == KeptBytes(profile, FieldCalled(compiled, f.name), bytes(f))
        default  == message_from_fields(dialects[p].dialect, "V2", compiled.name, <<>>)
    IN  Generates(profile) =>
        /\ message_id_from_name(profile, compiled.name) = Some(msg.definition.id)
        /\ parsed.error = "" <=>
             \A f \in scalars : f.enumeration # None =>
               SerializeEnum(f.mavtype, f.enumeration[1], bytes(f)) # None
        /\ parsed.error = "" =>
             /\ \A f \in FieldsOf(msg.definition) : written(f) = kept(f)
             /\ (/\ \A f \in FieldsOf(msg.definition) : written(f) = bytes(f)
                 /\ Len(msg.payload) <= ENCODED_LEN(compiled)) =>
                  \A version \in Versions : SameFrame(p, version, parsed.struct, compiled)
        /\ default.message.payload
             = ser(compiled, "V2", default_message_from_id(profile, msg.definition.id)[1],
                   Zeroes(MAX_PAYLOAD_LEN)).payload

\* The names a message is serialized with build a field that holds what a
\* compiled dialect keeps of it: every bit its type has room for, also bits
\* no entry names; the text of a char array builds a field with that text
\* (dynamic_serde.rs:61-106, dynamic_parser.rs:138-161).
NamesReadBack ==
  \A p \in Peers : message[p] # None =>
    LET msg      == message[p][1]
        profile  == dialects[p].profile
        compiled == profile.messages[msg.definition.name]
        scalars  == {f \in FieldsOf(msg.definition) : IsScalar(f.mavtype)}
        names(f) == SerializeEnum(f.mavtype, f.enumeration[1], field_bytes(msg, f))
        kept(f)  == ReadValue(profile, FieldCalled(compiled, f.name), field_bytes(msg, f))
        text(f)  == to_str(field_bytes(msg, f))
    IN  /\ \A f \in scalars :
             f.enumeration # None /\ names(f) # None =>
               write_value(f.mavtype, f.enumeration, Names(names(f)[1]))
                 = Some(rust_writer(FieldCalled(compiled, f.name), kept(f)[1]))
        /\ \A f \in FieldsOf(msg.definition) :
             IsCharArray(f.mavtype) =>
               to_str(write_value(f.mavtype, f.enumeration, Text(text(f)))[1]) = text(f)
=============================================================================
