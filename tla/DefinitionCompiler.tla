------------------------- MODULE DefinitionCompiler -------------------------
(***************************************************************************)
(* The compiler of message definition files, mavlink-bindgen/src/          *)
(* parser.rs: parse_profile reads the XML events of a file one by one,     *)
(* calls itself for every <include> not yet read, and joins what the       *)
(* included files define.  It serves the code generator and the runtime    *)
(* dialects alike.                                                         *)
(*                                                                         *)
(* A file is the tree of its elements; descriptions, texts and names are   *)
(* opaque values.  An Option is a sequence of at most one element.         *)
(***************************************************************************)
EXTENDS MavTypes, FiniteSets

CONSTANTS
  Content,       \* The files that exist: path -> root element.
  NameOrder,     \* Message and enum names, in the order of a BTreeMap.
  TokenCode,     \* The bytes of a name, for the checksum: name -> number.
  MaxNesting     \* Bound on the nesting of the elements of a file.

VARIABLES
  parses,        \* The calls of parse_profile under way, the innermost last.
  parsed_files,  \* The paths every call shares.
  begun,         \* History: how often the parse of each path has begun.
  outcome        \* What the outermost call gave.

vars == <<parses, parsed_files, begun, outcome>>

None == <<>>
Some(value) == <<value>>
unwrap_or(option, default) == IF option = None THEN default ELSE option[1]
NoEntries == [name \in {} |-> None]

\* A file's elements and, in document order, the events the XML reader makes.
Leaf(el, attrs, text) ==
  [kind |-> "Element", el |-> el, attrs |-> attrs, text |-> text, kids |-> <<>>]
Node(el, attrs, kids) ==
  [kind |-> "Element", el |-> el, attrs |-> attrs, text |-> None, kids |-> kids]

\* An element by its start, its text, the elements in it and its end; an event
\* stays what it is.
Opened(item) ==
  IF item.kind # "Element" THEN <<item>>
  ELSE <<[kind |-> "Start", el |-> item.el, attrs |-> item.attrs]>>
       \o [i \in DOMAIN item.text |-> [kind |-> "Text", text |-> item.text[i]]]
       \o item.kids
       \o <<[kind |-> "End", el |-> item.el]>>

Events(root) ==
  LET opened[depth \in 0 .. MaxNesting] ==
        IF depth = 0 THEN <<root>>
        ELSE LET items == opened[depth - 1]
             IN  FlattenSeq([i \in DOMAIN items |-> Opened(items[i])])
  IN  opened[MaxNesting]

ASSUME NestingAssumption ==
  /\ MaxNesting \in Nat
  /\ \A path \in DOMAIN Content :
       \A i \in DOMAIN Events(Content[path]) : Events(Content[path])[i].kind # "Element"

\* The reader gives a sequence of events, each start with a sequence of
\* attributes; names have bytes, and a type has a name and maybe a length.
IsList(s) == Len(s) \in Nat /\ s = [i \in 1 .. Len(s) |-> s[i]]
IsAttribute(el, attr) ==
  /\ el \in {"message", "field"} /\ attr[1] = "name" => attr[2] \in DOMAIN TokenCode
  /\ el = "field" /\ attr[1] = "type" => attr[2] \in [base : STRING, length : Lengths]

ASSUME ContentAssumption ==
  \A path \in DOMAIN Content :
    /\ IsList(Events(Content[path]))
    /\ \A i \in DOMAIN Events(Content[path]) :
         LET event == Events(Content[path])[i] IN
         event.kind = "Start" =>
           /\ IsList(event.attrs)
           /\ \A k \in DOMAIN event.attrs : IsAttribute(event.el, event.attrs[k])

ASSUME NameAssumption ==
  /\ NameOrder \in Seq(STRING)
  /\ TokenCode \in [DOMAIN TokenCode -> Nat]
  /\ {"", "type"} \union {primitive_type(Scalar(base)) : base \in DOMAIN Width}
       \subseteq DOMAIN TokenCode

-----------------------------------------------------------------------------
(* Definitions.                                                            *)

DefaultField(is_extension) ==
  [name |-> "", mavtype |-> Scalar("uint8_t"), description |-> None, enumtype |-> None,
   display |-> None, is_extension |-> is_extension, is_undersized |-> FALSE]
DefaultMessage ==
  [id |-> 0, name |-> "", description |-> None, fields |-> <<>>, lifecycle |-> None]
DefaultEnum ==
  [name |-> "", description |-> None, entries |-> <<>>, primitive |-> None,
   bitmask |-> FALSE, lifecycle |-> None, additional_primitives |-> {}]
DefaultEntry ==
  [name |-> "", value |-> None, description |-> None, params |-> None, lifecycle |-> None]
DefaultParam ==
  [index |-> None, description |-> None, label |-> None, units |-> None, enum_used |-> None,
   increment |-> None, min |-> None, max |-> None, reserved |-> FALSE, default |-> None]
EmptyProfile ==
  [messages |-> NoEntries, enums |-> NoEntries, version |-> None, dialect |-> None]

WithEntry(map, name, value) ==
  [n \in DOMAIN map \union {name} |-> IF n = name THEN value ELSE map[n]]

InOrder(map) == Selected(NameOrder, {i \in DOMAIN NameOrder : NameOrder[i] \in DOMAIN map})

\* A profile with the reason its computation panicked, if it did.
Panic(state, why) == [state EXCEPT !.panic = Some(why)]

add_message(state, message) ==
  LET known == state.profile.messages IN
  IF message.name \notin DOMAIN known
  THEN [state EXCEPT !.profile.messages = WithEntry(known, message.name, message)]
  ELSE IF known[message.name] = message THEN state
  ELSE Panic(state, "defined twice")

\* The entries of one enum in two files are joined; an entry found in both
\* panics, and so does comparing two entries of one name without values.
Clashes(one, other) ==
  one.name = other.name /\ (one.value = None \/ other.value = None \/ one.value = other.value)

try_combine(state, enm) ==
  LET known  == state.profile.enums[enm.name]
      joined == known.entries \o enm.entries
  IN  IF \E j \in Len(known.entries) + 1 .. Len(joined) : \E i \in 1 .. j - 1 :
           Clashes(joined[i], joined[j])
      THEN Panic(state, "entry exists")
      ELSE [state EXCEPT !.profile.enums[enm.name] =
              [known EXCEPT !.entries = joined,
                            !.additional_primitives = @ \union enm.additional_primitives]]

add_enum(state, enm) ==
  IF enm.name \in DOMAIN state.profile.enums THEN try_combine(state, enm)
  ELSE [state EXCEPT !.profile.enums = WithEntry(@, enm.name, enm)]

\* One field of update_enums: a field of a bitmask enum is undersized when an
\* entry does not fit it, and else gives the enum its primitive.
TooLarge(field, enm) ==
  {i \in DOMAIN enm.entries : max_int_value(field.mavtype) < unwrap_or(enm.entries[i].value, 0)}

UpdateField(state, name, i) ==
  LET field == state.profile.messages[name].fields[i]
      known == field.enumtype # None /\ field.enumtype[1] \in DOMAIN state.profile.enums
      enm   == state.profile.enums[field.enumtype[1]]
      large == TooLarge(field, enm)
  IN  IF ~known \/ ~(enm.bitmask \/ field.display = Some("bitmask")) THEN state
      ELSE IF large = DOMAIN enm.entries THEN Panic(state, "no entry fits")
      ELSE [state EXCEPT
              !.profile.messages[name].fields[i] =
                 [field EXCEPT !.is_undersized = @ \/ large # {},
                               !.display = IF @ = None THEN Some("bitmask") ELSE @],
              !.profile.enums[enm.name] =
                 [enm EXCEPT !.bitmask = TRUE,
                             !.primitive = IF large = {} THEN Some(field.mavtype) ELSE @,
                             !.additional_primitives =
                                IF large = {} THEN @ ELSE @ \union {field.mavtype}]]

\* A bitmask no field can hold completely gets the smallest type that can.
DefaultPrimitive(enm) ==
  LET fits(base) == \A i \in DOMAIN enm.entries :
                      unwrap_or(enm.entries[i].value, 0) <= max_int_value(Scalar(base))
  IN  Scalar(CASE fits("uint16_t") -> "uint16_t"
               [] ~fits("uint16_t") /\ fits("uint32_t") -> "uint32_t"
               [] OTHER -> "uint64_t")

WithPrimitive(enm) ==
  IF enm.bitmask /\ enm.primitive = None
  THEN [enm EXCEPT !.primitive = Some(DefaultPrimitive(enm))] ELSE enm

UpdateFields(state, name) ==
  FoldLeft(LAMBDA st, i : IF st.panic = None THEN UpdateField(st, name, i) ELSE st,
           state, [i \in DOMAIN state.profile.messages[name].fields |-> i])

update_enums(state) ==
  LET updated == FoldLeft(UpdateFields, state, InOrder(state.profile.messages))
  IN  [updated EXCEPT !.profile.enums = [n \in DOMAIN @ |-> WithPrimitive(@[n])]]

\* MAVLink 1 fields sorted by the size of their type, larger first, fields of
\* one size in their order; then the extension fields as declared.
ExtensionPlaces(fields) == {i \in DOMAIN fields : fields[i].is_extension}
BaseFields(fields) == Selected(fields, DOMAIN fields \ ExtensionPlaces(fields))
SizedPlaces(fields, width) == {i \in DOMAIN fields : order_len(fields[i].mavtype) = width}
SortFields(fields) ==
  Selected(fields, SizedPlaces(fields, 8)) \o Selected(fields, SizedPlaces(fields, 4))
  \o Selected(fields, SizedPlaces(fields, 2)) \o Selected(fields, SizedPlaces(fields, 1))
\* Mutant of WireOrder: the extension fields are sorted in.
SortEveryField(fields) == SortFields(fields)

WireOrder(fields) ==
  SortFields(BaseFields(fields)) \o Selected(fields, ExtensionPlaces(fields))

validate_unique_fields(message) ==
  IsInjective([i \in DOMAIN message.fields |-> message.fields[i].name])
validate_field_count(message) == Len(message.fields) \in 1 .. 64

\* The checksum of the names and types of the MAVLink 1 fields, folded to a byte.
CrcTokens(message) ==
  LET field(f) == <<TokenCode[primitive_type(f.mavtype)],
                    TokenCode[IF f.name = "mavtype" THEN "type" ELSE f.name]>>
                  \o (IF IsScalar(f.mavtype) THEN <<>> ELSE <<f.mavtype.length % 256>>)
      sorted == SortFields(BaseFields(message.fields))
  IN  <<TokenCode[message.name]>> \o FlattenSeq([i \in DOMAIN sorted |-> field(sorted[i])])
extra_crc(message) ==
  LET crc == DigestAll(65535, CrcTokens(message)) IN BitXor(crc % 256, crc \div 256)

-----------------------------------------------------------------------------
(* The filters that run over the events of a file before they are read.    *)

Elements == {"version", "mavlink", "dialect", "include", "enums", "enum", "entry",
             "description", "param", "messages", "message", "field", "deprecated", "wip",
             "extensions", "superseded"}

\* Without the mav2-message-extensions feature everything from <extensions>
\* to the end of its message is dropped.
filter_extension(kept, event) ==
  LET inside == CASE event.kind = "Start" /\ event.el = "extensions" -> TRUE
                  [] event.kind = "End" /\ event.el = "message"      -> FALSE
                  [] OTHER -> kept.is_in
  IN  [is_in |-> inside, events |-> IF inside THEN kept.events ELSE Append(kept.events, event)]

filter(events, extensions) ==
  IF extensions THEN events
  ELSE FoldLeft(filter_extension, [is_in |-> FALSE, events |-> <<>>], events).events

identify_element(event) ==
  event.kind \in {"Text", "GeneralRef"} \/ (event.kind \in {"Start", "End"} /\ event.el \in Elements)

-----------------------------------------------------------------------------
(* One call of parse_profile.                                              *)

NewParse(path, extensions) ==
  LET read == Events(Content[path])
      bad  == \E i \in DOMAIN read : ~identify_element(read[i])
  IN  [path |-> path, extensions |-> extensions,
       events |-> IF bad THEN <<>> ELSE filter(read, extensions),
       stack |-> <<>>, text |-> None, profile |-> EmptyProfile,
       field |-> DefaultField(FALSE), message |-> DefaultMessage, mavenum |-> DefaultEnum,
       entry |-> DefaultEntry, param |-> DefaultParam, lifecycle |-> None,
       is_in_extension |-> FALSE,
       panic |-> IF bad THEN Some("unexpected element") ELSE None]

Lifecycle(el) ==
  [type |-> el, since |-> "", replaced_by |-> None, remove_on_date |-> None, note |-> None]
LifecycleElements == {"deprecated", "superseded", "wip"}

is_valid_parent(stack, el) ==
  LET under(parents) == stack # <<>> /\ Last(stack) \in parents
  IN  CASE el = "mavlink" -> stack = <<>>
        [] el \in {"version", "dialect", "include", "enums", "messages"} -> under({"mavlink"})
        [] el = "enum"    -> under({"enums"})
        [] el = "entry"   -> under({"enum"})
        [] el = "message" -> under({"messages"})
        [] el \in {"field", "extensions"} -> under({"message"})
        [] el = "param"   -> under({"entry"})
        [] el \in {"description"} \union LifecycleElements -> under({"entry", "message", "enum"})

\* The start of an element: what it resets, before its attributes are read.
\* The first entry takes a lifecycle declared before it for its enum.  What a
\* parameter did not use of an earlier one's texts stays.
OpenElement(p, el) ==
  LET q == [p EXCEPT !.stack = Append(@, el)] IN
  CASE el = "extensions" -> [q EXCEPT !.is_in_extension = TRUE]
    [] el = "message" -> [q EXCEPT !.message = DefaultMessage]
    [] el = "field"   -> [q EXCEPT !.field = DefaultField(p.is_in_extension)]
    [] el = "enum"    -> [q EXCEPT !.mavenum = DefaultEnum]
    [] el = "entry"   ->
         [q EXCEPT !.mavenum.lifecycle = IF p.mavenum.entries = <<>> THEN p.lifecycle ELSE @,
                   !.lifecycle = None, !.entry = DefaultEntry]
    [] el = "param"   ->
         [q EXCEPT !.param = [DefaultParam EXCEPT !.label = p.param.label, !.units = p.param.units,
                                                  !.enum_used = p.param.enum_used]]
    [] el \in LifecycleElements -> [q EXCEPT !.lifecycle = Some(Lifecycle(el))]
    [] OTHER -> q

\* Attributes are read one by one: an enum attribute looks the enum up among
\* those of this file and its includes so far.
EnumAttribute(p, key, value) ==
  CASE key = "name"    -> [p EXCEPT !.mavenum.name = value]
    [] key = "bitmask" -> [p EXCEPT !.mavenum.bitmask = TRUE]
    [] OTHER -> p

EntryAttribute(p, key, value) ==
  CASE key = "name"  -> [p EXCEPT !.entry.name = value]
    [] key = "value" -> IF value \in 0 .. U64Modulus - 1 THEN [p EXCEPT !.entry.value = Some(value)]
                        ELSE Panic(p, "invalid enum entry value")
    [] OTHER -> p

MessageAttribute(p, key, value) ==
  CASE key = "name" -> [p EXCEPT !.message.name = value]
    [] key = "id"   -> IF value \in 0 .. Power[4] - 1 THEN [p EXCEPT !.message.id = value]
                       ELSE Panic(p, "invalid message id")
    [] OTHER -> p

FieldAttribute(p, key, value) ==
  CASE key = "name"    -> [p EXCEPT !.field.name = IF value = "type" THEN "mavtype" ELSE value]
    [] key = "type"    -> IF parse_type(value) = None THEN Panic(p, "unknown type")
                          ELSE [p EXCEPT !.field.mavtype = parse_type(value)[1]]
    [] key = "enum"    ->
         LET marked == value \in DOMAIN p.profile.enums /\ p.profile.enums[value].bitmask
         IN  [p EXCEPT !.field.enumtype = Some(value),
                       !.field.display = IF marked THEN Some("bitmask") ELSE @]
    [] key = "display" -> [p EXCEPT !.field.display = Some(value)]
    [] OTHER -> p

\* A number of a parameter, a float; a negative one stands for a text that is none.
NumberKeys == {"increment", "minValue", "maxValue", "default"}

ParamNumber(q, key, value) ==
  IF value < 0 THEN Panic(q, "param number")
  ELSE CASE key = "increment" -> [q EXCEPT !.param.increment = Some(value)]
         [] key = "minValue"  -> [q EXCEPT !.param.min = Some(value)]
         [] key = "maxValue"  -> [q EXCEPT !.param.max = Some(value)]
         [] key = "default"   -> [q EXCEPT !.param.default = Some(value)]

IsTrue(text) == text = "true"

ParamAttribute(p, key, value) ==
  LET q == [p EXCEPT !.entry.params = Some(unwrap_or(@, <<>>))] IN
  CASE key = "index"    -> IF value \in 1 .. 7 THEN [q EXCEPT !.param.index = Some(value)]
                           ELSE Panic(q, "param index")
    [] key = "label"    -> [q EXCEPT !.param.label = Some(value)]
    [] key = "units"    -> [q EXCEPT !.param.units = Some(value)]
    [] key = "enum"     -> [q EXCEPT !.param.enum_used = Some(value)]
    [] key = "reserved" -> [q EXCEPT !.param.reserved = IsTrue(value)]
    [] key \in NumberKeys -> ParamNumber(q, key, value)
    [] OTHER -> q

\* An empty replacement of a deprecated element is none.
LifecycleAttribute(p, key, value) ==
  LET el == Last(p.stack) IN
  CASE key = "since" -> [p EXCEPT !.lifecycle[1].since = value]
    [] key = "replaced_by" /\ (el = "superseded" \/ (el = "deprecated" /\ value # "")) ->
         [p EXCEPT !.lifecycle[1].replaced_by = Some(value)]
    [] key = "remove_on_date" /\ el = "deprecated" ->
         [p EXCEPT !.lifecycle[1].remove_on_date = Some(value)]
    [] OTHER -> p

Attribute(p, attr) ==
  LET el == Last(p.stack) IN
  CASE p.panic # None -> p
    [] p.panic = None /\ el = "enum"    -> EnumAttribute(p, attr[1], attr[2])
    [] p.panic = None /\ el = "entry"   -> EntryAttribute(p, attr[1], attr[2])
    [] p.panic = None /\ el = "message" -> MessageAttribute(p, attr[1], attr[2])
    [] p.panic = None /\ el = "field"   -> FieldAttribute(p, attr[1], attr[2])
    [] p.panic = None /\ el = "param"   -> ParamAttribute(p, attr[1], attr[2])
    [] p.panic = None /\ el \in LifecycleElements -> LifecycleAttribute(p, attr[1], attr[2])
    [] OTHER -> p

Started(p, event) ==
  IF ~is_valid_parent(p.stack, event.el) THEN Panic(p, "not valid parent")
  ELSE FoldLeft(Attribute, OpenElement(p, event.el), event.attrs)

TextAllowed(stack) ==
  LET el == Last(stack)
      parent == IF Len(stack) < 2 THEN "" ELSE stack[Len(stack) - 1]
  IN  <<el, parent>> \in
        {<<"description", "message">>, <<"field", "message">>, <<"description", "enum">>,
         <<"description", "entry">>, <<"include", "mavlink">>, <<"version", "mavlink">>,
         <<"dialect", "mavlink">>, <<"param", "entry">>}
      \/ el \in {"deprecated", "superseded"}

ReadText(p, event) ==
  IF TextAllowed(p.stack) THEN [p EXCEPT !.text = Append(@, event.text)]
  ELSE Panic(p, "unexpected text")

\* A reference such as &amp; is text too, and allowed anywhere: outside of an
\* element with text it stays for the next element that takes one.
ReadReference(p, event) == [p EXCEPT !.text = Append(@, event.text)]

CloseElement(p) == [p EXCEPT !.text = None, !.stack = Front(@)]

EndField(p) ==
  [p EXCEPT !.message.fields = Append(@, [p.field EXCEPT !.description = p.text])]

EndEntry(p) ==
  [p EXCEPT !.mavenum.entries = Append(@, [p.entry EXCEPT !.lifecycle = p.lifecycle]),
            !.lifecycle = None]

EndMessage(p) ==
  LET message == [p.message EXCEPT !.lifecycle = p.lifecycle, !.fields = WireOrder(@)]
      q == [p EXCEPT !.message.lifecycle = p.lifecycle, !.lifecycle = None,
                     !.is_in_extension = FALSE]
  IN  IF ~validate_unique_fields(message) THEN Panic(q, "duplicate field")
      ELSE IF ~validate_field_count(message) THEN Panic(q, "field count")
      ELSE add_message(q, message)

EndDescription(p) ==
  LET parent == p.stack[Len(p.stack) - 1] IN
  CASE parent = "message" -> [p EXCEPT !.message.description = p.text]
    [] parent = "enum"    -> [p EXCEPT !.mavenum.description = p.text]
    [] parent = "entry"   -> [p EXCEPT !.entry.description = p.text]
    [] OTHER -> p

EndLifecycle(p) ==
  IF p.text = None THEN p ELSE [p EXCEPT !.lifecycle[1].note = p.text]

\* Parameters are kept by index, with empty ones in the gaps.
EndParam(p) ==
  LET params == p.entry.params[1]
      index  == p.param.index[1]
      longer == IF Len(params) > index THEN Len(params) ELSE index
      placed == [i \in 1 .. longer |->
                   IF i = index THEN [p.param EXCEPT !.description = p.text]
                   ELSE IF i \in DOMAIN params THEN params[i]
                   ELSE [DefaultParam EXCEPT !.index = Some(i)]]
  IN  CASE p.entry.params = None -> p
        [] p.entry.params # None /\ p.param.index = None -> Panic(p, "param without index")
        [] p.entry.params # None /\ p.param.index # None ->
             IF p.param.min # None /\ p.param.max # None /\ p.param.min[1] > p.param.max[1]
             THEN Panic(p, "param range")
             ELSE [p EXCEPT !.entry.params = Some(placed), !.param.label = None,
                            !.param.units = None, !.param.enum_used = None]

\* The text of a number of one byte.
ByteText(text) == Len(text) = 1 /\ text[1] \in 0 .. Radix - 1

\* The end of every element except an include that must be read.
Ended(p) ==
  LET el == Last(p.stack) IN
  CASE el = "field"       -> EndField(p)
    [] el = "entry"       -> EndEntry(p)
    [] el = "message"     -> EndMessage(p)
    [] el = "enum"        -> add_enum(p, p.mavenum)
    [] el = "description" -> EndDescription(p)
    [] el = "version"     -> IF p.text = None THEN p
                             ELSE IF ByteText(p.text) THEN [p EXCEPT !.profile.version = p.text]
                             ELSE Panic(p, "invalid version")
    [] el = "dialect"     -> IF p.text = None THEN p
                             ELSE IF ByteText(p.text) THEN [p EXCEPT !.profile.dialect = p.text]
                             ELSE Panic(p, "invalid dialect")
    [] el = "param"       -> EndParam(p)
    [] el \in LifecycleElements -> EndLifecycle(p)
    [] OTHER -> p

\* What an included file defines joins the including file's profile, as if it
\* had been written there; its version counts only where there is none.
AddMessages(state, messages) ==
  FoldLeft(LAMBDA st, name : IF st.panic = None THEN add_message(st, messages[name]) ELSE st,
           state, InOrder(messages))
AddEnums(state, enums) ==
  FoldLeft(LAMBDA st, name : IF st.panic = None THEN add_enum(st, enums[name]) ELSE st,
           state, InOrder(enums))

Included(p, profile) ==
  LET q == AddEnums(AddMessages(p, profile.messages), profile.enums)
  IN  [q EXCEPT !.profile.version = IF @ = None THEN profile.version ELSE @]

-----------------------------------------------------------------------------
(* The steps of the compiler.                                              *)

Running == [status |-> "running", why |-> "", profile |-> EmptyProfile]
Failed(status, why) == [status |-> status, why |-> why, profile |-> EmptyProfile]

Innermost == Last(parses)
NextEvent == Head(Innermost.events)

TimesBegun(path) == IF path \in DOMAIN begun THEN begun[path] ELSE 0

\* Mutant of Enter: the path is not recorded.
EnterUnrecorded(calls, path, extensions) ==
  /\ begun' = WithEntry(begun, path, TimesBegun(path) + 1)
  /\ IF path \in DOMAIN Content
     THEN parses' = Append(calls, NewParse(path, extensions)) /\ outcome' = Running
     ELSE parses' = <<>> /\ outcome' = Failed("error", "CouldNotReadDefinitionFile")
  /\ UNCHANGED parsed_files

\* parse_profile(path): the path is recorded before the file is opened.  A
\* file that cannot be read fails every call under way.
Enter(calls, path, extensions) ==
  /\ parsed_files' = parsed_files \union {path}
  /\ begun' = WithEntry(begun, path, TimesBegun(path) + 1)
  /\ IF path \in DOMAIN Content
     THEN /\ parses' = Append(calls, NewParse(path, extensions))
          /\ outcome' = Running
     ELSE /\ parses' = <<>>
          /\ outcome' = Failed("error", "CouldNotReadDefinitionFile")

\* The innermost call goes on as p, or panics.
Continue(p) ==
  /\ IF p.panic # None
     THEN /\ parses' = <<>>
          /\ outcome' = Failed("panic", p.panic[1])
     ELSE /\ parses' = Append(Front(parses), p)
          /\ UNCHANGED outcome
  /\ UNCHANGED <<parsed_files, begun>>

Reading == parses # <<>> /\ Innermost.panic = None /\ Innermost.events # <<>>
Popped == [Innermost EXCEPT !.events = Tail(@)]

\* A file whose events the filter cannot identify panics before it is read.
RefuseFile ==
  /\ parses # <<>> /\ Innermost.panic # None
  /\ Continue(Innermost)

StartElement ==
  /\ Reading /\ NextEvent.kind = "Start"
  /\ Continue(Started(Popped, NextEvent))

TextOfElement ==
  /\ Reading /\ NextEvent.kind = "Text"
  /\ Continue(ReadText(Popped, NextEvent))

ReferenceInText ==
  /\ Reading /\ NextEvent.kind = "GeneralRef"
  /\ Continue(ReadReference(Popped, NextEvent))

IncludePath(p) == FoldLeft(LAMBDA path, text : path \o text, "", p.text)
MustInclude(p) == Last(p.stack) = "include" /\ IncludePath(p) \notin parsed_files

EndElement ==
  /\ Reading /\ NextEvent.kind = "End"
  /\ ~MustInclude(Innermost)
  /\ Continue(CloseElement(Ended(Popped)))

EndInclude ==
  /\ Reading /\ NextEvent.kind = "End"
  /\ MustInclude(Innermost)
  /\ Enter(Append(Front(parses), Popped), IncludePath(Innermost), Innermost.extensions)

\* The end of a file: its profile is completed and returned to the caller.
EndOfFile ==
  /\ parses # <<>> /\ Innermost.panic = None /\ Innermost.events = <<>>
  /\ LET done == update_enums(Innermost) IN
     IF done.panic # None
     THEN Continue(done)
     ELSE IF Len(parses) = 1
     THEN /\ parses' = <<>>
          /\ outcome' = [status |-> "ok", why |-> "", profile |-> done.profile]
          /\ UNCHANGED <<parsed_files, begun>>
     ELSE LET caller == CloseElement(Included(parses[Len(parses) - 1], done.profile)) IN
          IF caller.panic # None
          THEN Continue(caller)
          ELSE /\ parses' = Append(SubSeq(parses, 1, Len(parses) - 2), caller)
               /\ UNCHANGED <<outcome, parsed_files, begun>>

CompilerStep ==
  \/ RefuseFile \/ StartElement \/ TextOfElement \/ ReferenceInText
  \/ EndElement \/ EndInclude \/ EndOfFile
=============================================================================
