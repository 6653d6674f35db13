-------------------------- MODULE MCDialectSession --------------------------
(* The definition files, the messages and the values TLC runs DialectSession with. *)
EXTENDS DialectSession

CONSTANTS vehicle, station

MCPeers == {vehicle, station}

E(name, value) == Node("entry", <<<<"name", name>>, <<"value", value>>>>, <<>>)
Enum(name, kids) == Node("enum", <<<<"name", name>>>>, kids)
Bitmask(name, kids) == Node("enum", <<<<"name", name>>, <<"bitmask", "true">>>>, kids)
Field(name, type) == Leaf("field", <<<<"type", type>>, <<"name", name>>>>, <<"text">>)
EnumField(name, type, enum) ==
  Leaf("field", <<<<"type", type>>, <<"name", name>>, <<"enum", enum>>>>, <<>>)
Extensions == Node("extensions", <<>>, <<>>)
Msg(name, id, kids) == Node("message", <<<<"id", id>>, <<"name", name>>>>, kids)
Include(path) == Leaf("include", <<>>, <<path>>)
Version(number) == Leaf("version", <<>>, <<number>>)
File(head, enums, messages) ==
  Node("mavlink", <<>>, head \o <<Node("enums", <<>>, enums), Node("messages", <<>>, messages)>>)

Deprecated ==
  Leaf("deprecated", <<<<"since", "2019-04">>, <<"replaced_by", "NEW">>,
                       <<"remove_on_date", "2030-01">>>>, <<"note">>)
Superseded == Leaf("superseded", <<<<"since", "2020-02">>, <<"replaced_by", "">>>>, <<>>)
Wip == Node("wip", <<<<"since", "2024-01">>>>, <<>>)
Ref(text) == [kind |-> "GeneralRef", el |-> "", text |-> text]
Param(index, min, max) ==
  Leaf("param", <<<<"index", index>>, <<"minValue", min>>, <<"maxValue", max>>>>, <<"text">>)

Heartbeat ==
  Msg("HEARTBEAT", 0,
      <<Leaf("description", <<>>, <<"text">>),
        EnumField("type", Scalar("uint8_t"), "Kind"),
        EnumField("base_mode", Scalar("uint8_t"), "Mode"),
        Field("custom_mode", Scalar("uint32_t")),
        Field("mavlink_version", Scalar("uint8_t_mavlink_version"))>>)

Minimal ==
  File(<<Version(3), Leaf("dialect", <<>>, <<0>>)>>,
       <<Bitmask("Mode", <<Deprecated, E("MODE_A", 1), E("MODE_B", 2)>>),
         Enum("Kind", <<Node("entry", <<<<"name", "KIND_ONE">>>>, <<Wip>>), E("KIND_THREE", 3)>>)>>,
       <<Heartbeat>>)

Opts == Bitmask("Opts", <<E("OPT_A", 1),
                          Node("entry", <<<<"name", "OPT_B">>, <<"value", 2>>>>,
                               <<Node("description", <<>>, <<Ref("&")>>), Superseded,
                                 Param(2, 0, 1), Param(1, 0, 0)>>)>>)

\* A field wider than its enum's primitive: PARAM comes after CONFIG.
Config == Msg("CONFIG", 3, <<Deprecated,
                             EnumField("opts", Scalar("uint16_t"), "Opts"),
                             EnumField("mode", Scalar("int16_t"), "Mode"),
                             Field("target_system", Scalar("uint8_t")),
                             Field("values", ArrayOf("uint8_t", 0))>>)
ParamMsg == Msg("PARAM", 2, <<EnumField("opts", Scalar("uint8_t"), "Opts"),
                              Field("value", Scalar("float"))>>)
StatusBase == <<Field("text", ArrayOf("char", 2)), Field("values", ArrayOf("int16_t", 2)),
                EnumField("mode", Scalar("uint16_t"), "Mode")>>
StatusExtensions == <<Extensions, Field("extra", Scalar("uint16_t")),
                      EnumField("kind", Scalar("uint8_t"), "Kind")>>

CommonEnums == <<Bitmask("Mode", <<E("MODE_C", 4)>>), Opts>>
Common == File(<<Include("minimal.xml")>>, CommonEnums,
               <<Msg("STATUS", 9, StatusBase \o StatusExtensions), Config, ParamMsg>>)
CommonOld == File(<<Version(2), Include("minimal.xml")>>, CommonEnums,
                  <<Msg("STATUS", 9, StatusBase), Config, ParamMsg>>)
Vendor == File(<<Include("common.xml"), Include("minimal.xml")>>, <<>>,
               <<Msg("VENDOR", 1, <<Wip, EnumField("mode", Scalar("uint8_t"), "Mode"),
                                    Field("value", Scalar("double"))>>)>>)
RingA == File(<<Include("ring_b.xml")>>, <<>>, <<Msg("ALPHA", 1, <<Field("value", Scalar("uint8_t"))>>)>>)
RingB == File(<<Include("ring_a.xml"), Include("common.xml")>>, <<>>,
              <<Msg("BETA", 5, <<EnumField("mode", Scalar("int8_t"), "Mode")>>)>>)
\* Other layouts under the same ids.
Foreign == File(<<>>, <<>>, <<Msg("OTHER", 3, <<Field("value", Scalar("uint32_t")),
                                                Field("more", Scalar("uint8_t"))>>),
                              Msg("STATUS", 9, StatusBase \o <<Field("more", Scalar("uint8_t"))>>)>>)

\* Only the later of two files says that an enum is a bitmask.
Kinds == File(<<>>, <<Enum("Mode", <<E("MODE_A", 1)>>)>>,
              <<Msg("ALPHA", 1, <<EnumField("mode", Scalar("uint8_t"), "Mode")>>)>>)
Marks == File(<<Include("kinds.xml")>>, <<Bitmask("Mode", <<E("MODE_Z", 20)>>)>>, <<>>)

\* A parameter with a step that is no number.
BadParam == Leaf("param", <<<<"units", "m">>, <<"increment", -1>>>>, <<>>)

OneField(name) == <<Field(name, Scalar("uint8_t"))>>
Broken(messages) == File(<<Include("minimal.xml")>>, <<>>, messages)

MCContent ==
  ("minimal.xml" :> Minimal) @@ ("common.xml" :> Common) @@ ("common_old.xml" :> CommonOld)
  @@ ("vendor.xml" :> Vendor) @@ ("ring_a.xml" :> RingA) @@ ("ring_b.xml" :> RingB)
  @@ ("foreign.xml" :> Foreign)
  @@ ("kinds.xml" :> Kinds) @@ ("marks.xml" :> Marks)
  @@ ("step.xml" :> File(<<>>, <<Enum("Mode", <<Node("entry", <<>>, <<BadParam>>)>>)>>, <<>>))
  @@ ("ref.xml" :> Node("mavlink", <<>>, <<Ref("&"), Include("minimal.xml")>>))
  @@ ("gone.xml" :> Node("mavlink", <<>>, <<Include("missing.xml")>>))
  @@ ("twice.xml" :> Broken(<<Msg("HEARTBEAT", 0, OneField("value"))>>))
  @@ ("same_id.xml" :> Broken(<<Msg("ALPHA", 0, OneField("value"))>>))
  @@ ("large_id.xml" :> Broken(<<Msg("ALPHA", 64, OneField("value"))>>))
  @@ ("long.xml" :> Broken(<<Msg("ALPHA", 1, <<Field("value", ArrayOf("double", 3))>>)>>))
  @@ ("fields.xml" :> Broken(<<Msg("ALPHA", 1, OneField("value") \o OneField("value"))>>))
  @@ ("wide_id.xml" :> Broken(<<Msg("ALPHA", 256, OneField("value"))>>))
  @@ ("version.xml" :> File(<<Version(4)>>, <<>>, <<Heartbeat>>))
  @@ ("unknown.xml" :> Node("mavlink", <<>>, <<Node("table", <<>>, <<>>)>>))
  @@ ("place.xml" :> Node("mavlink", <<>>, <<Extensions>>))
  @@ ("entries.xml" :> File(<<Include("minimal.xml")>>, <<Enum("Mode", <<E("MODE_A", 1)>>)>>, <<>>))

MCNameOrder == <<"ALPHA", "BETA", "CONFIG", "HEARTBEAT", "Kind", "Mode", "OTHER", "Opts",
                 "PARAM", "STATUS", "VENDOR">>

Tokens == <<"ALPHA", "BETA", "CONFIG", "HEARTBEAT", "OTHER", "PARAM", "STATUS", "VENDOR",
            "type", "base_mode", "custom_mode", "mavlink_version", "opts", "mode",
            "target_system", "value", "text", "values", "extra", "kind", "more",
            "uint8_t", "int8_t", "char", "uint16_t", "int16_t", "uint32_t", "int32_t", "float",
            "uint64_t", "int64_t", "double", "">>
MCTokenCode == [token \in ToSet(Tokens) |-> 17 * (CHOOSE i \in DOMAIN Tokens : Tokens[i] = token)]

Scenario(first, second, firstExt, secondExt) ==
  [root |-> (vehicle :> first) @@ (station :> second),
   extensions |-> (vehicle :> firstExt) @@ (station :> secondExt)]

\* Newer and older files, a build without extensions, a diamond and a ring of
\* includes, another dialect, and files that cannot be compiled.
MCScenarios ==
  {Scenario("common.xml", "common_old.xml", TRUE, TRUE),
   Scenario("common_old.xml", "common.xml", TRUE, TRUE),
   Scenario("vendor.xml", "ring_a.xml", TRUE, FALSE),
   Scenario("common.xml", "foreign.xml", FALSE, TRUE)}
  \union {Scenario(path, path, TRUE, TRUE) :
            path \in {"gone.xml", "twice.xml", "same_id.xml", "large_id.xml", "long.xml",
                      "fields.xml", "wide_id.xml", "version.xml", "unknown.xml", "place.xml",
                      "entries.xml", "marks.xml", "step.xml", "ref.xml"}}

MCCompositions ==
  {<<"HEARTBEAT", <<>>>>,
   <<"HEARTBEAT", <<<<"mavtype", Names(<<Name("KIND_THREE")>>)>>,
                    <<"base_mode", Names(<<Name("MODE_B"), Name("MODE_A")>>)>>,
                    <<"custom_mode", Num("U32", 17)>>>>>>,
   <<"HEARTBEAT", <<<<"base_mode", Names(<<Name("MODE_C")>>)>>>>>>,
   <<"STATUS", <<<<"text", Text(<<1>>)>>, <<"values", Arr(<<Num("I16", 15), Num("I16", 0)>>)>>,
                 <<"mode", Names(<<Name("MODE_C"), Hex(8)>>)>>, <<"extra", Num("U16", 2)>>>>>>,
   <<"STATUS", <<<<"text", Arr(<<Num("U8", 0), Num("U8", 3)>>)>>, <<"mode", Num("U16", 7)>>>>>>,
   <<"CONFIG", <<<<"opts", Num("U16", 2)>>, <<"mode", Num("I16", 14)>>,
                 <<"target_system", Num("U8", 1)>>>>>>,
   <<"PARAM", <<<<"value", Num("F32", 90)>>, <<"opts", Num("U8", 3)>>>>>>,
   <<"PARAM", <<<<"value", Num("U32", 90)>>>>>>,
   <<"VENDOR", <<<<"mode", Num("U8", 2)>>, <<"value", Num("F64", 260)>>>>>>,
   <<"NONE", <<>>>>}

MCPayloads ==
  {<<0, <<1, 0, 0, 0, 2, 1, 3>>>>,              \* an unknown kind
   <<3, <<3, 3, 0, 2, 1>>>>,                    \* bits the enum's type has no room for
   <<9, <<1, 0, 3, 3, 0, 1, 2>>>>,              \* cut short
   <<9, <<1, 0, 3, 3, 0, 1, 2, 1, 3, 1, 1, 2, 3>>>>}   \* longer than any definition knows

MCHeaders == {[sequence |-> 1, system_id |-> 2, component_id |-> 3],
              [sequence |-> 2, system_id |-> 9, component_id |-> 1]}
=============================================================================
