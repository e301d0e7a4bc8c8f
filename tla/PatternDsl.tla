----------------------------- MODULE PatternDsl -----------------------------
(***************************************************************************)
(* The patterns of AxdrStreamParser: register_pattern_dsl() and            *)
(* AxdrPatternRegistry.  The text of a pattern is taken as split at its    *)
(* commas: a token is a sequence of names, <<"TO">> for TO and             *)
(* <<"S", "TO", "TV">> for S(TO,TV).                                       *)
(***************************************************************************)
EXTENDS Integers, SequencesExt

CONSTANT CustomPatterns         \* push_custom_pattern, split at its semicolons

Step(type, param) == [type |-> type, param_u8_a |-> param]
Plain(type) == Step(type, 0)

DLMS_DATA_TYPE_UINT16 == 18

\* What a token without parentheses adds to a pattern.
TokenSteps ==
    [F  |-> <<Plain("EXPECT_TO_BE_FIRST")>>,
     C  |-> <<Plain("EXPECT_CLASS_ID_UNTAGGED")>>,
     TC |-> <<Step("EXPECT_TYPE_EXACT", DLMS_DATA_TYPE_UINT16),
              Plain("EXPECT_CLASS_ID_UNTAGGED")>>,
     O  |-> <<Plain("EXPECT_OBIS6_UNTAGGED")>>,
     TO |-> <<Plain("EXPECT_OBIS6_TAGGED")>>,
     A  |-> <<Plain("EXPECT_ATTR8_UNTAGGED")>>,
     TA |-> <<Plain("EXPECT_TYPE_U_I_8"), Plain("EXPECT_ATTR8_UNTAGGED")>>,
     TS |-> <<Plain("EXPECT_SCALER_TAGGED")>>,
     TU |-> <<Plain("EXPECT_UNIT_ENUM_TAGGED")>>,
     TV |-> <<Plain("EXPECT_VALUE_GENERIC")>>,
     TVOSDTM |-> <<Plain("EXPECT_VALUE_DTM_AS_OCTET_STRING")>>,
     TSU |-> <<Step("EXPECT_STRUCTURE_N", 2), Plain("GOING_DOWN"),
               Plain("EXPECT_SCALER_TAGGED"), Plain("EXPECT_UNIT_ENUM_TAGGED"),
               Plain("GOING_UP")>>]

\* A name that is not known adds nothing.
StepsOfName(name) ==
    IF name \in DOMAIN TokenSteps THEN TokenSteps[name] ELSE <<>>

StepsOfNames(names) == FlattenSeq([i \in DOMAIN names |-> StepsOfName(names[i])])

StepsOfToken(token) ==
    IF Head(token) # "S" THEN StepsOfNames(token)
    ELSE IF Tail(token) = <<>> THEN <<>>
    ELSE <<Step("EXPECT_STRUCTURE_N", Len(token) - 1), Plain("GOING_DOWN")>>
         \o StepsOfNames(Tail(token)) \o <<Plain("GOING_UP")>>

Pattern(dsl, priority) ==
    [priority |-> priority,
     steps |-> FlattenSeq([i \in DOMAIN dsl |-> StepsOfToken(dsl[i])])]

\* AxdrPatternRegistry::add_pattern(): behind those of its own priority.
AddPattern(patterns, p) ==
    SelectSeq(patterns, LAMBDA q : q.priority <= p.priority)
    \o <<p>> \o SelectSeq(patterns, LAMBDA q : q.priority > p.priority)

DefaultPatterns ==
    LET default(dsl) == Pattern(dsl, 10)
    IN  <<default(<< <<"F">>, <<"TO">>, <<"TVOSDTM">> >>),
          default(<< <<"S", "TO", "TV">> >>),
          default(<< <<"TC">>, <<"TO">>, <<"TS">>, <<"TV">> >>),
          default(<< <<"TO">>, <<"TV">>, <<"TSU">> >>),
          default(<< <<"TV">>, <<"TC">>, <<"TSU">>, <<"TO">> >>),
          default(<< <<"F">>, <<"C">>, <<"O">>, <<"A">>, <<"TV">> >>)>>

\* The registry after setup().
Registry ==
    FoldLeft(AddPattern, <<>>,
             DefaultPatterns
             \o [i \in DOMAIN CustomPatterns |-> Pattern(CustomPatterns[i], 0)])
=============================================================================
