---------------------------- MODULE MCAxdrParser ----------------------------
(***************************************************************************)
(* TLC instance of AxdrParser with the default patterns and custom ones,   *)
(* and an encoder of telegrams that knows nothing of patterns: objects in  *)
(* the layouts meters use.                                                 *)
(***************************************************************************)
EXTENDS AxdrParser, PatternDsl

MCPatterns == Registry

ASSUME MCTypesKnown == TypesKnown

\* S(TO,TV,TS,TU);TO,TA,TV
MCCustomPatterns == << << <<"S", "TO", "TV", "TS", "TU">> >>,
                       << <<"TO">>, <<"TA">>, <<"TV">> >> >>

----------------------------------------------------------------------------
\* Objects.  Bytes that are also types, lengths, flags are taken on purpose.
DateTimeBytes == <<7, 233, 11, 19, 3, 12, 30, 15, 255, 128, 0, 0>>

Objects ==
    {[obis |-> <<1, 0, 1, 8, 0, 255>>, type |-> 18, value |-> <<15, 2>>, scaler |-> 255],
     [obis |-> <<0, 0, 96, 1, 15, 255>>, type |-> 9, value |-> <<2, 2, 9, 6>>, scaler |-> 2],
     [obis |-> <<0, 0, 1, 0, 0, 255>>, type |-> DATETIME, value |-> DateTimeBytes,
      scaler |-> 0]}

Quantity == CHOOSE o \in Objects : o.type = 18
Text == CHOOSE o \in Objects : o.type = OCTET_STRING
Clock == CHOOSE o \in Objects : o.type = DATETIME

\* The tagged parts of an object.
TO(o) == <<9, 6>> \o o.obis
TV(o) == CASE o.type = 18 -> <<18>> \o o.value
           [] o.type = 9 -> <<9, Len(o.value)>> \o o.value
           [] o.type = DATETIME -> <<9, 12>> \o o.value
TC == <<18, 0, 3>>
TS(o) == <<15, o.scaler>>
TU == <<22, 30>>
TSU(o) == <<2, 2>> \o TS(o) \o TU

Structure(n, bytes) == <<STRUCTURE, n>> \o bytes
Array(n, bytes) == <<ARRAY, n>> \o bytes

Unscaled(os) == [i \in DOMAIN os |-> [os[i] EXCEPT !.scaler = 0]]

\* Layouts: what the data of a notification begins with, the bytes of each
\* object, what follows, and the objects.
Layout(head, parts, tail, objects) ==
    [head |-> head, parts |-> parts, tail |-> tail, objects |-> objects]

Each(f(_), os) == [i \in DOMAIN os |-> f(os[i])]

Layouts(os) ==
    LET n == Len(os)
        t1(o) == TC \o TO(o) \o TS(o) \o TV(o)
        t2(o) == TO(o) \o TV(o) \o TSU(o)
        t3(o) == TV(o) \o TC \o TSU(o) \o TO(o)
        t4(o) == TO(o) \o <<UINT8, 2>> \o TV(o)
        id(o) == Structure(2, TO(o) \o TV(o))
        zpa(o) == Structure(1, <<0, 3>> \o o.obis \o <<2>> \o TV(o))
        custom(o) == Structure(4, TO(o) \o TV(o) \o TS(o) \o TU)
        s1(o) == Structure(4, t1(o))
        s2(o) == Structure(3, t2(o))
        s3(o) == Structure(4, t3(o))
        flat(f(_), m) == Layout(<<STRUCTURE, m * n>>, Each(f, os), <<>>, os)
        array(f(_), objects) == Layout(<<ARRAY, n>>, Each(f, os), <<>>, objects)
        other == <<10, 2, 15, 15>> \* a string
        nothing == Structure(2, <<17, 9>> \o Array(1, <<0>>))
    IN  {flat(t1, 4), flat(t2, 3), flat(t3, 4),
         [flat(t4, 3) EXCEPT !.objects = Unscaled(os)],
         array(s1, os), array(s2, os), array(s3, os), array(custom, os),
         array(id, Unscaled(os)), array(zpa, Unscaled(os)),
         Layout(<<STRUCTURE, 2 + 3 * n>>, <<TO(Clock) \o TV(Clock)>> \o Each(t2, os), <<>>,
                Unscaled(<<Clock>>) \o os),
         Layout(<<STRUCTURE, 3 + 3 * n>> \o other, Each(t2, os), nothing \o other, os)}

\* A notification, with and without a date-time.
NotificationHead(dateTime) ==
    <<NOTIFICATION_FLAG, 64, 0, 0, 1, Len(dateTime)>> \o dateTime

DateTimes == {<<>>, DateTimeBytes}

Notification(l, dateTime) ==
    NotificationHead(dateTime) \o l.head \o FlattenSeq(l.parts) \o l.tail

\* The objects that end within the first n bytes of it.
CompleteIn(l, dateTime, n) ==
    LET end(i) == Len(NotificationHead(dateTime) \o l.head)
                  + Len(FlattenSeq(SubSeq(l.parts, 1, i)))
    IN  Cardinality({i \in DOMAIN l.parts : end(i) <= n})

\* What HDLC puts around it; the second header has a byte of the value of the
\* notification flag in its length.
Headers == {<<>>, <<126, 161, 15, 65, 3, 19, 1, 2, 230, 231, 0>>}
Trailer == <<27, 44, 126>>

Lists == {<<Quantity>>, <<Text, Quantity>>, <<Clock, Text>>,
          <<Quantity, Clock, Quantity>>}

Window(bytes, objects, complete, kind) ==
    [data |-> bytes, objects |-> objects, complete |-> complete, kind |-> kind]

Whole ==
    {Window(h \o Notification(l, d) \o Trailer, l.objects, Len(l.objects), "WHOLE") :
        h \in Headers, d \in DateTimes, l \in UNION {Layouts(os) : os \in Lists}}

\* Two telegrams in one window.
Double ==
    LET single == {t \in Whole : t.objects = <<Quantity>> /\ Head(t.data) = 126}
    IN  {Window(t.data \o u.data, t.objects \o u.objects, 2, "WHOLE") :
            t \in single, u \in {CHOOSE w \in single : TRUE}}

\* Telegrams cut or damaged anywhere behind their fixed part.
Cut ==
    UNION {LET bytes == Notification(l, <<>>)
           IN  {Window(SubSeq(bytes, 1, n), l.objects, CompleteIn(l, <<>>, n), "CUT") :
                   n \in 7..Len(bytes)} : l \in Layouts(<<Quantity, Text>>)}

Damaged ==
    UNION {LET bytes == Notification(l, <<>>)
           IN  {Window([bytes EXCEPT ![i] = b], <<>>, 0, "DAMAGED") :
                   i \in 7..Len(bytes), b \in {2, 15, 255}} : l \in Layouts(<<Quantity>>)}

MCTelegrams == Whole \cup Double \cup Cut \cup Damaged

\* A header whose checksum, four bytes before the notification flag, has a byte
\* of the flag's value.
MCFlagTelegrams ==
    {[t EXCEPT !.data = <<126, 160, 43, 65, 3, 19, 15, 77, 230, 231, 0>> \o @] :
        t \in {w \in Whole : w.objects = <<Quantity>> /\ Head(w.data) = NOTIFICATION_FLAG}}
=============================================================================
