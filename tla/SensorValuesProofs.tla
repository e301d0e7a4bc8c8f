------------------------- MODULE SensorValuesProofs -------------------------
(***************************************************************************)
(* What sensors are set to, for any objects of a meter, any size of a byte *)
(* and of a length, and any clip of a text.                                *)
(***************************************************************************)
EXTENDS SensorValues, WellFoundedInduction, TLAPS

----------------------------------------------------------------------------
\* Bytes: the encoding of a number is undone.

LEMMA DivMod ==
    ASSUME NEW v \in Int, NEW m \in Nat \ {0}
    PROVE  /\ v \div m \in Int /\ v % m \in 0..(m - 1)
           /\ v = (v \div m) * m + (v % m)
OBVIOUS

LEMMA ModIs ==
    ASSUME NEW v \in Int, NEW m \in Nat \ {0}, NEW q \in Int, NEW r \in 0..(m - 1),
           v = q * m + r
    PROVE  v % m = r
<1>1. PICK p \in Int, s \in 0..(m - 1) : v % m = s /\ v = p * m + s
  BY DivMod
<1>2. ASSUME NEW a \in Int, NEW b \in Int, a < b PROVE a * m + m <= b * m
  <2>1. b >= a + 1 /\ (a + 1) * m = a * m + m
    BY <1>2
  <2> QED
    BY <2>1
<1>3. ~ (p < q) /\ ~ (q < p)
  BY <1>1, <1>2
<1> QED
  BY <1>1, <1>3

LEMMA Halves ==
    ASSUME NEW v \in Int, NEW m \in Nat \ {0}
    PROVE  ((v \div m) % m) * m + (v % m) = v % (m * m)
<1>1. PICK q \in Int, r \in 0..(m - 1) : q = v \div m /\ r = v % m /\ v = q * m + r
  BY DivMod
<1>2. PICK p \in Int, s \in 0..(m - 1) : s = q % m /\ q = p * m + s
  BY DivMod
<1>3. m * m \in Nat \ {0}
  OBVIOUS
<1>4. v = p * (m * m) + (s * m + r)
  <2>1. q * m = (p * m + s) * m /\ (p * m + s) * m = p * (m * m) + s * m
    BY <1>2
  <2> QED
    BY <1>1, <2>1
<1>5. s * m + r \in 0..(m * m - 1)
  <2>1. s <= m - 1 /\ s \in Nat /\ r \in Nat
    OBVIOUS
  <2>2. s * m <= (m - 1) * m /\ s * m \in Nat
    BY <2>1
  <2>3. (m - 1) * m = m * m - m
    OBVIOUS
  <2> QED
    BY <1>3, <2>1, <2>2, <2>3
<1>6. v % (m * m) = s * m + r
  BY <1>3, <1>4, <1>5, ModIs
<1> QED
  BY <1>1, <1>2, <1>6

LEMMA SpanIs ==
    /\ Span(1) = ByteValues /\ Span(2) = Span(1) * Span(1)
    /\ Span(4) = Span(2) * Span(2) /\ Span(8) = Span(4) * Span(4)
    /\ \A w \in {1, 2, 4, 8} : Span(w) \in Nat \ {0} /\ Span(w) % 2 = 0
<1>1. ByteValues \in Nat \ {0} /\ ByteValues % 2 = 0
  BY ValuesAssumption
<1>2. ASSUME NEW n \in Nat \ {0}, n % 2 = 0
      PROVE  n * n \in Nat \ {0} /\ (n * n) % 2 = 0
  <2>1. PICK h \in Nat : n = 2 * h
    BY <1>2
  <2>2. n * n = (h * n) * 2 + 0 /\ h * n \in Int /\ n * n \in Nat \ {0}
    BY <1>2, <2>1
  <2> QED
    BY <2>2, ModIs
<1>3. /\ Span(1) = ByteValues /\ Span(2) = Span(1) * Span(1)
      /\ Span(4) = Span(2) * Span(2) /\ Span(8) = Span(4) * Span(4)
  BY DEF Span
<1>4. \A w \in {1, 2, 4, 8} : Span(w) \in Nat \ {0} /\ Span(w) % 2 = 0
  <2>1. Span(1) \in Nat \ {0} /\ Span(1) % 2 = 0
    BY <1>1, <1>3
  <2>2. Span(2) \in Nat \ {0} /\ Span(2) % 2 = 0
    BY <1>2, <1>3, <2>1
  <2>3. Span(4) \in Nat \ {0} /\ Span(4) % 2 = 0
    BY <1>2, <1>3, <2>2
  <2>4. Span(8) \in Nat \ {0} /\ Span(8) % 2 = 0
    BY <1>2, <1>3, <2>3
  <2> QED
    BY <2>1, <2>2, <2>3, <2>4
<1> QED
  BY <1>3, <1>4

LEMMA Joined ==
    ASSUME NEW a \in Seq(Int), NEW b \in Seq(Int)
    PROVE  /\ a \o b \in Seq(Int) /\ Len(a \o b) = Len(a) + Len(b)
           /\ \A k \in 1..Len(a) : (a \o b)[k] = a[k]
           /\ \A k \in 1..Len(b) : (a \o b)[Len(a) + k] = b[k]
OBVIOUS

LEMMA BytesRead ==
    ASSUME NEW v \in Int, NEW width \in {1, 2, 4, 8}
    PROVE  /\ Encode(v, width) \in Seq(Int) /\ Len(Encode(v, width)) = width
           /\ BigEndian(Encode(v, width), width) = v % Span(width)
<1>1. ByteValues \in Nat \ {0} /\ Span(1) = ByteValues
      /\ Span(2) \in Nat \ {0} /\ Span(4) \in Nat \ {0} /\ Span(8) \in Nat \ {0}
  BY SpanIs
<1>2. ASSUME NEW u \in Int
      PROVE  /\ Bytes1(u) \in Seq(Int) /\ Len(Bytes1(u)) = 1
             /\ Bytes1(u)[1] = u % Span(1)
  BY <1>1 DEF Bytes1
<1>3. ASSUME NEW u \in Int
      PROVE  /\ Bytes2(u) \in Seq(Int) /\ Len(Bytes2(u)) = 2
             /\ be16(Bytes2(u), 1) = u % Span(2)
  <2>1. u \div ByteValues \in Int
    BY <1>1
  <2>2. /\ Bytes2(u) \in Seq(Int) /\ Len(Bytes2(u)) = 2
        /\ Bytes2(u)[1] = (u \div ByteValues) % ByteValues
        /\ Bytes2(u)[2] = u % ByteValues
    <3> DEFINE high == Bytes1(u \div ByteValues)
               low == Bytes1(u)
    <3>1. /\ high \in Seq(Int) /\ Len(high) = 1 /\ high[1] = (u \div ByteValues) % ByteValues
          /\ low \in Seq(Int) /\ Len(low) = 1 /\ low[1] = u % ByteValues
      BY <1>1, <1>2, <2>1
    <3>2. Bytes2(u) = high \o low
      BY DEF Bytes2
    <3> HIDE DEF high, low
    <3>3. /\ Bytes2(u) \in Seq(Int) /\ Len(Bytes2(u)) = 2
          /\ \A k \in 1..1 : Bytes2(u)[k] = high[k] /\ Bytes2(u)[1 + k] = low[k]
      <4>1. /\ high \o low \in Seq(Int) /\ Len(high \o low) = Len(high) + Len(low)
            /\ \A k \in 1..Len(high) : (high \o low)[k] = high[k]
            /\ \A k \in 1..Len(low) : (high \o low)[Len(high) + k] = low[k]
        BY <3>1, Joined
      <4> QED
        BY <3>1, <3>2, <4>1
    <3> QED
      BY <3>1, <3>3
  <2>3. be16(Bytes2(u), 1) = ((u \div ByteValues) % ByteValues) * ByteValues + (u % ByteValues)
    BY <2>2 DEF be16
  <2> QED
    BY <1>1, <2>2, <2>3, Halves, SpanIs
<1>4. ASSUME NEW u \in Int
      PROVE  /\ Bytes4(u) \in Seq(Int) /\ Len(Bytes4(u)) = 4
             /\ be32(Bytes4(u), 1) = u % Span(4)
  <2> DEFINE high == Bytes2(u \div Span(2))
             low == Bytes2(u)
  <2>1. u \div Span(2) \in Int
    BY <1>1
  <2>2. /\ high \in Seq(Int) /\ Len(high) = 2 /\ be16(high, 1) = (u \div Span(2)) % Span(2)
        /\ low \in Seq(Int) /\ Len(low) = 2 /\ be16(low, 1) = u % Span(2)
    BY <1>3, <2>1
  <2>3. Bytes4(u) = high \o low
    BY DEF Bytes4
  <2> HIDE DEF high, low
  <2>4. /\ Bytes4(u) \in Seq(Int) /\ Len(Bytes4(u)) = 4
        /\ \A k \in 1..2 : Bytes4(u)[k] = high[k] /\ Bytes4(u)[2 + k] = low[k]
    <3>1. /\ high \o low \in Seq(Int) /\ Len(high \o low) = Len(high) + Len(low)
          /\ \A k \in 1..Len(high) : (high \o low)[k] = high[k]
          /\ \A k \in 1..Len(low) : (high \o low)[Len(high) + k] = low[k]
      BY <2>2, Joined
    <3> QED
      BY <2>2, <2>3, <3>1
  <2>5. be16(Bytes4(u), 1) = be16(high, 1) /\ be16(Bytes4(u), 3) = be16(low, 1)
    <3>1. /\ Bytes4(u)[1] = high[1] /\ Bytes4(u)[2] = high[2]
          /\ Bytes4(u)[3] = low[1] /\ Bytes4(u)[4] = low[2]
      BY <2>4
    <3> QED
      BY <3>1 DEF be16
  <2>6. be32(Bytes4(u), 1) = ((u \div Span(2)) % Span(2)) * Span(2) + (u % Span(2))
    BY <2>2, <2>5 DEF be32
  <2> QED
    BY <1>1, <2>4, <2>6, Halves, SpanIs
<1>5. ASSUME NEW u \in Int
      PROVE  /\ Bytes8(u) \in Seq(Int) /\ Len(Bytes8(u)) = 8
             /\ be64(Bytes8(u)) = u % Span(8)
  <2> DEFINE high == Bytes4(u \div Span(4))
             low == Bytes4(u)
  <2>1. u \div Span(4) \in Int
    BY <1>1
  <2>2. /\ high \in Seq(Int) /\ Len(high) = 4 /\ be32(high, 1) = (u \div Span(4)) % Span(4)
        /\ low \in Seq(Int) /\ Len(low) = 4 /\ be32(low, 1) = u % Span(4)
    BY <1>4, <2>1
  <2>3. Bytes8(u) = high \o low
    BY DEF Bytes8
  <2> HIDE DEF high, low
  <2>4. /\ Bytes8(u) \in Seq(Int) /\ Len(Bytes8(u)) = 8
        /\ \A k \in 1..4 : Bytes8(u)[k] = high[k] /\ Bytes8(u)[4 + k] = low[k]
    <3>1. /\ high \o low \in Seq(Int) /\ Len(high \o low) = Len(high) + Len(low)
          /\ \A k \in 1..Len(high) : (high \o low)[k] = high[k]
          /\ \A k \in 1..Len(low) : (high \o low)[Len(high) + k] = low[k]
      BY <2>2, Joined
    <3> QED
      BY <2>2, <2>3, <3>1
  <2>5. be32(Bytes8(u), 1) = be32(high, 1) /\ be32(Bytes8(u), 5) = be32(low, 1)
    <3>1. /\ Bytes8(u)[1] = high[1] /\ Bytes8(u)[2] = high[2]
          /\ Bytes8(u)[3] = high[3] /\ Bytes8(u)[4] = high[4]
          /\ Bytes8(u)[5] = low[1] /\ Bytes8(u)[6] = low[2]
          /\ Bytes8(u)[7] = low[3] /\ Bytes8(u)[8] = low[4]
      BY <2>4
    <3> QED
      BY <3>1 DEF be32, be16
  <2>6. be64(Bytes8(u)) = ((u \div Span(4)) % Span(4)) * Span(4) + (u % Span(4))
    BY <2>2, <2>5 DEF be64
  <2> QED
    BY <1>1, <2>4, <2>6, Halves, SpanIs
<1>6. CASE width = 1
  BY <1>2, <1>6 DEF Encode, BigEndian
<1>7. CASE width = 2
  BY <1>3, <1>7 DEF Encode, BigEndian
<1>8. CASE width = 4
  BY <1>4, <1>8 DEF Encode, BigEndian
<1>9. CASE width = 8
  BY <1>5, <1>9 DEF Encode, BigEndian
<1> QED
  BY <1>6, <1>7, <1>8, <1>9

LEMMA WidthIs ==
    /\ \A type \in NumberTypes : Widths[type] \in {1, 2, 4, 8}
    /\ NumberTypes \cap TextTypes = {} /\ "DATETIME" \notin NumberTypes
    /\ SignedTypes \subseteq NumberTypes /\ FloatTypes \subseteq NumberTypes
BY DEF NumberTypes, Widths, TextTypes, SignedTypes, FloatTypes

\* A cast to the signed type of the same width gives a negative number back.
LEMMA CastUndone ==
    ASSUME NEW type \in NumberTypes, NEW v \in TypeValues(type)
    PROVE  v \in Int /\ Cast(type, v % Span(Widths[type])) = v
<1> DEFINE all == Span(Widths[type])
<1>1. all \in Nat \ {0} /\ all % 2 = 0
  BY WidthIs, SpanIs
<1>2. v \in IF type \in SignedTypes THEN (-(all \div 2))..(all \div 2 - 1) ELSE 0..(all - 1)
  BY DEF TypeValues
<1>3. Cast(type, v % all) = IF type \in SignedTypes /\ v % all >= all \div 2
                              THEN (v % all) - all ELSE v % all
  BY DEF Cast
<1> HIDE DEF all
<1>4. PICK half \in Nat : all \div 2 = half /\ all = 2 * half /\ half > 0
  BY <1>1
<1>5. v \in Int
  BY <1>1, <1>2, <1>4
<1>6. CASE v >= 0
  <2>1. v \in 0..(all - 1) /\ v = 0 * all + v
    BY <1>2, <1>4, <1>5, <1>6
  <2>2. v % all = v
    BY <1>1, <1>5, <2>1, ModIs
  <2> QED
    BY <1>2, <1>3, <1>4, <1>5, <1>6, <2>2 DEF all
<1>7. CASE v < 0
  <2>1. type \in SignedTypes /\ -half <= v
    BY <1>2, <1>4, <1>5, <1>7
  <2>2. v + all \in 0..(all - 1) /\ v = (-1) * all + (v + all)
    BY <1>1, <1>4, <1>5, <1>7, <2>1
  <2>3. v % all = v + all
    BY <1>1, <1>5, <2>2, ModIs
  <2> QED
    BY <1>3, <1>4, <1>5, <2>1, <2>3 DEF all
<1> QED
  BY <1>5, <1>6, <1>7

LEMMA DecodeUndoes ==
    ASSUME NEW type \in NumberTypes, NEW v \in TypeValues(type)
    PROVE  /\ Len(Encode(v, Widths[type])) = Widths[type]
           /\ Decode(type, Encode(v, Widths[type])) = v
<1>1. v \in Int /\ Cast(type, v % Span(Widths[type])) = v
  BY CastUndone
<1>2. Widths[type] \in {1, 2, 4, 8}
  BY WidthIs
<1>3. /\ Len(Encode(v, Widths[type])) = Widths[type]
      /\ BigEndian(Encode(v, Widths[type]), Widths[type]) = v % Span(Widths[type])
  BY <1>1, <1>2, BytesRead
<1>4. ~ (Len(Encode(v, Widths[type])) < Widths[type])
  BY <1>2, <1>3
<1> QED
  BY <1>1, <1>3, <1>4 DEF Decode

----------------------------------------------------------------------------
\* Date-times.

LEMMA Words == /\ WordValues \in Nat /\ WordValues > 1
               /\ \E half \in Nat : /\ WordValues \div 2 = half /\ WordValues = 2 * half
                                    /\ half > 0
BY DEF WordValues

LEMMA DeviationIs ==
    ASSUME NEW v \in 0..(WordValues - 1), v # WordValues \div 2,
           NEW d, d = IF v >= WordValues \div 2 THEN v - WordValues ELSE v,
           NEW minutes, minutes = IF d < 0 THEN -d ELSE d
    PROVE  /\ d # -(WordValues \div 2) /\ minutes \in Nat /\ d \in Int
           /\ v = (IF d < 0 THEN -minutes ELSE minutes) % WordValues
<1>0. PICK half \in Nat : /\ WordValues \div 2 = half /\ WordValues = 2 * half
                          /\ half > 0
  BY Words
<1>1. /\ v \in Nat /\ v < WordValues /\ WordValues \in Nat \ {0}
      /\ v # half /\ d = IF v >= half THEN v - WordValues ELSE v
  BY <1>0, Words
<1>2. minutes \in Nat /\ d \in Int /\ d # -half
  BY <1>0, <1>1
<1>3. CASE v >= half
  <2>1. d < 0 /\ -minutes = d /\ d = (-1) * WordValues + v
    BY <1>0, <1>1, <1>3
  <2>2. d % WordValues = v
    BY <1>1, <1>2, <2>1, ModIs
  <2> QED
    BY <1>0, <1>2, <2>1, <2>2
<1>4. CASE ~ (v >= half)
  <2>1. ~ (d < 0) /\ minutes = v /\ v = 0 * WordValues + v
    BY <1>1, <1>4
  <2>2. v % WordValues = v
    BY <1>1, <2>1, ModIs
  <2> QED
    BY <1>0, <1>2, <2>1, <2>2
<1> QED
  BY <1>1, <1>3, <1>4

\* A field that is specified, and one that is not.
LEMMA FieldIs ==
    /\ \A x \in 1..12 \cup 253..255 : x \in Nat /\ (x \in 1..12 <=> ~ (x > 252))
    /\ \A x \in 1..31 \cup 253..255 : x \in Nat /\ (x \in 1..31 <=> ~ (x > 252))
    /\ \A x \in 0..23 \cup {255} : x \in Nat /\ (x <= 23 <=> ~ (x > 252))
    /\ \A x \in 0..59 \cup {255} : x \in Nat /\ (x <= 59 <=> ~ (x > 252))
    /\ \A x \in 0..99 \cup {255} : x \in Nat /\ (x <= 99 <=> ~ (x > 252))
OBVIOUS

LEMMA Hours == ASSUME NEW m \in Nat
               PROVE  (m \div 60) * 60 + (m % 60) = m
OBVIOUS

LEMMA DateTimeShown ==
    ASSUME NEW f, IsDateTime(f)
    PROVE  Specified(f, DateTimeAsString(f)) /\ DeviationShown(f, DateTimeAsString(f))
<1> DEFINE s == DateTimeAsString(f)
           half == WordValues \div 2
           deviation == IF f[9] >= half THEN f[9] - WordValues ELSE f[9]
           minutes == IF deviation < 0 THEN -deviation ELSE deviation
           Shown(ok, field) == IF ok THEN field ELSE Unknown
<1>1. /\ f[1] \in 1..(WordValues - 1)
      /\ f[2] \in 1..12 \cup 253..255 /\ f[3] \in 1..31 \cup 253..255
      /\ f[5] \in 0..23 \cup {255} /\ f[6] \in 0..59 \cup {255}
      /\ f[7] \in 0..59 \cup {255} /\ f[8] \in 0..99 \cup {255}
      /\ f[9] \in 0..(WordValues - 1)
  BY Zenon DEF IsDateTime
<1>2. s = << Shown(f[1] \notin {0, WordValues - 1}, f[1]),
             Shown(f[2] \in 1..12, f[2]), Shown(f[3] \in 1..31, f[3]),
             Shown(f[5] <= 23, f[5]), Shown(f[6] <= 59, f[6]),
             Shown(f[7] <= 59, f[7]), Shown(f[8] <= 99, f[8]),
             IF deviation = -half THEN <<>>
             ELSE << IF deviation < 0 THEN "-" ELSE "+", minutes \div 60, minutes % 60 >> >>
  BY Zenon DEF DateTimeAsString
<1> HIDE DEF s, deviation, minutes, Shown, half
<1>3. /\ s[1] = Shown(f[1] \notin {0, WordValues - 1}, f[1])
      /\ s[2] = Shown(f[2] \in 1..12, f[2]) /\ s[3] = Shown(f[3] \in 1..31, f[3])
      /\ s[4] = Shown(f[5] <= 23, f[5]) /\ s[5] = Shown(f[6] <= 59, f[6])
      /\ s[6] = Shown(f[7] <= 59, f[7]) /\ s[7] = Shown(f[8] <= 99, f[8])
      /\ s[8] = IF deviation = -half THEN <<>>
                ELSE << IF deviation < 0 THEN "-" ELSE "+", minutes \div 60, minutes % 60 >>
  BY <1>2
<1>4. Specified(f, s)
  <2>1. s[1] = IF f[1] = WordValues - 1 THEN Unknown ELSE f[1]
    <3>1. f[1] # 0
      BY <1>1, Words
    <3> QED
      BY <1>3, <3>1 DEF Shown
  <2>3. /\ s[2] = IF f[2] > 252 THEN Unknown ELSE f[2]
        /\ s[3] = IF f[3] > 252 THEN Unknown ELSE f[3]
        /\ s[4] = IF f[5] > 252 THEN Unknown ELSE f[5]
        /\ s[5] = IF f[6] > 252 THEN Unknown ELSE f[6]
        /\ s[6] = IF f[7] > 252 THEN Unknown ELSE f[7]
        /\ s[7] = IF f[8] > 252 THEN Unknown ELSE f[8]
    <3>2. s[2] = IF f[2] > 252 THEN Unknown ELSE f[2]
      <4>1. f[2] \in 1..12 <=> ~ (f[2] > 252)
        <5>1. f[2] \in 1..12 \cup 253..255
          BY <1>1
        <5> QED
          BY <5>1, FieldIs
      <4>2. s[2] = IF f[2] \in 1..12 THEN f[2] ELSE Unknown
        BY <1>3 DEF Shown
      <4> QED
        BY <4>1, <4>2
    <3>3. s[3] = IF f[3] > 252 THEN Unknown ELSE f[3]
      <4>1. f[3] \in 1..31 <=> ~ (f[3] > 252)
        <5>1. f[3] \in 1..31 \cup 253..255
          BY <1>1
        <5> QED
          BY <5>1, FieldIs
      <4>2. s[3] = IF f[3] \in 1..31 THEN f[3] ELSE Unknown
        BY <1>3 DEF Shown
      <4> QED
        BY <4>1, <4>2
    <3>4. s[4] = IF f[5] > 252 THEN Unknown ELSE f[5]
      <4>1. f[5] <= 23 <=> ~ (f[5] > 252)
        <5>1. f[5] \in 0..23 \cup {255}
          BY <1>1
        <5> QED
          BY <5>1, FieldIs
      <4>2. s[4] = IF f[5] <= 23 THEN f[5] ELSE Unknown
        BY <1>3 DEF Shown
      <4> QED
        BY <4>1, <4>2
    <3>5. s[5] = IF f[6] > 252 THEN Unknown ELSE f[6]
      <4>1. f[6] <= 59 <=> ~ (f[6] > 252)
        <5>1. f[6] \in 0..59 \cup {255}
          BY <1>1
        <5> QED
          BY <5>1, FieldIs
      <4>2. s[5] = IF f[6] <= 59 THEN f[6] ELSE Unknown
        BY <1>3 DEF Shown
      <4> QED
        BY <4>1, <4>2
    <3>6. s[6] = IF f[7] > 252 THEN Unknown ELSE f[7]
      <4>1. f[7] <= 59 <=> ~ (f[7] > 252)
        <5>1. f[7] \in 0..59 \cup {255}
          BY <1>1
        <5> QED
          BY <5>1, FieldIs
      <4>2. s[6] = IF f[7] <= 59 THEN f[7] ELSE Unknown
        BY <1>3 DEF Shown
      <4> QED
        BY <4>1, <4>2
    <3>7. s[7] = IF f[8] > 252 THEN Unknown ELSE f[8]
      <4>1. f[8] <= 99 <=> ~ (f[8] > 252)
        <5>1. f[8] \in 0..99 \cup {255}
          BY <1>1
        <5> QED
          BY <5>1, FieldIs
      <4>2. s[7] = IF f[8] <= 99 THEN f[8] ELSE Unknown
        BY <1>3 DEF Shown
      <4> QED
        BY <4>1, <4>2
    <3> QED
      BY <3>2, <3>3, <3>4, <3>5, <3>6, <3>7
  <2>4. ASSUME NEW k \in 2..7
        PROVE  s[k] = IF f[IF k <= 3 THEN k ELSE k + 1] > 252 THEN Unknown
                      ELSE f[IF k <= 3 THEN k ELSE k + 1]
    <3>1. k = 2 \/ k = 3 \/ k = 4 \/ k = 5 \/ k = 6 \/ k = 7
      OBVIOUS
    <3>2. CASE k <= 3
      <4>1. k = 2 \/ k = 3
        BY <3>1, <3>2
      <4> QED
        BY <2>3, <3>2, <4>1
    <3>3. CASE ~ (k <= 3)
      <4>1. \/ (k = 4) /\ (k + 1 = 5)
            \/ (k = 5) /\ (k + 1 = 6)
            \/ (k = 6) /\ (k + 1 = 7)
            \/ (k = 7) /\ (k + 1 = 8)
        BY <3>1, <3>3
      <4>2. s[k] = IF f[k + 1] > 252 THEN Unknown ELSE f[k + 1]
        BY <2>3, <4>1
      <4> QED
        BY <3>3, <4>2
    <3> QED
      BY <3>2, <3>3
  <2> QED
    BY <2>1, <2>4 DEF Specified
<1>5. DeviationShown(f, s)
  <2>1. CASE f[9] = half
    <3>0. PICK h \in Nat : half = h /\ WordValues = 2 * h
      BY Words DEF half
    <3>1. deviation = -half
      BY <2>1, <3>0 DEF deviation
    <3> QED
      BY <1>3, <2>1, <3>1 DEF DeviationShown, half
  <2>2. CASE f[9] # half
    <3>1. /\ deviation # -half /\ minutes \in Nat
          /\ f[9] = (IF deviation < 0 THEN -minutes ELSE minutes) % WordValues
      BY <1>1, <2>2, DeviationIs DEF deviation, minutes, half
    <3>2. s[8] = << IF deviation < 0 THEN "-" ELSE "+", minutes \div 60, minutes % 60 >>
      BY <1>3, <3>1
    <3>3. /\ (s[8][1] = "-") <=> (deviation < 0)
          /\ s[8][2] = minutes \div 60 /\ s[8][3] = minutes % 60
      BY <3>2
    <3>4. s[8][2] * 60 + s[8][3] = minutes
      BY <3>1, <3>3, Hours
    <3>5. f[9] # WordValues \div 2
      BY <2>2 DEF half
    <3> QED
      BY <3>1, <3>3, <3>4, <3>5 DEF DeviationShown
  <2> QED
    BY <2>1, <2>2
<1> QED
  BY <1>4, <1>5 DEF s

----------------------------------------------------------------------------
\* Texts up to a NUL.

\* A text with a NUL has a first one.
LEMMA FirstNul ==
    ASSUME NEW s \in Seq(Nat), NUL \in ToSet(s)
    PROVE  \E k \in DOMAIN s : s[k] = NUL /\ \A j \in 1..(k - 1) : s[j] # NUL
<1> DEFINE nuls == {k \in DOMAIN s : s[k] = NUL}
<1>1. DOMAIN s = 1..Len(s) /\ Len(s) \in Nat
  OBVIOUS
<1>2. nuls \subseteq Nat
  BY <1>1
<1>3. nuls # {}
  BY DEF ToSet
<1>4. \E k \in nuls : \A j \in nuls : ~ (<<j, k>> \in OpToRel(<, Nat))
  <2> HIDE DEF nuls
  <2> QED
    BY <1>2, <1>3, NatLessThanWellFounded, WFMin
<1>5. PICK k \in nuls : \A j \in nuls : ~ (<<j, k>> \in OpToRel(<, Nat))
  BY <1>4
<1>6. \A j \in nuls : ~ (j < k)
  <2> SUFFICES ASSUME NEW j \in nuls, j < k PROVE FALSE
    OBVIOUS
  <2>1. <<j, k>> \in Nat \X Nat
    BY <1>2
  <2>2. <<j, k>>[1] < <<j, k>>[2]
    OBVIOUS
  <2> QED
    BY <1>5, <2>1, <2>2 DEF OpToRel
<1>7. ASSUME NEW j \in 1..(k - 1) PROVE s[j] # NUL
  <2>1. k \in 1..Len(s)
    BY <1>1, <1>5
  <2>2. j \in 1..Len(s) /\ j < k
    BY <1>1, <2>1
  <2>3. j \notin nuls
    BY <1>6, <2>2
  <2> QED
    BY <1>1, <2>2, <2>3
<1>8. k \in DOMAIN s /\ s[k] = NUL
  BY <1>5
<1> QED
  BY <1>7, <1>8

LEMMA CStringIs ==
    ASSUME NEW s \in Seq(Nat)
    PROVE  \E m \in 0..Len(s) :
               /\ CString(s) = SubSeq(s, 1, m)
               /\ \A j \in 1..m : s[j] # NUL
               /\ m = Len(s) \/ s[m + 1] = NUL
<1>1. DOMAIN s = 1..Len(s) /\ Len(s) \in Nat
  OBVIOUS
<1>2. CASE NUL \in ToSet(s)
  <2> DEFINE k == CHOOSE k \in DOMAIN s : s[k] = NUL /\ \A j \in 1..(k - 1) : s[j] # NUL
  <2>1. k \in DOMAIN s /\ s[k] = NUL /\ \A j \in 1..(k - 1) : s[j] # NUL
    BY <1>2, FirstNul
  <2>2. CString(s) = SubSeq(s, 1, k - 1)
    BY <1>2 DEF CString
  <2> HIDE DEF k
  <2>3. PICK m \in 0..Len(s) : m = k - 1 /\ m + 1 = k
    BY <1>1, <2>1
  <2>4. CString(s) = SubSeq(s, 1, m) /\ (\A j \in 1..m : s[j] # NUL) /\ s[m + 1] = NUL
    BY <2>1, <2>2, <2>3
  <2> QED
    BY <2>4
<1>3. CASE NUL \notin ToSet(s)
  <2>1. CString(s) = s
    BY <1>3 DEF CString
  <2>2. s = SubSeq(s, 1, Len(s))
    OBVIOUS
  <2>3. \A j \in 1..Len(s) : s[j] # NUL
    BY <1>1, <1>3 DEF ToSet
  <2>4. PICK m \in 0..Len(s) : m = Len(s)
    <3>1. Len(s) \in 0..Len(s)
      BY <1>1
    <3> QED
      BY <3>1, Zenon
  <2>5. CString(s) = SubSeq(s, 1, m) /\ (\A j \in 1..m : s[j] # NUL)
    BY <2>1, <2>2, <2>3, <2>4
  <2> QED
    BY <2>4, <2>5, Zenon
<1> QED
  BY <1>2, <1>3

\* What the text of a poll is ended to.
LEMMA EndedIs ==
    ASSUME NEW bytes \in Seq(Nat)
    PROVE  /\ Ended(bytes) \in Seq(Nat) /\ Len(Ended(bytes)) = Len(bytes) + 1
           /\ \A j \in 1..Len(bytes) : j # TextClip => Ended(bytes)[j] = bytes[j]
           /\ Len(bytes) + 1 > TextClip => Ended(bytes)[TextClip] = NUL
           /\ Len(bytes) + 1 <= TextClip => Ended(bytes)[Len(bytes) + 1] = NUL
           /\ Ended(bytes)[Len(bytes) + 1] = NUL
<1> DEFINE data == Append(bytes, NUL)
           n == Len(bytes)
<1>0. TextClip \in Nat \ {0} /\ n \in Nat
  BY ValuesAssumption
<1>1. /\ data \in Seq(Nat) /\ Len(data) = n + 1 /\ data[n + 1] = NUL
      /\ \A j \in 1..n : data[j] = bytes[j]
  BY DEF NUL
<1>2. Ended(bytes) = IF n + 1 > TextClip THEN [data EXCEPT ![TextClip] = NUL] ELSE data
  BY <1>1 DEF Ended
<1> HIDE DEF data, n
<1>3. CASE n + 1 > TextClip
  <2> DEFINE clipped == [data EXCEPT ![TextClip] = NUL]
  <2>1. DOMAIN data = 1..(n + 1) /\ TextClip \in DOMAIN data
    BY <1>0, <1>1, <1>3
  <2>2. /\ clipped \in Seq(Nat) /\ Len(clipped) = n + 1 /\ clipped[TextClip] = NUL
        /\ \A j \in 1..(n + 1) : j # TextClip => clipped[j] = data[j]
    BY <1>0, <1>1, <2>1 DEF NUL
  <2>3. clipped[n + 1] = NUL
    BY <1>0, <1>1, <2>2
  <2> HIDE DEF clipped
  <2>4. Ended(bytes) = clipped
    BY <1>2, <1>3 DEF clipped
  <2>5. \A j \in 1..n : j \in 1..(n + 1)
    BY <1>0
  <2> QED
    BY <1>0, <1>1, <1>3, <2>2, <2>3, <2>4, <2>5 DEF n
<1>4. CASE ~ (n + 1 > TextClip)
  <2>1. Ended(bytes) = data
    BY <1>2, <1>4
  <2> QED
    BY <1>0, <1>1, <1>4, <2>1 DEF n
<1> QED
  BY <1>3, <1>4

LEMMA ModAtMost ==
    ASSUME NEW a \in Nat, NEW m \in Nat \ {0}
    PROVE  a % m \in 0..a
<1>0. a \in Int
  OBVIOUS
<1>1. PICK q \in Int, r \in 0..(m - 1) : a % m = r /\ a = q * m + r
  <2>1. /\ a \div m \in Int /\ a % m \in 0..(m - 1)
        /\ a = (a \div m) * m + (a % m)
    BY <1>0, DivMod
  <2> QED
    BY <2>1, Zenon
<1>2. ~ (q < 0)
  <2> SUFFICES ASSUME q < 0 PROVE FALSE
    OBVIOUS
  <2>1. q * m <= -m
    BY <1>1
  <2> QED
    BY <1>1, <2>1
<1>3. q * m >= 0
  BY <1>1, <1>2
<1> QED
  BY <1>1, <1>3

LEMMA PrefixIs ==
    ASSUME NEW bytes \in Seq(Nat), NEW m \in 0..Len(bytes)
    PROVE  /\ SubSeq(bytes, 1, m) \in Seq(Nat) /\ Len(SubSeq(bytes, 1, m)) = m
           /\ IsPrefix(SubSeq(bytes, 1, m), bytes)
<1> DEFINE t == SubSeq(bytes, 1, m)
<1>1. t \in Seq(Nat) /\ Len(t) = m /\ m \in Nat /\ m <= Len(bytes)
  OBVIOUS
<1>2. SubSeq(t, 1, m) = t
  BY <1>1
<1> QED
  BY <1>1, <1>2 DEF IsPrefix

\* The text that a poll shows.
LEMMA PolledIs ==
    ASSUME NEW bytes \in Seq(Nat),
           NEW shown, shown = CString(SubSeq(Ended(bytes), 1, Len(Ended(bytes)) % LengthValues))
    PROVE  /\ IsPrefix(shown, bytes)
           /\ Len(shown) < TextClip
           /\ Len(bytes) < LengthValues - 1 /\ NUL \notin ToSet(bytes) =>
                  shown = bytes \/ Len(shown) = TextClip - 1
<1> DEFINE n == Len(bytes)
           data == Ended(bytes)
           size == (n + 1) % LengthValues
           cut == SubSeq(data, 1, size)
<1>1. /\ TextClip \in Nat \ {0} /\ LengthValues \in Nat \ {0} /\ n \in Nat
  BY ValuesAssumption
<1>2. /\ data \in Seq(Nat) /\ Len(data) = n + 1
      /\ \A j \in 1..n : j # TextClip => data[j] = bytes[j]
      /\ n + 1 > TextClip => data[TextClip] = NUL
      /\ data[n + 1] = NUL
  BY EndedIs
<1>3. shown = CString(cut)
  BY <1>2
<1>4. size \in 0..(n + 1)
  <2>1. n + 1 \in Nat
    BY <1>1
  <2> QED
    BY <1>1, <2>1, ModAtMost
<1>5. n + 1 < LengthValues => size = n + 1
  BY <1>1
<1> HIDE DEF data, size
<1>6. cut \in Seq(Nat) /\ Len(cut) = size /\ \A j \in 1..size : cut[j] = data[j]
  BY <1>1, <1>2, <1>4
<1> HIDE DEF cut
<1>7. PICK m \in 0..size : /\ shown = SubSeq(cut, 1, m)
                           /\ \A j \in 1..m : cut[j] # NUL
                           /\ m = size \/ cut[m + 1] = NUL
  BY <1>3, <1>6, CStringIs
<1>8. \A j \in 1..m : data[j] # NUL
  BY <1>4, <1>6, <1>7
<1>9. m <= n /\ m < TextClip
  <2>1. ~ (m >= n + 1)
    BY <1>1, <1>2, <1>8
  <2>2. CASE n + 1 > TextClip
    BY <1>1, <1>2, <1>8, <2>1, <2>2
  <2>3. CASE ~ (n + 1 > TextClip)
    BY <1>1, <2>1, <2>3
  <2> QED
    BY <2>1, <2>2, <2>3
<1>10. \A j \in 1..m : cut[j] = bytes[j]
  <2> SUFFICES ASSUME NEW j \in 1..m PROVE cut[j] = bytes[j]
    OBVIOUS
  <2>1. j \in 1..n /\ j \in 1..size /\ j # TextClip
    BY <1>1, <1>4, <1>9
  <2> QED
    BY <1>2, <1>6, <2>1
<1>11. shown = SubSeq(bytes, 1, m)
  <2>1. SubSeq(cut, 1, m) = [j \in 1..m |-> cut[j]]
    BY <1>6, <1>7
  <2>2. SubSeq(bytes, 1, m) = [j \in 1..m |-> bytes[j]]
    BY <1>9
  <2> QED
    BY <1>7, <1>10, <2>1, <2>2
<1>12. m \in 0..Len(bytes)
  BY <1>1, <1>9
<1>13. IsPrefix(shown, bytes) /\ Len(shown) = m
  BY <1>11, <1>12, PrefixIs
<1>14. ASSUME n < LengthValues - 1, NUL \notin ToSet(bytes)
       PROVE  shown = bytes \/ Len(shown) = TextClip - 1
  <2>1. size = n + 1 /\ m # size
    BY <1>1, <1>5, <1>9, <1>14
  <2>2. data[m + 1] = NUL
    BY <1>4, <1>6, <1>7, <1>9, <2>1
  <2>3. CASE m = n
    <3>1. SubSeq(bytes, 1, n) = bytes
      OBVIOUS
    <3> QED
      BY <1>11, <2>3, <3>1
  <2>4. CASE m # n
    <3>1. m + 1 \in 1..n
      BY <1>1, <1>12, <2>4
    <3>2. bytes[m + 1] # NUL
      BY <1>14, <3>1 DEF ToSet
    <3>3. m + 1 = TextClip
      BY <1>2, <2>2, <3>1, <3>2
    <3> QED
      BY <1>1, <1>12, <1>13, <3>3
  <2> QED
    BY <2>3, <2>4
<1> QED
  BY <1>9, <1>13, <1>14

----------------------------------------------------------------------------
\* What is shown, as an invariant.

ValuesInv ==
    /\ object \in Objects
    /\ DOMAIN number = Modes /\ DOMAIN text = Modes
    /\ PushedAsSent
    /\ PolledText

LEMMA PushShows ==
    ASSUME ValuesInv, Push
    PROVE  PushedAsSent'
<1> DEFINE type == object.type
           value == object.value
           bytes == Payload(object)
<1>1. /\ object' = object
      /\ number' = [number EXCEPT !["PUSH"] = <<DataAsFloat(type, bytes), object.scaler>>]
      /\ text' = [text EXCEPT !["PUSH"] = <<AsSet(type, DataAsString(type, bytes))>>]
  BY DEF Push
<1> HIDE DEF bytes
<1>2. "PUSH" \in DOMAIN number /\ "PUSH" \in DOMAIN text
  BY DEF ValuesInv, Modes
<1>3. /\ number'["PUSH"] = <<DataAsFloat(type, bytes), object.scaler>>
      /\ text'["PUSH"] = <<AsSet(type, DataAsString(type, bytes))>>
  BY <1>1, <1>2
<1>4. /\ type \in NumberTypes => value \in TypeValues(type)
      /\ type = "DATETIME" => IsDateTime(value)
  BY ValuesAssumption DEF ValuesInv
<1>5. CASE type \in NumberTypes
  <2>1. bytes = Encode(value, Widths[type])
    BY <1>5 DEF bytes, Payload
  <2>2. Len(bytes) = Widths[type] /\ Decode(type, bytes) = value
    BY <1>4, <1>5, <2>1, DecodeUndoes
  <2>3. ~ (Len(bytes) < Widths[type]) /\ Len(bytes) >= Widths[type]
    BY <1>5, <2>2, WidthIs
  <2>4. CASE type \in IntegerTypes
    <3>0. type # "FLOAT32" /\ type # "FLOAT64"
      BY <2>4 DEF IntegerTypes, FloatTypes
    <3>1. DataAsFloat(type, bytes) = ToFloat(value)
      BY <2>2, <2>4, <3>0 DEF DataAsFloat
    <3>2. type # "STRING"
      BY <1>5, WidthIs DEF TextTypes
    <3>3. DataAsString(type, bytes) = <<value>>
      BY <2>2, <2>3, <2>4, WidthIs DEF DataAsString, IntegerTypes
    <3>4. AsSet(type, DataAsString(type, bytes)) = <<value>>
      BY <3>2, <3>3 DEF AsSet
    <3>5. number'["PUSH"] = <<ToFloat(value), object.scaler>> /\ text'["PUSH"] = << <<value>> >>
      BY <1>3, <3>1, <3>4
    <3> QED
      BY <1>1, <2>4, <3>5, WidthIs DEF PushedAsSent, IntegerTypes, FloatTypes
  <2>5. CASE type = "FLOAT32"
    <3>1. DataAsFloat(type, bytes) = value
      BY <2>2, <2>5 DEF DataAsFloat, IntegerTypes, FloatTypes
    <3> QED
      BY <1>1, <1>3, <2>5, <3>1 DEF PushedAsSent, IntegerTypes, FloatTypes
  <2>6. CASE type \notin IntegerTypes /\ type # "FLOAT32"
    <3>1. type # "DATETIME"
      BY <1>5, WidthIs
    <3> QED
      BY <1>1, <2>6, <3>1 DEF PushedAsSent
  <2> QED
    BY <2>4, <2>5, <2>6
<1>6. CASE type \notin NumberTypes
  <2>1. type \notin IntegerTypes /\ type \notin FloatTypes /\ type # "FLOAT32"
    BY <1>6, WidthIs DEF IntegerTypes, FloatTypes
  <2>2. CASE type = "DATETIME"
    <3>1. bytes = value
      BY <1>6 DEF bytes, Payload
    <3>2. DataAsString(type, bytes) = DateTimeAsString(value)
      BY <2>1, <2>2, <3>1 DEF DataAsString, TextTypes
    <3>3. AsSet(type, DataAsString(type, bytes)) = DateTimeAsString(value)
      BY <2>2, <3>2 DEF AsSet
    <3>4. text'["PUSH"][1] = DateTimeAsString(value)
      BY <1>3, <3>3
    <3>5. Specified(value, text'["PUSH"][1]) /\ DeviationShown(value, text'["PUSH"][1])
      BY <1>4, <2>2, <3>4, DateTimeShown
    <3> QED
      BY <1>1, <2>1, <2>2, <3>5 DEF PushedAsSent
  <2>3. CASE type # "DATETIME"
    BY <1>1, <2>1, <2>3 DEF PushedAsSent
  <2> QED
    BY <2>2, <2>3
<1> QED
  BY <1>5, <1>6

LEMMA PollTextShows ==
    ASSUME ValuesInv, PollText
    PROVE  PolledText'
<1> DEFINE data == Ended(object.value)
           shown == CString(SubSeq(data, 1, Len(data) % LengthValues))
<1>1. DataAsString("STRING", SubSeq(data, 1, Len(data) % LengthValues))
        = SubSeq(data, 1, Len(data) % LengthValues)
  BY WidthIs DEF DataAsString, TextTypes, IntegerTypes
<1>2. /\ object' = object /\ object.type = "STRING"
      /\ text' = [text EXCEPT !["POLL"] = <<shown>>]
  BY <1>1 DEF PollText
<1>3. object.value \in Seq(Nat)
  BY <1>2, ValuesAssumption DEF ValuesInv, TextTypes
<1> HIDE DEF data
<1>4. /\ IsPrefix(shown, object.value)
      /\ Len(shown) < TextClip
      /\ Len(object.value) < LengthValues - 1 /\ NUL \notin ToSet(object.value) =>
             shown = object.value \/ Len(shown) = TextClip - 1
  BY <1>3, PolledIs DEF data
<1> HIDE DEF shown
<1>5. text'["POLL"] = <<shown>>
  BY <1>2 DEF ValuesInv, Modes
<1>6. ASSUME NEW k \in DOMAIN text'["POLL"]
      PROVE  k = 1 /\ text'["POLL"][k] = shown
  BY <1>5, <1>6
<1> QED
  BY <1>2, <1>4, <1>6 DEF PolledText

LEMMA ValuesInit == Init => ValuesInv
<1> SUFFICES ASSUME Init PROVE ValuesInv
  OBVIOUS
<1>1. /\ object \in Objects /\ DOMAIN number = Modes /\ DOMAIN text = Modes
      /\ number["PUSH"] = None /\ text["POLL"] = <<>>
  BY DEF Init, Modes, None
<1>2. PushedAsSent
  BY <1>1 DEF PushedAsSent
<1>3. PolledText
  BY <1>1 DEF PolledText
<1> QED
  BY <1>1, <1>2, <1>3 DEF ValuesInv

LEMMA ValuesStep ==
    ASSUME ValuesInv, [Next]_vars
    PROVE  ValuesInv'
<1>1. CASE Push
  <2>1. PushedAsSent'
    BY <1>1, PushShows
  <2>2. /\ object' = object /\ DOMAIN number' = Modes /\ DOMAIN text' = Modes
        /\ text'["POLL"] = text["POLL"]
    BY <1>1 DEF ValuesInv, Push, Modes
  <2>3. PolledText'
    BY <2>2 DEF ValuesInv, PolledText
  <2> QED
    BY <2>1, <2>2, <2>3 DEF ValuesInv
<1>2. CASE PollNumber
  <2>1. /\ object' = object /\ DOMAIN number' = Modes /\ text' = text
        /\ number'["PUSH"] = number["PUSH"]
    BY <1>2 DEF ValuesInv, PollNumber, Modes
  <2>2. PushedAsSent' /\ PolledText'
    BY <2>1 DEF ValuesInv, PushedAsSent, PolledText
  <2> QED
    BY <2>1, <2>2 DEF ValuesInv
<1>3. CASE PollText
  <2>1. PolledText'
    BY <1>3, PollTextShows
  <2>2. /\ object' = object /\ number' = number /\ DOMAIN text' = Modes
        /\ text'["PUSH"] = text["PUSH"]
    BY <1>3 DEF ValuesInv, PollText, Modes
  <2>3. PushedAsSent'
    BY <2>2 DEF ValuesInv, PushedAsSent
  <2> QED
    BY <2>1, <2>2, <2>3 DEF ValuesInv
<1>4. CASE UNCHANGED vars
  BY <1>4 DEF vars, ValuesInv, PushedAsSent, PolledText
<1> QED
  BY <1>1, <1>2, <1>3, <1>4 DEF Next

LEMMA ValuesAlways == Spec => []ValuesInv
BY ValuesInit, ValuesStep, PTL DEF Spec

\* A sensor in push mode is set to what its object says when that is an
\* integer, a FLOAT32 or a date-time with a year: any value of any width, at
\* whatever size of a byte, to a float's precision and with its scaler, an
\* integer in full as a text, every field of the date-time and its deviation.
\* dlms_data_as_float() and dlms_data_as_string() lose nothing else of these
\* types.  Of a FLOAT64, a BCD and a year 0 nothing is claimed.
THEOREM ValuesPushedAsSent == Spec => []PushedAsSent
<1>1. ValuesInv => PushedAsSent
  BY DEF ValuesInv
<1> QED
  BY <1>1, ValuesAlways, PTL

\* A text sensor that is polled shows the start of the meter's text and nothing
\* of the buffer behind it, whatever NULs the text has and however long it is:
\* set_sensor_value() clips it, and sizes that wrap in a uint8_t only cut more.
THEOREM ValuesPolledText == Spec => []PolledText
<1>1. ValuesInv => PolledText
  BY DEF ValuesInv
<1> QED
  BY <1>1, ValuesAlways, PTL
=============================================================================
