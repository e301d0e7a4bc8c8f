------------------------- MODULE DlmsExchangeProofs -------------------------
(***************************************************************************)
(* Proofs about DlmsExchange, for any requests and replies, any sizes of   *)
(* buffers and any faults of the line.                                     *)
(***************************************************************************)
EXTENDS DlmsExchange, LexOrder, TLAPS, FiniteSetTheorems

AnyByte == Positions \cup {Stale, StaleFlag}
OldByte == {Stale, StaleFlag}

----------------------------------------------------------------------------
\* Sequences, by their lengths and elements.

LEMMA SeqOf ==
    ASSUME NEW S, NEW s \in Seq(S)
    PROVE  /\ Len(s) \in Nat /\ DOMAIN s = 1..Len(s)
           /\ \A i \in 1..Len(s) : s[i] \in S
           /\ s = <<>> <=> Len(s) = 0
OBVIOUS

LEMMA MapOf ==
    ASSUME NEW S, NEW n \in Nat, NEW f, f \in [1..n -> S]
    PROVE  f \in Seq(S) /\ Len(f) = n
OBVIOUS

LEMMA AppendOf ==
    ASSUME NEW S, NEW s \in Seq(S), NEW e \in S
    PROVE  /\ Append(s, e) \in Seq(S)
           /\ Len(Append(s, e)) = Len(s) + 1
           /\ \A i \in 1..Len(s) : Append(s, e)[i] = s[i]
           /\ Append(s, e)[Len(s) + 1] = e
OBVIOUS

LEMMA TailOf ==
    ASSUME NEW S, NEW s \in Seq(S), s # <<>>
    PROVE  Head(s) \in S /\ Tail(s) \in Seq(S)
OBVIOUS

LEMMA ConcatOf ==
    ASSUME NEW S, NEW s \in Seq(S), NEW t \in Seq(S)
    PROVE  /\ s \o t \in Seq(S)
           /\ Len(s \o t) = Len(s) + Len(t)
           /\ DOMAIN (s \o t) = 1..(Len(s) + Len(t))
           /\ \A i \in 1..Len(s) : (s \o t)[i] = s[i]
           /\ \A i \in (Len(s) + 1)..(Len(s) + Len(t)) : (s \o t)[i] = t[i - Len(s)]
OBVIOUS

LEMMA PartOf ==
    ASSUME NEW S, NEW s \in Seq(S), NEW k \in 0..Len(s)
    PROVE  /\ SubSeq(s, 1, k) \in Seq(S) /\ Len(SubSeq(s, 1, k)) = k
           /\ \A i \in 1..k : SubSeq(s, 1, k)[i] = s[i]
           /\ SubSeq(s, k + 1, Len(s)) \in Seq(S)
           /\ Len(SubSeq(s, k + 1, Len(s))) = Len(s) - k
           /\ \A i \in 1..(Len(s) - k) : SubSeq(s, k + 1, Len(s))[i] = s[k + i]
OBVIOUS

LEMMA WiderSeq ==
    ASSUME NEW S, NEW T, S \subseteq T, NEW s \in Seq(S)
    PROVE  s \in Seq(T)
OBVIOUS

----------------------------------------------------------------------------
\* Replies.

LEMMA ReplyType ==
    ASSUME NEW r \in Replies
    PROVE  /\ r.size \in Nat \ {0} /\ r.size \in r.ends
           /\ 1 \in r.flags /\ 1 \notin r.ends
           /\ \A e \in r.ends : e \in r.flags /\ e \in 2..r.size
           /\ r.flags \subseteq 1..r.size
           /\ 1..r.size \subseteq Positions
<1>1. HdlcReply(r)
  BY ReplyAssumption
<1>2. 1..r.size \subseteq Positions
  BY DEF Positions
<1>3. r.size \in 1..r.size /\ r.size \in Nat /\ 1 \in r.flags /\ 1 \notin r.ends
  BY <1>1 DEF HdlcReply
<1>4. r.flags \subseteq 1..r.size /\ r.ends \subseteq r.flags /\ r.size \in r.ends
  BY <1>1 DEF HdlcReply
<1> QED
  BY <1>2, <1>3, <1>4

\* reply of a state that satisfies TypeOK.
ReplyOK == reply \in Replies \/ reply = NoReply

LEMMA SizeType == ReplyOK => reply.size \in Nat
BY ReplyType DEF ReplyOK, NoReply

LEMMA ReplyPositions == ReplyOK => 1..reply.size \subseteq Positions
<1>1. CASE reply = NoReply
  <2>1. reply.size = 0
    BY <1>1 DEF NoReply
  <2>2. 1..0 = {}
    OBVIOUS
  <2> QED
    BY <2>1, <2>2
<1> QED
  BY <1>1, ReplyType DEF ReplyOK

LEMMA AgedOf ==
    ASSUME NEW S, NEW s \in Seq(S)
    PROVE  Aged(s) \in Seq(OldByte) /\ Len(Aged(s)) = Len(s)
<1>1. Len(s) \in Nat /\ DOMAIN s = 1..Len(s)
  BY SeqOf
<1>2. Aged(s) \in [1..Len(s) -> OldByte]
  BY <1>1 DEF Aged, OldByte
<1> QED
  BY <1>1, <1>2, MapOf

LEMMA GivenUpType ==
    ASSUME TypeOK, GivenUp
    PROVE  late' \in Seq(OldByte)
<1> DEFINE rest == [k \in 1..(reply.size - sent) |-> sent + k]
<1>1. reply.size \in Nat /\ sent \in 0..reply.size
  BY SizeType DEF TypeOK, ReplyOK
<1>2. late \in Seq(OldByte)
  BY DEF TypeOK, OldByte
<1>3. rest \in Seq(Nat)
  <2>1. reply.size - sent \in Nat /\ rest \in [1..(reply.size - sent) -> Nat]
    BY <1>1
  <2> QED
    BY <2>1, MapOf
<1>4. Aged(rest) \in Seq(OldByte)
  BY <1>3, AgedOf
<1>5. late \o Aged(rest) \in Seq(OldByte)
  BY <1>2, <1>4, ConcatOf
<1> QED
  BY <1>2, <1>5 DEF GivenUp

----------------------------------------------------------------------------
LEMMA ChunkType ==
    ASSUME NEW max \in Nat, NEW size \in 0..max, NEW pos \in 0..max,
           NEW left, left = IF size > pos THEN size - pos ELSE 0,
           NEW c, c = IF left > MAX_BYTES_IN_ONE_SHOT THEN MAX_BYTES_IN_ONE_SHOT ELSE left
    PROVE  /\ c \in Nat /\ pos + c \in 0..max
           /\ pos <= size => pos + c <= size
<1>1. MAX_BYTES_IN_ONE_SHOT \in Nat
  BY TransmitAssumption
<1> QED
  BY <1>1

LEMMA MessageType ==
    ASSUME TypeOK, HasMoreMessagesToSend
    PROVE  /\ Size \in UINT16
           /\ Chunk \in Nat /\ out_msg_data_pos + Chunk \in UINT16
           /\ out_msg_data_pos <= Size => out_msg_data_pos + Chunk <= Size
           /\ out_msg_index \in Nat /\ out_msg_index + 1 \in 0..Len(out_msg)
<1>1. out_msg \in Seq(UINT16)
  <2>1. CASE out_msg = <<>>
    BY <2>1
  <2>2. CASE out_msg \in OutMessages
    BY <2>2, TransmitAssumption
  <2> QED
    BY <2>1, <2>2 DEF TypeOK
<1>2. /\ out_msg_index \in Nat /\ out_msg_index + 1 \in 1..Len(out_msg)
      /\ out_msg_data_pos \in UINT16
  BY <1>1, SeqOf DEF TypeOK, HasMoreMessagesToSend
<1>3. Size \in UINT16
  BY <1>1, <1>2, SeqOf DEF Size
<1>4. /\ Chunk \in Nat /\ out_msg_data_pos + Chunk \in UINT16
      /\ out_msg_data_pos <= Size => out_msg_data_pos + Chunk <= Size
  <2> DEFINE left == IF Size > out_msg_data_pos THEN Size - out_msg_data_pos ELSE 0
  <2>1. Chunk = IF left > MAX_BYTES_IN_ONE_SHOT THEN MAX_BYTES_IN_ONE_SHOT ELSE left
    BY DEF Chunk
  <2> HIDE DEF left
  <2>2. left = IF Size > out_msg_data_pos THEN Size - out_msg_data_pos ELSE 0
    BY DEF left
  <2> QED
    <3> DEFINE max == 2^16 - 1
    <3>1. max \in Nat /\ UINT16 = 0..max
      BY DEF UINT16
    <3> HIDE DEF max
    <3> QED
      BY <1>2, <1>3, <2>1, <2>2, <3>1, ChunkType
<1> QED
  BY <1>1, <1>2, <1>3, <1>4, SeqOf

LEMMA TypeInit == Init => TypeOK
<1> SUFFICES ASSUME Init PROVE TypeOK
  OBVIOUS
<1>1. \A S : <<>> \in Seq(S) /\ Len(<<>>) = 0
  OBVIOUS
<1>2. reply.size = 0
  BY DEF Init, NoReply
<1>3. wire \in Seq(Nat \X Nat) /\ late \in Seq({Stale, StaleFlag})
      /\ uart \in Seq(Positions \cup {Stale, StaleFlag})
      /\ in \in Seq(Positions \cup {Stale, StaleFlag})
  BY <1>1 DEF Init
<1>4. out_msg_index \in 0..Len(out_msg) /\ position \in 0..Len(in)
  BY <1>1 DEF Init
<1>5. out_msg_data_pos \in UINT16 /\ sent \in 0..reply.size
  BY <1>2 DEF Init, UINT16
<1>6. capacity \in Nat /\ silent \in BOOLEAN /\ clean \in BOOLEAN
  BY ReceiveAssumption DEF Init
<1>7. /\ out_msg \in OutMessages \/ out_msg = <<>>
      /\ reply \in Replies \/ reply = NoReply
      /\ state_ \in Ended \cup {"COMMS_TX", "COMMS_RX"}
  BY DEF Init, Ended
<1> QED
  BY <1>3, <1>4, <1>5, <1>6, <1>7 DEF TypeOK

LEMMA ReceiveFrameMoves ==
    ASSUME TypeOK, NEW k \in 1..Len(uart), ReceiveFrame(k)
    PROVE  /\ in' \in Seq(AnyByte) /\ uart' \in Seq(AnyByte)
           /\ Len(in) \in Nat /\ Len(uart) \in Nat
           /\ Len(in') = Len(in) + k /\ Len(uart') = Len(uart) - k
           /\ \A i \in 1..Len(in) : in'[i] = in[i]
           /\ \A i \in (Len(in) + 1)..(Len(in) + k) : in'[i] = uart[i - Len(in)]
           /\ \A i \in 1..(Len(uart) - k) : uart'[i] = uart[k + i]
<1>1. in \in Seq(AnyByte) /\ uart \in Seq(AnyByte)
  BY DEF TypeOK, AnyByte
<1>2. Len(in) \in Nat /\ Len(uart) \in Nat /\ k \in 0..Len(uart)
  BY <1>1, SeqOf
<1>3. /\ Upto(k) \in Seq(AnyByte) /\ Len(Upto(k)) = k
      /\ \A i \in 1..k : Upto(k)[i] = uart[i]
      /\ Unread(k) \in Seq(AnyByte) /\ Len(Unread(k)) = Len(uart) - k
      /\ \A i \in 1..(Len(uart) - k) : Unread(k)[i] = uart[k + i]
  BY <1>1, <1>2, PartOf DEF Upto, Unread
<1>4. in' = in \o Upto(k) /\ uart' = Unread(k)
  BY DEF ReceiveFrame
<1>5. /\ in \o Upto(k) \in Seq(AnyByte)
      /\ Len(in \o Upto(k)) = Len(in) + Len(Upto(k))
      /\ \A i \in 1..Len(in) : (in \o Upto(k))[i] = in[i]
      /\ \A i \in (Len(in) + 1)..(Len(in) + Len(Upto(k))) :
            (in \o Upto(k))[i] = Upto(k)[i - Len(in)]
  BY <1>1, <1>3, ConcatOf
<1>6. \A i \in (Len(in) + 1)..(Len(in) + k) : i - Len(in) \in 1..k
  BY <1>2
<1> QED
  BY <1>2, <1>3, <1>4, <1>5, <1>6

LEMMA GrownType ==
    ASSUME TypeOK, NEW n \in Nat
    PROVE  Grown(n) \in Nat /\ Len(in) + n <= Grown(n) /\ capacity <= Grown(n)
<1>1. Len(in) \in Nat /\ capacity \in Nat /\ GROW_EPSILON \in Nat
  BY SeqOf, ReceiveAssumption DEF TypeOK
<1> QED
  BY <1>1 DEF Grown

LEMMA TypeStep == TypeOK /\ [Next]_vars => TypeOK'
<1> SUFFICES ASSUME TypeOK, [Next]_vars PROVE TypeOK'
  OBVIOUS
<1>a. \A S : <<>> \in Seq(S) /\ Len(<<>>) = 0
  OBVIOUS
<1>b. /\ uart \in Seq(AnyByte) /\ late \in Seq(OldByte) /\ in \in Seq(AnyByte)
      /\ OldByte \subseteq AnyByte
  BY DEF TypeOK, AnyByte, OldByte
<1>1. CASE OpenSession
  <2>1. uart' \in Seq(AnyByte) /\ in' \in Seq(AnyByte) /\ position' \in 0..Len(in')
    BY <1>1, <1>a DEF OpenSession
  <2>2. state_' \in Ended
    BY <1>1 DEF OpenSession, Ended
  <2> QED
    BY <1>1, <2>1, <2>2 DEF OpenSession, TypeOK, txVars, meterVars, AnyByte
<1>2. CASE SendReq
  <2>1. in' \in Seq(AnyByte) /\ position' \in 0..Len(in')
    BY <1>2, <1>a DEF SendReq, Reset
  <2>2. uart' \in Seq(AnyByte)
    BY <1>2, <1>b, AgedOf, WiderSeq DEF SendReq
  <2>3. out_msg_index' \in 0..Len(out_msg') /\ out_msg_data_pos' \in UINT16
    <3>1. out_msg' \in Seq(UINT16)
      BY <1>2, TransmitAssumption DEF SendReq
    <3>2. Len(out_msg') \in Nat
      BY <3>1, SeqOf
    <3>3. 0 \in UINT16
      BY DEF UINT16
    <3> QED
      BY <1>2, <3>2, <3>3 DEF SendReq
  <2>4. wire' \in Seq(Nat \X Nat)
    BY <1>2, <1>a DEF SendReq
  <2>5. reply' \in Replies /\ sent' \in 0..reply'.size /\ silent' \in BOOLEAN
    <3>1. reply' \in Replies /\ sent' = 0 /\ silent' \in BOOLEAN
      BY <1>2 DEF SendReq
    <3>2. reply'.size \in Nat
      BY <3>1, ReplyType
    <3> QED
      BY <3>1, <3>2
  <2>6. clean' \in BOOLEAN /\ UNCHANGED <<late, capacity>> /\ out_msg' \in OutMessages
        /\ state_' = "COMMS_TX"
    BY <1>2 DEF SendReq
  <2> QED
    BY <2>1, <2>2, <2>3, <2>4, <2>5, <2>6 DEF TypeOK, AnyByte
<1>3. CASE SendDlmsMessages
  <2>1. HasMoreMessagesToSend
    BY <1>3 DEF SendDlmsMessages
  <2>2. out_msg_index' \in 0..Len(out_msg')
    BY <1>3, <2>1, MessageType DEF SendDlmsMessages, TypeOK
  <2>3. out_msg_data_pos' \in UINT16
    BY <1>3, <2>1, MessageType DEF SendDlmsMessages
  <2>4. wire' \in Seq(Nat \X Nat)
    <3>1. UINT16 \subseteq Nat
      BY DEF UINT16
    <3>2. Chunk \in Nat /\ out_msg_data_pos \in Nat /\ out_msg_index \in Nat
      BY <2>1, <3>1, MessageType DEF TypeOK
    <3>3. Bytes(out_msg_index, out_msg_data_pos, Chunk) \in [1..Chunk -> Nat \X Nat]
      BY <3>2 DEF Bytes
    <3>4. Bytes(out_msg_index, out_msg_data_pos, Chunk) \in Seq(Nat \X Nat)
      BY <3>2, <3>3, MapOf
    <3> QED
      BY <1>3, <3>4, ConcatOf DEF SendDlmsMessages, TypeOK
  <2> QED
    BY <1>3, <2>2, <2>3, <2>4 DEF SendDlmsMessages, TypeOK, meterVars, rxVars
<1>4. CASE TransmitDone
  BY <1>4 DEF TransmitDone, TypeOK, txVars, meterVars, rxVars
<1>5. CASE MeterSends
  <2>1. sent' \in 0..reply.size /\ sent + 1 \in 1..reply.size
    BY <1>5, SizeType DEF MeterSends, Replying, TypeOK, ReplyOK
  <2>2. sent + 1 \in AnyByte
    BY <2>1, ReplyPositions DEF AnyByte, TypeOK, ReplyOK
  <2>3. uart' \in Seq(AnyByte)
    BY <1>5, <1>b, <2>2, AppendOf DEF MeterSends
  <2> QED
    BY <1>5, <2>1, <2>3 DEF MeterSends, TypeOK, txVars, rxVars, AnyByte
<1>6. CASE MeterStops
  BY <1>6 DEF MeterStops, TypeOK, txVars, rxVars
<1>7. CASE LateByte
  <2>1. Head(late) \in OldByte /\ late' \in Seq(OldByte)
    BY <1>7, <1>b, TailOf DEF LateByte
  <2>2. uart' \in Seq(AnyByte)
    BY <1>7, <1>b, <2>1, AppendOf DEF LateByte
  <2> QED
    BY <1>7, <2>1, <2>2
    DEF LateByte, TypeOK, txVars, meterVars, rxVars, AnyByte, OldByte
<1>8. CASE RxTimeout
  <2>1. late' \in Seq(OldByte)
    BY <1>8, GivenUpType DEF RxTimeout
  <2> QED
    BY <1>8, <2>1 DEF RxTimeout, TypeOK, Ended, txVars, meterVars, rxVars, OldByte
<1>9. ASSUME NEW k \in 1..Len(uart), ReceiveFrame(k) PROVE TypeOK'
  <2>1. /\ in' \in Seq(AnyByte) /\ uart' \in Seq(AnyByte)
        /\ Len(in') = Len(in) + k /\ Len(in) \in Nat /\ Len(uart) \in Nat
    BY <1>9, ReceiveFrameMoves
  <2>2. capacity' \in Nat
    BY <1>9, <2>1, GrownType DEF ReceiveFrame
  <2>3. position \in 0..Len(in') /\ state_ \in Ended \cup {"COMMS_TX", "COMMS_RX"}
    BY <2>1 DEF TypeOK
  <2>4. /\ position' \in 0..Len(in')
        /\ state_' \in Ended \cup {"COMMS_TX", "COMMS_RX"}
        /\ UNCHANGED late \/ GivenUp
    <3>1. CASE UNCHANGED <<state_, late, position>>
      BY <2>3, <3>1
    <3>2. CASE GetStaleData(in')
      BY <2>1, <2>3, <3>2 DEF GetStaleData, Refuse, Ended
    <3>3. CASE GetData(in')
      <4>1. CASE UNCHANGED <<state_, late, position>>
        BY <2>3, <4>1
      <4>2. ASSUME NEW frame \in reply.ends, position < frame, frame <= Len(in'),
                   position' = frame,
                   \/ /\ state_' = IF Complete(frame) THEN "RECEIVED" ELSE state_
                      /\ UNCHANGED late
                   \/ LineFaults /\ Refuse
            PROVE  /\ position' \in 0..Len(in')
                   /\ state_' \in Ended \cup {"COMMS_TX", "COMMS_RX"}
                   /\ UNCHANGED late \/ GivenUp
        <5>1. frame \in Nat
          BY ReplyType DEF TypeOK, NoReply
        <5> QED
          BY <2>1, <2>3, <4>2, <5>1 DEF Refuse, Ended
      <4> QED
        BY <3>3, <4>1, <4>2 DEF GetData
    <3> QED
      BY <1>9, <3>1, <3>2, <3>3 DEF ReceiveFrame
  <2>5. late' \in Seq(OldByte)
    BY <1>b, <2>4, GivenUpType
  <2> QED
    BY <1>9, <2>1, <2>2, <2>4, <2>5
    DEF ReceiveFrame, TypeOK, txVars, meterVars, AnyByte, OldByte
<1>10. CASE UNCHANGED vars
  BY <1>10 DEF vars, TypeOK, txVars, meterVars, rxVars
<1> QED
  BY <1>1, <1>2, <1>3, <1>4, <1>5, <1>6, <1>7, <1>8, <1>9, <1>10
  DEF Next, Pass, Line

\* Types are invariant; out_msg_data_pos never wraps around, however many
\* messages of up to 65535 bytes a request has.
THEOREM ExchangeTypeCorrect == Spec => []TypeOK
BY TypeInit, TypeStep, PTL DEF Spec, SafeSpec

----------------------------------------------------------------------------
LEMMA InputFitsStep == TypeOK /\ InputFits /\ [Next]_vars => InputFits'
<1> SUFFICES ASSUME TypeOK, InputFits, [Next]_vars PROVE InputFits'
  OBVIOUS
<1>1. Len(<<>>) = 0 /\ 0 <= capacity
  BY DEF TypeOK
<1>2. CASE OpenSession
  BY <1>1, <1>2 DEF OpenSession, InputFits
<1>3. CASE SendReq
  BY <1>1, <1>3 DEF SendReq, Reset, InputFits
<1>4. ASSUME NEW k \in 1..Len(uart), ReceiveFrame(k) PROVE InputFits'
  <2>1. /\ Len(in') = Len(in) + k /\ Len(in) \in Nat /\ Len(uart) \in Nat
    BY <1>4, ReceiveFrameMoves
  <2>2. capacity' = Grown(Len(uart))
    BY <1>4 DEF ReceiveFrame
  <2>3. Grown(Len(uart)) \in Nat /\ Len(in) + Len(uart) <= Grown(Len(uart))
    BY <2>1, GrownType
  <2> QED
    BY <2>1, <2>2, <2>3 DEF InputFits
<1>5. CASE UNCHANGED <<in, capacity>>
  BY <1>5 DEF InputFits
<1> QED
  BY <1>2, <1>3, <1>4, <1>5 DEF Next, Line, Pass, SendDlmsMessages, TransmitDone,
     MeterSends, MeterStops, LateByte, RxTimeout, vars, rxVars

\* No byte is written past the end of buffers_.in: check_and_grow_input()
\* counts what earlier passes have left in it.
THEOREM ExchangeInputFits == Spec => []InputFits
<1>1. Init => InputFits
  BY ReceiveAssumption DEF Init, InputFits
<1> QED
  BY <1>1, TypeInit, TypeStep, InputFitsStep, PTL DEF Spec, SafeSpec

----------------------------------------------------------------------------
\* The line and the input buffer in an exchange.

\* What byte n of the reply looks like, or of what is before it.
IsByte(byte, n) == IF n >= 1 THEN byte = n ELSE IsStale(byte)

Exchanging == state_ \in {"COMMS_TX", "COMMS_RX"}
Received == state_ = "RECEIVED" /\ clean

\* Bytes that were left on the line.
Old == Len(in) + Len(uart) - sent

ByteOrder ==
    /\ Old >= 0 /\ (clean => Old = 0)
    /\ \A i \in 1..Len(in) : IsByte(in[i], i - Old)
    /\ \A i \in 1..Len(uart) : IsByte(uart[i], Len(in) + i - Old)

\* BytesInOrder, and what keeps late bytes from coming in among the reply's.
OrderInv ==
    /\ Exchanging => reply \in Replies
    /\ Exchanging \/ Received => ByteOrder /\ (sent > 0 \/ clean => late = <<>>)
    /\ state_ = "COMMS_TX" => in = <<>> /\ position = 0

\* Every frame whose last byte is in the buffer has been decoded, and it was
\* not the last one.
Decoded ==
    /\ position < reply.size
    /\ \A e \in reply.ends : e <= Len(in) => e <= position

DecodedInv ==
    /\ Exchanging /\ clean => Decoded
    /\ ReplyNotLost
    /\ QuietWhenReceived

LineInv == TypeOK /\ OrderInv /\ DecodedInv

LEMMA LineInit == Init => LineInv
<1>1. Init => OrderInv /\ DecodedInv
  BY DEF Init, OrderInv, DecodedInv, Exchanging, Received, ReplyNotLost,
     QuietWhenReceived
<1> QED
  BY <1>1, TypeInit DEF LineInv

LEMMA Lengths ==
    ASSUME TypeOK
    PROVE  /\ Len(in) \in Nat /\ Len(uart) \in Nat /\ sent \in Nat
           /\ reply.size \in Nat /\ sent <= reply.size
           /\ in \in Seq(AnyByte) /\ uart \in Seq(AnyByte)
           /\ late \in Seq(OldByte)
<1>1. in \in Seq(AnyByte) /\ uart \in Seq(AnyByte) /\ late \in Seq(OldByte)
  BY DEF TypeOK, AnyByte, OldByte
<1>2. reply.size \in Nat
  BY SizeType DEF TypeOK, ReplyOK
<1> QED
  BY <1>1, <1>2, SeqOf DEF TypeOK

\* A new exchange: all that is in the UART is left over.
LEMMA OrderSendReq ==
    ASSUME LineInv, SendReq
    PROVE  OrderInv' /\ DecodedInv'
<1>1. in' = <<>> /\ position' = 0 /\ sent' = 0 /\ reply' \in Replies
      /\ state_' = "COMMS_TX" /\ late' = late
      /\ uart' = Aged(uart) /\ (clean' => uart = <<>> /\ late = <<>>)
  BY DEF SendReq, Reset
<1>2. uart' \in Seq(OldByte) /\ Len(uart') = Len(uart) /\ Len(uart) \in Nat
  BY <1>1, AgedOf, Lengths DEF LineInv
<1>3. Len(in') = 0
  BY <1>1
<1>4. Old' = Len(uart)
  BY <1>1, <1>2, <1>3 DEF Old
<1>5. clean' => Len(uart) = 0
  BY <1>1, <1>2, SeqOf, Lengths DEF LineInv
<1>6. \A i \in 1..Len(uart') : IsStale(uart'[i])
  BY <1>2, SeqOf DEF OldByte, IsStale
<1>7. ByteOrder'
  <2>1. \A i \in 1..Len(uart') : ~(Len(in') + i - Old' >= 1)
    BY <1>2, <1>3, <1>4
  <2> QED
    BY <1>2, <1>3, <1>4, <1>5, <1>6, <2>1 DEF ByteOrder, IsByte
<1>8. OrderInv'
  BY <1>1, <1>7 DEF OrderInv, Exchanging, Received
<1>9. Decoded'
  <2>1. reply'.size \in Nat \ {0} /\ \A e \in reply'.ends : e \in 2..reply'.size
    BY <1>1, ReplyType
  <2> QED
    BY <1>1, <1>3, <2>1 DEF Decoded
<1> QED
  BY <1>1, <1>8, <1>9 DEF DecodedInv, ReplyNotLost, QuietWhenReceived

LEMMA OrderMeterSends ==
    ASSUME LineInv, MeterSends
    PROVE  OrderInv' /\ DecodedInv'
<1>1. /\ Exchanging /\ late = <<>> /\ sent' = sent + 1
      /\ uart' = Append(uart, sent + 1)
      /\ UNCHANGED <<state_, in, position, reply, late, clean>>
  BY DEF MeterSends, Replying, Exchanging, rxVars
<1>2. /\ Len(in) \in Nat /\ Len(uart) \in Nat /\ sent \in Nat
      /\ uart \in Seq(AnyByte \cup {sent + 1})
  BY Lengths, WiderSeq DEF LineInv
<1>3. /\ Len(uart') = Len(uart) + 1
      /\ \A i \in 1..Len(uart) : uart'[i] = uart[i]
      /\ uart'[Len(uart) + 1] = sent + 1
  BY <1>1, <1>2, AppendOf
<1>4. Old' = Old
  BY <1>1, <1>2, <1>3 DEF Old
<1>5. ByteOrder
  BY <1>1 DEF LineInv, OrderInv
<1>6. IsByte(uart'[Len(uart) + 1], Len(in) + Len(uart) + 1 - Old)
  <2>1. Len(in) + Len(uart) + 1 - Old = sent + 1
    BY <1>2 DEF Old
  <2> QED
    BY <1>2, <1>3, <2>1 DEF IsByte
<1>7. ByteOrder'
  <2>1. \A i \in 1..Len(uart') : i \in 1..Len(uart) \/ i = Len(uart) + 1
    BY <1>2, <1>3
  <2>2. Len(in) + (Len(uart) + 1) - Old = Len(in) + Len(uart) + 1 - Old
    BY <1>2 DEF Old
  <2>3. \A i \in 1..Len(uart') : IsByte(uart'[i], Len(in) + i - Old)
    BY <1>3, <1>5, <1>6, <2>1, <2>2 DEF ByteOrder
  <2> QED
    BY <1>1, <1>4, <1>5, <2>3 DEF ByteOrder
<1>8. OrderInv'
  BY <1>1, <1>7 DEF LineInv, OrderInv, Exchanging, Received
<1> QED
  BY <1>1, <1>8 DEF LineInv, DecodedInv, Decoded, Exchanging, ReplyNotLost,
     QuietWhenReceived

LEMMA OrderLateByte ==
    ASSUME LineInv, LateByte
    PROVE  OrderInv' /\ DecodedInv'
<1>1. /\ late # <<>> /\ uart' = Append(uart, Head(late)) /\ late' = Tail(late)
      /\ UNCHANGED <<state_, in, position, sent, reply, clean>>
  BY DEF LateByte, rxVars, meterVars
<1>2. /\ Len(in) \in Nat /\ Len(uart) \in Nat /\ sent \in Nat
      /\ uart \in Seq(AnyByte) /\ late \in Seq(OldByte)
  BY Lengths DEF LineInv
<1>3. Head(late) \in OldByte /\ OldByte \subseteq AnyByte
  BY <1>1, <1>2, TailOf DEF OldByte, AnyByte
<1>4. /\ Len(uart') = Len(uart) + 1
      /\ \A i \in 1..Len(uart) : uart'[i] = uart[i]
      /\ uart'[Len(uart) + 1] = Head(late)
  BY <1>1, <1>2, <1>3, AppendOf
<1>5. ASSUME Exchanging \/ Received
      PROVE  ByteOrder' /\ ~clean /\ sent = 0
  <2>1. ByteOrder /\ ~clean /\ sent = 0
    BY <1>1, <1>2, <1>5 DEF LineInv, OrderInv
  <2>2. Old' = Old + 1 /\ Old = Len(in) + Len(uart)
    BY <1>1, <1>2, <1>4, <2>1 DEF Old
  <2>3. \A i \in 1..Len(in) : i - Old' < 1 /\ i - Old < 1
    BY <1>2, <2>2
  <2>4. \A i \in 1..Len(uart') : Len(in) + i - Old' < 1
    BY <1>2, <1>4, <2>2
  <2>5. \A i \in 1..Len(uart) : Len(in) + i - Old < 1
    BY <1>2, <2>2
  <2>6. \A i \in 1..Len(in) : IsStale(in[i])
    BY <2>1, <2>2, <2>3, <1>2 DEF ByteOrder, IsByte
  <2>7. \A i \in 1..Len(uart) : IsStale(uart[i])
    BY <2>1, <2>2, <2>5, <1>2 DEF ByteOrder, IsByte
  <2>8. \A i \in 1..Len(uart') : IsStale(uart'[i])
    <3>1. \A i \in 1..Len(uart') : i \in 1..Len(uart) \/ i = Len(uart) + 1
      BY <1>2, <1>4
    <3> QED
      BY <1>3, <1>4, <2>7, <3>1 DEF OldByte, IsStale
  <2>9. Old' >= 0
    BY <1>2, <2>2
  <2> QED
    BY <1>1, <1>2, <2>1, <2>2, <2>3, <2>4, <2>6, <2>8, <2>9 DEF ByteOrder, IsByte
<1>6. OrderInv'
  <2>1. Exchanging' = Exchanging /\ Received' = Received
    BY <1>1 DEF Exchanging, Received
  <2> QED
    BY <1>1, <1>5, <2>1 DEF LineInv, OrderInv, Exchanging
<1>7. ~(state_ = "RECEIVED" /\ clean)
  BY <1>1 DEF LineInv, DecodedInv, QuietWhenReceived
<1> QED
  BY <1>1, <1>6, <1>7 DEF LineInv, DecodedInv, Decoded, Exchanging, ReplyNotLost,
     QuietWhenReceived

\* On a clean line the reply is not in the buffer as a whole: it would have
\* been decoded.
LEMMA OrderRxTimeout ==
    ASSUME LineInv, RxTimeout
    PROVE  OrderInv' /\ DecodedInv'
<1>1. /\ state_ = "COMMS_RX" /\ state_' = "TIMED_OUT"
      /\ UNCHANGED <<in, position, sent, reply, silent, clean, uart>>
  BY DEF RxTimeout, rxVars, meterVars
<1>2. OrderInv'
  BY <1>1 DEF OrderInv, Exchanging, Received
<1>3. clean => sent < reply.size \/ uart # <<>>
  <2> SUFFICES ASSUME clean, uart = <<>> PROVE sent < reply.size
    OBVIOUS
  <2>1. ByteOrder /\ Decoded
    BY <1>1 DEF LineInv, OrderInv, DecodedInv, Exchanging
  <2>2. sent \in Nat /\ reply.size \in Nat /\ sent <= reply.size
        /\ Len(in) \in Nat /\ Len(uart) = 0
    BY Lengths DEF LineInv
  <2>3. CASE sent = reply.size
    <3>1. Len(in) = reply.size
      BY <2>1, <2>2, <2>3 DEF ByteOrder, Old
    <3>2. reply.size \in reply.ends
      BY <1>1, ReplyType DEF LineInv, OrderInv, Exchanging
    <3>3. reply.size <= position /\ position < reply.size
      BY <2>1, <2>2, <3>1, <3>2 DEF Decoded
    <3>4. position \in Nat
      BY <2>2 DEF LineInv, TypeOK
    <3> QED
      BY <2>2, <3>3, <3>4
  <2> QED
    BY <2>2, <2>3
<1> QED
  BY <1>1, <1>2, <1>3 DEF DecodedInv, Exchanging, ReplyNotLost, QuietWhenReceived

\* A pass moves bytes from the UART to the buffer and keeps their order.
LEMMA ReceiveOrder ==
    ASSUME LineInv, NEW k \in 1..Len(uart), ReceiveFrame(k)
    PROVE  ByteOrder'
<1>1. state_ = "COMMS_RX" /\ UNCHANGED <<sent, reply, clean>>
  BY DEF ReceiveFrame, meterVars
<1>2. /\ Len(in) \in Nat /\ Len(uart) \in Nat /\ sent \in Nat
      /\ Len(in') = Len(in) + k /\ Len(uart') = Len(uart) - k
      /\ \A i \in 1..Len(in) : in'[i] = in[i]
      /\ \A i \in (Len(in) + 1)..(Len(in) + k) : in'[i] = uart[i - Len(in)]
      /\ \A i \in 1..(Len(uart) - k) : uart'[i] = uart[k + i]
  BY ReceiveFrameMoves, Lengths DEF LineInv
<1>3. ByteOrder
  BY <1>1 DEF LineInv, OrderInv, Exchanging
<1>4. Old' = Old /\ Old \in Int
  BY <1>1, <1>2 DEF Old
<1>5. \A i \in 1..Len(in') : IsByte(in'[i], i - Old)
  <2> SUFFICES ASSUME NEW i \in 1..Len(in') PROVE IsByte(in'[i], i - Old)
    OBVIOUS
  <2>1. CASE i \in 1..Len(in)
    BY <1>2, <1>3, <2>1 DEF ByteOrder
  <2>2. CASE i \in (Len(in) + 1)..(Len(in) + k)
    <3>1. i - Len(in) \in 1..Len(uart) /\ Len(in) + (i - Len(in)) - Old = i - Old
      BY <1>2, <1>4, <2>2
    <3>2. IsByte(uart[i - Len(in)], Len(in) + (i - Len(in)) - Old)
      BY <1>3, <3>1 DEF ByteOrder
    <3> QED
      BY <1>2, <2>2, <3>1, <3>2
  <2> QED
    BY <1>2, <2>1, <2>2
<1>6. \A i \in 1..Len(uart') : IsByte(uart'[i], Len(in') + i - Old)
  <2> SUFFICES ASSUME NEW i \in 1..Len(uart')
               PROVE  IsByte(uart'[i], Len(in') + i - Old)
    OBVIOUS
  <2>1. k + i \in 1..Len(uart) /\ Len(in) + (k + i) - Old = Len(in') + i - Old
    BY <1>2, <1>4
  <2>2. IsByte(uart[k + i], Len(in) + (k + i) - Old)
    BY <1>3, <2>1 DEF ByteOrder
  <2> QED
    BY <1>2, <2>1, <2>2
<1> QED
  BY <1>1, <1>3, <1>4, <1>5, <1>6 DEF ByteOrder

\* On a clean line the buffer holds the bytes 1, 2, ... of the reply.
LEMMA CleanBuffer ==
    ASSUME TypeOK, ByteOrder, clean, sent <= reply.size, reply \in Replies
    PROVE  /\ Len(in) + Len(uart) = sent
           /\ \A i \in 1..Len(in) : in[i] = i /\ ~IsStale(in[i])
           /\ \A i \in 1..Len(uart) : uart[i] = Len(in) + i /\ ~IsStale(uart[i])
<1>1. Len(in) \in Nat /\ Len(uart) \in Nat /\ sent \in Nat
  BY Lengths
<1>2. Old = 0 /\ Len(in) + Len(uart) = sent
  BY <1>1 DEF ByteOrder, Old
<1>3. \A i \in 1..Len(in) : i - Old >= 1 /\ i - Old = i
  BY <1>1, <1>2
<1>4. \A i \in 1..Len(uart) : Len(in) + i - Old >= 1 /\ Len(in) + i - Old = Len(in) + i
  BY <1>1, <1>2
<1>5. \A i \in 1..Len(in) : in[i] = i
  BY <1>3 DEF ByteOrder, IsByte
<1>6. \A i \in 1..Len(uart) : uart[i] = Len(in) + i
  BY <1>4 DEF ByteOrder, IsByte
<1>7. \A i \in 1..Len(in) : ~IsStale(in[i])
  <2>1. \A i \in 1..Len(in) : i # 0 /\ i # -1
    BY <1>1
  <2> QED
    BY <1>5, <2>1 DEF IsStale, Stale, StaleFlag
<1>8. \A i \in 1..Len(uart) : ~IsStale(uart[i])
  <2>1. \A i \in 1..Len(uart) : Len(in) + i # 0 /\ Len(in) + i # -1
    BY <1>1
  <2> QED
    BY <1>6, <2>1 DEF IsStale, Stale, StaleFlag
<1> QED
  BY <1>2, <1>5, <1>6, <1>7, <1>8

\* The flag test sees the last byte of every frame.
LEMMA FrameEndSeen ==
    ASSUME TypeOK, ByteOrder, clean, sent <= reply.size, reply \in Replies,
           NEW j \in 1..Len(uart), Len(in) + j \in reply.ends
    PROVE  FrameEnd(in \o Upto(j))
<1> DEFINE buf == in \o Upto(j)
<1>1. /\ Len(in) \in Nat /\ Len(uart) \in Nat
      /\ in \in Seq(AnyByte) /\ uart \in Seq(AnyByte)
  BY Lengths
<1>2. /\ \A i \in 1..Len(in) : in[i] = i
      /\ \A i \in 1..Len(uart) : uart[i] = Len(in) + i
  BY CleanBuffer
<1>3. /\ Upto(j) \in Seq(AnyByte) /\ Len(Upto(j)) = j
      /\ \A i \in 1..j : Upto(j)[i] = uart[i]
  <2>1. j \in 0..Len(uart)
    BY <1>1
  <2> QED
    BY <1>1, <2>1, PartOf DEF Upto
<1>4. /\ Len(buf) = Len(in) + j
      /\ \A i \in 1..Len(in) : buf[i] = in[i]
      /\ \A i \in (Len(in) + 1)..(Len(in) + j) : buf[i] = Upto(j)[i - Len(in)]
  <2>1. /\ Len(buf) = Len(in) + Len(Upto(j))
        /\ \A i \in 1..Len(in) : buf[i] = in[i]
        /\ \A i \in (Len(in) + 1)..(Len(in) + Len(Upto(j))) :
              buf[i] = Upto(j)[i - Len(in)]
    BY <1>1, <1>3, ConcatOf
  <2> HIDE DEF buf
  <2> QED
    BY <1>3, <2>1
<1> HIDE DEF buf
<1>5. \A i \in 1..(Len(in) + j) : buf[i] = i
  <2> SUFFICES ASSUME NEW i \in 1..(Len(in) + j) PROVE buf[i] = i
    OBVIOUS
  <2>1. CASE i \in 1..Len(in)
    BY <1>2, <1>4, <2>1
  <2>2. CASE i \in (Len(in) + 1)..(Len(in) + j)
    <3>1. /\ i - Len(in) \in 1..j /\ i - Len(in) \in 1..Len(uart)
          /\ Len(in) + (i - Len(in)) = i
      BY <1>1, <2>2
    <3> QED
      BY <1>2, <1>3, <1>4, <2>2, <3>1
  <2> QED
    BY <1>1, <2>1, <2>2
<1>6. Len(in) + j \in 2..reply.size /\ Len(in) + j \in reply.flags /\ 1 \in reply.flags
  BY ReplyType
<1>7. Len(buf) >= 2 /\ buf[1] = 1 /\ buf[Len(buf)] = Len(in) + j
  <2>1. 1 \in 1..(Len(in) + j) /\ Len(in) + j \in 1..(Len(in) + j) /\ Len(in) + j >= 2
    BY <1>1, <1>6
  <2> QED
    BY <1>4, <1>5, <2>1 DEF buf
<1>8. FrameEnd(buf)
  BY <1>6, <1>7 DEF FrameEnd, IsFlag
<1> QED
  BY <1>8 DEF buf

\* dlms_getData2() is given bytes of this reply only on a clean line.
LEMMA CleanPass ==
    ASSUME LineInv, NEW k \in 1..Len(uart), ReceiveFrame(k), clean, FrameEnd(in')
    PROVE  GetData(in')
<1>1. reply \in Replies /\ ByteOrder /\ sent <= reply.size
  BY Lengths DEF ReceiveFrame, LineInv, OrderInv, Exchanging
<1>2. /\ Len(in) \in Nat /\ Len(uart) \in Nat /\ Len(in') = Len(in) + k
      /\ \A i \in 1..Len(in) : in'[i] = in[i]
      /\ \A i \in (Len(in) + 1)..(Len(in) + k) : in'[i] = uart[i - Len(in)]
      /\ DOMAIN in' = 1..Len(in')
  BY ReceiveFrameMoves, Lengths, SeqOf DEF LineInv
<1>3. /\ \A i \in 1..Len(in) : ~IsStale(in[i])
      /\ \A i \in 1..Len(uart) : ~IsStale(uart[i])
  BY <1>1, CleanBuffer DEF LineInv
<1>4. \A i \in 1..Len(in') : \/ i \in 1..Len(in)
                             \/ /\ i \in (Len(in) + 1)..(Len(in) + k)
                                /\ i - Len(in) \in 1..Len(uart)
  BY <1>2
<1>5. \A i \in DOMAIN in' : ~IsStale(in'[i])
  BY <1>2, <1>3, <1>4
<1> QED
  BY <1>5 DEF ReceiveFrame

\* A pass on a clean line that reads the last byte of a frame ends with it.
LEMMA EndsRead ==
    ASSUME LineInv, NEW k \in 1..Len(uart), ReceiveFrame(k), clean,
           NEW e \in reply.ends, Len(in) < e, e <= Len(in')
    PROVE  e = Len(in') /\ FrameEnd(in')
<1> DEFINE j == e - Len(in)
<1>1. reply \in Replies /\ ByteOrder
  BY DEF ReceiveFrame, LineInv, OrderInv, Exchanging
<1>2. /\ Len(in) \in Nat /\ Len(uart) \in Nat /\ sent <= reply.size
      /\ Len(in') = Len(in) + k /\ e \in Nat
  BY <1>1, ReceiveFrameMoves, Lengths, ReplyType DEF LineInv
<1>3. j \in 1..k /\ j \in 1..Len(uart) /\ Len(in) + j = e
  BY <1>2
<1>4. FrameEnd(in \o Upto(j))
  BY <1>1, <1>2, <1>3, FrameEndSeen DEF LineInv
<1>5. j = k
  <2>1. j \notin 1..(k - 1)
    BY <1>4 DEF ReceiveFrame
  <2> QED
    BY <1>2, <1>3, <2>1
<1>6. in' = in \o Upto(k)
  BY DEF ReceiveFrame
<1> QED
  BY <1>2, <1>3, <1>4, <1>5, <1>6

\* A pass on a clean line: it ends at the end of a frame, if it meets one, and
\* dlms_getData2() finds that frame.
LEMMA DecodedReceive ==
    ASSUME LineInv, NEW k \in 1..Len(uart), ReceiveFrame(k), clean
    PROVE  \/ UNCHANGED <<state_, late>> /\ Decoded'
           \/ /\ state_' = "RECEIVED" /\ UNCHANGED late
              /\ Len(in') = reply.size
           \/ state_' = "REFUSED"
<1>1. /\ state_ = "COMMS_RX" /\ reply \in Replies /\ ByteOrder /\ Decoded
      /\ UNCHANGED <<sent, reply, clean>>
  BY DEF ReceiveFrame, meterVars, LineInv, OrderInv, DecodedInv, Exchanging
<1>2. /\ Len(in) \in Nat /\ Len(uart) \in Nat /\ sent \in Nat
      /\ sent <= reply.size /\ Len(in') = Len(in) + k /\ position \in Nat
  BY ReceiveFrameMoves, Lengths DEF LineInv, TypeOK
<1>3. \A e \in reply.ends : e \in Nat
  BY <1>1, ReplyType
<1>4. ASSUME NEW e \in reply.ends, Len(in) < e, e <= Len(in')
      PROVE  e = Len(in') /\ FrameEnd(in')
  BY <1>4, EndsRead
<1>5. CASE ~FrameEnd(in')
  <2>1. UNCHANGED <<state_, late, position>>
    BY <1>5 DEF ReceiveFrame
  <2>2. \A e \in reply.ends : e <= Len(in') => e <= Len(in)
    BY <1>2, <1>3, <1>4, <1>5
  <2> QED
    BY <1>1, <2>1, <2>2 DEF Decoded
<1>6. CASE FrameEnd(in')
  <2>1. GetData(in')
    BY <1>6, CleanPass
  <2>2. CASE /\ \A e \in {f \in reply.ends : position < f} : Len(in') < e
             /\ UNCHANGED <<state_, late, position>>
    <3>1. \A e \in reply.ends : e <= Len(in') => e <= position
      BY <1>2, <1>3, <2>2
    <3> QED
      BY <1>1, <2>2, <3>1 DEF Decoded
  <2>3. ASSUME NEW frame \in {e \in reply.ends : position < e},
               frame <= Len(in'), position' = frame,
               \/ /\ state_' = IF Complete(frame) THEN "RECEIVED" ELSE state_
                  /\ UNCHANGED late
               \/ LineFaults /\ Refuse
        PROVE  \/ UNCHANGED <<state_, late>> /\ Decoded'
               \/ /\ state_' = "RECEIVED" /\ UNCHANGED late
                  /\ Len(in') = reply.size
               \/ state_' = "REFUSED"
    <3>1. frame \in reply.ends /\ position < frame /\ frame \in Nat /\ frame <= reply.size
      BY <1>1, <1>3, ReplyType
    <3>2. frame = Len(in')
      <4>1. ~(frame <= Len(in))
        BY <1>1, <1>2, <3>1 DEF Decoded
      <4> QED
        BY <1>2, <1>4, <2>3, <3>1, <4>1
    <3>3. CASE UNCHANGED late /\ frame = reply.size /\ state_' = "RECEIVED"
      BY <3>2, <3>3
    <3>4. CASE UNCHANGED late /\ frame # reply.size /\ state_' = state_
      <4>1. frame < reply.size
        BY <1>1, <3>1, <3>4, ReplyType
      <4>2. \A e \in reply.ends : e <= Len(in') => e <= frame
        BY <3>2
      <4> QED
        BY <1>1, <2>3, <3>4, <4>1, <4>2 DEF Decoded
    <3> QED
      BY <2>3, <3>3, <3>4 DEF Complete, Refuse
  <2> QED
    BY <2>1, <2>2, <2>3 DEF GetData
<1> QED
  BY <1>5, <1>6

LEMMA OrderReceive ==
    ASSUME LineInv, NEW k \in 1..Len(uart), ReceiveFrame(k)
    PROVE  OrderInv' /\ DecodedInv'
<1>1. state_ = "COMMS_RX" /\ UNCHANGED <<sent, reply, clean>> /\ reply \in Replies
  BY DEF ReceiveFrame, meterVars, LineInv, OrderInv, Exchanging
<1>2. ByteOrder'
  BY ReceiveOrder
<1>3. sent > 0 \/ clean => late = <<>>
  BY <1>1 DEF LineInv, OrderInv, Exchanging
<1>4. CASE clean
  <2>1. CASE UNCHANGED <<state_, late>> /\ Decoded'
    BY <1>1, <1>2, <1>3, <1>4, <2>1
    DEF OrderInv, DecodedInv, Exchanging, Received, ReplyNotLost, QuietWhenReceived
  <2>2. CASE state_' = "RECEIVED" /\ UNCHANGED late /\ Len(in') = reply.size
    <3>1. TypeOK'
      <4>1. [Next]_vars
        BY DEF Next, Pass
      <4> QED
        BY <4>1, TypeStep DEF LineInv
    <3>2. Len(in') \in Nat /\ Len(uart') \in Nat /\ sent' <= reply'.size /\ sent' \in Nat
      BY <1>1, <3>1, ReceiveFrameMoves, Lengths, SeqOf DEF LineInv
    <3>3. Len(uart') = 0 /\ sent' = reply'.size
      BY <1>1, <1>2, <1>4, <2>2, <3>2 DEF ByteOrder, Old
    <3>4. uart' = <<>>
      BY <3>3, ReceiveFrameMoves, SeqOf DEF LineInv
    <3> QED
      BY <1>1, <1>2, <1>3, <1>4, <2>2, <3>3, <3>4
      DEF OrderInv, DecodedInv, Exchanging, Received, ReplyNotLost, QuietWhenReceived
  <2>3. CASE state_' = "REFUSED"
    BY <2>3
    DEF OrderInv, DecodedInv, Exchanging, Received, ReplyNotLost, QuietWhenReceived
  <2> QED
    BY <1>4, <2>1, <2>2, <2>3, DecodedReceive
<1>5. CASE ~clean
  <2>1. \/ UNCHANGED <<state_, late>>
        \/ state_' \in {"RECEIVED", "REFUSED"}
    BY <1>1 DEF ReceiveFrame, GetData, GetStaleData, Refuse, Complete
  <2> QED
    BY <1>1, <1>2, <1>3, <1>5, <2>1
    DEF OrderInv, DecodedInv, Exchanging, Received, ReplyNotLost, QuietWhenReceived
<1> QED
  BY <1>4, <1>5

LEMMA LineStep == LineInv /\ [Next]_vars => LineInv'
<1> SUFFICES ASSUME LineInv, [Next]_vars PROVE OrderInv' /\ DecodedInv'
  BY TypeStep DEF LineInv
<1>1. CASE OpenSession
  BY <1>1 DEF OpenSession, OrderInv, DecodedInv, Exchanging, Received,
     ReplyNotLost, QuietWhenReceived
<1>2. CASE UNCHANGED <<state_, meterVars, late, uart, rxVars, clean>>
  BY <1>2 DEF meterVars, rxVars, LineInv, OrderInv, DecodedInv, Exchanging, Received,
     ByteOrder, Old, Decoded, ReplyNotLost, QuietWhenReceived
<1>3. CASE TransmitDone
  BY <1>3 DEF TransmitDone, meterVars, rxVars, LineInv, OrderInv, DecodedInv,
     Exchanging, Received, ByteOrder, Old, Decoded, ReplyNotLost, QuietWhenReceived
<1>4. CASE MeterStops
  BY <1>4 DEF MeterStops, rxVars, LineInv, OrderInv, DecodedInv,
     Exchanging, Received, ByteOrder, Old, Decoded, ReplyNotLost, QuietWhenReceived
<1> QED
  BY <1>1, <1>2, <1>3, <1>4, OrderSendReq, OrderMeterSends, OrderLateByte,
     OrderRxTimeout, OrderReceive DEF Next, Line, Pass, SendDlmsMessages, vars

\* The buffer and the UART hold the reply's bytes each once and in order,
\* behind what was left on the line, for passes cut short anywhere.
THEOREM ExchangeBytesInOrder == Spec => []BytesInOrder
<1>1. LineInv => BytesInOrder
  <2> SUFFICES ASSUME LineInv, Exchanging \/ Received PROVE BytesInOrder
    BY DEF BytesInOrder, Exchanging, Received
  <2>0. PICK bytes : bytes = in \o uart
    OBVIOUS
  <2>1. ByteOrder
    BY DEF LineInv, OrderInv
  <2>2. /\ Len(in) \in Nat /\ Len(uart) \in Nat /\ sent \in Nat
        /\ in \in Seq(AnyByte) /\ uart \in Seq(AnyByte)
    BY Lengths DEF LineInv
  <2>3. /\ Len(bytes) = Len(in) + Len(uart)
        /\ DOMAIN bytes = 1..(Len(in) + Len(uart))
        /\ \A i \in 1..Len(in) : bytes[i] = in[i]
        /\ \A i \in (Len(in) + 1)..(Len(in) + Len(uart)) : bytes[i] = uart[i - Len(in)]
    BY <2>0, <2>2, ConcatOf
  <2>4. \A i \in 1..(Len(in) + Len(uart)) : IsByte(bytes[i], i - Old)
    <3> SUFFICES ASSUME NEW i \in 1..(Len(in) + Len(uart))
                 PROVE  IsByte(bytes[i], i - Old)
      OBVIOUS
    <3>1. CASE i \in 1..Len(in)
      BY <2>1, <2>3, <3>1 DEF ByteOrder
    <3>2. CASE i \in (Len(in) + 1)..(Len(in) + Len(uart))
      <4>1. i - Len(in) \in 1..Len(uart) /\ Len(in) + (i - Len(in)) - Old = i - Old
        BY <2>2, <3>2 DEF Old
      <4>2. IsByte(uart[i - Len(in)], Len(in) + (i - Len(in)) - Old)
        BY <2>1, <4>1 DEF ByteOrder
      <4> QED
        BY <2>3, <3>2, <4>1, <4>2
    <3> QED
      BY <2>2, <3>1, <3>2
  <2>5. Old \in Nat /\ (clean => Old = 0)
    BY <2>1, <2>2 DEF ByteOrder, Old
  <2>6. \A i \in 1..(Len(in) + Len(uart)) :
            IF i <= Old THEN IsStale(bytes[i]) ELSE bytes[i] = i - Old
    <3>1. \A i \in 1..(Len(in) + Len(uart)) : i - Old >= 1 <=> ~(i <= Old)
      BY <2>2, <2>5
    <3> QED
      BY <2>4, <3>1 DEF IsByte
  <2>7. /\ Len(bytes) - sent >= 0 /\ (clean => Len(bytes) - sent = 0)
        /\ \A i \in DOMAIN bytes :
            IF i <= Len(bytes) - sent THEN IsStale(bytes[i])
                                      ELSE bytes[i] = i - (Len(bytes) - sent)
    <3>1. Len(bytes) - sent = Old
      BY <2>2, <2>3 DEF Old
    <3> QED
      BY <2>3, <2>5, <2>6, <3>1
  <2> QED
    BY <2>0, <2>7 DEF BytesInOrder
<1> QED
  BY <1>1, LineInit, LineStep, PTL DEF Spec, SafeSpec

\* A reply that is read to its end on a clean line is received, never timed
\* out: frame_end_check_hdlc misses the end of no frame, wherever there are
\* bytes of the value of a flag.
THEOREM ExchangeReplyNotLost == Spec => []ReplyNotLost
<1>1. LineInv => ReplyNotLost
  BY DEF LineInv, DecodedInv
<1> QED
  BY <1>1, LineInit, LineStep, PTL DEF Spec, SafeSpec

\* A reply that is received on a clean line leaves the line clean for the next
\* exchange: reply.complete holds for the whole of it only.
THEOREM ExchangeQuiet == Spec => []QuietWhenReceived
<1>1. LineInv => QuietWhenReceived
  BY DEF LineInv, DecodedInv
<1> QED
  BY <1>1, LineInit, LineStep, PTL DEF Spec, SafeSpec
----------------------------------------------------------------------------
\* The exchange in units.

LEMMA UnfinishedFinite ==
    ASSUME TypeOK, reply \in Replies
    PROVE  /\ IsFiniteSet(Unfinished) /\ Cardinality(Unfinished) \in Nat
           /\ Cardinality(Unfinished) = 0 <=> Unfinished = {}
<1>1. Unfinished \subseteq 1..reply.size
  BY ReplyType DEF Unfinished
<1>2. IsFiniteSet(1..reply.size)
  BY ReplyType, FS_Interval
<1> QED
  BY <1>1, <1>2, FS_Subset, FS_CardinalityType, FS_EmptySet

LEMMA FrameInitial == Init => Units!FrameInit
BY DEF Init, Units!FrameInit, Units!Quiet, FramePhase, FrameAnswer, FramesWaiting,
   FrameLine, Ended

LEMMA FramesOpenSession ==
    ASSUME LineInv, OpenSession
    PROVE  Units!Between
BY DEF OpenSession, Units!Between, Units!Ended, FramePhase, FrameAnswer,
   FramesWaiting, FrameLine, Ended

LEMMA FramesSendReq ==
    ASSUME LineInv, LineInv', SendReq
    PROVE  Units!Request
<1>1. /\ state_ \in Ended /\ state_' = "COMMS_TX" /\ state_' \notin Ended
      /\ state_' # "COMMS_RX" /\ reply' \in Replies /\ sent' = 0 /\ silent' = FALSE
      /\ clean' = (uart = <<>> /\ late = <<>>)
  BY DEF SendReq, Ended
<1>2. /\ FramePhase \in Units!Ended /\ FramePhase' \in {"SENDING", "SENT"}
      /\ FrameLine' = FrameLine
  BY <1>1 DEF FramePhase, FrameLine, Ended, Units!Ended
<1>3. FrameAnswer' = IF FrameLine = "CLEAN" THEN "OWED" ELSE "NONE"
  <2>1. reply'.size # 0
    BY <1>1, ReplyType
  <2> QED
    BY <1>1, <2>1 DEF FrameAnswer, FrameLine
<1>4. FramesWaiting' = 0
  <2>1. Unfinished' = {}
    <3>1. \A e \in reply'.ends : e >= 2 /\ e \in Nat
      BY <1>1, ReplyType
    <3> QED
      BY <1>1, <3>1 DEF Unfinished
  <2> QED
    BY <2>1, FS_EmptySet DEF FramesWaiting
<1> QED
  BY <1>2, <1>3, <1>4 DEF Units!Request

LEMMA FramesTransmit ==
    ASSUME LineInv, SendDlmsMessages \/ TransmitDone
    PROVE  Units!FrameNext \/ UNCHANGED Units!frameVars
<1>1. /\ state_ = "COMMS_TX" /\ state_' \in {"COMMS_TX", "COMMS_RX"}
      /\ UNCHANGED <<reply, sent, silent, clean, in>>
  BY DEF SendDlmsMessages, TransmitDone, meterVars, rxVars
<1>2. UNCHANGED <<FrameAnswer, FramesWaiting, FrameLine>>
  BY <1>1 DEF FrameAnswer, FramesWaiting, FrameLine, Unfinished, Ended
<1>3. CASE SendDlmsMessages
  <2>1. FramePhase = "SENDING" /\ FramePhase' \in {"SENDING", "SENT"}
    BY <1>3 DEF SendDlmsMessages, FramePhase, Ended
  <2> QED
    BY <1>2, <2>1 DEF Units!FrameNext, Units!Sent, Units!frameVars
<1>4. CASE TransmitDone
  <2>1. FramePhase = "SENT" /\ FramePhase' = "LISTENING"
    BY <1>4 DEF TransmitDone, FramePhase, Ended
  <2> QED
    BY <1>2, <2>1 DEF Units!FrameNext, Units!Listen
<1> QED
  BY <1>3, <1>4

LEMMA FramesMeterSends ==
    ASSUME LineInv, MeterSends
    PROVE  Units!FrameArrives \/ UNCHANGED Units!frameVars
<1>1. /\ Exchanging /\ state_ \notin Ended /\ reply \in Replies /\ ByteOrder
      /\ sent < reply.size /\ ~silent /\ sent' = sent + 1
      /\ UNCHANGED <<state_, out_msg, out_msg_index, reply, silent, in, position, clean>>
  BY DEF MeterSends, Replying, txVars, rxVars, LineInv, OrderInv, Exchanging, Ended
<1>2. FramePhase \in {"SENT", "LISTENING"}
  BY <1>1 DEF MeterSends, Replying, FramePhase, Exchanging
<1>3. UNCHANGED <<FramePhase, FrameLine>>
  BY <1>1 DEF FramePhase, FrameLine, HasMoreMessagesToSend
<1>4. CASE ~clean
  <2>1. UNCHANGED <<FrameAnswer, FramesWaiting>>
    BY <1>1, <1>4 DEF FrameAnswer, FramesWaiting
  <2> QED
    BY <1>3, <2>1 DEF Units!frameVars
<1>5. CASE clean
  <2>1. /\ sent \in Nat /\ reply.size \in Nat /\ Len(in) \in Nat /\ Len(in) <= sent
        /\ \A e \in reply.ends : e \in Nat
    <3>1. /\ Len(in) \in Nat /\ Len(uart) \in Nat /\ sent \in Nat
          /\ reply.size \in Nat /\ Len(in) + Len(uart) = sent
      BY <1>1, <1>5, Lengths, CleanBuffer DEF LineInv
    <3>2. \A e \in reply.ends : e \in Nat
      BY <1>1, ReplyType
    <3> QED
      BY <3>1, <3>2
  <2>2. /\ FrameAnswer = "OWED"
        /\ FrameAnswer' = IF sent + 1 = reply.size THEN "DONE" ELSE "OWED"
        /\ FramesWaiting = Cardinality(Unfinished)
        /\ FramesWaiting' = Cardinality(Unfinished')
    <3>1. sent # reply.size
      BY <1>1, <2>1
    <3> QED
      BY <1>1, <1>5, <3>1 DEF FrameAnswer, FramesWaiting
  <2>3. CASE sent + 1 \in reply.ends
    <3>1. Unfinished' = Unfinished \cup {sent + 1} /\ sent + 1 \notin Unfinished
      BY <1>1, <2>1, <2>3 DEF Unfinished
    <3>2. Cardinality(Unfinished') = Cardinality(Unfinished) + 1
      BY <1>1, <3>1, UnfinishedFinite, FS_AddElement DEF LineInv
    <3>3. Units!FrameArrives
      BY <1>2, <1>3, <2>2, <3>2 DEF Units!FrameArrives
    <3> QED
      BY <3>3
  <2>4. CASE sent + 1 \notin reply.ends
    <3>1. Unfinished' = Unfinished
      BY <1>1, <2>1, <2>4 DEF Unfinished
    <3>2. sent + 1 # reply.size
      BY <1>1, <2>4, ReplyType
    <3> QED
      BY <1>3, <2>2, <3>1, <3>2 DEF Units!frameVars
  <2> QED
    BY <2>3, <2>4
<1> QED
  BY <1>4, <1>5

LEMMA FramesMeterStops ==
    ASSUME LineInv, MeterStops
    PROVE  Units!Silence \/ UNCHANGED Units!frameVars
<1>1. /\ state_ \notin Ended /\ state_ \in {"COMMS_TX", "COMMS_RX"}
      /\ ~HasMoreMessagesToSend /\ sent # reply.size /\ ~silent /\ silent'
      /\ UNCHANGED <<state_, out_msg, out_msg_index, reply, sent, in, clean>>
  <2>1. sent # reply.size
    BY Lengths DEF MeterStops, Replying, LineInv
  <2> QED
    BY <2>1 DEF MeterStops, Replying, txVars, rxVars, Ended
<1>2. FramePhase \in {"SENT", "LISTENING"}
  BY <1>1 DEF FramePhase
<1>3. UNCHANGED <<FramePhase, FramesWaiting, FrameLine>>
  BY <1>1 DEF FramePhase, FramesWaiting, FrameLine, HasMoreMessagesToSend, Unfinished
<1>4. CASE clean
  BY <1>1, <1>2, <1>3, <1>4 DEF FrameAnswer, Units!Silence
<1>5. CASE ~clean
  BY <1>1, <1>3, <1>5 DEF FrameAnswer, Units!frameVars
<1> QED
  BY <1>4, <1>5

\* A late byte comes before the meter answers, or between two exchanges.
LEMMA FramesLateByte ==
    ASSUME LineInv, LateByte
    PROVE  UNCHANGED Units!frameVars
<1>1. /\ late # <<>> /\ uart' # <<>>
      /\ UNCHANGED <<state_, out_msg, out_msg_index, reply, sent, silent, in, clean>>
  <2>1. uart \in Seq(AnyByte) /\ late \in Seq(OldByte) /\ OldByte \subseteq AnyByte
    BY Lengths DEF LineInv, OldByte, AnyByte
  <2>2. uart' = Append(uart, Head(late)) /\ Head(late) \in AnyByte
    BY <2>1, TailOf DEF LateByte
  <2>3. Len(uart') = Len(uart) + 1 /\ Len(uart) \in Nat
    BY <2>1, <2>2, AppendOf, SeqOf
  <2>4. uart' # <<>>
    <3>1. Len(<<>>) = 0 /\ Len(uart') # 0
      BY <2>3
    <3> QED
      BY <3>1
  <2> QED
    BY <2>4 DEF LateByte, txVars, meterVars, rxVars
<1>2. state_ \notin Ended => ~clean
  BY <1>1 DEF LineInv, TypeOK, OrderInv, Exchanging
<1> QED
  BY <1>1, <1>2 DEF Units!frameVars, FramePhase, FrameAnswer, FramesWaiting, FrameLine,
     HasMoreMessagesToSend, Unfinished

\* A clean line as a pass of COMMS_RX finds it.
LEMMA CleanListening ==
    ASSUME LineInv, state_ = "COMMS_RX", clean
    PROVE  /\ reply \in Replies /\ late = <<>> /\ Decoded
           /\ Len(in) \in Nat /\ Len(uart) \in Nat /\ sent \in Nat
           /\ position \in Nat /\ reply.size \in Nat /\ sent <= reply.size
           /\ Len(in) + Len(uart) = sent
           /\ \A e \in reply.ends : e \in Nat /\ e <= reply.size
           /\ FramePhase = "LISTENING" /\ FrameLine = "CLEAN"
           /\ FramesWaiting = Cardinality(Unfinished)
           /\ FrameAnswer = "DONE" <=> sent = reply.size
<1>1. reply \in Replies /\ late = <<>> /\ Decoded /\ ByteOrder
  BY DEF LineInv, OrderInv, DecodedInv, Exchanging
<1>2. /\ Len(in) \in Nat /\ Len(uart) \in Nat /\ sent \in Nat
      /\ position \in Nat /\ reply.size \in Nat /\ sent <= reply.size
  BY Lengths DEF LineInv, TypeOK
<1>3. Len(in) + Len(uart) = sent
  BY <1>1, <1>2, CleanBuffer DEF LineInv
<1>4. /\ FramePhase = "LISTENING" /\ FrameLine = "CLEAN"
      /\ FramesWaiting = Cardinality(Unfinished)
      /\ FrameAnswer = "DONE" <=> sent = reply.size
  BY DEF FramePhase, FrameLine, FramesWaiting, FrameAnswer, Ended
<1> QED
  BY <1>1, <1>2, <1>3, <1>4, ReplyType

LEMMA FramesRxTimeout ==
    ASSUME LineInv, LineInv', RxTimeout
    PROVE  Units!Timeout \/ Units!Muddle
<1>1. /\ state_ = "COMMS_RX" /\ state_' = "TIMED_OUT" /\ state_' \in Ended
      /\ UNCHANGED <<sent, reply, clean>>
  BY DEF RxTimeout, meterVars, Ended
<1>2. FramePhase = "LISTENING"
  BY <1>1 DEF FramePhase, Ended
<1>3. /\ FramePhase' = "TIMED_OUT" /\ FrameAnswer' = "NONE" /\ FramesWaiting' = 0
      /\ FrameLine' \in Units!Lines
  BY <1>1 DEF FramePhase, FrameAnswer, FramesWaiting, FrameLine, Units!Lines
<1>4. Units!End("TIMED_OUT")
  BY <1>2, <1>3 DEF Units!End, Units!Quiet
<1>5. CASE clean
  <2>1. CASE uart = <<>>
    <3>1. sent # reply.size
      <4>1. sent < reply.size
        BY <1>1, <1>5, <2>1 DEF RxTimeout, LineInv, DecodedInv, ReplyNotLost
      <4> QED
        BY <1>1, <1>5, <4>1, CleanListening
    <3>2. Len(in) = sent
      <4>1. Len(uart) = 0
        BY <2>1
      <4> QED
        BY <1>1, <1>5, <4>1, CleanListening
    <3>3. Unfinished = {}
      BY <1>1, <1>5, <3>2, CleanListening DEF Unfinished
    <3>4. FramesWaiting = 0 /\ FrameAnswer # "DONE"
      BY <1>1, <1>5, <3>1, <3>3, CleanListening, FS_EmptySet
    <3> QED
      BY <1>3, <1>4, <3>4 DEF Units!Timeout
  <2>2. CASE uart # <<>>
    <3>1. LineFaults
      BY <2>2 DEF RxTimeout
    <3>2. ASSUME FrameAnswer = "DONE" PROVE FramesWaiting > 0
      <4>1. sent = reply.size /\ reply.size \in reply.ends
        BY <1>1, <1>5, <3>2, CleanListening, ReplyType
      <4>2. Len(uart) # 0
        BY <2>2, Lengths, SeqOf DEF LineInv
      <4>3. Len(in) < reply.size
        BY <1>1, <1>5, <4>1, <4>2, CleanListening
      <4>4. Unfinished # {}
        BY <1>1, <1>5, <4>1, <4>3, CleanListening DEF Unfinished
      <4>5. FramesWaiting \in Nat /\ FramesWaiting # 0
        BY <1>1, <1>5, <4>4, CleanListening, UnfinishedFinite DEF LineInv
      <4> QED
        BY <4>5
    <3> QED
      BY <1>3, <1>4, <3>1, <3>2 DEF Units!Timeout
  <2> QED
    BY <2>1, <2>2
<1>6. CASE ~clean
  <2>1. FrameLine = "DIRTY"
    BY <1>1, <1>6 DEF FrameLine, Ended
  <2>2. "TIMED_OUT" \in Units!Ended
    BY DEF Units!Ended
  <2> QED
    BY <1>3, <1>4, <2>1, <2>2 DEF Units!Muddle
<1> QED
  BY <1>5, <1>6

\* A pass on a clean line reads to the end of no frame, or of the first frame
\* that waits, and decodes it.
LEMMA FrameTaken ==
    ASSUME LineInv, NEW k \in 1..Len(uart), ReceiveFrame(k), clean
    PROVE  \/ UNCHANGED <<state_, late, Unfinished>>
           \/ \E frame \in Unfinished :
                /\ Unfinished' = Unfinished \ {frame}
                /\ \A e \in Unfinished : frame <= e
                /\ \/ state_' = IF Complete(frame) THEN "RECEIVED" ELSE state_
                   \/ LineFaults /\ state_' = "REFUSED"
<1>1. /\ state_ = "COMMS_RX" /\ UNCHANGED <<sent, reply>>
      /\ Len(in') = Len(in) + k
  BY ReceiveFrameMoves DEF ReceiveFrame, meterVars, LineInv
<1>2. /\ Len(in) \in Nat /\ Len(uart) \in Nat /\ sent \in Nat
      /\ position \in Nat /\ position <= Len(in)
      /\ Len(in) + Len(uart) = sent
      /\ \A e \in reply.ends : e \in Nat
      /\ \A e \in reply.ends : e <= Len(in) => e <= position
  BY <1>1, CleanListening DEF LineInv, TypeOK, Decoded
<1>3. Len(in') <= sent /\ Len(in') \in Nat /\ Len(in) < Len(in')
  BY <1>1, <1>2
<1>4. \A e \in reply.ends : Len(in) < e /\ e <= Len(in') => e = Len(in') /\ FrameEnd(in')
  BY EndsRead
<1>5. ASSUME \A e \in reply.ends : ~(Len(in) < e /\ e <= Len(in'))
      PROVE  Unfinished' = Unfinished
  <2>1. \A e \in reply.ends : Len(in') < e <=> Len(in) < e
    BY <1>2, <1>3, <1>5
  <2> QED
    BY <1>1, <2>1 DEF Unfinished
<1>6. CASE ~FrameEnd(in')
  <2>1. Unfinished' = Unfinished
    BY <1>4, <1>5, <1>6
  <2> QED
    BY <1>6, <2>1 DEF ReceiveFrame
<1>7. ASSUME NEW frame \in {e \in reply.ends : position < e},
             frame <= Len(in'),
             \A e \in {f \in reply.ends : position < f} : frame <= e
      PROVE  /\ frame \in Unfinished
             /\ Unfinished' = Unfinished \ {frame}
             /\ \A e \in Unfinished : frame <= e
  <2>1. frame \in reply.ends /\ frame \in Nat /\ Len(in) < frame
    BY <1>2, <1>7
  <2>2. frame = Len(in') /\ frame <= sent
    BY <1>3, <1>4, <1>7, <2>1
  <2>3. \A e \in reply.ends : Len(in') < e <=> Len(in) < e /\ e # frame
    BY <1>2, <1>3, <1>4, <2>2
  <2>4. \A e \in reply.ends : Len(in) < e => position < e
    BY <1>2
  <2> QED
    BY <1>1, <1>7, <2>1, <2>2, <2>3, <2>4 DEF Unfinished
<1>8. CASE FrameEnd(in')
  <2>1. GetData(in')
    BY <1>8, CleanPass
  <2>2. CASE /\ \A e \in {f \in reply.ends : position < f} : Len(in') < e
             /\ UNCHANGED <<state_, late, position>>
    <3>1. \A e \in reply.ends : ~(Len(in) < e /\ e <= Len(in'))
      BY <1>2, <1>3, <2>2
    <3> QED
      BY <1>5, <2>2, <3>1
  <2>3. ASSUME NEW frame \in {e \in reply.ends : position < e},
               frame <= Len(in'),
               \A e \in {f \in reply.ends : position < f} : frame <= e,
               \/ state_' = IF Complete(frame) THEN "RECEIVED" ELSE state_
               \/ LineFaults /\ state_' = "REFUSED"
        PROVE  \E f \in Unfinished :
                 /\ Unfinished' = Unfinished \ {f}
                 /\ \A e \in Unfinished : f <= e
                 /\ \/ state_' = IF Complete(f) THEN "RECEIVED" ELSE state_
                    \/ LineFaults /\ state_' = "REFUSED"
    BY <1>7, <2>3
  <2> QED
    BY <2>1, <2>2, <2>3 DEF GetData, Refuse
<1> QED
  BY <1>6, <1>8

LEMMA FramesReceiveClean ==
    ASSUME LineInv, LineInv', NEW k \in 1..Len(uart), ReceiveFrame(k), clean
    PROVE  Units!FrameNext \/ UNCHANGED Units!frameVars
<1>1. /\ state_ = "COMMS_RX" /\ state_ \notin Ended /\ reply \in Replies
      /\ UNCHANGED <<reply, sent, silent, clean>>
  BY CleanListening DEF ReceiveFrame, meterVars, Ended
<1>2. CASE UNCHANGED <<state_, late, Unfinished>>
  BY <1>1, <1>2 DEF Units!frameVars, FramePhase, FrameAnswer, FramesWaiting, FrameLine
<1>3. ASSUME NEW frame \in Unfinished,
             Unfinished' = Unfinished \ {frame},
             \A e \in Unfinished : frame <= e
      PROVE  /\ FramesWaiting \in Nat /\ FramesWaiting > 0
             /\ Cardinality(Unfinished') = FramesWaiting - 1
             /\ Complete(frame) => FramesWaiting = 1 /\ FrameAnswer = "DONE"
             /\ ~Complete(frame) => ~Units!AtLast
  <2>1. /\ IsFiniteSet(Unfinished) /\ FramesWaiting = Cardinality(Unfinished)
        /\ FramesWaiting \in Nat /\ FramesWaiting # 0
    BY <1>1, CleanListening, UnfinishedFinite DEF LineInv
  <2>2. Cardinality(Unfinished') = FramesWaiting - 1
    BY <1>3, <2>1, FS_RemoveElement
  <2>3. /\ frame \in reply.ends /\ frame <= sent
        /\ frame \in Nat /\ sent \in Nat /\ reply.size \in Nat /\ sent <= reply.size
        /\ \A e \in reply.ends : e \in Nat /\ e <= reply.size
        /\ reply.size \in reply.ends /\ Len(in) < reply.size
        /\ FrameAnswer = "DONE" <=> sent = reply.size
    <3>1. /\ position < reply.size /\ position \in Nat /\ Len(in) \in Nat
          /\ \A e \in reply.ends : e <= Len(in) => e <= position
      BY <1>1, CleanListening DEF Decoded
    <3> QED
      BY <1>1, <3>1, CleanListening, ReplyType DEF Unfinished
  <2>4. ASSUME Complete(frame) PROVE FramesWaiting = 1 /\ FrameAnswer = "DONE"
    <3>1. frame = reply.size /\ sent = reply.size
      BY <2>3, <2>4 DEF Complete
    <3>2. \A e \in Unfinished : e = frame
      <4>1. \A e \in Unfinished : e \in Nat /\ e <= frame /\ frame <= e
        BY <1>3, <2>3, <3>1 DEF Unfinished
      <4> QED
        BY <2>3, <4>1
    <3>3. Unfinished = {frame}
      BY <1>3, <3>2
    <3> QED
      BY <2>1, <2>3, <3>1, <3>3, FS_Singleton
  <2>5. ASSUME ~Complete(frame), FrameAnswer = "DONE" PROVE FramesWaiting # 1
    <3>1. reply.size \in Unfinished'
      BY <1>3, <2>3, <2>5 DEF Complete, Unfinished
    <3>2. IsFiniteSet(Unfinished')
      BY <1>3, <2>1, FS_RemoveElement
    <3>3. Cardinality(Unfinished') # 0
      BY <3>1, <3>2, FS_EmptySet
    <3> QED
      BY <2>1, <2>2, <3>3
  <2> QED
    BY <2>1, <2>2, <2>4, <2>5 DEF Units!AtLast
<1>4. ASSUME NEW frame \in Unfinished,
             Unfinished' = Unfinished \ {frame},
             \A e \in Unfinished : frame <= e,
             \/ state_' = IF Complete(frame) THEN "RECEIVED" ELSE state_
             \/ LineFaults /\ state_' = "REFUSED"
      PROVE  Units!FrameNext
  <2>1. /\ FramesWaiting \in Nat /\ FramesWaiting > 0
        /\ Cardinality(Unfinished') = FramesWaiting - 1
        /\ Complete(frame) => FramesWaiting = 1 /\ FrameAnswer = "DONE"
        /\ ~Complete(frame) => ~Units!AtLast
        /\ FramePhase = "LISTENING"
    BY <1>1, <1>3, <1>4, CleanListening
  <2>2. CASE state_' = state_ /\ ~Complete(frame)
    <3>1. /\ UNCHANGED <<FramePhase, FrameAnswer, FrameLine>>
          /\ FramesWaiting' = FramesWaiting - 1
      BY <1>1, <2>1, <2>2 DEF FramePhase, FrameAnswer, FrameLine, FramesWaiting
    <3>2. Units!TakeFrame
      BY <2>1, <2>2, <3>1 DEF Units!TakeFrame
    <3> QED
      BY <3>2 DEF Units!FrameNext
  <2>3. ASSUME NEW result \in {"RECEIVED", "REFUSED"}, state_' = result
        PROVE  Units!End(result) /\ FrameLine' \in Units!Lines
    BY <2>1, <2>3 DEF Units!End, Units!Quiet, Units!Lines, FramePhase, FrameAnswer,
       FramesWaiting, FrameLine, Ended
  <2>4. CASE state_' = "RECEIVED" /\ Complete(frame)
    <3>1. FrameLine' = "CLEAN"
      BY <1>1, <2>4 DEF LineInv, DecodedInv, QuietWhenReceived, FrameLine, Ended
    <3>2. Units!TakeLast
      BY <2>1, <2>3, <2>4, <3>1 DEF Units!TakeLast, Units!AtLast
    <3> QED
      BY <3>2 DEF Units!FrameNext
  <2>5. CASE state_' = "REFUSED"
    <3>1. Units!RefuseFrame
      BY <2>1, <2>3, <2>5 DEF Units!RefuseFrame
    <3> QED
      BY <3>1 DEF Units!FrameNext
  <2> QED
    BY <1>4, <2>2, <2>4, <2>5
<1> QED
  BY <1>2, <1>4, FrameTaken

LEMMA FramesReceiveDirty ==
    ASSUME LineInv, NEW k \in 1..Len(uart), ReceiveFrame(k), ~clean
    PROVE  Units!Muddle \/ UNCHANGED Units!frameVars
<1>1. /\ state_ = "COMMS_RX" /\ state_ \notin Ended /\ clean' = clean
      /\ state_' \in {"COMMS_RX", "RECEIVED", "REFUSED"}
  BY DEF ReceiveFrame, GetData, GetStaleData, Refuse, Complete, Ended
<1>2. FramePhase = "LISTENING" /\ FrameLine = "DIRTY"
  BY <1>1 DEF FramePhase, FrameLine
<1>3. CASE state_' = "COMMS_RX"
  BY <1>1, <1>3 DEF Units!frameVars, FramePhase, FrameAnswer, FramesWaiting, FrameLine
<1>4. CASE state_' \in {"RECEIVED", "REFUSED"}
  <2>1. /\ FramePhase' = state_' /\ FrameAnswer' = "NONE" /\ FramesWaiting' = 0
        /\ FrameLine' \in Units!Lines /\ state_' \in Units!Ended
    BY <1>4 DEF FramePhase, FrameAnswer, FramesWaiting, FrameLine, Ended,
       Units!Lines, Units!Ended
  <2> QED
    BY <1>2, <2>1 DEF Units!Muddle, Units!End, Units!Quiet
<1> QED
  BY <1>1, <1>3, <1>4

LEMMA FramesStep ==
    ASSUME LineInv, LineInv', [Next]_vars
    PROVE  Units!FrameNext \/ UNCHANGED Units!frameVars
<1>1. CASE OpenSession
  BY <1>1, FramesOpenSession DEF Units!FrameNext
<1>2. CASE SendReq
  BY <1>2, FramesSendReq DEF Units!FrameNext
<1>3. CASE Line
  BY <1>3, FramesMeterSends, FramesMeterStops, FramesLateByte DEF Line, Units!FrameNext
<1>4. CASE SendDlmsMessages \/ TransmitDone
  BY <1>4, FramesTransmit
<1>5. CASE RxTimeout
  BY <1>5, FramesRxTimeout DEF Units!FrameNext
<1>6. ASSUME NEW k \in 1..Len(uart), ReceiveFrame(k)
      PROVE  Units!FrameNext \/ UNCHANGED Units!frameVars
  <2>1. CASE clean
    BY <1>6, <2>1, FramesReceiveClean
  <2>2. CASE ~clean
    BY <1>6, <2>2, FramesReceiveDirty DEF Units!FrameNext
  <2> QED
    BY <2>1, <2>2
<1>7. CASE UNCHANGED vars
  BY <1>7 DEF vars, txVars, meterVars, rxVars, Units!frameVars, FramePhase, FrameAnswer,
     FramesWaiting, FrameLine, HasMoreMessagesToSend, Unfinished
<1> QED
  BY <1>1, <1>2, <1>3, <1>4, <1>5, <1>6, <1>7 DEF Next, Pass

\* Byte by byte, an exchange does what FrameExchange says of whole frames, for
\* any requests and replies and passes of receive_frame_() cut short anywhere:
\* a frame is decoded once, when its last byte is in the buffer, the frames of
\* a reply in their order, and the last one ends the exchange and leaves
\* nothing on the line.
THEOREM ExchangeImplementsFrames == Spec => ImplementsFrames
<1>1. Init => Units!FrameInit
  BY FrameInitial
<1>2. LineInv /\ LineInv' /\ [Next]_vars => [Units!FrameNext]_(Units!frameVars)
  BY FramesStep
<1> QED
  BY <1>1, <1>2, LineInit, LineStep, PTL DEF Spec, SafeSpec, ImplementsFrames,
     Units!FrameSpec

----------------------------------------------------------------------------
\* Requests of one message.

\* How far the message is out: wire holds its bytes before out_msg_data_pos.
SendInv ==
    /\ out_msg = <<>> => wire = <<>> /\ state_ # "COMMS_TX"
    /\ out_msg # <<>> =>
        /\ Len(wire) = out_msg_data_pos
        /\ \A k \in 1..out_msg_data_pos : wire[k] = <<0, k - 1>>
        /\ out_msg_data_pos <= out_msg[1]
        /\ out_msg_index = 0 \/ out_msg_data_pos = out_msg[1]
        /\ state_ # "COMMS_TX" => out_msg_index = 1

LEMMA WidthType == \A n \in UINT16 : n \in Nat
BY DEF UINT16

LEMMA OneMessageType ==
    ASSUME OneMessage, TypeOK, out_msg # <<>>
    PROVE  Len(out_msg) = 1 /\ out_msg[1] \in Nat /\ out_msg_index \in {0, 1}
<1>1. out_msg \in Seq(UINT16) /\ Len(out_msg) = 1
  BY TransmitAssumption DEF OneMessage, TypeOK
<1>2. out_msg[1] \in UINT16
  BY <1>1
<1>3. out_msg_index \in 0..Len(out_msg)
  BY DEF TypeOK
<1> QED
  BY <1>1, <1>2, <1>3, WidthType

LEMMA PositionType ==
    ASSUME TypeOK
    PROVE  out_msg_data_pos \in Nat /\ wire \in Seq(Nat \X Nat)
<1>1. out_msg_data_pos \in UINT16 /\ wire \in Seq(Nat \X Nat)
  BY DEF TypeOK
<1> QED
  BY <1>1, WidthType

LEMMA SendWrites ==
    ASSUME OneMessage, TypeOK, TypeOK', SendInv, SendDlmsMessages
    PROVE  SendInv'
<1>1. /\ out_msg # <<>> /\ out_msg' = out_msg /\ state_' = "COMMS_TX"
      /\ out_msg_data_pos' = out_msg_data_pos + Chunk
      /\ wire' = wire \o Bytes(out_msg_index, out_msg_data_pos, Chunk)
  BY DEF SendDlmsMessages, SendInv
<1>2. /\ Len(out_msg) = 1 /\ out_msg[1] \in Nat /\ out_msg_index = 0 /\ Size = out_msg[1]
  <2>1. Len(out_msg) = 1 /\ out_msg[1] \in Nat /\ out_msg_index \in {0, 1}
    BY <1>1, OneMessageType
  <2>2. out_msg_index < Len(out_msg)
    BY DEF SendDlmsMessages, HasMoreMessagesToSend
  <2>3. out_msg_index = 0 /\ 0 + 1 = 1
    BY <2>1, <2>2
  <2> QED
    BY <2>1, <2>3 DEF Size
<1>3. /\ out_msg_data_pos \in Nat /\ out_msg_data_pos <= out_msg[1]
      /\ wire \in Seq(Nat \X Nat) /\ Len(wire) = out_msg_data_pos
      /\ \A k \in 1..out_msg_data_pos : wire[k] = <<0, k - 1>>
  <2>1. /\ out_msg_data_pos <= out_msg[1] /\ Len(wire) = out_msg_data_pos
        /\ \A k \in 1..out_msg_data_pos : wire[k] = <<0, k - 1>>
    BY <1>1 DEF SendInv
  <2> QED
    BY <2>1, PositionType
<1>4. Chunk \in Nat /\ out_msg_data_pos + Chunk <= out_msg[1]
  BY <1>2, <1>3, TransmitAssumption DEF Chunk
<1> DEFINE part == Bytes(out_msg_index, out_msg_data_pos, Chunk)
<1>5. part \in Seq(Nat \X Nat) /\ Len(part) = Chunk
  <2>1. part \in [1..Chunk -> Nat \X Nat]
    BY <1>2, <1>3, <1>4 DEF Bytes
  <2> QED
    BY <1>4, <2>1, MapOf
<1>6. \A k \in 1..Chunk : part[k] = <<0, out_msg_data_pos + k - 1>>
  BY <1>2 DEF Bytes
<1> HIDE DEF part
<1>7. /\ Len(wire') = out_msg_data_pos + Chunk
      /\ \A k \in 1..out_msg_data_pos : wire'[k] = wire[k]
      /\ \A k \in (out_msg_data_pos + 1)..(out_msg_data_pos + Chunk) :
            wire'[k] = part[k - out_msg_data_pos]
  <2>1. wire' = wire \o part
    BY <1>1 DEF part
  <2>2. /\ Len(wire \o part) = Len(wire) + Len(part)
        /\ \A k \in 1..Len(wire) : (wire \o part)[k] = wire[k]
        /\ \A k \in (Len(wire) + 1)..(Len(wire) + Len(part)) :
              (wire \o part)[k] = part[k - Len(wire)]
    BY <1>3, <1>5, ConcatOf
  <2> QED
    BY <1>3, <1>5, <2>1, <2>2
<1>8. ASSUME NEW k \in 1..(out_msg_data_pos + Chunk) PROVE wire'[k] = <<0, k - 1>>
  <2>1. CASE k <= out_msg_data_pos
    BY <1>3, <1>7, <2>1
  <2>2. CASE k > out_msg_data_pos
    <3>1. k - out_msg_data_pos \in 1..Chunk
      BY <1>3, <1>4, <2>2
    <3>2. part[k - out_msg_data_pos] = <<0, out_msg_data_pos + (k - out_msg_data_pos) - 1>>
      BY <1>6, <3>1
    <3>3. out_msg_data_pos + (k - out_msg_data_pos) - 1 = k - 1
      BY <1>3
    <3> QED
      BY <1>3, <1>4, <1>7, <2>2, <3>2, <3>3
  <2> QED
    BY <1>3, <2>1, <2>2
<1>9. out_msg_index' = 0 \/ out_msg_data_pos' = out_msg[1]
  <2>1. out_msg_index' = IF MessageSent(out_msg_data_pos') THEN out_msg_index + 1
                                                           ELSE out_msg_index
    BY DEF SendDlmsMessages
  <2>2. /\ out_msg_data_pos' \in Nat /\ out_msg[1] \in Nat
        /\ out_msg_data_pos' <= out_msg[1]
    BY <1>1, <1>2, <1>3, <1>4
  <2>3. MessageSent(out_msg_data_pos') => out_msg_data_pos' >= out_msg[1]
    BY <1>2 DEF MessageSent
  <2> QED
    BY <1>2, <2>1, <2>2, <2>3
<1> QED
  BY <1>1, <1>4, <1>7, <1>8, <1>9 DEF SendInv

LEMMA SendStep ==
    ASSUME OneMessage, TypeOK, TypeOK', SendInv, [Next]_vars
    PROVE  SendInv'
<1>1. CASE SendReq
  <2>1. out_msg' # <<>>
    BY <1>1 DEF SendReq, OneMessage
  <2>2. out_msg'[1] \in Nat
    <3>1. out_msg' \in Seq(UINT16) /\ Len(out_msg') = 1
      BY <1>1, TransmitAssumption DEF SendReq, OneMessage
    <3>2. out_msg'[1] \in UINT16
      BY <3>1
    <3> QED
      BY <3>2, WidthType
  <2>3. /\ out_msg_index' = 0 /\ out_msg_data_pos' = 0 /\ state_' = "COMMS_TX"
        /\ Len(wire') = 0
    BY <1>1 DEF SendReq
  <2> QED
    BY <2>1, <2>2, <2>3 DEF SendInv
<1>2. CASE SendDlmsMessages
  BY <1>2, SendWrites
<1>3. CASE TransmitDone
  <2>1. out_msg # <<>>
    BY <1>3 DEF TransmitDone, SendInv
  <2>2. out_msg_index = 1
    BY <1>3, <2>1, OneMessageType DEF TransmitDone, HasMoreMessagesToSend
  <2> QED
    BY <1>3, <2>1, <2>2 DEF TransmitDone, txVars, SendInv
<1>4. CASE OpenSession
  BY <1>4 DEF OpenSession, txVars, SendInv, Ended
<1>5. CASE MeterSends \/ MeterStops \/ LateByte
  BY <1>5 DEF MeterSends, MeterStops, LateByte, txVars, SendInv
<1>6. CASE RxTimeout
  BY <1>6 DEF RxTimeout, txVars, SendInv
<1>7. ASSUME NEW k \in 1..Len(uart), ReceiveFrame(k) PROVE SendInv'
  BY <1>7 DEF ReceiveFrame, GetData, GetStaleData, Refuse, txVars, SendInv
<1>8. CASE UNCHANGED vars
  BY <1>8 DEF vars, txVars, SendInv
<1> QED
  BY <1>1, <1>2, <1>3, <1>4, <1>5, <1>6, <1>7, <1>8 DEF Next, Line, Pass

LEMMA SentWhole ==
    ASSUME OneMessage, TypeOK, SendInv
    PROVE  RequestSent
<1>1. CASE out_msg = <<>>
  <2>1. DOMAIN wire = {} /\ DOMAIN out_msg = {}
    BY <1>1 DEF SendInv
  <2> QED
    BY <2>1 DEF RequestSent
<1>2. CASE out_msg # <<>>
  <2>1. /\ Len(out_msg) = 1 /\ DOMAIN out_msg = {1} /\ out_msg[1] \in Nat
        /\ out_msg_index \in {0, 1}
    <3>1. Len(out_msg) = 1 /\ out_msg[1] \in Nat /\ out_msg_index \in {0, 1}
      BY <1>2, OneMessageType
    <3>2. out_msg \in Seq(UINT16)
      BY <1>2, TransmitAssumption DEF TypeOK
    <3> QED
      BY <3>1, <3>2
  <2>2. /\ out_msg_data_pos \in Nat /\ out_msg_data_pos <= out_msg[1]
        /\ DOMAIN wire = 1..out_msg_data_pos
        /\ \A k \in 1..out_msg_data_pos : wire[k] = <<0, k - 1>>
    <3>1. /\ out_msg_data_pos <= out_msg[1] /\ Len(wire) = out_msg_data_pos
          /\ \A k \in 1..out_msg_data_pos : wire[k] = <<0, k - 1>>
      BY <1>2 DEF SendInv
    <3>2. DOMAIN wire = 1..Len(wire)
      BY PositionType
    <3> QED
      BY <3>1, <3>2, PositionType
  <2>3. ASSUME NEW k \in DOMAIN wire, k # 1
        PROVE  wire[k] = LET byte == wire[k - 1]
                         IN  IF byte[2] + 1 < out_msg[byte[1] + 1]
                               THEN <<byte[1], byte[2] + 1>>
                               ELSE <<byte[1] + 1, 0>>
    <3>1. k - 1 \in 1..out_msg_data_pos /\ k \in 1..out_msg_data_pos /\ k \in Nat
      BY <2>2, <2>3
    <3>2. wire[k - 1] = <<0, k - 2>> /\ wire[k] = <<0, k - 1>>
      <4>1. wire[k - 1] = <<0, k - 1 - 1>>
        BY <2>2, <3>1
      <4>2. k - 1 - 1 = k - 2
        BY <3>1
      <4> QED
        BY <2>2, <3>1, <4>1, <4>2
    <3>3. wire[k - 1][1] = 0 /\ wire[k - 1][2] = k - 2
      BY <3>2
    <3>4. 0 + 1 = 1 /\ k - 2 + 1 = k - 1 /\ k - 1 < out_msg[1]
      BY <2>1, <2>2, <3>1
    <3> QED
      BY <3>2, <3>3, <3>4
  <2>4. 1 \in DOMAIN wire => wire[1] = <<0, 0>>
    BY <2>2
  <2>5. ASSUME state_ # "COMMS_TX", NEW m \in DOMAIN out_msg, NEW pos \in 0..(out_msg[m] - 1)
        PROVE  \E k \in DOMAIN wire : wire[k] = <<m - 1, pos>>
    <3>1. m = 1 /\ out_msg_data_pos = out_msg[1]
      BY <1>2, <2>1, <2>5 DEF SendInv
    <3>2. pos + 1 \in DOMAIN wire /\ pos \in Nat
      BY <2>1, <2>2, <2>5, <3>1
    <3>3. wire[pos + 1] = <<0, pos + 1 - 1>> /\ pos + 1 - 1 = pos /\ m - 1 = 0
      BY <2>2, <3>1, <3>2
    <3> QED
      BY <3>2, <3>3
  <2> QED
    BY <2>3, <2>4, <2>5 DEF RequestSent
<1> QED
  BY <1>1, <1>2

\* A request of one message is on the wire as a whole and in order when the
\* hub listens, whatever its length; a second message would not be.
THEOREM ExchangeRequestSent == OneMessage => (Spec => []RequestSent)
<1> SUFFICES ASSUME OneMessage PROVE Spec => []RequestSent
  OBVIOUS
<1>1. Init => TypeOK /\ SendInv
  <2>1. Init => SendInv
    BY DEF Init, SendInv
  <2> QED
    BY <2>1, TypeInit
<1>2. TypeOK /\ SendInv /\ [Next]_vars => (TypeOK /\ SendInv)'
  BY TypeStep, SendStep
<1>3. TypeOK /\ SendInv => RequestSent
  BY SentWhole
<1> QED
  BY <1>1, <1>2, <1>3, PTL DEF Spec, SafeSpec

----------------------------------------------------------------------------
\* Progress: the variant behind ExchangeEnds.

PhasesLeft ==
    CASE state_ = "COMMS_TX" -> 2
      [] state_ = "COMMS_RX" -> 1
      [] OTHER -> 0

MessagesLeft == Len(out_msg) - out_msg_index

BytesLeft ==
    IF HasMoreMessagesToSend /\ Size > out_msg_data_pos THEN Size - out_msg_data_pos ELSE 0

AnswerLeft == reply.size - sent
MeterLeft == IF silent THEN 0 ELSE 1

\* What is left of an exchange, most important first.
ExchangeRank ==
    <<PhasesLeft, MessagesLeft, BytesLeft, Len(late), AnswerLeft, MeterLeft, Len(uart)>>

\* Whatever is on the line and however the passes are cut, each step of an
\* exchange, of the hub, the meter or the line, leaves less to do: a pass that
\* sends or reads, a byte that comes in, a frame that is refused.
ExchangeProgress ==
    [][state_ \notin Ended =>
           ExchangeRank' \in [1..7 -> Nat] /\ Below(ExchangeRank', ExchangeRank)]_vars

RankTypes ==
    /\ PhasesLeft \in Nat /\ MessagesLeft \in Nat /\ BytesLeft \in Nat
    /\ Len(late) \in Nat /\ AnswerLeft \in Nat /\ MeterLeft \in Nat
    /\ Len(uart) \in Nat

LEMMA RankOf == TypeOK => RankTypes
<1> SUFFICES ASSUME TypeOK PROVE RankTypes
  OBVIOUS
<1>1. PhasesLeft \in Nat /\ MeterLeft \in Nat
  BY DEF PhasesLeft, MeterLeft
<1>2. Len(late) \in Nat /\ Len(uart) \in Nat
  BY SeqOf DEF TypeOK
<1>3. MessagesLeft \in Nat
  <2>1. out_msg \in Seq(UINT16)
    <3>1. <<>> \in Seq(UINT16)
      OBVIOUS
    <3> QED
      BY <3>1, TransmitAssumption DEF TypeOK
  <2>2. Len(out_msg) \in Nat /\ out_msg_index \in 0..Len(out_msg)
    BY <2>1, SeqOf DEF TypeOK
  <2> QED
    BY <2>2 DEF MessagesLeft
<1>4. BytesLeft \in Nat
  <2>1. CASE HasMoreMessagesToSend
    <3>1. Size \in Nat /\ out_msg_data_pos \in Nat
      BY <2>1, MessageType, WidthType DEF TypeOK
    <3> QED
      BY <3>1 DEF BytesLeft
  <2>2. CASE ~HasMoreMessagesToSend
    BY <2>2 DEF BytesLeft
  <2> QED
    BY <2>1, <2>2
<1>5. AnswerLeft \in Nat
  <2>1. reply.size \in Nat /\ sent \in 0..reply.size
    BY SizeType DEF TypeOK, ReplyOK
  <2> QED
    BY <2>1 DEF AnswerLeft
<1> QED
  BY <1>1, <1>2, <1>3, <1>4, <1>5 DEF RankTypes

\* Below, one place after the other.
LEMMA BelowIntro ==
    ASSUME RankTypes',
           NEW i \in 1..7, ExchangeRank'[i] < ExchangeRank[i],
           \A j \in 1..(i - 1) : ExchangeRank'[j] = ExchangeRank[j]
    PROVE  ExchangeRank' \in [1..7 -> Nat] /\ Below(ExchangeRank', ExchangeRank)
<1>1. DOMAIN ExchangeRank = 1..7
  BY DEF ExchangeRank
<1>2. ExchangeRank' \in [1..7 -> Nat]
  <2>1. \A a, b, c, d, e, f, g \in Nat : <<a, b, c, d, e, f, g>> \in [1..7 -> Nat]
    OBVIOUS
  <2> QED
    BY <2>1, Zenon DEF ExchangeRank, RankTypes
<1> HIDE DEF ExchangeRank
<1> QED
  BY <1>1, <1>2 DEF Below

LEMMA RankPlaces ==
    /\ ExchangeRank[1] = PhasesLeft /\ ExchangeRank[2] = MessagesLeft
    /\ ExchangeRank[3] = BytesLeft /\ ExchangeRank[4] = Len(late)
    /\ ExchangeRank[5] = AnswerLeft /\ ExchangeRank[6] = MeterLeft
    /\ ExchangeRank[7] = Len(uart)
    /\ ExchangeRank'[1] = PhasesLeft' /\ ExchangeRank'[2] = MessagesLeft'
    /\ ExchangeRank'[3] = BytesLeft' /\ ExchangeRank'[4] = Len(late')
    /\ ExchangeRank'[5] = AnswerLeft' /\ ExchangeRank'[6] = MeterLeft'
    /\ ExchangeRank'[7] = Len(uart')
BY DEF ExchangeRank

LEMMA PlacesBefore ==
    /\ \A j \in 1..(1 - 1) : FALSE
    /\ \A j \in 1..(2 - 1) : j = 1
    /\ \A j \in 1..(3 - 1) : j \in {1, 2}
    /\ \A j \in 1..(4 - 1) : j \in {1, 2, 3}
    /\ \A j \in 1..(5 - 1) : j \in {1, 2, 3, 4}
    /\ \A j \in 1..(6 - 1) : j \in {1, 2, 3, 4, 5}
    /\ \A j \in 1..(7 - 1) : j \in {1, 2, 3, 4, 5, 6}
OBVIOUS

LEMMA ExchangeLess ==
    ASSUME TypeOK, RankTypes, RankTypes', Next, state_ \notin Ended
    PROVE  ExchangeRank' \in [1..7 -> Nat] /\ Below(ExchangeRank', ExchangeRank)
<1>1. state_ \in {"COMMS_TX", "COMMS_RX"} /\ PhasesLeft \in {1, 2}
  BY DEF TypeOK, PhasesLeft, Ended
<1>2. CASE state_' \in Ended
  <2>1. PhasesLeft' < PhasesLeft
    BY <1>1, <1>2 DEF PhasesLeft, Ended
  <2> QED
    BY <2>1, RankPlaces, PlacesBefore, BelowIntro
<1>3. CASE SendDlmsMessages
  <2>1. /\ state_ = "COMMS_TX" /\ state_' = state_ /\ out_msg' = out_msg
        /\ HasMoreMessagesToSend /\ out_msg_data_pos' = out_msg_data_pos + Chunk
        /\ out_msg_index' = IF MessageSent(out_msg_data_pos') THEN out_msg_index + 1
                                                              ELSE out_msg_index
    BY <1>3 DEF SendDlmsMessages, meterVars
  <2>2. PhasesLeft' = PhasesLeft
    BY <2>1 DEF PhasesLeft
  <2>3. Size \in Nat /\ out_msg_data_pos \in Nat /\ Chunk \in Nat /\ out_msg_index \in Nat
    BY <2>1, MessageType, WidthType DEF TypeOK
  <2>4. CASE MessageSent(out_msg_data_pos')
    <3>1. MessagesLeft' < MessagesLeft
      BY <2>1, <2>3, <2>4 DEF MessagesLeft, RankTypes
    <3> QED
      BY <2>2, <3>1, RankPlaces, PlacesBefore, BelowIntro
  <2>5. CASE ~MessageSent(out_msg_data_pos')
    <3>1. MessagesLeft' = MessagesLeft /\ Size' = Size /\ HasMoreMessagesToSend'
      BY <2>1, <2>5 DEF MessagesLeft, Size, HasMoreMessagesToSend
    <3>2. out_msg_data_pos + Chunk < Size
      BY <2>1, <2>3, <2>5 DEF MessageSent
    <3>3. Chunk > 0
      <4>1. Size > out_msg_data_pos
        BY <2>3, <3>2
      <4> QED
        BY <2>3, <4>1, TransmitAssumption DEF Chunk
    <3>4. BytesLeft' < BytesLeft
      BY <2>1, <2>3, <3>1, <3>2, <3>3 DEF BytesLeft
    <3> QED
      BY <2>2, <3>1, <3>4, RankPlaces, PlacesBefore, BelowIntro
  <2> QED
    BY <2>4, <2>5
<1>4. CASE TransmitDone
  <2>1. PhasesLeft' < PhasesLeft
    BY <1>4 DEF TransmitDone, PhasesLeft
  <2> QED
    BY <2>1, RankPlaces, PlacesBefore, BelowIntro
<1>5. ASSUME UNCHANGED <<state_, txVars>>
      PROVE  PhasesLeft' = PhasesLeft /\ MessagesLeft' = MessagesLeft /\ BytesLeft' = BytesLeft
  BY <1>5 DEF txVars, PhasesLeft, MessagesLeft, BytesLeft, Size, HasMoreMessagesToSend
<1>6. CASE LateByte
  <2>1. UNCHANGED <<state_, txVars>> /\ late # <<>> /\ late' = Tail(late)
    BY <1>6 DEF LateByte
  <2>2. Len(late') < Len(late)
    <3>1. Len(Tail(late)) = Len(late) - 1 /\ Len(late) \in Nat
      BY <2>1, SeqOf DEF TypeOK
    <3> QED
      BY <2>1, <3>1
  <2> QED
    BY <1>5, <2>1, <2>2, RankPlaces, PlacesBefore, BelowIntro
<1>7. CASE MeterSends
  <2>1. UNCHANGED <<state_, txVars, late, reply>> /\ sent' = sent + 1
    BY <1>7 DEF MeterSends
  <2>2. AnswerLeft' < AnswerLeft
    <3>1. reply.size \in Nat /\ sent \in 0..reply.size
      BY SizeType DEF TypeOK, ReplyOK
    <3> QED
      BY <2>1, <3>1 DEF AnswerLeft
  <2> QED
    BY <1>5, <2>1, <2>2, RankPlaces, PlacesBefore, BelowIntro
<1>8. CASE MeterStops
  <2>1. UNCHANGED <<state_, txVars, late, reply, sent>> /\ ~silent /\ silent' = TRUE
    BY <1>8 DEF MeterStops, Replying
  <2>2. AnswerLeft' = AnswerLeft /\ MeterLeft' < MeterLeft
    BY <2>1 DEF AnswerLeft, MeterLeft
  <2> QED
    BY <1>5, <2>1, <2>2, RankPlaces, PlacesBefore, BelowIntro
<1>9. ASSUME NEW k \in 1..Len(uart), ReceiveFrame(k), state_' = state_
      PROVE  ExchangeRank' \in [1..7 -> Nat] /\ Below(ExchangeRank', ExchangeRank)
  <2>1. UNCHANGED <<state_, txVars, meterVars, late>>
    BY <1>9, <1>1 DEF ReceiveFrame, GetData, GetStaleData, Refuse, Complete
  <2>2. AnswerLeft' = AnswerLeft /\ MeterLeft' = MeterLeft
    BY <2>1 DEF AnswerLeft, MeterLeft, meterVars
  <2>3. Len(uart') < Len(uart)
    BY <1>9, ReceiveFrameMoves
  <2> QED
    BY <1>5, <2>1, <2>2, <2>3, RankPlaces, PlacesBefore, BelowIntro
<1>10. ASSUME NEW k \in 1..Len(uart), ReceiveFrame(k)
       PROVE  state_' \in Ended \/ state_' = state_
  BY <1>10 DEF ReceiveFrame, GetData, GetStaleData, Refuse, Ended
<1>11. RxTimeout => state_' \in Ended
  BY DEF RxTimeout, Ended
<1>12. SendDlmsMessages \/ TransmitDone \/ RxTimeout \/ MeterSends \/ MeterStops \/ LateByte
       \/ \E k \in 1..Len(uart) : ReceiveFrame(k)
  BY DEF Next, Pass, Line, OpenSession, SendReq
<1> QED
  BY <1>2, <1>3, <1>4, <1>6, <1>7, <1>8, <1>9, <1>10, <1>11, <1>12

\* For any requests, replies, bytes a pass, buffers and faults of the line: an
\* exchange cannot go on for ever.  The order has no infinite descent.
THEOREM ExchangeGoesOn == Spec => ExchangeProgress
<1>1. TypeOK /\ RankTypes /\ RankTypes' /\ [Next]_vars
      => [state_ \notin Ended =>
              ExchangeRank' \in [1..7 -> Nat] /\ Below(ExchangeRank', ExchangeRank)]_vars
  BY ExchangeLess
<1> QED
  BY <1>1, RankOf, ExchangeTypeCorrect, PTL DEF Spec, SafeSpec, ExchangeProgress
=============================================================================
