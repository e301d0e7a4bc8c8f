---------------------------- MODULE DlmsExchange ----------------------------
(***************************************************************************)
(* One exchange of a polled hub after the other, byte by byte.  DlmsCosem  *)
(* takes a request and a frame as units.                                   *)
(*                                                                         *)
(* COMMS_TX: send_dlms_messages_() writes what a request maker left in     *)
(* buffers_.out_msg, at most MAX_BYTES_IN_ONE_SHOT bytes in a pass of      *)
(* loop().  A message is its length, a byte of it is its message and its   *)
(* position.                                                               *)
(*                                                                         *)
(* COMMS_RX: receive_frame_() moves bytes from the UART to buffers_.in and *)
(* hands the buffer to dlms_getData2() when it looks like                  *)
(* <FLAG>data<FLAG>.  A reply is a number of HDLC frames; its bytes are    *)
(* their positions in it.  Some have the value HDLC_FLAG, inside a frame   *)
(* too, as HDLC frames with a length field are not escaped.  Of the bytes  *)
(* of earlier replies only that is known: they are Stale or StaleFlag.     *)
(***************************************************************************)
EXTENDS Integers, Sequences, FiniteSets

CONSTANTS MAX_BYTES_IN_ONE_SHOT,
          OutMessages,          \* what request makers produce: sequences of
                                \* lengths
          Replies,              \* [size, flags, ends]: bytes of value
                                \* HDLC_FLAG, last bytes of frames
          DEFAULT_IN_BUF_SIZE,
          GROW_EPSILON,
          LineFaults,           \* replies may be slow or damaged
          MaxUart,              \* bound: bytes the UART's buffer holds
          MaxLate               \* bound: bytes that come after their timeout

HdlcReply(r) ==
    /\ r.size \in Nat
    /\ r.size \in r.ends /\ 1 \in r.flags
    /\ r.ends \subseteq r.flags /\ r.flags \subseteq 1..r.size
    /\ 1 \notin r.ends
    /\ \A e \in r.ends : e # r.size => e + 1 \in r.flags

\* out_msg_data_pos is a uint16_t.
UINT16 == 0..(2^16 - 1)

ASSUME TransmitAssumption ==
    /\ MAX_BYTES_IN_ONE_SHOT \in Nat \ {0}
    /\ OutMessages \subseteq Seq(UINT16)

ASSUME ReplyAssumption == \A r \in Replies : HdlcReply(r)

ASSUME ReceiveAssumption ==
    /\ DEFAULT_IN_BUF_SIZE \in Nat
    /\ GROW_EPSILON \in Nat
    /\ LineFaults \in BOOLEAN
    /\ MaxUart \in Nat \ {0}
    /\ MaxLate \in Nat

VARIABLES state_,           \* "COMMS_TX", "COMMS_RX", or how the exchange
                            \* before ended
          out_msg,          \* buffers_.out_msg: the length of each message
          out_msg_index,    \* 0-based, as in the code
          out_msg_data_pos,
          wire,             \* the bytes written since the request was made
          reply,            \* what the meter answers in this exchange
          sent,             \* bytes of it that are on the line
          silent,           \* the meter has stopped in the middle
          late,             \* bytes of earlier replies still to come
          uart,             \* bytes in the UART's receive buffer
          in,               \* buffers_.in: data[0..size)
          capacity,         \* buffers_.in.capacity
          position,         \* buffers_.in.position: bytes decoded
          clean             \* history: no byte of an earlier reply was
                            \* around when this exchange began

txVars == <<out_msg, out_msg_index, out_msg_data_pos, wire>>
meterVars == <<reply, sent, silent>>
rxVars == <<in, capacity, position>>
vars == <<state_, txVars, meterVars, late, uart, rxVars, clean>>

Ended == {"READY", "RECEIVED", "TIMED_OUT", "REFUSED"}

NoReply == [size |-> 0, flags |-> {}, ends |-> {}]

Stale == 0
StaleFlag == -1

Init ==
    /\ state_ = "READY"
    /\ out_msg = <<>> /\ out_msg_index = 0 /\ out_msg_data_pos = 0
    /\ wire = <<>>
    /\ reply = NoReply /\ sent = 0 /\ silent = FALSE
    /\ late = <<>>
    /\ uart = <<>>
    /\ in = <<>> /\ capacity = DEFAULT_IN_BUF_SIZE /\ position = 0
    /\ clean = TRUE

----------------------------------------------------------------------------
IsFlag(byte) == byte = StaleFlag \/ byte \in reply.flags

\* Bytes of this reply once it is an earlier one.
Aged(bytes) ==
    [k \in DOMAIN bytes |-> IF IsFlag(bytes[k]) THEN StaleFlag ELSE Stale]

\* handle_open_session_(): clear_rx_buffers_().
OpenSession ==
    /\ state_ \in Ended
    /\ state_' = "READY"
    /\ uart' = <<>> /\ in' = <<>> /\ position' = 0
    /\ UNCHANGED <<txVars, meterVars, late, capacity, clean>>

\* Mutant: reset() leaves in.position as it is.
ResetPositionKept == in' = <<>> /\ UNCHANGED position

\* buffers_.reset(), in
Reset == in' = <<>> /\ position' = 0

\* send_dlms_req_and_next(): buffers_.reset(), then the maker fills out_msg.
\* The UART's buffer is left as it is.
SendReq ==
    /\ state_ \in Ended
    /\ state_' = "COMMS_TX"
    /\ out_msg' \in OutMessages
    /\ out_msg_index' = 0 /\ out_msg_data_pos' = 0
    /\ wire' = <<>>
    /\ reply' \in Replies /\ sent' = 0 /\ silent' = FALSE
    /\ Reset
    /\ uart' = Aged(uart)
    /\ clean' = (uart = <<>> /\ late = <<>>)
    /\ UNCHANGED <<late, capacity>>

----------------------------------------------------------------------------
HasMoreMessagesToSend == out_msg_index < Len(out_msg)

Size == out_msg[out_msg_index + 1]

\* bytes_to_send
Chunk ==
    LET left == IF Size > out_msg_data_pos THEN Size - out_msg_data_pos ELSE 0
    IN  IF left > MAX_BYTES_IN_ONE_SHOT THEN MAX_BYTES_IN_ONE_SHOT ELSE left

\* Mutant: the message counts as sent when no full chunk is left.
MessageSentEarly(pos) == pos + MAX_BYTES_IN_ONE_SHOT > Size

\* Mutant: > instead of >=.
MessageSentLate(pos) == pos > Size

MessageSent(pos) == pos >= Size

Bytes(message, from, count) == [k \in 1..count |-> <<message, from + k - 1>>]

\* send_dlms_messages_().  out_msg_data_pos goes on from one message to the
\* next.
SendDlmsMessages ==
    /\ state_ = "COMMS_TX"
    /\ HasMoreMessagesToSend
    /\ wire' = wire \o Bytes(out_msg_index, out_msg_data_pos, Chunk)
    /\ out_msg_data_pos' = out_msg_data_pos + Chunk
    /\ out_msg_index' = IF MessageSent(out_msg_data_pos') THEN out_msg_index + 1
                                                          ELSE out_msg_index
    /\ UNCHANGED <<state_, out_msg, meterVars, late, uart, rxVars, clean>>

\* COMMS_TX with nothing more to send.
TransmitDone ==
    /\ state_ = "COMMS_TX"
    /\ ~HasMoreMessagesToSend
    /\ state_' = "COMMS_RX"
    /\ UNCHANGED <<txVars, meterVars, late, uart, rxVars, clean>>

----------------------------------------------------------------------------
\* The meter has the request, and is not busy with an earlier one.
Replying ==
    /\ state_ \in {"COMMS_TX", "COMMS_RX"} /\ ~HasMoreMessagesToSend
    /\ late = <<>>
    /\ sent < reply.size /\ ~silent

\* The meter's next byte.
MeterSends ==
    /\ Replying
    /\ Len(uart) < MaxUart
    /\ sent' = sent + 1
    /\ uart' = Append(uart, sent + 1)
    /\ UNCHANGED <<state_, txVars, reply, silent, late, rxVars, clean>>

\* The meter, or the line, fails for the rest of the reply.
MeterStops ==
    /\ Replying
    /\ silent' = TRUE
    /\ UNCHANGED <<state_, txVars, reply, sent, late, uart, rxVars, clean>>

\* A byte of an earlier reply comes in.
LateByte ==
    /\ late # <<>>
    /\ Len(uart) < MaxUart
    /\ uart' = Append(uart, Head(late))
    /\ late' = Tail(late)
    /\ UNCHANGED <<state_, txVars, meterVars, rxVars, clean>>

\* What has not been sent of a reply when the hub gives up on it may come
\* all the same.
GivenUp ==
    LET rest == Aged([k \in 1..(reply.size - sent) |-> sent + k])
    IN  \/ UNCHANGED late
        \/ /\ ~silent /\ Len(late \o rest) <= MaxLate
           /\ late' = late \o rest

----------------------------------------------------------------------------
\* Mutant: the bytes already in the buffer are not counted.
GrownForNew(more_data) ==
    IF more_data > capacity THEN more_data + GROW_EPSILON ELSE capacity

\* check_and_grow_input()
Grown(more_data) ==
    IF Len(in) + more_data > capacity THEN Len(in) + more_data + GROW_EPSILON
                                      ELSE capacity

\* Mutant: the second flag ends the frame.
FrameEndSecondFlag(buf) ==
    buf # <<>> /\ IsFlag(buf[Len(buf)])
        /\ Cardinality({k \in DOMAIN buf : IsFlag(buf[k])}) = 2

\* frame_end_check_hdlc
FrameEnd(buf) == Len(buf) >= 2 /\ IsFlag(buf[1]) /\ IsFlag(buf[Len(buf)])

Upto(k) == SubSeq(uart, 1, k)

\* Mutant: the byte at which a pass is cut short is lost.
UnreadDropsOne(k) == SubSeq(uart, k + 2, Len(uart))

Unread(k) == SubSeq(uart, k + 1, Len(uart))

\* Mutant: reply.complete is not looked at.
CompleteAlways(frame) == TRUE

\* reply.complete
Complete(frame) == frame = reply.size

Refuse == state_' = "REFUSED" /\ GivenUp

\* dlms_getData2() for bytes of this reply: the frame at the position, if it
\* is there as a whole.  Its length is in its header, flags inside it do not
\* count.
GetData(buf) ==
    LET left == {e \in reply.ends : position < e}
    IN  \/ /\ \A e \in left : Len(buf) < e
           /\ UNCHANGED <<state_, late, position>>
        \/ \E frame \in left :
            /\ frame <= Len(buf)
            /\ \A e \in left : frame <= e
            /\ position' = frame
            /\ \/ /\ state_' = IF Complete(frame) THEN "RECEIVED" ELSE state_
                  /\ UNCHANGED late
               \/ LineFaults /\ Refuse

\* dlms_getData2() with bytes of earlier replies: it may make anything of
\* them, an earlier reply included.
GetStaleData(buf) ==
    /\ position' \in {position, Len(buf)}
    /\ \/ UNCHANGED <<state_, late>>
       \/ state_' = "RECEIVED" /\ GivenUp
       \/ Refuse

IsStale(byte) == byte \in {Stale, StaleFlag}

\* A pass of COMMS_RX that reads k of the bytes that were available() when it
\* began: up to the first one that ends a frame, or fewer if it has taken
\* longer than read_time_limit_ms or read_one_byte() fails.
ReceiveFrame(k) ==
    /\ state_ = "COMMS_RX"
    /\ \A j \in 1..(k - 1) : ~FrameEnd(in \o Upto(j))
    /\ in' = in \o Upto(k)
    /\ uart' = Unread(k)
    /\ capacity' = Grown(Len(uart))
    /\ IF ~FrameEnd(in')
         THEN UNCHANGED <<state_, late, position>>
         ELSE IF \E j \in DOMAIN in' : IsStale(in'[j])
                THEN GetStaleData(in')
                ELSE GetData(in')
    /\ UNCHANGED <<txVars, meterVars, clean>>

\* check_rx_timeout_(), which comes first in a pass and looks at the clock
\* only.  The time counts from the request or the end of the last frame: with
\* line faults a frame may take longer than receive_timeout from there (480
\* bytes with the defaults of 500 ms and 9600 baud), and the time may be up
\* with the end of the reply in the UART, not read yet.
RxTimeout ==
    /\ state_ = "COMMS_RX"
    /\ LineFaults \/ (uart = <<>> /\ late = <<>> /\ (silent \/ sent = reply.size))
    /\ state_' = "TIMED_OUT"
    /\ GivenUp
    /\ UNCHANGED <<txVars, meterVars, uart, rxVars, clean>>

\* What the hub does in an exchange, and what time brings.
Pass == \/ SendDlmsMessages \/ TransmitDone \/ RxTimeout
        \/ \E k \in 1..Len(uart) : ReceiveFrame(k)

Line == MeterSends \/ MeterStops \/ LateByte

Next == OpenSession \/ SendReq \/ Line \/ Pass

SafeSpec == Init /\ [][Next]_vars

\* The main loop runs, and every byte of a reply comes or does not come.
Spec == SafeSpec /\ WF_vars(Pass) /\ WF_vars(Line)

----------------------------------------------------------------------------
Positions == UNION {1..r.size : r \in Replies}

\* Types; out_msg_data_pos never wraps around.
TypeOK ==
    /\ state_ \in Ended \cup {"COMMS_TX", "COMMS_RX"}
    /\ out_msg \in OutMessages \/ out_msg = <<>>
    /\ out_msg_index \in 0..Len(out_msg)
    /\ out_msg_data_pos \in UINT16
    /\ wire \in Seq(Nat \X Nat)
    /\ reply \in Replies \/ reply = NoReply
    /\ sent \in 0..reply.size
    /\ silent \in BOOLEAN
    /\ late \in Seq({Stale, StaleFlag})
    /\ uart \in Seq(Positions \cup {Stale, StaleFlag})
    /\ in \in Seq(Positions \cup {Stale, StaleFlag})
    /\ capacity \in Nat
    /\ position \in 0..Len(in)
    /\ clean \in BOOLEAN

\* What the makers produce for short passwords and plain reads.
OneMessage == \A out \in OutMessages : Len(out) = 1

\* The bytes on the wire are those of the messages from the first byte on,
\* in order, none twice and none left out, after any number of passes; and
\* as the comment at has_more_messages_to_send() says, "shows whether there
\* are still messages to send", all of them are there when the hub listens.
RequestSent ==
    /\ \A k \in DOMAIN wire :
        IF k = 1 THEN wire[k] = <<0, 0>>
        ELSE LET byte == wire[k - 1]
             IN  wire[k] = IF byte[2] + 1 < out_msg[byte[1] + 1]
                             THEN <<byte[1], byte[2] + 1>>
                             ELSE <<byte[1] + 1, 0>>
    /\ state_ # "COMMS_TX" =>
        \A m \in DOMAIN out_msg : \A pos \in 0..(out_msg[m] - 1) :
            \E k \in DOMAIN wire : wire[k] = <<m - 1, pos>>

\* No byte is written past the end of buffers_.in, however a reply is spread
\* over frames and passes and whatever was left on the line.
InputFits == Len(in) <= capacity

\* The buffer and the UART hold the reply's bytes from the first one on, each
\* once and in order, behind what was left on the line: passes that are cut
\* short lose and repeat nothing.
BytesInOrder ==
    state_ \in {"COMMS_TX", "COMMS_RX"} \/ (state_ = "RECEIVED" /\ clean) =>
        LET bytes == in \o uart
            old == Len(bytes) - sent
        IN  /\ old >= 0 /\ (clean => old = 0)
            /\ \A k \in DOMAIN bytes :
                IF k <= old THEN IsStale(bytes[k]) ELSE bytes[k] = k - old

\* A reply that the hub has read to its end on a clean line is received,
\* never timed out: the flag test misses the end of no frame, and flags
\* inside a frame or two flags in a row do no harm.  The time can only be up
\* before the pass that reads the last byte.
ReplyNotLost == state_ = "TIMED_OUT" /\ clean => sent < reply.size \/ uart # <<>>

\* A reply that is received on a clean line is all the meter has sent, so
\* that the next exchange begins on a clean line.
QuietWhenReceived ==
    state_ = "RECEIVED" /\ clean => uart = <<>> /\ late = <<>> /\ sent = reply.size

\* The exchange in units.  A line is clean between two exchanges when nothing
\* is on it or on its way.
FramePhase ==
    IF state_ \in Ended THEN state_
    ELSE IF state_ = "COMMS_RX" THEN "LISTENING"
    ELSE IF HasMoreMessagesToSend THEN "SENDING" ELSE "SENT"

FrameLine ==
    IF (state_ \in Ended /\ uart = <<>> /\ late = <<>>) \/ (state_ \notin Ended /\ clean)
      THEN "CLEAN" ELSE "DIRTY"

FrameAnswer ==
    IF state_ \in Ended \/ ~clean THEN "NONE"
    ELSE IF sent = reply.size THEN "DONE" ELSE IF silent THEN "SILENT" ELSE "OWED"

\* The frames that end in the UART: not yet read to their last byte.
Unfinished == {e \in reply.ends : Len(in) < e /\ e <= sent}

FramesWaiting ==
    IF state_ \in Ended \/ ~clean THEN 0 ELSE Cardinality(Unfinished)

Units == INSTANCE FrameExchange WITH
             LateReplies <- LineFaults,
             phase <- FramePhase,
             answer <- FrameAnswer,
             waiting <- FramesWaiting,
             line <- FrameLine

\* Byte by byte, in passes that begin and end anywhere, an exchange does what
\* FrameExchange says of whole frames.
ImplementsFrames == Units!FrameSpec

\* Every exchange comes to an end, whatever is on the line.
ExchangeEnds == state_ \in {"COMMS_TX", "COMMS_RX"} ~> state_ \in Ended
=============================================================================
