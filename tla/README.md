# DLMS/COSEM hub: verification development

TLA+ models, TLC runs and TLAPS proofs for the ESPHome component
`src/components/dlms_cosem`, which reads electricity meters over a serial line.
`D:` below is `dlms_cosem.cpp`, `H:` is `dlms_cosem.h`.

## 1. The system

ESPHome runs one main loop. It calls `setup()` of every component once, then
`loop()` of every component again and again, timers and `update()` in between.
Everything runs on that one thread, so a call is atomic; what interleaves is
calls: passes of one hub with passes of another, with `update()`, and with the
meter.

| Part | State | Operations | Interacts with |
|---|---|---|---|
| Registry of locked UARTs, `AnyObjectLocker` | `locked_objects_` (static) | `try_lock`, `unlock` | shared by all hubs |
| Hub, `DlmsCosemComponent`, pull mode | `state_`, `wait_`, `reading_state_`, `dlms_reading_state_`, `loop_state_`, `buffers_`, `stats_` | `setup`, `update`, one handler per state in `loop` | registry, UART, sensors, GuruxDLMS library |
| Sending | `out_msg`, `out_msg_index`, `out_msg_data_pos` | `send_dlms_messages_` | UART |
| Receiving | `buffers_.in`, `last_rx_time_`, the UART's buffer | `receive_frame_`, `clear_rx_buffers_`, `check_and_grow_input` | UART |
| Hub, push mode | as above, plus the AXDR parser | listening in `IDLE`, `COMMS_RX`, `PUSH_DATA_PROCESS`, `PUBLISH` | UART (kept locked), parser, sensors |
| AXDR stream parser | position in the buffer, captures, `objects_found_`, patterns | `parse`, `match_pattern_`, `register_pattern_dsl` | calls back `set_sensor_value` |
| Sensors | `value_`, `has_value_`, `scale_`, `has_scale_and_unit_` | `set_value`, `set_scale_and_unit`, `publish` | the hub's `sensors_` multimap |
| Conversions | none | `dlms_data_as_float`, `dlms_data_as_string`, date-times | push mode, text sensors |
| UART access, Python code generation, logging | | | not modelled (section 6) |

What is hard here:

- *interleaving*: several hubs share one UART and a registry that does not know
  who locked what; `update()` comes at any time;
- *timeouts and late answers*: nothing is retried, an exchange that is given up
  leaves its answer on the line for the next one;
- *partial failure*: an exchange can fail in four places (maker, timeout,
  decoder, parser), each with a way out of its own;
- *stale state*: request, reply, register and iterator are written in different
  passes and read together in a later one;
- *liveness*: every session has to end and to release the UART, whatever the
  meter does;
- *boundaries*: chunks of a request, sensors with one OBIS code, `uint8_t`
  counters, the millisecond counter, lengths and the end of a telegram.

`PROJECT.json` lists these at the lines where they bite.

What makes each part correct: the registry and the bus exclude hubs from a UART
in use and lose none, but for a request maker that fails (finding 1); a session keeps
the UART to itself, asks for every object once, gives no sensor the reading of another
object as long as its line is clean, publishes what it read and ends; a request reaches
the line complete and in order; a reply is what the meter sent, however it arrives; a
telegram's objects are found behind the headers the runs have (finding 3 shows one
that hides them), those before a cut too, and reach the sensors together; an integer, a
FLOAT32 and a date-time are shown as the bytes say when pushed.

When several sensors of a polled hub share an OBIS code, one request is made for them,
and the first one only is given the value (`DATA_RECV` looks at `request_iter`): the
modules have that, and no property asks for more.

## 2. Modules

| Module | Models | Runs |
|---|---|---|
| `ObjectLocker` | the registry | (part of the others) |
| `DlmsBus` | abstract specification: all hubs of the device, each a phase, and the registry | `bus` |
| `DlmsCosem` | one pull-mode hub in detail, its meter and line, the other hubs as in `DlmsBus` | `hub`, `hub_rough`, `hub_live`, `hub_lock`, `hub_value` |
| `DlmsExchange` | exchanges with the meter, byte by byte | `exchange` |
| `FrameExchange` | abstract specification: an exchange in whole frames | (checked of `DlmsCosem` in `hub`, of `DlmsExchange` in `exchange`) |
| `PushHub` | one push-mode hub, its clock, its line and its sensors | `push` |
| `AxdrParser` | `process_push_data()` and `AxdrStreamParser` over one buffer | `axdr`, `axdr_flag` |
| `PatternDsl` | the registered patterns and what their tokens stand for | (part of `axdr`) |
| `LexOrder` | the lexicographic order the variants go down in | (part of `axdr`) |
| `SensorValues` | from the bytes of an object to what its sensors are set to | `values`, `values_modes` |
| `DlmsBusProofs`, `DlmsCosemProofs`, `DlmsCosemSessionProofs`, `DlmsCosemReadingProofs`, `DlmsExchangeProofs`, `PushHubProofs`, `AxdrParserProofs`, `SensorValuesProofs` | theorems | |
| `MC...` | instances for TLC | |

The detail is layered: `DlmsBus` sees a session as one step in and one step out,
`DlmsCosem` implements it and sees a request and a frame as units, `DlmsExchange`
opens these units. `FrameExchange` is what the two have in common: both implement
it. In push mode `DlmsBus` holds the lock, `PushHub` sees a telegram
as chunks of one object each, `AxdrParser` opens the chunks. `SensorValues` stands
below `set_sensor_value()` of both.

**`DlmsBus`.** `phase[h]` is what the UARTs see of a hub: `IDLE`, `WAITING` for
the lock, in a `SESSION`, `LISTENING` (push mode) or `FAILED`
(`mark_failed()`). Everything between the lock and the unlock is hidden.
`parent_` gives each hub its UART, as in the code. A session ends by `CloseSession`,
which unlocks, by a reboot, or, if `MakerCanFail`, by `LoseSession` (D:865), which goes
to `IDLE` and does not unlock. `lost` is a history of the UARTs left locked in that way,
so that the properties can say what the code does promise: `LockedIsHeld`, that no other
path forgets to unlock and that nobody takes such a UART again; `UartServed`, that a UART
that is not lost is served.

**`DlmsCosem`.** Variables keep the code's names. An action is one pass of
`loop()` in one state (`TryLockBus`, `CommsTx`, `DataEnq`, ...), `update()`, or
the boot timer; `COMMS_RX` is two actions, `RxTimeout` and `RxFrame`. Sensors are
a sequence in the multimap's order and iterators are positions in it, `end`
being one past the last. A request, and a value read, is named by the attribute
it belongs to, so that a model value tells where a reading came from:
`[kind |-> "DATA", obis |-> o]`; `Unread` is what `cosem_init()` leaves.
The library (GuruxDLMS) is modelled from its use: a maker may fail
(`MakerCanFail`), `cosem_init()` refuses certain objects (`UnknownObjects`),
`dlms_getData2()` refuses a frame, wants more, or completes the reply, and the
response parser accepts or refuses it. The meter receives a request with its last
byte. A frame of its reply that is not the last is taken (`PART`) or refused
(`BAD_PART`); the last one is taken (`GOOD`), refused by the decoder (`ERROR`) or by the
parser (`REJECT`); or the meter is silent from any place on. A refused frame ends the
hub's exchange (D:502) and not the meter's reply: what is behind a `BAD_PART` comes
while the hub waits for the reply to its next request. Time is abstracted: a delay ends
at some pass; a reply times out when nothing is there to read or, with `LateReplies`,
at any pass. `clean` remembers whether anything of an earlier reply was in the UART or
owed when an exchange began; of frames left over only that is kept that they answer
another request (`Earlier`), and the library or the parser may take them for the reply.

`DlmsCosem` implements `DlmsBus` under the mapping `SelfPhase`: `NOT_INITIALIZED`
and `IDLE` are themselves, `TRY_LOCK_BUS` and the `WAIT` that leads back to it
are `WAITING`, everything else is `SESSION`. `lost` is the UARTs that are locked with no
hub in a session on them (`LostUarts`).

**`DlmsExchange`.** `state_` is `COMMS_TX`, `COMMS_RX`, or how the exchange before
ended; exchanges follow each other without end, with `clear_rx_buffers_()`
(`OpenSession`) between any two of them or not. A message is its length, a byte
on the wire is `<<message, position>>`. The reply's bytes are named by their
positions; a reply says which positions hold the value of a flag and which end a
frame, so inner bytes that look like flags and the two flags between frames are
there. `ReceiveFrame(k)` is a pass of `loop()` that reads `k` bytes: any number up to
the first that looks like the end of a frame, because a pass also ends after 45 ms
or when the driver has no byte. `GetData` is the library from its use: it finds the
frame by the length in its header, may refuse it, and decodes from
`buffers_.in.position` on. With `LineFaults` a reply may be damaged, stop, or be
slower than `receive_timeout`; what is not sent when the hub gives up may come
later, byte by byte, into the next exchange. Of such a byte only its being a flag
is kept (`Stale`, `StaleFlag`), and the library may make anything of a buffer that
holds one. `clean` remembers whether an exchange began without them.

**`FrameExchange`.** `phase` is `SENDING`, `SENT`, `LISTENING` or how the last exchange
ended, `answer` how much the meter still owes, `waiting` the frames on the line that
have not been taken, `line` whether anything of an earlier exchange is around. On a
clean line frames are taken one by one (`TakeFrame`), the last one ends the exchange
and leaves the line clean (`TakeLast`), and an exchange that has taken the whole reply
is over and cannot time out. A whole reply that waits can be timed out (`Timeout`):
`check_rx_timeout_()` looks at the clock only, and before anything is read (D:430). On a
dirty line only the end is promised (`Muddle`). `DlmsExchange` maps its bytes to that:
a frame is waiting when its last byte has been sent and not been read (`Unfinished`).
`DlmsCosem` maps `owed` and the frames in `uart`, and its line is dirty after a late reply
or the rest of a refused one.

**`PushHub`.** The states `IDLE`, `COMMS_RX`, `PUSH_DATA_PROCESS` and `PUBLISH`, one
action a pass. `millis` wraps around at `MillisModulus`, and `RxTimedOut` is the
difference modulo it. `last_rx_time_` is set by each pass of `IDLE` and of `PUBLISH`
and not by what comes in, so the window is counted from the last pass of `IDLE`.
The meter sends a telegram without a pause, one chunk a unit of time, into a UART
of `MaxUart` chunks that loses what it has no place for. The parser finds
everything in whole telegrams (`Whole`: `AxdrParser`'s `ObjectsFound`) and any part of
anything else (`CutIsPrefix` and less). `PushDataProcess` clears buffers as the code
does, with what came in meanwhile. `update()` does nothing in push mode.

**`SensorValues`.** Bytes have `ByteValues` values and a `uint8_t` length
`LengthValues`, so that every number of one to four bytes can be tried; the widths
of the types are the real ones. A number is `value * 10^scale` with `FloatBits`
significant bits; the bits of a float stand for the float. A text is a sequence:
bytes, fields of a date-time, or the one integer it prints. `Push` is the callback
of the parser, `PollNumber` and `PollText` the two halves of `set_sensor_value()` in
pull mode.

**`AxdrParser`.** `loop_` is where the call of `process_push_data()` is: between
parses (`PARSE`), reading a count (`SEQUENCE`), before an element (`ELEMENT`), in a
pattern (`MATCH`). The recursion `parse_element_`, `parse_sequence_` is `stack`, one
`[count, consumed]` a level, `consumed` modulo 256. One action is one token of a
pattern; `Reject` is the return from `match_pattern_()` with the rollback in
`try_match_patterns_()` and the start of the next pattern. `skip_sequence_`,
`read_u32_` and put-back bytes are used by nothing and left out. `found` collects what the
callback is given, as pointers (positions) into the buffer; `Readings` is what
they point at. `objects_found_` is only compared with zero, so 1 stands for more.

**`PatternDsl`** turns patterns, taken as split at their commas, into the steps
that `AxdrParser` matches, in the registry's order.

The names of the form *...Always*, *...Kept*, *...Ignored* directly before a
definition, marked "Mutant", are plausible slips in that definition. They are
used by nothing; each property is known to fail when one of them takes its
definition's place.

## 3. Runs

| Run | Question | Bounds | Answer |
|---|---|---|---|
| `bus` | do hubs exclude each other, what leaves a UART locked, and is a UART served? | 4 polled and 2 push hubs on 3 UARTs: one shared by polled hubs, one by polled and push hubs, one by push hubs; any maker may fail | yes; only a failing maker does; yes unless one has |
| `hub` | what does a session ask for, read and show, with a meter that damages frames, is silent or late? | 4 sensors (unit and scale, two sensors of one object, a text, a clock), no other hub, 2 passes to send, 2 frames a reply, 2 replies owed, 1 frame in the UART, reboot after 3 failures | every object in order and once, no reading of another object on a clean line, and the hub implements `FrameExchange` |
| `hub_rough` | what holds when replies are late, makers fail and objects are unknown? | 3 sensors, 2 of them refused by `cosem_init()`, one other hub on the UART | a session has the UART to itself and nothing left to publish when it starts, and the hub implements `DlmsBus` |
| `hub_live` | does a session end and unlock, are readings published, does the reboot come? | 1 register, one other hub on the UART, no failing maker, no late replies | yes, and the hub implements the fair `DlmsBus` |
| `hub_lock` | is the UART released when a maker fails? | 1 register | **no** (finding 1) |
| `hub_value` | is a value that is published one that was read? | 1 register | **no** (finding 2) |
| `exchange` | is a request sent whole, is a reply that is read received, in order, within the buffer, and what does a bad one leave to the next? | requests of 4 and 9 bytes, 4 a pass; replies of 4 to 6 bytes in 1 or 2 frames, with inner flags; a UART of 3 bytes; an input buffer of 3 that has to grow; up to 3 late bytes; damage, silence and delay anywhere | yes, and the exchange implements `FrameExchange` |
| `push` | do telegrams reach the sensors, whole and one at a time? | 6 telegrams of 3 chunks, 3 sensors (one not published, two of one object), a window of 5 units, passes 0 to 2 units apart, a clock modulo 11, a UART of 3 chunks, 15 units of silence between telegrams | yes |
| `axdr` | are the objects of a telegram found, or those before a cut, nothing made up, nothing outside read, does each step leave less to do and the loop end? | 12 layouts of 1 to 3 objects, with and without HDLC header and date-time, doubled, cut or damaged at every byte behind the invoke id | yes |
| `axdr_flag` | also when the HDLC header holds the byte 0x0F? | one object | **no** (finding 3) |
| `values` | are sensors set to what the bytes say (pushed integers, FLOAT32 and date-times), and to the start of a polled text? | bytes of 4 values: every number of up to 4 bytes, those of 8 bytes around every power; every combination of specified, extreme and unspecified date-time fields; texts of 0 to 18 bytes, clip 4, lengths below 16 | yes |
| `values_modes` | does a number look the same in both modes? | unsigned numbers of 4 bytes | **no** (finding 4) |

Why the bounds are enough: hubs meet in the registry only, so two on a UART show
every conflict of two, and the theorems hold for any number. Each sensor of
`hub` takes a different path through the data states, and what the hub keeps
from one object to the next (the register, the reply, the error) reaches one
object further only. Two passes and two frames give "first, last and only". In `hub` the
UART holds one frame and the meter owes at most two replies: a late reply, or the
rest of a refused one, is before the hub at the next request, at the one after it and
across the end of a session, with a reply of its own behind it. A meter that finds the
UART full sends later, which for the hub is one more late reply. What needs a second hub is in `hub_rough` and
`hub_live`. Three failures pass the limit of the reboot.

In `exchange` the chunk of 4 bytes replaces 64: a request is exactly one chunk, or two
and a byte. Every reply is split into passes in every way; flags stand first,
last, doubled, and inside next to either end; the replies are longer than the UART's
buffer and than the input buffer. Three late bytes are a whole frame of the
shortest reply with two frames, or the part of a longer one that lacks its start.

In `push` the bounds are times. The window of 5 units is longer than a telegram
(3 units) and than two passes; the clock wraps around at every place of a window;
a UART of 3 chunks holds what comes in while the hub publishes three sensors. The
silence between telegrams is an assumption on the meter, and it is needed; with
the window, `LoopGap`, the clock and the buffer it is in `Timing`, which `MCPushHub`
assumes too, so that TLC evaluates it. With `L` for `LoopGap`, `T` for the window and
`n` sensors, a hub may be busy with one telegram for `T + 2L - 1` units from its first
chunk, then for a pass a sensor and two more, and that must not exceed the time from
telegram to telegram: `MinGap + Size >= (n + 4) * L + T - 1`. The run has the least
`MinGap` that allows, 15. With less the hub gets later from telegram to telegram:
with 13 units `TelegramsPublished` fails at the sixth, with 14 only at the tenth. With
8, too little to end a window, `ShownTogether` fails as well (two telegrams are in one
window). A deployment with a fast meter and a long `receive_timeout` is outside
of `Timing`, and the code does not check that it is not.

`values` needs no more of a byte than that it has a highest bit and a carry, of a
length that it wraps, of a float that integers are wider than it.

In `axdr` the telegrams come from an encoder in `MCAxdrParser` that
knows nothing of patterns: each object is written with or without class, scaler
and unit, tagged or not, in a structure of its own or not, and the reference is
the list of objects it encoded. Their values hold bytes that are also types,
lengths and flags. Every pattern is matched, and is tried in vain at every
position where another one fits. `ObjectsFound` is about whole telegrams;
`CutIsPrefix` also about those cut at any byte, of which the objects that are complete
before the cut are found (the encoder counts them) and no others; the others also about
damaged bytes (set to a structure, to a flag, to the end mark).
`ParseProgress` is what stands behind `ParseTerminates`: each step over a window makes
`Rank` smaller in lexicographic order (`Below`). Its places are, most important first,
the bytes behind `Reached`, the depth of the recursion, the elements left of the
innermost sequence, the calls and returns on the way to the next byte, the patterns
left and the steps left of the pattern.

Bounds named in the modules: `MaxPasses`, `MaxParts`, `MaxOwed` (a meter with
that many unanswered requests misses the next), `MaxUart` (in `DlmsCosem` and
`DlmsExchange` the meter does not send into a full buffer, in `PushHub` it does and
the chunk is lost), `MaxLate`, `LoopGap`, `MinRead`, `MinGap`, `MaxTelegrams`. Counters
need no bound: `failures_` is a `uint8_t`, and `err_invalid_frames` never exceeds one.
Deadlock is checked in every run but `bus`: there the system can really stop, when
failing makers have left every UART locked and all hubs wait for one.

Fairness. `DlmsCosem!Fairness` is weak fairness of the boot timer, `update()`
and `loop()` of every hub: the framework calls them for ever. Nothing is assumed
of the meter. In `DlmsBus` a waiting hub retries each second and may find the
UART taken each time, so `OpenSession` gets weak fairness only and no property
says that one particular hub gets its turn; `DeadMeterReboots` names that
exception. `AxdrParser` assumes weak fairness of `Process`, the steps of one call
that nothing interrupts, and nothing of when telegrams come. `DlmsExchange` assumes
that `loop()` runs (`Pass`) and that every byte on its way comes or does not come
(`Line`, of which `MeterStops` is one choice). `PushHub` assumes that time goes on
(`Tick`), that the boot timeout comes and that `loop()` runs; nothing of the meter.

## 4. Proofs

`DlmsBusProofs`, for any hubs and UARTs:

- `BusTypeCorrect`, `BusMutualExclusion`, `BusHeldIsLocked`, `BusLockedIsHeld`. Mutual
  exclusion is not inductive: the registry knows no owners, so an unlock by the
  wrong hub has to be excluded. The invariant is that a UART is locked exactly when
  one hub on it holds it or it is in `lost`, never both, and uniqueness. Makers may
  fail in all four theorems. The steps fall into
  three kinds, one lemma each: keeping (`KeepsLock`), taking (`TakesLock`), giving
  back (`GivesLock`).

The next three modules are about `DlmsCosem`, for any sensors, configuration, meter,
bounds and number of other hubs, from the named assumptions of that module.

`DlmsCosemProofs`, the hub seen from outside:

- `HubHasUart`: `SafeSpec => []UartIsOurs`. Two facts are strengthened together.
  `ControlInv` says which states the pending parts of the control lead to
  (`wait_next`, `reading_state_.next_state`), so that a pass of `WAIT` or `COMMS_RX`
  cannot leave the session unnoticed; `StepKind` then sorts every action into:
  stays outside, starts waiting, locks, stays inside, unlocks, reboots. On these
  kinds the lock invariant follows as in `DlmsBusProofs`.
- `HubLeavesUart`: if no maker fails, `SafeSpec => []NoLockLeft`. Finding 1 shows
  that the condition is needed.
- `HubImplementsBus`: `SafeSpec => ImplementsBus`, the refinement of `DlmsBus` under `Phase`
  and `LostUarts`, failing makers included. `BusStep` takes each kind of `StepKind` to
  the action of `DlmsBus` with that effect, or to a stutter.
- `HubTypeCorrect`: `SafeSpec => []TypeOK`, in three groups of variables (exchange,
  reading, surroundings) and one lemma for each group and kind of action.

`DlmsCosemSessionProofs`, a session from its start to its end:

- `HubSessionShown`: `SafeSpec => []SessionShown`; inductive with `ControlInv`.
- `HubNothingLeft`: `SafeSpec => []NothingLeftToPublish`, with failing makers and late
  replies too. `WaysInv` says where a value can be: only the first exchange is
  mission critical (`CriticalFirst`), so a hub that holds one is on the way to
  `PUBLISH`, has published what stands before `sensor_iter` there, or is `Lost`: a maker
  has failed, the UART is locked and this hub in no session, so that no session
  ever starts again.

`DlmsCosemReadingProofs`, what a session reads:

- `HubAsksInOrder`: `RegistersKnown => (SafeSpec => []AskedOnceInOrder)`. `RegistersKnown`
  says that `cosem_init()` refuses no register. `OrderInv` bounds what was asked by the
  object at `request_iter`: strictly before the request and up to equality after it;
  `RegisterInv` says that `gx_register` is that object's while its unit is being
  asked for, and `UpperBoundSeparates` that `upper_bound()` leads to a greater code.
- `HubAsksAll`: `UnknownObjects = {} => (SafeSpec => []EveryObjectAsked)`; `CoverInv` adds that
  every position before `request_iter` was asked for.
- `HubOwnReadings`: `RegistersKnown => (SafeSpec => OwnReadingsOnly)`, with any meter, late
  replies and failing makers included: a step that gives a sensor a value or a scale
  behind an exchange that began on a clean line gives it one of its own object. `LineInv`
  describes the line of such an exchange (nothing while the hub sends, then the one
  reply owed or its frames), `ObjectInv` what the library's objects hold in each state
  of a reading.
- `HubImplementsFrames`: `SafeSpec => ImplementsFrames`, the refinement of `FrameExchange` by
  the hub and any meter, late replies and rests of refused ones included. `LineInv`
  again for a clean line, `Muddle` for a dirty one, and `FreshInv`: what tells how
  an exchange ended (`last_error`, `err_invalid_frames`) says nothing of an earlier one
  while one is on. One lemma for each kind of pass: those between two exchanges
  (`BetweenPass`) are `Between`, `Restart` or a stutter, those that make a request
  `Request`.
- `HubSessionGoesOn`: `SafeSpec => SessionProgress`, the variant behind `SessionEnds`, with late
  replies, failing makers and refused objects too. `SessionRank` holds the objects left,
  the states left of the opening, of one object or of the end (a delay or an exchange on
  the way to a state counts as one more), the sensors left to publish, the passes left
  to send, then what the meter owes and what is in the UART. Each step of the hub or of
  the meter goes down in it, and a step of another hub leaves it or is a reboot. Types
  and `ControlInv` give where a session can go; `IterInv` adds that `request_iter` is not at
  its end from a data request to `DATA_NEXT`, so that `upper_bound()` is further on
  (`UpperBoundSeparates`).

`DlmsExchangeProofs`, for any requests of messages of up to 65535 bytes, any replies
that are HDLC frames (`ReplyAssumption`), any buffer sizes and faults of the line:

- `ExchangeTypeCorrect`, `ExchangeInputFits`: `out_msg_data_pos` never wraps; the input
  buffer is never overrun.
- `ExchangeRequestSent`: `OneMessage => (Spec => []RequestSent)`, for requests of one message
  of any length; `SendInv` says how far it is out. The condition is needed, see
  section 5; `MCDlmsExchange` assumes it, so that TLC evaluates it.
- `ExchangeBytesInOrder`, `ExchangeReplyNotLost` (a reply read to its end on a clean line
  does not time out; one that is complete but not yet read may), `ExchangeQuiet` (a reply
  received on a clean line leaves it clean; of the runs `ImplementsFrames` covers it),
  from `LineInv`. `OrderInv`
  is byte order in every state, with how many bytes are old; `DecodedInv` says that
  `position` is the end of a frame and that no whole frame stands undecoded in the
  buffer between passes: the byte that ends a frame is the last one a pass reads.
- `ExchangeImplementsFrames`: `Spec => ImplementsFrames`, the refinement of `FrameExchange` byte by
  byte, late replies and damage included. `FrameTaken` is its heart: a pass on a clean
  line decodes nothing, or exactly the first frame that waits; that it is the last
  one only when nothing else waits, and that the line is empty behind it, is
  `LineInv`'s.
- `ExchangeGoesOn`: `Spec => ExchangeProgress`, the variant behind `ExchangeEnds`. Each step of an
  exchange makes `ExchangeRank` smaller: the phase, the messages left, the bytes left of
  one, the late bytes, the bytes of the answer, whether the meter may still stop, the
  bytes in the UART. It needs types only: a pass that reads takes a byte off the UART
  whatever becomes of it.

`PushHubProofs`, for any sensors, telegrams and line, and any timing where nothing else
is said:

- `PushTypeCorrect`: `Spec => []TypeOK`. A sensor is left with its latest chunk, and
  `LatestExists` says that there is one (well-foundedness of the naturals).
- `PushNoReadingKept`: `Spec => []NoReadingKept`. In `PUBLISH` every sensor before
  `sensor_iter` is empty, and those that do not publish always are.
- `PushShownTogether`: `Timing => (Spec => []ShownTogether)`, from `LineInv`. Its parts say that
  what is pending in `buffers_.in` and the UART is the end of what was sent without a
  gap (`Consecutive`), that it is of one telegram (`OneTelegram`), how late the hub can be
  in each state (`Punctual`: one pass a sensor behind at most), and that a window is
  over one pass after its timeout and either keeps up with the line or has read a
  chunk for each unit of time (`Window`), so that no telegram is cut by its end.
  `Window` is where the clock's wrap enters: `Elapsed`, the difference modulo
  `MillisModulus`, is followed from tick to tick.
- `PushTelegramsPublished`: `Timing => (Spec => []TelegramsPublished)`. `LineInv` gives
  that no chunk is lost to a full UART (`ChunkFits`); `Complete` adds that the telegram
  before what is pending is shown by the sensors or, in `PUBLISH`, about to be.

`AxdrParserProofs`, for any patterns and any bytes of a window, from
`ParserAssumption` (the types of steps and bytes):

- `ParserTypeCorrect`, `ParserStaysInside` (the position stays in the buffer, the pointers
  of an object between the start of its pattern and the position),
  `ParserObjectsDisjoint`. The three are proved together from `SafeInv`. `InsideBuffer` and `ObjectsDisjoint` are not
  inductive: the invariant adds that the captures of a pattern that is still being
  matched point inside the bytes read so far, and that every object reported
  ends at or before `Reached`, the place a rollback would go back to (`saved` while
  a pattern is matched, the position otherwise). `PlaceKept` is the step common to
  all actions that report nothing: `Reached` never goes back. `AcceptKeeps` is that
  step for a token; the lemmas about each action say which bytes it reads.
- `ParserProgress`: `TypesKnown => (SafeSpec => ParseProgress)`. What has to be excluded is a
  pattern that ends with elements consumed and no byte read: at the end of the buffer a
  reader returns 0xFF for ever. `MatchInv` says that a pattern which has consumed elements
  has read bytes. For that a token must not take the end of the buffer for a byte:
  `TypesKnown` says that no `EXPECT_TYPE_EXACT` asks for 0xFF, and the only token of
  `register_pattern_dsl()` with that step asks for UINT16 (18). `MCAxdrParser` assumes it of
  the registry `PatternDsl` builds, so that TLC evaluates it. A sum of consumed
  elements that wraps (`axdr_parser.cpp:226`) makes a sequence longer and not endless,
  because the bytes come before the elements.
- `BelowDescends`: the order of `Below` has no infinite descent, for tuples of any length,
  by the library's theorem on lexicographic products. With it `ParserProgress`,
  `ExchangeGoesOn` and `HubSessionGoesOn` say that no parse, exchange or session takes
  infinitely many steps of its own. What is left to the runs of TLC is that a step is
  always enabled and that fairness takes it.

`SensorValuesProofs`, for any objects, any even number of values of a byte and any
lengths (`ValuesAssumption`):

- `ValuesPushedAsSent`: `Spec => []PushedAsSent`, for integers of every width and value,
  FLOAT32, and date-times with a year. It says nothing of FLOAT64, whose bytes the code
  swaps (finding 4), nor of BCD and of a year 0. `BytesRead` says that the reader of each
  width puts together what the encoding took apart, `CastUndone` that the cast gives a
  sign back, `DateTimeShown` the same for every field of a date-time with its mark for
  not specified, the deviation's 16 bits included. Rounding to a float's precision
  is the same operator in code and property, so nothing of it is proved.
- `ValuesPolledText`: `Spec => []PolledText`. A C string ends at its first NUL (`FirstNul`, by
  well-foundedness), and neither the clip nor a size that wraps reaches behind it.

Only model-checked:

- the liveness properties and the fair refinement (`UartServed`, `SessionEnds`,
  `ReadingsPublished`, `DeadMeterReboots`, `ImplementsBusFairly`, `ExchangeEnds`, `ListensAgain`,
  `ParseTerminates`): fairness and ENABLED are out of the prover's reach;
- that the objects of a telegram are found (`ObjectsFound`, `CutIsPrefix`): they speak of
  the encoder in `MCAxdrParser`, whose telegrams are data of the run; for any telegram
  they would be inductions over its layout. `CutIsPrefix` is not true of every pattern
  either: a custom one that ends in a value may accept what it reads past the end of a
  cut telegram.

`ExchangeProgress` and `SessionProgress` are stated beside their proofs and are in no run: there
`ExchangeEnds` and `SessionEnds` say what follows from them.

## 5. Findings

1. `hub_lock` (D:865): a failing request maker ends the session in `IDLE` without
   unlocking the UART; no hub of that UART, this one included, ever gets it again.
2. `hub_value` (D:505, D:996): an error of `dlms_getData2()` leaves `last_error` OK
   and `reply.complete` set, so the initial value of the register becomes the
   sensor's reading. The same return does not look at `mission_critical`.
3. `axdr_flag` (`axdr_parser.cpp:271`): the first byte 0x0F of a window is taken for
   the notification; within six bytes before the real one, it hides it.
4. `values_modes` (D:1010): a polled number goes through `int`, so an unsigned 32-bit
   register from 2^31 on changes its sign; a pushed one does not. The modes also
   differ in the scaler (D:939 applies it, D:1001 logs it) and for `FLOAT64`.

Conditions found on the way, each a hazard in `PROJECT.json`:

- requests of two messages: `out_msg_data_pos` is not reset between them (D:1114, H:264),
  the second one lacks its start. `RequestSent` fails with `OutMessages = {<<4, 4>>}`. The
  makers produce one message for short passwords and plain reads;
- registers that `cosem_init()` refuses (D:628): `DATA_ENQ` believes that the unit was
  asked for, and `OwnReadingsOnly` and `AskedOnceInOrder` fail. `RegistersKnown` excludes
  it; the configuration only lets codes through that the library can read;
- texts of 255 bytes and more when polled (D:1052): their size is narrowed to a
  `uint8_t`, one of 255 bytes is shown empty. `PolledText` names the limit;
- late replies (D:430) and what is behind a refused frame (D:502): the hub takes them
  for the reply to its next request, and the value of one object can be shown for
  another. `OwnReadingsOnly` is promised for exchanges that began on a clean line. The
  UART is only cleared when a session opens.

## 6. Not modelled, and the plan

Not modelled:

- `update_server_address()` clearing the library's settings in the middle of a
  session (D:131): what the library then makes of a reply is not in this repository;
- `dlms_cosem_uart.h` (wrappers over the serial drivers of two chips), logging, the
  statistics dump and the statistic of invalid frames (D:437);
- Python code generation: host side, its ranges are assumptions here;
- `receive_frame_ascii_()`, compiled out with `IEC_HANDSHAKE`;
- in pull mode the millisecond counter: a delay ends and a reply is late at any
  pass the guards allow, so what is checked holds for all times;
- of conversions: the digits of a printed float, hexadecimal digits, the polled
  clock (`strftime()` of the library's time), the sensor's multiplier;
- structures nested in `S(...)` of a custom pattern, and a pattern list that ends in
  a semicolon (a pattern without steps, D:188): the runs' patterns have neither;
- the `connection` binary sensor, which push mode sets and never takes back, is a
  variable of `PushHub` no property is about.

Left of the plan:

1. The provenance of readings on a line that is not clean: which object a wrong value
   may come from, and for how many exchanges.
2. Pattern lists with an empty pattern and nested structures as runs of their own.
