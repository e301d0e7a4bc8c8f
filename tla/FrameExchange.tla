--------------------------- MODULE FrameExchange ---------------------------
(***************************************************************************)
(* What an exchange with the meter promises, in units: a request reaches   *)
(* the meter as a whole, and the HDLC frames of the reply are taken from   *)
(* the line whole, in their order and each once, the last one to end the   *)
(* exchange.  DlmsCosem relies on that and DlmsExchange does it byte by    *)
(* byte; both implement this module.  Of an exchange that begins with      *)
(* something of an earlier one on the line only its end is promised.       *)
(***************************************************************************)
EXTENDS Naturals

CONSTANT LateReplies    \* may a frame still come when the hub has given up?

VARIABLES phase,        \* "OFF", "SENDING" a request, which is "SENT",
                        \* "LISTENING", or how the last exchange has ended
          answer,       \* is more of the reply "OWED", has the meter fallen
                        \* "SILENT", or is its last frame "DONE"?
          waiting,      \* frames on the line that have not been taken
          line          \* "CLEAN": nothing on it but the exchange's own
frameVars == <<phase, answer, waiting, line>>

Lines == {"CLEAN", "DIRTY"}

Ended == {"READY", "RECEIVED", "REFUSED", "TIMED_OUT"}

Quiet == answer = "NONE" /\ waiting = 0

FrameInit == phase \in {"OFF", "READY"} /\ Quiet /\ line = "CLEAN"

----------------------------------------------------------------------------
\* send_dlms_req_and_next().
Request ==
    /\ phase \in Ended
    /\ phase' \in {"SENDING", "SENT"}
    /\ answer' = IF line = "CLEAN" THEN "OWED" ELSE "NONE"
    /\ waiting' = 0
    /\ UNCHANGED line

\* The last pass of send_dlms_messages_(), and the pass after it.
Sent == phase = "SENDING" /\ phase' = "SENT" /\ UNCHANGED <<answer, waiting, line>>

Listen == phase = "SENT" /\ phase' = "LISTENING" /\ UNCHANGED <<answer, waiting, line>>

\* The meter has the whole request: a frame of its reply is complete.
FrameArrives ==
    /\ phase \in {"SENT", "LISTENING"}
    /\ answer = "OWED"
    /\ answer' \in {"OWED", "DONE"}
    /\ waiting' = waiting + 1
    /\ UNCHANGED <<phase, line>>

Silence ==
    /\ phase \in {"SENT", "LISTENING"}
    /\ answer = "OWED"
    /\ answer' = "SILENT"
    /\ UNCHANGED <<phase, waiting, line>>

----------------------------------------------------------------------------
\* The frame on the line is the last one of the reply.
AtLast == answer = "DONE" /\ waiting = 1

\* dlms_getData2() takes a frame and waits for more.
TakeFrame ==
    /\ phase = "LISTENING"
    /\ waiting > 0
    /\ ~AtLast
    /\ waiting' = waiting - 1
    /\ UNCHANGED <<phase, answer, line>>

End(result) == phase = "LISTENING" /\ phase' = result /\ Quiet'

\* reply.complete: nothing is left for the next exchange.
TakeLast == End("RECEIVED") /\ AtLast /\ line' = "CLEAN"

\* dlms_getData2() refuses a frame.
RefuseFrame == End("REFUSED") /\ waiting > 0 /\ line' \in Lines

\* check_rx_timeout_(): never with the whole reply taken, which has ended the
\* exchange, but the time may be up with frames of it on the line.
Timeout ==
    /\ End("TIMED_OUT")
    /\ answer = "DONE" => waiting > 0
    /\ waiting = 0 \/ LateReplies
    /\ line' \in Lines

\* What becomes of an exchange on a dirty line.
Muddle == line = "DIRTY" /\ (\E result \in Ended : End(result)) /\ line' \in Lines

\* Nothing is exchanged: a session opens and clears the line, or gives up.
Between ==
    /\ phase \in Ended \cup {"OFF"}
    /\ phase' \in Ended
    /\ line' \in {line, "CLEAN"}
    /\ UNCHANGED <<answer, waiting>>

\* The device is restarted.
Restart == phase' = "OFF" /\ Quiet' /\ line' = "CLEAN"

FrameNext == \/ Request \/ Sent \/ Listen \/ FrameArrives \/ Silence \/ TakeFrame
             \/ TakeLast \/ RefuseFrame \/ Timeout \/ Muddle \/ Between \/ Restart

FrameSpec == FrameInit /\ [][FrameNext]_frameVars
=============================================================================
