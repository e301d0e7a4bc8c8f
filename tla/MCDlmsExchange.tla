--------------------------- MODULE MCDlmsExchange ---------------------------
(***************************************************************************)
(* TLC instance of DlmsExchange: requests of one message of up to two      *)
(* passes and a byte, replies of one frame and of two, with and without a  *)
(* byte of the value of a flag inside.                                     *)
(***************************************************************************)
EXTENDS DlmsExchange

Reply(lengths, inner) ==
    LET first == lengths[1]
        size == first + lengths[2]
        ends == {first, size}
    IN  [size |-> size, ends |-> ends, flags |-> {1, size} \cup ends \cup inner
            \cup (IF first < size THEN {first + 1} ELSE {})]

MCOutMessages == {<<n>> : n \in {4, 9}}
MCReplies == {Reply(<<4, 0>>, {}), Reply(<<5, 0>>, {3, 4}), Reply(<<3, 3>>, {2, 5})}

ASSUME MCOneMessage == OneMessage
=============================================================================
