--------------------------- MODULE MCGameMessages ---------------------------
(***************************************************************************)
(* Both ends of a game message, checked in one run: `part' is the end that *)
(* moves.                                                                  *)
(*                                                                         *)
(* Receiving: message 1 takes two fragments, message 2 three, message 3    *)
(* one; only message 2 ends with a full fragment.  The network delivers    *)
(* the fragments of message 1 up to twice.                                 *)
(* Sending: every size up to beyond the six fragments of five bytes that   *)
(* may be sent.                                                            *)
(***************************************************************************)
EXTENDS FragmentStorage

CONSTANTS DataSizes, SendPayload, SendFragments, RecordHeader, DatagramRoom

(* A record of the sender holds at least a byte of the message.            *)
ASSUME SendingAssumption ==
  /\ DataSizes \subseteq Nat
  /\ SendPayload \in Nat /\ SendPayload > Overhead + HeaderSize
  /\ SendFragments \in Nat \ {0}

VARIABLES part, phase, dataSize, dataOffset, wire, token

Sending == INSTANCE GameSend WITH DtlsPayload <- SendPayload, MaxFragments <- SendFragments

sendVars == <<phase, dataSize, dataOffset, wire, token>>

Sizes == [m \in Messages |-> IF m = 1 THEN 5 ELSE IF m = 2 THEN 9 ELSE 2]
CopiesOf == [m \in Messages |-> IF m = 1 THEN 2 ELSE 1]
SentSizes == 0 .. 36

MCInit ==
  /\ part \in {"send", "receive"}
  /\ Init /\ Sending!Init
  /\ part = "receive" => dataSize = 0

SendNext == part = "send" /\ Sending!Next /\ UNCHANGED <<part, vars>>

MCNext == SendNext \/ (part = "receive" /\ Next /\ UNCHANGED <<part, sendVars>>)

MCSpec == MCInit /\ [][MCNext]_<<part, vars, sendVars>> /\ WF_<<part, vars, sendVars>>(SendNext)

(* A message whose token says SUCCESS went out whole, once and in order.   *)
SuccessMeansAllSent == Sending!SuccessMeansAllSent
(* The count of fragments in a header is never one that wrapped.           *)
CountIsTrue == Sending!CountIsTrue
(* Every Send sets its token.                                              *)
TokenIsSet == part = "send" => Sending!TokenIsSet
=============================================================================
