------------------------------ MODULE GameSend ------------------------------
(***************************************************************************)
(* NetcodeService::Send(GameMessage, connection): the message is cut into  *)
(* fragments (see Fragmentation), each is encrypted into a DTLS record of  *)
(* its own, and DtlsFragmentationContext sends the records in as few       *)
(* datagrams as the mtu of the SERVICE allows, one asynchronous send at a  *)
(* time.  The completion token tells the caller how it ended.              *)
(***************************************************************************)
EXTENDS Fragmentation, Sequences, FiniteSetsExt, SequencesExt

CONSTANTS
  DataSizes,       \* the sizes of messages the game may send
  RecordHeader,    \* DTLS1_RT_HEADER_LENGTH
  DatagramRoom     \* mtu.GetDtlsPayloadSize: what SendFragment may fill

VARIABLES
  phase,           \* "new", "send": SendFragment is to run, "wait": a send is under way, "over"
  dataSize,        \* the size of the message
  dataOffset,      \* records sent or being sent
  wire,            \* history: the datagrams, each a sequence of fragment indices
  token            \* "none", "SUCCESS", or the error it was set to

vars == <<phase, dataSize, dataOffset, wire, token>>

Records == NumFragments(dataSize)

(* The bytes on the wire of records first .. last.                         *)
WireSize(first, last) ==
  LET end == IF last = Records - 1 THEN dataSize ELSE Offset(last + 1)
  IN  end - Offset(first) + (last + 1 - first) * (HeaderSize + Overhead + RecordHeader)

Init ==
  /\ phase = "new"
  /\ dataSize \in DataSizes
  /\ dataOffset = 0
  /\ wire = <<>>
  /\ token = "none"

Reject(error) ==
  /\ phase' = "over"
  /\ token' = error
  /\ UNCHANGED <<dataSize, dataOffset, wire>>

TooManyOffByOne(n) == n > MaxFragments + 1
TooMany(n) == n > MaxFragments

(* Send checks the number of fragments and encrypts them one by one; an    *)
(* SSL error on any of them ends it before anything is sent.               *)
Send ==
  /\ phase = "new"
  /\ \/ Records = 0 /\ Reject("BAD_MESSAGE")
     \/ Records > 0 /\ TooMany(Records) /\ Reject("MESSAGE_TOO_BIG")
     \/ Records > 0 /\ ~TooMany(Records) /\ Reject("BAD_MESSAGE")
     \/ /\ Records > 0 /\ ~TooMany(Records)
        /\ phase' = "send"
        /\ UNCHANGED <<dataSize, dataOffset, wire, token>>

(* How far the next datagram can reach.                                    *)
Fitting(first) == {last \in first..Records - 1 : WireSize(first, last) <= DatagramRoom}

(* SendFragment takes records while they fit.  When not even one does, it  *)
(* returns: "we are empty handed here".                                    *)
SendFragment ==
  /\ phase = "send"
  /\ IF Fitting(dataOffset) = {}
     THEN /\ phase' = "over"
          /\ UNCHANGED <<dataOffset, wire>>
     ELSE LET last == Max(Fitting(dataOffset))
          IN  /\ wire' = Append(wire, [k \in 1..last - dataOffset + 1 |-> dataOffset + k - 1])
              /\ dataOffset' = last + 1
              /\ phase' = "wait"
  /\ UNCHANGED <<dataSize, token>>

(* The handler of the asynchronous send.                                   *)
SentFailed ==
  /\ phase = "wait"
  /\ token' = "SOCK_ERROR"
  /\ phase' = "over"
  /\ UNCHANGED <<dataSize, dataOffset, wire>>

SentTooEarly ==
  /\ phase = "wait"
  /\ token' = "SUCCESS"
  /\ phase' = IF dataOffset < Records THEN "send" ELSE "over"
  /\ UNCHANGED <<dataSize, dataOffset, wire>>

SentStops ==
  /\ phase = "wait"
  /\ IF dataOffset < Records THEN phase' = "over" /\ UNCHANGED token
                             ELSE phase' = "over" /\ token' = "SUCCESS"
  /\ UNCHANGED <<dataSize, dataOffset, wire>>

Sent ==
  /\ phase = "wait"
  /\ IF dataOffset < Records THEN phase' = "send" /\ UNCHANGED token
                             ELSE phase' = "over" /\ token' = "SUCCESS"
  /\ UNCHANGED <<dataSize, dataOffset, wire>>

Next == Send \/ SendFragment \/ SentFailed \/ Sent

Spec == Init /\ [][Next]_vars

(* The calls run to their end and the io_context completes every send.     *)
FairSpec == Spec /\ WF_vars(Next)

-----------------------------------------------------------------------------

(* "Success means all packets were dispatched properly": every fragment,   *)
(* once, in order.                                                         *)
SuccessMeansAllSent ==
  token = "SUCCESS" => FlattenSeq(wire) = [k \in 1..Records |-> k - 1]

(* The one-byte count of the header never wraps: what is sent of a message *)
(* is announced with its true number of fragments.                         *)
CountIsTrue == wire # <<>> => LoadCount(StoreCount(Records)) = Records

(* "Signals the result": the token of every Send is set in the end.        *)
TokenIsSet == <>(token # "none")
=============================================================================
