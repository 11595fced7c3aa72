--------------------------- MODULE ReliableControl ---------------------------
(***************************************************************************)
(* Control messages whose type is odd are acknowledged: the sender keeps a *)
(* PendingTokenNode until the ack comes and repeats the message from a     *)
(* timer, the receiver answers every copy with an ack.                     *)
(*                                                                         *)
(* Several io threads run the handlers: the send's, the timer's, and the   *)
(* receive handler that calls PendingTokenStorage::Ack under its lock.     *)
(* The completion token is taken as one step (see CompletionToken).        *)
(* `step' is the place of a message's ResendContext:                       *)
(*    "idle"       not sent yet                                            *)
(*    "attempt"    Attempt() is about to look at the token                 *)
(*    "open"       Attempt() has seen the token not completed              *)
(*    "sending"    the asynchronous send is under way                      *)
(*    "armed"      the timer is running                                    *)
(*    "cancelled"  the timer's handler will run with an error              *)
(*    "over"       no handler holds the context any more                   *)
(***************************************************************************)
EXTENDS Naturals, FiniteSetsExt, SequencesExt

CONSTANTS
  Messages,       \* the control messages sent with an ack wanted
  Secure,         \* those sent over a DTLS route
  Keys, Key,      \* what an ack names: endpoint, sequence and AckClassification
  MaxAttempts     \* ResendArgs::maxAttempts

VARIABLES
  pending,        \* PendingTokenStorage, head first
  token,          \* the result of each message's token
  step,           \* see above
  attemptIndex,   \* attempts made
  toPeer,         \* messages on the wire
  acks,           \* acks on the wire, by key
  received        \* messages the peer has got

vars == <<pending, token, step, attemptIndex, toPeer, acks, received>>

Steps == {"idle", "attempt", "open", "sending", "armed", "cancelled", "over"}
TokenStates == {"unset", "SUCCESS", "RESEND_TIMEOUT", "SOCK_ERROR", "SSL_ERROR"}

TypeOK ==
  /\ pending \in Seq(Messages)
  /\ token \in [Messages -> TokenStates]
  /\ step \in [Messages -> Steps]
  /\ attemptIndex \in [Messages -> 0..MaxAttempts]
  /\ toPeer \subseteq Messages
  /\ acks \subseteq Keys
  /\ received \subseteq Messages

Init ==
  /\ pending = <<>>
  /\ token = [m \in Messages |-> "unset"]
  /\ step = [m \in Messages |-> "idle"]
  /\ attemptIndex = [m \in Messages |-> 0]
  /\ toPeer = {} /\ acks = {} /\ received = {}

Goto(m, place) == step' = [step EXCEPT ![m] = place]

(* CompletionToken::Set: the first result stays.                           *)
Set(m, result) == token' = [token EXCEPT ![m] = IF @ = "unset" THEN result ELSE @]

IsCompleted(m) == token[m] # "unset"

(* Send adds the node at the head of the list, then attempts.              *)
Send(m) ==
  /\ step[m] = "idle"
  /\ pending' = <<m>> \o pending
  /\ Goto(m, "attempt")
  /\ UNCHANGED <<token, attemptIndex, toPeer, acks, received>>

CheckKeepsTimer(m) ==
  /\ step[m] = "attempt"
  /\ Goto(m, IF IsCompleted(m) THEN "armed" ELSE "open")
  /\ UNCHANGED <<pending, token, attemptIndex, toPeer, acks, received>>

(* Attempt(), first half: is there anything left to do?                    *)
Check(m) ==
  /\ step[m] = "attempt"
  /\ Goto(m, IF IsCompleted(m) THEN "over" ELSE "open")
  /\ UNCHANGED <<pending, token, attemptIndex, toPeer, acks, received>>

Exhausted(m) == attemptIndex[m] = MaxAttempts

(* Attempt(), second half: give up ...                                     *)
GiveUpSilently(m) ==
  /\ step[m] = "open" /\ Exhausted(m)
  /\ Goto(m, "over")
  /\ UNCHANGED <<pending, token, attemptIndex, toPeer, acks, received>>

GiveUp(m) ==
  /\ step[m] = "open" /\ Exhausted(m)
  /\ Set(m, "RESEND_TIMEOUT")
  /\ Goto(m, "over")
  /\ UNCHANGED <<pending, attemptIndex, toPeer, acks, received>>

(* ... fail to encrypt ...                                                 *)
SslFails(m) ==
  /\ step[m] = "open" /\ ~Exhausted(m) /\ m \in Secure
  /\ Set(m, "SSL_ERROR")
  /\ Goto(m, "over")
  /\ UNCHANGED <<pending, attemptIndex, toPeer, acks, received>>

(* ... or send the packet.                                                 *)
Transmit(m) ==
  /\ step[m] = "open" /\ ~Exhausted(m)
  /\ attemptIndex' = [attemptIndex EXCEPT ![m] = @ + 1]
  /\ toPeer' = toPeer \cup {m}
  /\ Goto(m, "sending")
  /\ UNCHANGED <<pending, token, acks, received>>

(* The send's handler: an error ends it, otherwise InitTimer.              *)
SendFailed(m) ==
  /\ step[m] = "sending"
  /\ Set(m, "SOCK_ERROR")
  /\ Goto(m, "over")
  /\ UNCHANGED <<pending, attemptIndex, toPeer, acks, received>>

InitTimer(m) ==
  /\ step[m] = "sending"
  /\ Goto(m, "armed")
  /\ UNCHANGED <<pending, token, attemptIndex, toPeer, acks, received>>

(* The timer fires: its handler calls Attempt().                           *)
Expire(m) ==
  /\ step[m] = "armed"
  /\ Goto(m, "attempt")
  /\ UNCHANGED <<pending, token, attemptIndex, toPeer, acks, received>>

MatchesSequence(k) == DOMAIN pending
Matches(k) == {i \in DOMAIN pending : Key[pending[i]] = k}

AckUnlinksHead(k, places) ==
  IF Matches(k) = {} THEN step' = places /\ UNCHANGED <<pending, token>>
  ELSE LET m == pending[Min(Matches(k))]
       IN  /\ pending' = Tail(pending)
           /\ Set(m, "SUCCESS")
           /\ step' = IF places[m] = "armed" THEN [places EXCEPT ![m] = "cancelled"] ELSE places

(* PendingTokenStorage::Ack: the first node with this key is unlinked, its *)
(* token set and its timer cancelled.  A timer that is not running is not  *)
(* affected.  `places' is what `step' would be without that.               *)
Ack(k, places) ==
  IF Matches(k) = {} THEN step' = places /\ UNCHANGED <<pending, token>>
  ELSE LET first == Min(Matches(k))
           m == pending[first]
       IN  /\ pending' = RemoveAt(pending, first)
           /\ Set(m, "SUCCESS")
           /\ step' = IF places[m] = "armed" THEN [places EXCEPT ![m] = "cancelled"] ELSE places

(* The timer's handler after a cancellation.                               *)
Cancelled(m) ==
  /\ step[m] = "cancelled"
  /\ IF IsCompleted(m) THEN Goto(m, "over") /\ UNCHANGED <<pending, token>>
                       ELSE Ack(Key[m], [step EXCEPT ![m] = "over"])
  /\ UNCHANGED <<attemptIndex, toPeer, acks, received>>

(* An ack arrives; the network may deliver it again.                       *)
ReceiveAck(k) ==
  /\ k \in acks
  /\ Ack(k, step)
  /\ acks' \in {acks, acks \ {k}}
  /\ UNCHANGED <<attemptIndex, toPeer, received>>

(* The peer's ReceiveControl answers every copy with an ack.               *)
Arrive(m) ==
  /\ m \in toPeer
  /\ received' = received \cup {m}
  /\ acks' = acks \cup {Key[m]}
  /\ toPeer' \in {toPeer, toPeer \ {m}}
  /\ UNCHANGED <<pending, token, step, attemptIndex>>

Lose ==
  /\ \/ \E m \in toPeer : toPeer' = toPeer \ {m} /\ UNCHANGED acks
     \/ \E k \in acks : acks' = acks \ {k} /\ UNCHANGED toPeer
  /\ UNCHANGED <<pending, token, step, attemptIndex, received>>

Attempt(m) == Check(m) \/ GiveUp(m) \/ SslFails(m) \/ Transmit(m)

Handler(m) == Attempt(m) \/ SendFailed(m) \/ InitTimer(m) \/ Expire(m) \/ Cancelled(m)

Next == \/ \E m \in Messages : Send(m) \/ Handler(m) \/ Arrive(m)
        \/ \E k \in Keys : ReceiveAck(k)
        \/ Lose

Spec == Init /\ [][Next]_vars

(* The io threads run handlers that are due and timers fire.  The network  *)
(* promises nothing.                                                       *)
FairSpec == Spec /\ \A m \in Messages : WF_vars(Handler(m))

------------------------------------------------------------------------------

(* Success is never reported without an ack of the message's own key, and  *)
(* so, when keys are unique, never for a message the peer did not get.     *)
SuccessIsEarned ==
  \A m \in Messages : token[m] = "SUCCESS" => \E r \in received : Key[r] = Key[m]

(* As long as a message may still be acknowledged its node can be found.   *)
UnfinishedIsPending ==
  \A m \in Messages : step[m] # "idle" /\ token[m] = "unset" => m \in ToSet(pending)

(* A message has one node at most, and an acknowledged one has none: a     *)
(* second ack finds nothing ("2 ACK on the same packet will be silently    *)
(* ignored").                                                              *)
AcknowledgedIsForgotten ==
  /\ \A i, j \in DOMAIN pending : pending[i] = pending[j] => i = j
  /\ \A m \in Messages : token[m] = "SUCCESS" => m \notin ToSet(pending)

(* The handler of a cancelled timer finds the token completed, so it never *)
(* has to acknowledge the message itself.                                  *)
CancelledIsCompleted == \A m \in Messages : step[m] = "cancelled" => IsCompleted(m)

(* Whatever the network does, every message sent gets a result ...         *)
EverySendEnds == \A m \in Messages : (step[m] # "idle") ~> IsCompleted(m)

(* ... and is not repeated for ever after it has one.                      *)
ResendingStops == \A m \in Messages : IsCompleted(m) ~> (step[m] = "over")
==============================================================================
