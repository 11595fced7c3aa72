-------------------------- MODULE MCReliableControl --------------------------
(* Instances of ReliableControl.  Messages a and b have the same key, as a  *)
(* client's CONNECT_REQUEST and its CONNECT_DONE may: localControlSequence  *)
(* is set back to 1 between them.  c has its own and is not encrypted.  The *)
(* run starts where one of b and c has been sent and its send has failed:   *)
(* its node is still listed, and two messages are left to be sent.          *)
EXTENDS ReliableControl

SharedKey == [m \in Messages |-> IF m = "c" THEN 2 ELSE 1]

MCInit ==
  \E failed \in {"b", "c"} :
    /\ pending = <<failed>>
    /\ token = [m \in Messages |-> IF m = failed THEN "SOCK_ERROR" ELSE "unset"]
    /\ step = [m \in Messages |-> IF m = failed THEN "over" ELSE "idle"]
    /\ attemptIndex = [m \in Messages |-> IF m = failed THEN 1 ELSE 0]
    /\ toPeer = {} /\ acks = {} /\ received = {}

MCSpec == MCInit /\ [][Next]_vars /\ \A m \in Messages : WF_vars(Handler(m))
==============================================================================
