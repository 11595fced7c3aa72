----------------------------- MODULE MCConnection -----------------------------
(***************************************************************************)
(* The two sides of a connection, and the control messages either of them  *)
(* wants acknowledged, checked in one run: `part' is the one that moves.   *)
(*                                                                         *)
(* Server: two routes, three peers that compete for them.                  *)
(* Client: sizes of links and paths that are in the table of COMMON_MTUS,  *)
(* between two of its entries and below all of them.                       *)
(* Control messages: see MCReliableControl, which checks that they end.    *)
(***************************************************************************)
EXTENDS DtlsRoutes

CONSTANTS LinkMtus, PathMtus, COMMON_MTUS, Flights, Updates,   \* ClientConnect
          Messages, Secure, Keys, Key, MaxAttempts             \* ReliableControl

VARIABLES part, stage, mainToken, outcome, state, pmtu, link, handshake, request, samples, done,
          server, path, unlucky,
          pending, token, step, attemptIndex, toPeer, acks, received

Client  == INSTANCE ClientConnect
Control == INSTANCE MCReliableControl

\* Sizes are size_t, and GameClient::Start asks for 8 samples.
ASSUME ConnectAssumption == Client!SizesAreNatural

\* Messages have keys, and maxAttempts is 1 at least.
ASSUME ControlAssumption ==
  Secure \subseteq Messages /\ Key \in [Messages -> Keys] /\ MaxAttempts \in Nat \ {0}

SharedKey == [m \in Messages |-> IF m = "c" THEN 2 ELSE 1]

clientVars == <<stage, mainToken, outcome, state, pmtu, link, handshake, request, samples, done,
                server, path, unlucky>>
controlVars == <<pending, token, step, attemptIndex, toPeer, acks, received>>
allVars == <<part, vars, clientVars, controlVars>>

MCInit ==
  /\ part \in {"server", "client", "control"}
  /\ Init /\ Client!Init /\ Control!MCInit
  /\ part # "client" => \A l \in LinkMtus, p \in PathMtus : link <= l /\ path <= p
  /\ part # "control" => pending = <<"c">>

Sweep == part = "server" /\ (StartSweep \/ SweepRoute) /\ UNCHANGED <<part, clientVars, controlVars>>
Game == part = "server" /\ GameStep /\ UNCHANGED <<part, clientVars, controlVars>>

MCNext == \/ part = "server" /\ Next /\ UNCHANGED <<part, clientVars, controlVars>>
          \/ part = "client" /\ Client!Next /\ UNCHANGED <<part, vars, controlVars>>
          \/ part = "control" /\ Control!Next /\ UNCHANGED <<part, vars, clientVars>>

MCSpec == /\ MCInit /\ [][MCNext]_allVars
          /\ WF_allVars(Sweep) /\ WF_allVars(Game)
          /\ Client!Fairness

(* A client that is established has gone through the whole exchange.       *)
EstablishedIsEarned == Client!EstablishedIsEarned
(* Path mtu discovery ends with the largest candidate the path carries,    *)
(* lost probes apart.                                                      *)
PmtuIsBest == Client!PmtuIsBest
(* Every attempt ends: established, or with an error that is logged.       *)
EveryAttemptEnds == Client!EveryAttemptEnds
(* A control message succeeds only by an ack of its key.                   *)
SuccessIsEarned == Control!SuccessIsEarned
(* What may still be acknowledged can be found.                            *)
UnfinishedIsPending == Control!UnfinishedIsPending
=============================================================================
