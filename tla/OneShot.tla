------------------------------- MODULE OneShot -------------------------------
(***************************************************************************)
(* What a completion token promises its users: it takes the first callback *)
(* and the first result it is offered, and hands that result to that       *)
(* callback once.  CompletionToken implements it with one atomic word;     *)
(* ReliableControl uses it as a single step.                               *)
(***************************************************************************)
EXTENDS Sequences

CONSTANTS Callbacks, Results, None

VARIABLES
  callback,      \* the accepted callback, or None
  result,        \* the accepted result, or None
  invocations    \* the <<callback, result>> pairs that ran

vars == <<callback, result, invocations>>

Init == callback = None /\ result = None /\ invocations = <<>>

Then(c) ==
  /\ callback = None
  /\ callback' = c
  /\ UNCHANGED <<result, invocations>>

Set(r) ==
  /\ result = None
  /\ result' = r
  /\ UNCHANGED <<callback, invocations>>

Invoke ==
  /\ None \notin {callback, result}
  /\ invocations = <<>>
  /\ invocations' = << <<callback, result>> >>
  /\ UNCHANGED <<callback, result>>

Next == (\E c \in Callbacks : Then(c)) \/ (\E r \in Results : Set(r)) \/ Invoke

Spec == Init /\ [][Next]_vars

FairSpec == Spec /\ WF_vars(Invoke)
==============================================================================
