--------------------------- MODULE CompletionToken ---------------------------
(***************************************************************************)
(* CompletionTokenType: one result and one callback meet in an object that *)
(* several io threads use without a lock.                                  *)
(*                                                                         *)
(* Every access of the atomic word `state' is a step of its own.  The word *)
(* is kept as the set of its bits:                                         *)
(*    1  callback write started       2  result write started              *)
(*    4  callback saved               8  result saved                      *)
(*   16  all done                                                          *)
(* A caller of Then or Set claims the "started" bit, writes its value,     *)
(* sets the "saved" bit, and whoever moves the word from 15 to 31 posts    *)
(* the callback to the io_context.                                         *)
(***************************************************************************)
EXTENDS Naturals, Sequences, FiniteSets

CONSTANTS
  ThenCallers,    \* the threads that call Then, each with a callback of its own
  SetCallers,     \* the threads that call Set, each with a result of its own
  None            \* no callback, no result

Callers == ThenCallers \cup SetCallers

ASSUME CallersAssumption == /\ ThenCallers \cap SetCallers = {}
                            /\ None \notin Callers

VARIABLES
  state,          \* the atomic word, as a set of bits
  pc,             \* where each caller is
  flag,           \* the bit each caller's TrySetFlag is setting
  current,        \* TrySetFlag's currentState
  desired,        \* TrySetFlag's desiredState
  callback,       \* the caller whose callback is saved
  storage,        \* the caller whose result is saved
  posted,         \* handlers posted to the io_context that have not run
  invocations     \* history: the <<callback, result>> pairs that ran

vars == <<state, pc, flag, current, desired, callback, storage, posted, invocations>>

Bits == {1, 2, 4, 8, 16}

Started(t) == IF t \in ThenCallers THEN 1 ELSE 2
SavedCrossed(t) == IF t \in ThenCallers THEN 8 ELSE 4
Saved(t) == IF t \in ThenCallers THEN 4 ELSE 8

ReadyTwice(word) == {1, 2, 4, 8} \subseteq word
Ready(word) == word = {1, 2, 4, 8}

SwapsInverted(word, expected) == word # expected
Swaps(word, expected) == word = expected

TypeOK ==
  /\ state \in SUBSET Bits
  /\ pc \in [Callers -> {"idle", "load", "or", "cas", "write", "invoke", "true", "false"}]
  /\ flag \in [Callers -> Bits]
  /\ current \in [Callers -> SUBSET Bits]
  /\ desired \in [Callers -> SUBSET Bits]
  /\ callback \in ThenCallers \cup {None}
  /\ storage \in SetCallers \cup {None}
  /\ posted \in Nat
  /\ invocations \in Seq((ThenCallers \cup {None}) \X (SetCallers \cup {None}))

Init ==
  /\ state = {}
  /\ pc = [t \in Callers |-> "idle"]
  /\ flag = [t \in Callers |-> Started(t)]
  /\ current = [t \in Callers |-> {}]
  /\ desired = [t \in Callers |-> {}]
  /\ callback = None
  /\ storage = None
  /\ posted = 0
  /\ invocations = <<>>

Goto(t, label) == pc' = [pc EXCEPT ![t] = label]

(* Then(f) or Set(obj) is called.                                          *)
Call(t) ==
  /\ pc[t] = "idle"
  /\ Goto(t, "load")
  /\ UNCHANGED <<state, flag, current, desired, callback, storage, posted, invocations>>

(* TrySetFlag loads the word.  If the bit is there already it returns      *)
(* false: at the first bit the call is rejected, at the second it would    *)
(* skip TryInvoke and still return true.                                   *)
Load(t) ==
  /\ pc[t] = "load"
  /\ current' = [current EXCEPT ![t] = state]
  /\ Goto(t, IF flag[t] \notin state THEN "or"
             ELSE IF flag[t] = Started(t) THEN "false" ELSE "true")
  /\ UNCHANGED <<state, flag, desired, callback, storage, posted, invocations>>

(* desiredState = state | flag reads the atomic word AGAIN.                *)
Or(t) ==
  /\ pc[t] = "or"
  /\ desired' = [desired EXCEPT ![t] = state \cup {flag[t]}]
  /\ Goto(t, "cas")
  /\ UNCHANGED <<state, flag, current, callback, storage, posted, invocations>>

(* The compare-exchange; when it fails TrySetFlag starts over.             *)
Cas(t) ==
  /\ pc[t] = "cas"
  /\ IF Swaps(state, current[t])
     THEN /\ state' = desired[t]
          /\ Goto(t, IF flag[t] = Started(t) THEN "write" ELSE "invoke")
     ELSE /\ Goto(t, "load")
          /\ UNCHANGED state
  /\ UNCHANGED <<flag, current, desired, callback, storage, posted, invocations>>

(* The winner of the first bit moves its callback, or its result, in.      *)
Write(t) ==
  /\ pc[t] = "write"
  /\ IF t \in ThenCallers THEN callback' = t /\ UNCHANGED storage
                          ELSE storage' = t /\ UNCHANGED callback
  /\ flag' = [flag EXCEPT ![t] = Saved(t)]
  /\ Goto(t, "load")
  /\ UNCHANGED <<state, current, desired, posted, invocations>>

(* TryInvoke: from 15 to 31, and post the callback; then the call returns. *)
TryInvoke(t) ==
  /\ pc[t] = "invoke"
  /\ IF Ready(state)
     THEN state' = state \cup {16} /\ posted' = posted + 1
     ELSE UNCHANGED <<state, posted>>
  /\ Goto(t, "true")
  /\ UNCHANGED <<flag, current, desired, callback, storage, invocations>>

(* An io thread runs the posted handler: InvokeCallbackUnsafe.             *)
InvokeCallback ==
  /\ posted > 0
  /\ posted' = posted - 1
  /\ invocations' = Append(invocations, <<callback, storage>>)
  /\ UNCHANGED <<state, pc, flag, current, desired, callback, storage>>

Step(t) == Load(t) \/ Or(t) \/ Cas(t) \/ Write(t) \/ TryInvoke(t)

Next == (\E t \in Callers : Call(t) \/ Step(t)) \/ InvokeCallback

Spec == Init /\ [][Next]_vars

(* A thread inside Then or Set keeps running, and the io_context runs what *)
(* was posted to it.  Nobody has to call Then or Set.                      *)
FairSpec == Spec /\ (\A t \in Callers : WF_vars(Step(t))) /\ WF_vars(InvokeCallback)

------------------------------------------------------------------------------

(* What a call that has claimed the first bit goes through before it       *)
(* returns true.                                                           *)
Won(t) == \/ pc[t] \in {"write", "invoke", "true"}
          \/ pc[t] \in {"load", "or", "cas"} /\ flag[t] = Saved(t)

(* Two threads can race in Then, or in Set: only one of them is accepted,  *)
(* so callback and storage are written by one thread only.                 *)
OneWinner ==
  \A s, t \in Callers : Won(s) /\ Won(t) /\ Started(s) = Started(t) => s = t

(* The callback is posted and run at most once in all, and it runs with    *)
(* the callback and the result whose callers were told "true".             *)
InvokedOnce ==
  /\ Len(invocations) + posted <= 1
  /\ \A i \in 1..Len(invocations) :
       /\ invocations[i][1] \in ThenCallers /\ Won(invocations[i][1])
       /\ invocations[i][2] \in SetCallers /\ Won(invocations[i][2])

(* IsCompleted (result bits 2 and 8) is only seen when the result is       *)
(* there, whatever the interleaving; the destructor relies on it.          *)
CompletedMeansStored ==
  /\ {2, 8} \subseteq state => storage \in SetCallers
  /\ {1, 4} \subseteq state => callback \in ThenCallers
  /\ posted > 0 => callback \in ThenCallers /\ storage \in SetCallers

(* "state only increases with CAS operations": although desiredState is    *)
(* computed from a second read of the word, no bit ever disappears.        *)
StateOnlyIncreases == [][state \subseteq state']_vars

(* The retry loop of TrySetFlag ends: every call returns.                  *)
CallsReturn == \A t \in Callers : (pc[t] # "idle") ~> (pc[t] \in {"true", "false"})

(* The token is a OneShot whose callback and result appear when their      *)
(* "saved" bits do.                                                        *)
Promise == INSTANCE OneShot WITH
  Callbacks <- ThenCallers, Results <- SetCallers,
  callback <- IF 4 \in state THEN callback ELSE None,
  result <- IF 8 \in state THEN storage ELSE None

ImplementsOneShot == Promise!Spec
ImplementsOneShotFairly == Promise!FairSpec
==============================================================================
