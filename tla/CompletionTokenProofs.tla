------------------------ MODULE CompletionTokenProofs ------------------------
(***************************************************************************)
(* Proofs about CompletionToken, for any number of threads calling Then    *)
(* and Set.  The inductive invariant says, beside the types: a winner has  *)
(* its "started" bit in the word (so a second winner cannot get past the   *)
(* compare-exchange), what TrySetFlag read is a subset of the word (so a   *)
(* successful exchange adds one bit and drops none), and a "saved" bit is  *)
(* in the word only once the winner's value is in place.                   *)
(***************************************************************************)
EXTENDS CompletionToken, TLAPS

(* Where a caller's flag can be at each label. *)
FlagInv ==
  \A t \in Callers :
    /\ flag[t] \in {Started(t), Saved(t)}
    /\ pc[t] \in {"idle", "write", "false"} => flag[t] = Started(t)
    /\ pc[t] \in {"invoke", "true"} => flag[t] = Saved(t)

(* The two reads of TrySetFlag against the word as it is now. *)
ReadInv ==
  \A t \in Callers :
    /\ pc[t] \in {"or", "cas"} => current[t] \subseteq state /\ flag[t] \notin current[t]
    /\ pc[t] = "cas" => /\ current[t] \cup {flag[t]} \subseteq desired[t]
                        /\ desired[t] \subseteq state \cup {flag[t]}

(* A winner's first bit is in the word. *)
StartedInv == \A t \in Callers : Won(t) => Started(t) \in state

(* A winner that is past its write finds its value in place. *)
WrittenInv ==
  \A t \in Callers : flag[t] = Saved(t) =>
    /\ t \in ThenCallers => callback = t
    /\ t \in SetCallers => storage = t

(* A "saved" bit stands for a value. *)
SavedInv ==
  /\ 4 \in state => callback \in ThenCallers /\ flag[callback] = 4
  /\ 8 \in state => storage \in SetCallers /\ flag[storage] = 8

(* The handler is posted by the step to 31, and only by it. *)
PostedInv ==
  /\ 16 \in state => {1, 2, 4, 8} \subseteq state
  /\ Len(invocations) + posted = IF 16 \in state THEN 1 ELSE 0
  /\ \A i \in 1..Len(invocations) : invocations[i] = <<callback, storage>>

IInv == /\ TypeOK
        /\ FlagInv
        /\ ReadInv
        /\ OneWinner
        /\ StartedInv
        /\ WrittenInv
        /\ SavedInv
        /\ PostedInv

USE CallersAssumption DEF Callers

(* A new token.                                                            *)
LEMMA InitInv == Init => IInv
  <1> SUFFICES ASSUME Init PROVE IInv
    OBVIOUS
  <1> USE DEF Init, Started, Saved, Bits
  <1>1. TypeOK
    BY DEF TypeOK
  <1>2. FlagInv /\ ReadInv
    BY DEF FlagInv, ReadInv
  <1>3. \A t \in Callers : ~Won(t)
    BY DEF Won
  <1>4. OneWinner /\ StartedInv
    BY <1>3 DEF OneWinner, StartedInv
  <1>5. WrittenInv /\ SavedInv /\ PostedInv
    BY DEF WrittenInv, SavedInv, PostedInv
  <1> QED
    BY <1>1, <1>2, <1>4, <1>5 DEF IInv

(* The two bits of a caller are the right ones, and the callers of one     *)
(* kind share them.                                                        *)
LEMMA BitsOfCallers ==
  \A t \in Callers :
    /\ Started(t) \in {1, 2} /\ Saved(t) \in {4, 8} /\ Started(t) # Saved(t)
    /\ Started(t) \in Bits /\ Saved(t) \in Bits
    /\ t \in ThenCallers => Started(t) = 1 /\ Saved(t) = 4
    /\ t \in SetCallers => Started(t) = 2 /\ Saved(t) = 8
  BY DEF Started, Saved, Bits

(* Type correctness of one step. *)
LEMMA TypeStep == TypeOK /\ [Next]_vars => TypeOK'
  <1> SUFFICES ASSUME TypeOK, [Next]_vars PROVE TypeOK'
    OBVIOUS
  <1> USE BitsOfCallers DEF TypeOK, Goto
  <1>1. ASSUME NEW t \in Callers, Call(t) PROVE TypeOK'
    BY <1>1 DEF Call
  <1>2. ASSUME NEW t \in Callers, Load(t) PROVE TypeOK'
    BY <1>2 DEF Load
  <1>3. ASSUME NEW t \in Callers, Or(t) PROVE TypeOK'
    BY <1>3 DEF Or
  <1>4. ASSUME NEW t \in Callers, Cas(t) PROVE TypeOK'
    BY <1>4 DEF Cas
  <1>5. ASSUME NEW t \in Callers, Write(t) PROVE TypeOK'
    BY <1>5 DEF Write
  <1>6. ASSUME NEW t \in Callers, TryInvoke(t) PROVE TypeOK'
    <2>1. state' \in {state, state \cup {16}} /\ posted' \in {posted, posted + 1}
      BY <1>6 DEF TryInvoke
    <2>2. state' \in SUBSET Bits
      BY <2>1 DEF Bits
    <2>3. posted' \in Nat
      BY <2>1
    <2> QED
      BY <1>6, <2>2, <2>3 DEF TryInvoke
  <1>7. ASSUME InvokeCallback PROVE TypeOK'
    BY <1>7 DEF InvokeCallback
  <1>8. CASE UNCHANGED vars
    BY <1>8 DEF vars
  <1> QED
    BY <1>1, <1>2, <1>3, <1>4, <1>5, <1>6, <1>7, <1>8 DEF Next, Step

(* A successful compare-exchange adds exactly the caller's bit. *)
LEMMA CasAddsOneBit ==
  ASSUME TypeOK, ReadInv, NEW t \in Callers, Cas(t), Swaps(state, current[t])
  PROVE  state' = state \cup {flag[t]} /\ flag[t] \notin state
  BY DEF TypeOK, ReadInv, Cas, Swaps

(* No step clears a bit. *)
LEMMA StateGrows == IInv /\ [Next]_vars => state \subseteq state'
  <1> SUFFICES ASSUME IInv, [Next]_vars PROVE state \subseteq state'
    OBVIOUS
  <1>1. ASSUME NEW t \in Callers, Cas(t) PROVE state \subseteq state'
    <2>1. CASE Swaps(state, current[t])
      BY <1>1, <2>1, CasAddsOneBit DEF IInv
    <2>2. CASE ~Swaps(state, current[t])
      BY <1>1, <2>2 DEF Cas
    <2> QED
      BY <2>1, <2>2
  <1> QED
    BY <1>1 DEF Next, Step, Call, Load, Or, Write, TryInvoke, InvokeCallback, vars

(* Won and the caller's own data are untouched by the steps of others.     *)
LEMMA StepPreserves == IInv /\ [Next]_vars => IInv'
  <1> SUFFICES ASSUME IInv, [Next]_vars PROVE IInv'
    OBVIOUS
  <1>0. TypeOK' /\ state \subseteq state'
    BY TypeStep, StateGrows DEF IInv
  <1> USE BitsOfCallers
  <1>1. ASSUME NEW t \in Callers, Call(t) PROVE IInv'
    <2>1. FlagInv' /\ ReadInv'
      BY <1>0, <1>1 DEF IInv, TypeOK, FlagInv, ReadInv, Call, Goto
    <2>2. \A s \in Callers : Won(s)' <=> Won(s)
      BY <1>1 DEF IInv, TypeOK, FlagInv, Won, Call, Goto
    <2>3. OneWinner' /\ StartedInv'
      BY <1>1, <2>2 DEF IInv, OneWinner, StartedInv, Call
    <2>4. WrittenInv' /\ SavedInv' /\ PostedInv'
      BY <1>1 DEF IInv, WrittenInv, SavedInv, PostedInv, Call
    <2> QED
      BY <1>0, <2>1, <2>3, <2>4 DEF IInv
  <1>2. ASSUME NEW t \in Callers, Load(t) PROVE IInv'
    <2>1. FlagInv' /\ ReadInv'
      BY <1>0, <1>2 DEF IInv, TypeOK, FlagInv, ReadInv, Load, Goto
    <2>2. \A s \in Callers : Won(s)' <=> Won(s)
      BY <1>2 DEF IInv, TypeOK, FlagInv, Won, Load, Goto
    <2>3. OneWinner' /\ StartedInv'
      BY <1>2, <2>2 DEF IInv, OneWinner, StartedInv, Load
    <2>4. WrittenInv' /\ SavedInv' /\ PostedInv'
      BY <1>2 DEF IInv, WrittenInv, SavedInv, PostedInv, Load
    <2> QED
      BY <1>0, <2>1, <2>3, <2>4 DEF IInv
  <1>3. ASSUME NEW t \in Callers, Or(t) PROVE IInv'
    <2>1. FlagInv' /\ ReadInv'
      BY <1>0, <1>3 DEF IInv, TypeOK, FlagInv, ReadInv, Or, Goto
    <2>2. \A s \in Callers : Won(s)' <=> Won(s)
      BY <1>3 DEF IInv, TypeOK, FlagInv, Won, Or, Goto
    <2>3. OneWinner' /\ StartedInv'
      BY <1>3, <2>2 DEF IInv, OneWinner, StartedInv, Or
    <2>4. WrittenInv' /\ SavedInv' /\ PostedInv'
      BY <1>3 DEF IInv, WrittenInv, SavedInv, PostedInv, Or
    <2> QED
      BY <1>0, <2>1, <2>3, <2>4 DEF IInv
  <1>4. ASSUME NEW t \in Callers, Cas(t), Swaps(state, current[t]) PROVE IInv'
    <2>0. state' = state \cup {flag[t]} /\ flag[t] \notin state
      BY <1>4, CasAddsOneBit DEF IInv
    <2>1. FlagInv'
      BY <1>4 DEF IInv, TypeOK, FlagInv, Cas, Goto
    <2>2. ReadInv'
      BY <1>0, <1>4 DEF IInv, TypeOK, ReadInv, Cas, Goto
    <2>3. \A s \in Callers \ {t} : Won(s)' <=> Won(s)
      BY <1>4 DEF IInv, TypeOK, Won, Cas, Goto
    <2>4. \/ Won(t)
          \/ flag[t] = Started(t) /\ \A s \in Callers : Won(s) => Started(s) # Started(t)
      BY <1>4, <2>0 DEF IInv, TypeOK, FlagInv, StartedInv, Won, Cas
    <2>5. OneWinner'
      BY <2>3, <2>4 DEF IInv, OneWinner
    <2>6. StartedInv'
      BY <1>0, <2>0, <2>3, <2>4 DEF IInv, StartedInv
    <2>7. WrittenInv'
      BY <1>4 DEF IInv, WrittenInv, Cas
    <2>8. SavedInv'
      <3>1. flag[t] = 4 => callback = t /\ t \in ThenCallers
        BY DEF IInv, FlagInv, WrittenInv
      <3>2. flag[t] = 8 => storage = t /\ t \in SetCallers
        BY DEF IInv, FlagInv, WrittenInv
      <3> QED
        BY <1>4, <2>0, <3>1, <3>2 DEF IInv, SavedInv, Cas
    <2>9. PostedInv'
      <3>1. flag[t] # 16
        BY DEF IInv, FlagInv
      <3> QED
        BY <1>4, <2>0, <3>1 DEF IInv, PostedInv, Cas
    <2> QED
      BY <1>0, <2>1, <2>2, <2>5, <2>6, <2>7, <2>8, <2>9 DEF IInv
  <1>5. ASSUME NEW t \in Callers, Cas(t), ~Swaps(state, current[t]) PROVE IInv'
    <2>1. FlagInv' /\ ReadInv'
      BY <1>0, <1>5 DEF IInv, TypeOK, FlagInv, ReadInv, Cas, Goto
    <2>2. \A s \in Callers : Won(s)' <=> Won(s)
      BY <1>5 DEF IInv, TypeOK, FlagInv, Won, Cas, Goto
    <2>3. OneWinner' /\ StartedInv'
      BY <1>5, <2>2 DEF IInv, OneWinner, StartedInv, Cas
    <2>4. WrittenInv' /\ SavedInv' /\ PostedInv'
      BY <1>5 DEF IInv, WrittenInv, SavedInv, PostedInv, Cas
    <2> QED
      BY <1>0, <2>1, <2>3, <2>4 DEF IInv
  <1>6. ASSUME NEW t \in Callers, Write(t) PROVE IInv'
    <2>0. pc[t] = "write" /\ flag[t] = Started(t) /\ Won(t)
      BY <1>6 DEF IInv, FlagInv, Write, Won
    <2>1. FlagInv' /\ ReadInv'
      BY <1>0, <1>6 DEF IInv, TypeOK, FlagInv, ReadInv, Write, Goto
    <2>2. \A s \in Callers : Won(s)' <=> Won(s)
      BY <1>6, <2>0 DEF IInv, TypeOK, FlagInv, Won, Write, Goto
    <2>3. OneWinner' /\ StartedInv'
      BY <1>6, <2>2 DEF IInv, OneWinner, StartedInv, Write
    <2>4. \A s \in Callers : flag[s] = Saved(s) => Won(s) /\ s # t
      BY <2>0 DEF IInv, TypeOK, FlagInv, Won
    <2>5. \A s \in Callers : flag[s] = Saved(s) => Started(s) # Started(t)
      BY <2>0, <2>4 DEF IInv, OneWinner
    <2>6. WrittenInv'
      BY <1>6, <2>5 DEF IInv, TypeOK, WrittenInv, Write
    <2>7. t \in ThenCallers => 4 \notin state
      BY <2>5 DEF IInv, SavedInv
    <2>8. t \in SetCallers => 8 \notin state
      BY <2>5 DEF IInv, SavedInv
    <2>9. SavedInv'
      BY <1>6, <2>0, <2>7, <2>8 DEF IInv, TypeOK, SavedInv, Write
    <2>10. invocations = <<>>
      BY <2>7, <2>8 DEF IInv, TypeOK, PostedInv
    <2>11. PostedInv'
      BY <1>6, <2>10 DEF IInv, PostedInv, Write
    <2> QED
      BY <1>0, <2>1, <2>3, <2>6, <2>9, <2>11 DEF IInv
  <1>7. ASSUME NEW t \in Callers, TryInvoke(t) PROVE IInv'
    <2>1. FlagInv' /\ ReadInv'
      BY <1>0, <1>7 DEF IInv, TypeOK, FlagInv, ReadInv, TryInvoke, Goto
    <2>2. \A s \in Callers : Won(s)' <=> Won(s)
      BY <1>7 DEF IInv, TypeOK, FlagInv, Won, TryInvoke, Goto
    <2>3. OneWinner' /\ StartedInv'
      BY <1>0, <1>7, <2>2 DEF IInv, OneWinner, StartedInv, TryInvoke
    <2>4. WrittenInv' /\ SavedInv'
      BY <1>7 DEF IInv, WrittenInv, SavedInv, TryInvoke, Ready
    <2>5. PostedInv'
      BY <1>7 DEF IInv, TypeOK, PostedInv, TryInvoke, Ready
    <2> QED
      BY <1>0, <2>1, <2>3, <2>4, <2>5 DEF IInv
  <1>8. ASSUME InvokeCallback PROVE IInv'
    <2>1. FlagInv' /\ ReadInv' /\ OneWinner' /\ StartedInv' /\ WrittenInv' /\ SavedInv'
      BY <1>8 DEF IInv, FlagInv, ReadInv, OneWinner, StartedInv, WrittenInv, SavedInv,
                  Won, InvokeCallback
    <2>2. PostedInv'
      BY <1>8 DEF IInv, TypeOK, PostedInv, InvokeCallback
    <2> QED
      BY <1>0, <2>1, <2>2 DEF IInv
  <1>9. CASE UNCHANGED vars
    BY <1>9 DEF IInv, TypeOK, FlagInv, ReadInv, OneWinner, StartedInv, WrittenInv, SavedInv,
                PostedInv, Won, vars
  <1> QED
    BY <1>1, <1>2, <1>3, <1>4, <1>5, <1>6, <1>7, <1>8, <1>9 DEF Next, Step

(* The inductive invariant holds in every reachable state. *)
THEOREM Invariance == Spec => []IInv
  BY InitInv, StepPreserves, PTL DEF Spec

(* Every variable of the token keeps its type. *)
THEOREM TypeCorrect == Spec => []TypeOK
  BY Invariance, PTL DEF IInv

(* However many threads race in Then, or in Set, one of them is accepted.  *)
THEOREM OnlyOneWinner == Spec => []OneWinner
  BY Invariance, PTL DEF IInv

(* The callback is posted and run at most once, and it gets the callback   *)
(* and the result of callers that were accepted.                           *)
THEOREM AtMostOnce == Spec => []InvokedOnce
  <1>1. ASSUME IInv PROVE InvokedOnce
    <2>1. Len(invocations) + posted <= 1
      BY <1>1 DEF IInv, TypeOK, PostedInv
    <2>2. ASSUME NEW i \in 1..Len(invocations)
          PROVE /\ invocations[i][1] \in ThenCallers /\ Won(invocations[i][1])
                /\ invocations[i][2] \in SetCallers /\ Won(invocations[i][2])
      <3>1. 16 \in state /\ invocations[i] = <<callback, storage>>
        BY <1>1, <2>2 DEF IInv, TypeOK, PostedInv
      <3>2. /\ callback \in ThenCallers /\ flag[callback] = 4
            /\ storage \in SetCallers /\ flag[storage] = 8
        BY <1>1, <3>1 DEF IInv, PostedInv, SavedInv
      <3>3. Won(callback) /\ Won(storage)
        BY <1>1, <3>2, BitsOfCallers DEF IInv, TypeOK, FlagInv, Won
      <3> QED
        BY <3>1, <3>2, <3>3
    <2> QED
      BY <2>1, <2>2 DEF InvokedOnce
  <1> QED
    BY <1>1, Invariance, PTL

(* Whoever sees the completed bits finds the result in place.              *)
THEOREM StoredWhenCompleted == Spec => []CompletedMeansStored
  <1>1. ASSUME IInv PROVE CompletedMeansStored
    BY <1>1 DEF IInv, TypeOK, SavedInv, PostedInv, CompletedMeansStored
  <1> QED
    BY <1>1, Invariance, PTL

(* "state only increases with CAS operations". *)
THEOREM OnlyIncreases == Spec => StateOnlyIncreases
  BY Invariance, StateGrows, PTL DEF Spec, StateOnlyIncreases

(* The token implements OneShot: a step of the token is the acceptance of  *)
(* a callback (bit 4), the acceptance of a result (bit 8), the invocation, *)
(* or changes nothing a user can see.                                      *)
THEOREM Implementation == Spec => ImplementsOneShot
  <1>1. Init => Promise!Init
    BY DEF Init, Promise!Init
  <1>2. ASSUME IInv, [Next]_vars PROVE [Promise!Next]_Promise!vars
    <2> USE BitsOfCallers
    <2>1. ASSUME NEW t \in Callers, Call(t) \/ Load(t) \/ Or(t)
          PROVE UNCHANGED Promise!vars
      BY <2>1 DEF Call, Load, Or, Promise!vars
    <2>2. ASSUME NEW t \in Callers, Cas(t), ~Swaps(state, current[t])
          PROVE UNCHANGED Promise!vars
      BY <2>2 DEF Cas, Promise!vars
    <2>3. ASSUME NEW t \in Callers, Cas(t), Swaps(state, current[t])
          PROVE [Promise!Next]_Promise!vars
      <3>1. state' = state \cup {flag[t]} /\ flag[t] \notin state
        BY <1>2, <2>3, CasAddsOneBit DEF IInv
      <3>2. UNCHANGED <<callback, storage, invocations>>
        BY <2>3 DEF Cas
      <3>3. CASE flag[t] = Started(t)
        BY <3>1, <3>2, <3>3 DEF Promise!vars
      <3>4. CASE flag[t] = Saved(t) /\ t \in ThenCallers
        <4>1. callback = t
          BY <1>2, <3>4 DEF IInv, WrittenInv
        <4>2. Promise!Then(t)
          BY <3>1, <3>2, <3>4, <4>1 DEF Promise!Then
        <4> QED
          BY <3>4, <4>2 DEF Promise!Next
      <3>5. CASE flag[t] = Saved(t) /\ t \in SetCallers
        <4>1. storage = t
          BY <1>2, <3>5 DEF IInv, WrittenInv
        <4>2. Promise!Set(t)
          BY <3>1, <3>2, <3>5, <4>1 DEF Promise!Set
        <4> QED
          BY <3>5, <4>2 DEF Promise!Next
      <3> QED
        BY <1>2, <3>3, <3>4, <3>5 DEF IInv, FlagInv
    <2>4. ASSUME NEW t \in Callers, Write(t) PROVE UNCHANGED Promise!vars
      <3>1. pc[t] = "write" /\ flag[t] = Started(t) /\ Won(t)
        BY <1>2, <2>4 DEF IInv, FlagInv, Write, Won
      <3>2. \A s \in Callers : flag[s] = Saved(s) => Won(s) /\ s # t
        BY <1>2, <3>1 DEF IInv, TypeOK, FlagInv, Won
      <3>3. \A s \in Callers : flag[s] = Saved(s) => Started(s) # Started(t)
        BY <1>2, <3>1, <3>2 DEF IInv, OneWinner
      <3>4. (t \in ThenCallers => 4 \notin state) /\ (t \in SetCallers => 8 \notin state)
        BY <1>2, <3>3 DEF IInv, SavedInv
      <3> QED
        BY <2>4, <3>4 DEF Write, Promise!vars
    <2>5. ASSUME NEW t \in Callers, TryInvoke(t) PROVE UNCHANGED Promise!vars
      BY <2>5 DEF TryInvoke, Promise!vars
    <2>6. ASSUME InvokeCallback PROVE Promise!Invoke
      <3>1. 16 \in state /\ {4, 8} \subseteq state /\ Len(invocations) = 0
        BY <1>2, <2>6 DEF IInv, TypeOK, PostedInv, InvokeCallback
      <3>2. invocations = <<>> /\ callback # None /\ storage # None
        BY <1>2, <3>1 DEF IInv, TypeOK, SavedInv
      <3>3. invocations' = << <<callback, storage>> >>
        BY <2>6, <3>2 DEF InvokeCallback
      <3> QED
        BY <2>6, <3>1, <3>2, <3>3 DEF InvokeCallback, Promise!Invoke
    <2>7. CASE UNCHANGED vars
      BY <2>7 DEF vars, Promise!vars
    <2> QED
      BY <1>2, <2>1, <2>2, <2>3, <2>4, <2>5, <2>6, <2>7 DEF Next, Step, Promise!Next
  <1> QED
    BY <1>1, <1>2, Invariance, PTL DEF Spec, ImplementsOneShot, Promise!Spec
==============================================================================
