---------------------------- MODULE ReliableStream ----------------------------
(***************************************************************************)
(* What the redundancy of the game updates is for: a stream of numbered    *)
(* items that one side issues in rising order and the other executes in    *)
(* that order, each exactly once, none skipped, over a network that may    *)
(* lose or reorder anything.                                               *)
(***************************************************************************)
EXTENDS Naturals

CONSTANT Ids             \* the numbers an item can have

VARIABLES issued,        \* the ids issued so far
          executed       \* how often each id was executed

Init == issued = {} /\ executed = [i \in Ids |-> 0]

\* New items get larger numbers than every item before them.
Issue(new) ==
  /\ \A i \in new, j \in issued : j < i
  /\ issued' = issued \cup new

\* The receiver catches up with everything issued up to n.
CatchUpTo(n) ==
  executed' = [i \in Ids |-> IF i \in issued /\ i <= n /\ executed[i] = 0
                             THEN 1 ELSE executed[i]]

Next ==
  \/ \E new \in SUBSET Ids : Issue(new) /\ UNCHANGED executed
  \/ \E n \in Ids : CatchUpTo(n) /\ UNCHANGED issued

Spec == Init /\ [][Next]_<<issued, executed>>

=============================================================================
