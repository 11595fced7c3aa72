----------------------------- MODULE ClockFilter ------------------------------
(***************************************************************************)
(* NtpClockFilter: the client's estimate of how far the server's clock is  *)
(* ahead of its own, from the four timestamps of every time response.      *)
(*                                                                         *)
(* A request leaves at t0, takes `there' to the server, which answers      *)
(* after `held'; the answer takes `back'.  Only the client's two clock     *)
(* readings and the server's two are known to the filter.  Times are whole *)
(* units; offsets are counted in halves of one, so that nothing rounds.    *)
(*                                                                         *)
(* Left out: the test "is it even an upgrade".  It compares the distance   *)
(* of two offsets of the buffer with three times a spread that is at least *)
(* that distance, so it never rejects; and the estimate has been stored    *)
(* before either early return of ClockFilter is taken.                     *)
(***************************************************************************)
EXTENDS Integers, Sequences, FiniteSetsExt

CONSTANTS
  FilterSize,  \* tuples in the buffer: 8
  Ahead,       \* how far the server's clock really is ahead
  Delays,      \* bound: what a message may take
  MaxSamples   \* bound: responses filtered: 8

MaxDispersion == 16000        \* delay of the tuples of a new filter

VARIABLES
  buffer,          \* newest tuple first
  lastValidPacket,
  offsetApprox, delayApprox,
  samples          \* responses so far; the clock of the client

clockVars == <<buffer, lastValidPacket, offsetApprox, delayApprox, samples>>

Init ==
  /\ buffer = [i \in 1..FilterSize |-> [offset |-> 0, delay |-> MaxDispersion, time |-> 0]]
  /\ lastValidPacket = 0
  /\ offsetApprox = 0 /\ delayApprox = 0      \* not initialised, not read before Update
  /\ samples = 0

(* Update's tuple of the readings t0 and t3 of the client, t1 and t2 of    *)
(* the server; PRECISION is less than a unit.                              *)
SampleOneWay(t0, t1, t2, t3) ==                                 \* mutant
  [offset |-> 2 * (t1 - t0), delay |-> (t3 - t0) - (t2 - t1), time |-> t3]
Sample(t0, t1, t2, t3) ==
  [offset |-> (t1 - t0) + (t2 - t3), delay |-> (t3 - t0) - (t2 - t1), time |-> t3]

(* The head of the array ClockFilter sorts: any tuple of the least delay.  *)
Best(tuples) ==
  {tuple \in {tuples[i] : i \in DOMAIN tuples} :
     \A i \in DOMAIN tuples : tuple.delay <= tuples[i].delay}

(* Update: shift one out, whatever happens next, then filter.              *)
Update(there, held, back) ==
  LET t0 == samples * 10
      t1 == t0 + there + Ahead
      t2 == t1 + held
      t3 == t2 + back - Ahead
      shifted == <<Sample(t0, t1, t2, t3)>> \o SubSeq(buffer, 1, FilterSize - 1)
  IN /\ samples < MaxSamples
     /\ samples' = samples + 1
     /\ buffer' = shifted
     /\ \E best \in Best(shifted) :
          /\ delayApprox' = best.delay /\ offsetApprox' = best.offset
          /\ lastValidPacket' = Max({lastValidPacket, best.time})

Next == \E there, back \in Delays, held \in {0, 2} : Update(there, held, back)

Spec == Init /\ [][Next]_clockVars

-----------------------------------------------------------------------------
(* What Connect gives the connection as its clockOffset is within half of  *)
(* what it gives as rtt of the truth, whichever of the responses were slow *)
(* on one way only: the interpolation and the server's lag compensation    *)
(* rely on that bound.                                                     *)
ClockErrorIsBounded ==
  samples > 0 =>
    /\ offsetApprox - 2 * Ahead \in -delayApprox..delayApprox
    /\ delayApprox <= 2 * Max(Delays)
=============================================================================
