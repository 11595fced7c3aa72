---------------------------- MODULE HistoryBuffer -----------------------------
(***************************************************************************)
(* HistoryBuffer<ServerFrameData>: the ring in which GameServer::SaveState *)
(* keeps where a player was, one frame per tick, and FindAt, which         *)
(* HandleFireAction asks for the two frames around the instant a shot is   *)
(* reconstructed at.  `log' is every frame ever saved, kept to state what  *)
(* FindAt ought to return; no step reads it.                               *)
(***************************************************************************)
EXTENDS Naturals, Sequences, FiniteSetsExt

CONSTANTS
  Capacity,    \* 128 in OnPlayerConnected
  MaxTime,     \* bound: the last timestamp
  MaxFrames    \* bound: frames saved

VARIABLES data, index, size, log

historyVars == <<data, index, size, log>>

NULL == [timestamp |-> 0, value |-> 0]   \* no frame: real ones start at 1

Init ==
  /\ data = [i \in 0..Capacity - 1 |-> NULL]
  /\ index = 0 /\ size = 0
  /\ log = <<>>

Wrapped(i) == IF i >= Capacity THEN 0 ELSE i

(* SaveState: the clock of the game thread never goes back.                *)
Insert(timestamp) ==
  LET frame == [timestamp |-> timestamp, value |-> Len(log) + 1]
  IN /\ Len(log) < MaxFrames
     /\ log # <<>> => log[Len(log)].timestamp <= timestamp
     /\ data' = [data EXCEPT ![index] = frame]
     /\ index' = Wrapped(index + 1)
     /\ size' = IF size < Capacity THEN size + 1 ELSE size
     /\ log' = Append(log, frame)

Next == \E timestamp \in 1..MaxTime : Insert(timestamp)

Spec == Init /\ [][Next]_historyVars

-----------------------------------------------------------------------------
(* The frame i steps before the newest.                                    *)
Back(i) == data[(index + Capacity - 1 - i) % Capacity]

OlderStrictly(frame, timestamp) == frame.timestamp < timestamp   \* mutant
Older(frame, timestamp) == frame.timestamp <= timestamp

(* The backward scan of FindAt stops at the first frame that is not newer. *)
FindAt(timestamp) ==
  LET stops == {i \in 0..size - 1 : Older(Back(i), timestamp)}
      stop  == IF stops = {} THEN size ELSE Min(stops)
  IN IF stop = 0 THEN <<NULL, NULL>>
     ELSE <<Back(stop - 1), IF stop < size THEN Back(stop) ELSE NULL>>

(* A shot is never reconstructed between the wrong frames: among the last  *)
(* Capacity frames saved, FindAt returns the first that is newer than the  *)
(* instant and the last that is not, none if no frame is newer, and only   *)
(* the newer one when the instant is older than all that is kept, also     *)
(* after the ring has wrapped and when frames share a timestamp.           *)
HistoryIsBracketed ==
  \A t \in 0..MaxTime :
    LET kept  == {i \in DOMAIN log : i > Len(log) - Capacity}
        newer == {i \in kept : log[i].timestamp > t}
        older == kept \ newer
    IN FindAt(t) = << IF newer = {} THEN NULL ELSE log[Min(newer)],
                      IF newer = {} \/ older = {} THEN NULL ELSE log[Max(older)] >>
=============================================================================
