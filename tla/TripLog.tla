------------------------------ MODULE TripLog ------------------------------
(***************************************************************************)
(* What the trip table of one vehicle promises to its readers, without any *)
(* of the machinery that produces it: a log written at its newest end      *)
(* only.  As long as the vehicle's packets come in the order of their      *)
(* timestamps it is a log of intervals: a trip is opened after everything  *)
(* already recorded, and the newest trip is extended forwards.  Once the   *)
(* order is lost, older trips still stay as they are.                      *)
(*                                                                         *)
(* TelemetryHandler implements this specification when the runtime state   *)
(* is kept in memory and packets of a vehicle are handled one at a time.   *)
(***************************************************************************)
EXTENDS Integers, Sequences

CONSTANT Times          \* the instants a trip may start or end at

VARIABLES
  log,                  \* the trips of the vehicle, oldest first
  inOrder               \* no packet has come late

Interval == [start : Times, end : Times]

LogType == log \in Seq(Interval) /\ inOrder \in BOOLEAN

(* Nothing recorded so far ends after t. *)
Latest(t) == log # <<>> => log[Len(log)].end <= t

Init == log = <<>> /\ inOrder = TRUE

StartTrip(t) ==
  /\ inOrder => Latest(t)
  /\ log' = Append(log, [start |-> t, end |-> t])
  /\ UNCHANGED inOrder

ExtendTrip(t) ==
  /\ log # <<>>
  /\ inOrder => Latest(t)
  /\ log' = [log EXCEPT ![Len(log)].end = t]
  /\ UNCHANGED inOrder

LoseOrder ==
  /\ inOrder' = FALSE
  /\ UNCHANGED log

Next ==
  \/ \E t \in Times : StartTrip(t) \/ ExtendTrip(t)
  \/ LoseOrder

Spec == Init /\ [][Next]_<<log, inOrder>>

----------------------------------------------------------------------------

(* Every trip runs forwards, and each one is over before the next starts:  *)
(* no instant of a vehicle belongs to two trips.                           *)
TripsDisjoint ==
  /\ \A i \in 1 .. Len(log) : log[i].start <= log[i].end
  /\ \A i, j \in 1 .. Len(log) : i < j => log[i].end <= log[j].start
=============================================================================
