----------------------------- MODULE StopEvents -----------------------------
(* Stop events (modules/events/stop-events.service.ts) are never stored: a    *)
(* query derives them from the telemetry of a device, as the intervals with   *)
(* the ignition off.  Rows arrive in any order and more than once for a       *)
(* timestamp, the device moves from vehicle to vehicle, and a stop that goes  *)
(* on ends now.  The filter of a vehicle stands for that of a college too:    *)
(* both choose rows before intervals are looked for.  The filters of dates    *)
(* and durations choose among the results and are left out.                   *)
EXTENDS Integers, FiniteSets, FiniteSetsExt

CONSTANTS
    Vehicles,
    All,               \* no filter
    Debounce,          \* ignitionDebounceMs, in ticks
    ActiveStopCap,     \* activeStopCapSeconds, in ticks
    LastTime,          \* the time NOW() ends at
    MaxRows            \* rows of the device

ASSUME StopEventsAssumption ==
    /\ All \notin Vehicles
    /\ Debounce \in Nat /\ ActiveStopCap \in Nat
    /\ LastTime \in Nat /\ MaxRows \in Nat

VARIABLES
    telemetry,         \* table telemetry: the rows of the device; n: createdAt
    assigned,          \* the vehicle it is assigned to
    now                \* NOW()

stopsVars == <<telemetry, assigned, now>>

StopsInit == telemetry = {} /\ assigned \in Vehicles /\ now = 0

\* A row is inserted, for a time that may be long past.
Insert ==
    /\ Cardinality(telemetry) < MaxRows
    /\ \E timestamp \in 0 .. now, ignition \in BOOLEAN :
         telemetry' = telemetry \cup
           {[n |-> Cardinality(telemetry), timestamp |-> timestamp,
             ignition |-> ignition, vehicle |-> assigned]}
    /\ UNCHANGED <<assigned, now>>

Assign ==
    /\ \E v \in Vehicles \ {assigned} : assigned' = v
    /\ UNCHANGED <<telemetry, now>>

TimePasses ==
    /\ now < LastTime
    /\ now' = now + 1
    /\ UNCHANGED <<telemetry, assigned>>

StopsNext == Insert \/ Assign \/ TimePasses

StopsSpec == StopsInit /\ [][StopsNext]_stopsVars

-----------------------------------------------------------------------------

\* deduped: of the rows of a timestamp the one that was created last.
Deduped(f) ==
    LET rows == {r \in telemetry : f = All \/ r.vehicle = f}
    IN  {r \in rows : \A q \in rows : q.timestamp = r.timestamp => q.n <= r.n}

Before(f, t) == {r \in Deduped(f) : r.timestamp < t}

\* Mutant: the first row of a device starts no stop.
StopStartsAfterOn(f) ==
    {r \in Deduped(f) :
       /\ ~r.ignition
       /\ \E p \in Before(f, r.timestamp) :
            p.ignition /\ \A q \in Before(f, r.timestamp) : q.timestamp <= p.timestamp}

\* stop_starts: off, and the row before it (LAG) is on or missing.
StopStarts(f) ==
    {r \in Deduped(f) :
       /\ ~r.ignition
       /\ \A p \in Before(f, r.timestamp) :
            (\A q \in Before(f, r.timestamp) : q.timestamp <= p.timestamp) => p.ignition}

\* next_on
NextOn(f, t) == {r \in Deduped(f) : r.ignition /\ r.timestamp > t}

Least(x, y) == IF x <= y THEN x ELSE y

\* Mutant: the rows that are on are taken in descending order.
EndTimeLatest(f, t) ==
    IF NextOn(f, t) # {} THEN Max({r.timestamp : r \in NextOn(f, t)})
    ELSE Least(now, t + ActiveStopCap)

\* Until the next row that is on, or while there is none until now, for as long
\* as an active stop is let last.
EndTime(f, t) ==
    IF NextOn(f, t) # {} THEN Min({r.timestamp : r \in NextOn(f, t)})
    ELSE Least(now, t + ActiveStopCap)

\* stops; the id is a digest of the device and the start, so the start is it.
Stops(f) ==
    {[id |-> r.timestamp, vehicle |-> r.vehicle, endTime |-> EndTime(f, r.timestamp)] :
       r \in StopStarts(f)}

\* list
Listed(f) == {s \in Stops(f) : s.endTime - s.id >= Debounce}

-----------------------------------------------------------------------------

Filters == Vehicles \cup {All}

\* The reference: the ignition at a time is that of the latest row up to it.
OffAt(f, t) ==
    \E r \in Deduped(f) :
      /\ r.timestamp <= t /\ ~r.ignition
      /\ \A q \in Deduped(f) : q.timestamp <= t => q.timestamp <= r.timestamp

\* A stop that no later row ends is followed for ActiveStopCap only.
Followed(f, t) ==
    \/ NextOn(f, t) # {}
    \/ \E s \in Stops(f) : s.id <= t /\ t < s.id + ActiveStopCap /\ NextOn(f, s.id) = {}

\* At every time up to now at which the ignition was off, and at no other, the
\* device was in a stop, and in one only, in whatever order its rows arrived.
StopsCoverOffTime ==
    \A f \in Filters, t \in 0 .. (now - 1) :
      Cardinality({s \in Stops(f) : s.id <= t /\ t < s.endTime})
        = IF OffAt(f, t) /\ Followed(f, t) THEN 1 ELSE 0

\* What was listed stays listed, with the same end once it has ended, as time
\* passes and as newer rows arrive: only a row from the past, or a second one
\* for a time, changes the past.
Newer(f, s) ==
    \A r \in telemetry' \ telemetry :
      \A q \in Deduped(f) : r.timestamp > q.timestamp /\ r.timestamp - s.id >= Debounce

ListedStopsLast ==
    [][\A f \in Filters : \A s \in Listed(f) :
         Newer(f, s) =>
           \E later \in Listed(f)' :
             /\ later.id = s.id
             /\ NextOn(f, s.id) # {} => later = s]_stopsVars
=============================================================================
