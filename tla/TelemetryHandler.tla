-------------------------- MODULE TelemetryHandler --------------------------
(***************************************************************************)
(* TelemetryHandler.handleTripsAndEvents for ONE vehicle: how the packets  *)
(* of a vehicle become trip rows, overspeed rows and idling rows, through  *)
(* a runtime state kept by TelemetryStateService.                          *)
(*                                                                         *)
(* The handler is asynchronous: it runs to its next await, and other       *)
(* invocations for the same vehicle may run in between.  One action is     *)
(* the code from the return of one awaited call to the next await; the     *)
(* arguments of the awaited call are fixed when it is issued, its effect   *)
(* on the database is applied when it returns.  Slots bounds how many      *)
(* invocations are in progress; with a single slot packets are handled     *)
(* one at a time.                                                          *)
(*                                                                         *)
(* The runtime state is a JavaScript object.  In memory mode the store     *)
(* hands out a reference, so invocations share (and mutate) one object;    *)
(* in Redis mode every read is a fresh copy.  Objs are the addresses.      *)
(*                                                                         *)
(* Abstracted: locations, distance and durations (functions of the         *)
(* instants kept here), playback point contents, notification rows.        *)
(***************************************************************************)
EXTENDS Integers, Sequences

CONSTANTS
  Slots,          \* invocations that may be in progress at once
  Objs,           \* addresses of runtime-state objects
  NoObj,          \* no object: the store has no entry, the slot is free
  StoreMode,      \* "memory" or "redis" (TELEMETRY_STATE_STORE)
  Speeds,         \* speeds a packet may carry, km/h
  SpeedLimit,     \* the vehicle's limit, km/h
  TripTimeout,    \* how long ignition stays off before the trip is over
  IdleThreshold,  \* how long a vehicle stands before it is idling
  MaxTime,        \* bound: the last timestamp
  MaxRows,        \* bound: no packet is taken once this many rows exist
  MaxLate,        \* bound: packets older than the one received before
  MaxFailures,    \* bound: calls that fail
  MaxLosses       \* bound: restarts and expiries of the stored state

ASSUME HandlerAssumption ==
  /\ NoObj \notin Objs
  /\ StoreMode \in {"memory", "redis"}
  /\ Speeds \subseteq Nat /\ 0 \in Speeds
  /\ SpeedLimit \in Nat \ {0}
  /\ TripTimeout \in Nat \ {0}
  /\ IdleThreshold \in Nat \ {0}
  /\ MaxTime \in Nat /\ MaxRows \in Nat
  /\ MaxLate \in Nat /\ MaxFailures \in Nat /\ MaxLosses \in Nat

VARIABLES
  trips,      \* table trips: the rows of the vehicle in order of creation
  overspeeds, \* table overspeed_events
  idlings,    \* table idling_events
  heap,       \* the runtime-state objects
  stored,     \* the object the store holds for the vehicle, or NoObj
  run,        \* what every slot is doing
  last,       \* history: the packet received last
  offSince,   \* history: when the ignition went off, for the off period that
              \* packet belongs to or ends; NoTime if there is none
  late,       \* history: packets received that were older than the one before
  failures,   \* failed calls so far
  losses      \* restarts and expiries so far

vars == <<trips, overspeeds, idlings, heap, stored, run, last, offSince, late,
          failures, losses>>
rows == <<trips, overspeeds, idlings>>
history == <<last, offSince, late>>
counters == <<failures, losses>>

----------------------------------------------------------------------------
(* Data. *)

Times == 0 .. MaxTime
NoTime == -1
MovingSpeed == 5        \* idling ends above this speed

Packet == [time : Times, speed : Speeds, ign : BOOLEAN]

(* VehicleRuntimeState.  Ids are positions in the tables, 0 is "no id". *)
RuntimeState ==
  [trip : Nat, pending : BOOLEAN, closeTs : Times \cup {NoTime},
   overActive : BOOLEAN, overEvent : Nat, overMax : Nat,
   idleActive : BOOLEAN, idleEvent : Nat, idleStart : Times \cup {NoTime}]

FreshState ==
  [trip |-> 0, pending |-> FALSE, closeTs |-> NoTime,
   overActive |-> FALSE, overEvent |-> 0, overMax |-> 0,
   idleActive |-> FALSE, idleEvent |-> 0, idleStart |-> NoTime]

(* The awaited calls of the handler, by what they do. *)
TripCalls == {"startTrip", "updateTrip", "playback"}
OverspeedCalls == {"createOverspeed", "updateOverspeed", "endOverspeed"}
IdlingCalls == {"createIdling", "updateIdling", "endIdling"}
Calls == TripCalls \cup OverspeedCalls \cup IdlingCalls \cup {"persist"}

NoPacket == [time |-> 0, speed |-> 0, ign |-> FALSE]

(* A slot: the call it awaits, that call's row id and value, its packet,   *)
(* its object and the tripCloseTimestamp it read at the start.             *)
Free == [pc |-> "ready", id |-> 0, val |-> 0, pkt |-> NoPacket,
         obj |-> NoObj, closeRead |-> NoTime]

Busy(s) == run[s].pc # "ready"

(* Objects nobody refers to are garbage; keep them in one normal form. *)
Sweep(h, keep, rn) ==
  [o \in Objs |-> IF o = keep \/ \E s \in Slots : rn[s].obj = o
                  THEN h[o] ELSE FreshState]

----------------------------------------------------------------------------
(* The code between two awaits, as functions of the state object and the   *)
(* packet.  Await(st, call, id, val): the object is now st and the handler *)
(* awaits the call on row id with the value val.                           *)

Await(st, call, id, val) == [st |-> st, pc |-> call, id |-> id, val |-> val]

(* Mutant: the period is over but its start is not forgotten. *)
NoIdlingKeepingStart(st) == [st EXCEPT !.idleActive = FALSE, !.idleEvent = 0]

NoIdling(st) == [st EXCEPT !.idleActive = FALSE, !.idleEvent = 0,
                           !.idleStart = NoTime]

NoOverspeed(st) == [st EXCEPT !.overActive = FALSE, !.overEvent = 0,
                              !.overMax = 0]

(* The end of an idling period, then persistState.  The code's second      *)
(* branch (idleActive without an idleEventId) is left out: see             *)
(* ActiveIdlingHasEvent.                                                   *)
AfterIdling(st, p) ==
  IF st.idleActive /\ (p.speed > MovingSpeed \/ ~p.ign)
  THEN IF st.idleStart # NoTime
       THEN Await(st, "endIdling", st.idleEvent, 0)
       ELSE Await(NoIdling(st), "persist", 0, 0)
  ELSE Await(st, "persist", 0, 0)

(* Mutant: idle is claimed before its row exists, as overspeed is. *)
StandingStillClaimed(st, p) ==
  LET open == IF st.idleStart = NoTime
              THEN [st EXCEPT !.idleStart = p.time] ELSE st
  IN IF ~open.idleActive /\ p.time - open.idleStart >= IdleThreshold
     THEN Await([open EXCEPT !.idleActive = TRUE], "createIdling",
                open.trip, open.idleStart)
     ELSE AfterIdling(open, p)

StandingStill(st, p) ==
  LET open == IF st.idleStart = NoTime
              THEN [st EXCEPT !.idleStart = p.time] ELSE st
  IN IF ~open.idleActive
     THEN IF p.time - open.idleStart >= IdleThreshold
          THEN Await(open, "createIdling", open.trip, open.idleStart)
          ELSE AfterIdling(open, p)
     ELSE IF open.idleEvent # 0
          THEN Await(open, "updateIdling", open.idleEvent, 0)
          ELSE AfterIdling(open, p)

(* Mutant: a standing start is not forgotten when the vehicle moves on. *)
AfterOverspeedNoReset(st, p) ==
  IF p.ign /\ p.speed = 0 THEN StandingStill(st, p) ELSE AfterIdling(st, p)

AfterOverspeed(st, p) ==
  IF p.ign /\ p.speed = 0
  THEN StandingStill(st, p)
  ELSE AfterIdling(IF st.idleActive THEN st
                   ELSE [st EXCEPT !.idleEvent = 0, !.idleStart = NoTime], p)

(* Mutant: the speed of the packet instead of the highest one. *)
SpeedingLatest(st, p) ==
  IF ~st.overActive
  THEN Await([st EXCEPT !.overActive = TRUE, !.overMax = p.speed],
             "createOverspeed", st.trip, 0)
  ELSE IF st.overEvent # 0
       THEN Await([st EXCEPT !.overMax = p.speed],
                  "updateOverspeed", st.overEvent, p.speed)
       ELSE AfterOverspeed(st, p)

Speeding(st, p) ==
  IF ~st.overActive
  THEN Await([st EXCEPT !.overActive = TRUE, !.overMax = p.speed],
             "createOverspeed", st.trip, 0)
  ELSE IF st.overEvent # 0
       THEN LET top == IF p.speed > st.overMax THEN p.speed ELSE st.overMax
            IN Await([st EXCEPT !.overMax = top],
                     "updateOverspeed", st.overEvent, top)
       ELSE AfterOverspeed(st, p)

(* Mutant: the end of a period whose row is still being created. *)
AfterTripsUnnamed(st, p) ==
  IF p.speed > SpeedLimit
  THEN Speeding(st, p)
  ELSE IF st.overActive
       THEN Await(st, "endOverspeed", st.overEvent, 0)
       ELSE AfterOverspeed(st, p)

AfterTrips(st, p) ==
  IF p.speed > SpeedLimit
  THEN Speeding(st, p)
  ELSE IF st.overActive /\ st.overEvent # 0
       THEN Await(st, "endOverspeed", st.overEvent, 0)
       ELSE AfterOverspeed(st, p)

(* finalizeTripState *)
Finalized(st) == [st EXCEPT !.trip = 0, !.pending = FALSE, !.closeTs = NoTime]

(* Ignition off, after the trip was extended to this packet. *)
Closing(st, p, closeRead) ==
  IF ~st.pending
  THEN [st EXCEPT !.pending = TRUE, !.closeTs = p.time]
  ELSE IF closeRead # NoTime /\ p.time - closeRead >= TripTimeout
       THEN Finalized(st)
       ELSE st

(* Mutant: the timeout itself still resumes. *)
ResumedAtTimeout(st, p) ==
  IF st.trip # 0 /\ st.pending /\ st.closeTs # NoTime
  THEN IF p.time - st.closeTs <= TripTimeout
       THEN [st EXCEPT !.pending = FALSE, !.closeTs = NoTime]
       ELSE Finalized(st)
  ELSE st

(* Ignition on: resume the trip that was about to close, or give it up. *)
Resumed(st, p) ==
  IF st.trip # 0 /\ st.pending /\ st.closeTs # NoTime
  THEN IF p.time - st.closeTs < TripTimeout
       THEN [st EXCEPT !.pending = FALSE, !.closeTs = NoTime]
       ELSE Finalized(st)
  ELSE st

(* From the read of the runtime state to the first awaited call. *)
Begin(st, p) ==
  LET now == IF p.ign THEN Resumed(st, p) ELSE st
  IN IF now.trip # 0
     THEN Await(now, "updateTrip", now.trip, 0)
     ELSE IF p.ign
          THEN Await(now, "startTrip", 0, 0)
          ELSE AfterTrips(now, p)

----------------------------------------------------------------------------
(* The awaited calls. *)

State(s) == heap[run[s].obj]
Pkt(s) == run[s].pkt

(* Mutant: a new trip is dated back to when the ignition went off. *)
TripsAfterBackdated(s) ==
  CASE run[s].pc = "startTrip" ->
         Append(trips, [start |-> IF run[s].closeRead # NoTime
                                  THEN run[s].closeRead ELSE Pkt(s).time,
                        end |-> Pkt(s).time])
    [] run[s].pc = "updateTrip" ->
         [trips EXCEPT ![run[s].id].end = Pkt(s).time]
    [] OTHER -> trips

(* The tables once the call slot s awaits has taken effect. *)
TripsAfter(s) ==
  CASE run[s].pc = "startTrip" ->
         Append(trips, [start |-> Pkt(s).time, end |-> Pkt(s).time])
    [] run[s].pc = "updateTrip" ->
         [trips EXCEPT ![run[s].id].end = Pkt(s).time]
    [] OTHER -> trips

OverspeedsAfter(s) ==
  CASE run[s].pc = "createOverspeed" ->
         Append(overspeeds, [trip |-> run[s].id, start |-> Pkt(s).time,
                             end |-> Pkt(s).time, max |-> Pkt(s).speed])
    [] run[s].pc = "updateOverspeed" ->
         [overspeeds EXCEPT ![run[s].id].end = Pkt(s).time,
                            ![run[s].id].max = run[s].val]
    [] run[s].pc = "endOverspeed" ->
         [overspeeds EXCEPT ![run[s].id].end = Pkt(s).time]
    [] OTHER -> overspeeds

IdlingsAfter(s) ==
  CASE run[s].pc = "createIdling" ->
         Append(idlings, [trip |-> run[s].id, start |-> run[s].val,
                          end |-> Pkt(s).time])
    [] run[s].pc \in {"updateIdling", "endIdling"} ->
         [idlings EXCEPT ![run[s].id].end = Pkt(s).time]
    [] OTHER -> idlings

TakesEffect(s) ==
  /\ trips' = TripsAfter(s)
  /\ overspeeds' = OverspeedsAfter(s)
  /\ idlings' = IdlingsAfter(s)

(* A playback point needs a trip id and the tripId columns are uuids, for  *)
(* which the handler passes '' when no trip is active: the database        *)
(* refuses those rows.                                                     *)
Refused(s) ==
  run[s].pc \in {"playback", "createOverspeed", "createIdling"} /\ run[s].id = 0

Proceed(s, r) ==
  /\ heap' = [heap EXCEPT ![run[s].obj] = r.st]
  /\ run' = [run EXCEPT ![s].pc = r.pc, ![s].id = r.id, ![s].val = r.val]

Returns(s, call, r) ==
  /\ run[s].pc = call
  /\ ~Refused(s)
  /\ TakesEffect(s)
  /\ Proceed(s, r)
  /\ UNCHANGED <<stored, history, counters>>

(* The handler throws: the packet is dropped, nothing is persisted. *)
Abort(s) ==
  /\ run' = [run EXCEPT ![s] = Free]
  /\ heap' = Sweep(heap, stored, run')
  /\ UNCHANGED <<stored, history>>

----------------------------------------------------------------------------
(* Actions. *)

(* A packet arrives; its timestamp is the device's and may be older than   *)
(* that of the packet before.  The device and vehicle look-ups, the        *)
(* telemetry row and the vehicle update are awaited before the runtime     *)
(* state is read.                                                          *)
Receive(s, p) ==
  /\ ~Busy(s)
  /\ p.time < last.time => late < MaxLate
  /\ Len(trips) + Len(overspeeds) + Len(idlings) < MaxRows
  /\ run' = [run EXCEPT ![s].pc = "ingest", ![s].pkt = p]
  /\ last' = p
  /\ offSince' = CASE p.ign /\ last.ign -> NoTime
                   [] ~p.ign /\ (last.ign \/ offSince = NoTime) -> p.time
                   [] OTHER -> offSince
  /\ late' = IF p.time < last.time THEN late + 1 ELSE late
  /\ UNCHANGED <<rows, heap, stored, counters>>

(* getVehicleState and the code up to the next await.  In memory mode the  *)
(* object of the store is used itself, in Redis mode a copy of it.         *)
ReadState(s) ==
  /\ run[s].pc = "ingest"
  /\ \E o \in Objs :
       /\ IF StoreMode = "memory" /\ stored # NoObj
          THEN o = stored
          ELSE o # stored /\ \A t \in Slots : run[t].obj # o
       /\ LET st == IF stored = NoObj THEN FreshState ELSE heap[stored]
              r  == Begin(st, Pkt(s))
          IN /\ heap' = [heap EXCEPT ![o] = r.st]
             /\ run' = [run EXCEPT ![s].pc = r.pc, ![s].id = r.id,
                                   ![s].val = r.val, ![s].obj = o,
                                   ![s].closeRead = st.closeTs]
  /\ UNCHANGED <<rows, stored, history, counters>>

StartTripReturns(s) ==
  LET id == Len(trips) + 1
  IN Returns(s, "startTrip",
             Await([State(s) EXCEPT !.trip = id, !.pending = FALSE,
                                    !.closeTs = NoTime],
                   "updateTrip", id, 0))

UpdateTripReturns(s) ==
  Returns(s, "updateTrip", Await(State(s), "playback", State(s).trip, 0))

PlaybackReturns(s) ==
  Returns(s, "playback",
          AfterTrips(IF Pkt(s).ign THEN State(s)
                     ELSE Closing(State(s), Pkt(s), run[s].closeRead),
                     Pkt(s)))

(* Mutant: the id of the created row is not kept. *)
CreateOverspeedForgets(s) ==
  Returns(s, "createOverspeed", AfterOverspeed(State(s), Pkt(s)))

CreateOverspeedReturns(s) ==
  Returns(s, "createOverspeed",
          AfterOverspeed([State(s) EXCEPT !.overEvent = Len(overspeeds) + 1],
                         Pkt(s)))

UpdateOverspeedReturns(s) ==
  Returns(s, "updateOverspeed", AfterOverspeed(State(s), Pkt(s)))

EndOverspeedReturns(s) ==
  Returns(s, "endOverspeed", AfterOverspeed(NoOverspeed(State(s)), Pkt(s)))

CreateIdlingReturns(s) ==
  Returns(s, "createIdling",
          AfterIdling([State(s) EXCEPT !.idleActive = TRUE,
                                       !.idleEvent = Len(idlings) + 1],
                      Pkt(s)))

UpdateIdlingReturns(s) ==
  Returns(s, "updateIdling", AfterIdling(State(s), Pkt(s)))

EndIdlingReturns(s) ==
  Returns(s, "endIdling", Await(NoIdling(State(s)), "persist", 0, 0))

(* persistState: an object that records nothing is removed instead. *)
NothingToKeep(st) ==
  /\ st.trip = 0 /\ ~st.pending
  /\ ~st.idleActive /\ st.idleStart = NoTime /\ st.idleEvent = 0
  /\ ~st.overActive /\ st.overEvent = 0

PersistState(s) ==
  /\ run[s].pc = "persist"
  /\ stored' = IF NothingToKeep(State(s)) THEN NoObj ELSE run[s].obj
  /\ run' = [run EXCEPT ![s] = Free]
  /\ heap' = Sweep(heap, stored', run')
  /\ UNCHANGED <<rows, history, counters>>

(* The database refuses the row: the handler throws. *)
CallRefused(s) ==
  /\ Refused(s)
  /\ Abort(s)
  /\ UNCHANGED <<rows, counters>>

(* A call fails, before its effect or after it (a commit whose answer is   *)
(* lost, a notification that cannot be written after its event): the       *)
(* handler throws.  Only Map.set cannot fail.                              *)
CallFails(s) ==
  /\ Busy(s)
  /\ ~(run[s].pc = "persist" /\ StoreMode = "memory")
  /\ failures < MaxFailures
  /\ failures' = failures + 1
  /\ \/ UNCHANGED rows
     \/ ~Refused(s) /\ TakesEffect(s)
  /\ Abort(s)
  /\ UNCHANGED losses

(* The backend restarts: invocations vanish, and so does a memory store. *)
Restart ==
  /\ losses < MaxLosses
  /\ losses' = losses + 1
  /\ stored' = IF StoreMode = "memory" THEN NoObj ELSE stored
  /\ run' = [s \in Slots |-> Free]
  /\ heap' = Sweep(heap, stored', run')
  /\ UNCHANGED <<rows, history, failures>>

(* The entry of the store outlives its time-to-live. *)
Expire ==
  /\ losses < MaxLosses
  /\ stored # NoObj
  /\ losses' = losses + 1
  /\ stored' = NoObj
  /\ heap' = Sweep(heap, NoObj, run)
  /\ UNCHANGED <<rows, run, history, failures>>

(* Nothing more to do within the bounds. *)
AtBound ==
  /\ \A s \in Slots : ~Busy(s)
  /\ Len(trips) + Len(overspeeds) + Len(idlings) >= MaxRows
  /\ UNCHANGED vars

Init ==
  /\ trips = <<>> /\ overspeeds = <<>> /\ idlings = <<>>
  /\ heap = [o \in Objs |-> FreshState]
  /\ stored = NoObj
  /\ run = [s \in Slots |-> Free]
  /\ last = NoPacket
  /\ offSince = NoTime /\ late = 0
  /\ failures = 0 /\ losses = 0

CallReturns(s) ==
  \/ StartTripReturns(s) \/ UpdateTripReturns(s) \/ PlaybackReturns(s)
  \/ CreateOverspeedReturns(s) \/ UpdateOverspeedReturns(s)
  \/ EndOverspeedReturns(s)
  \/ CreateIdlingReturns(s) \/ UpdateIdlingReturns(s) \/ EndIdlingReturns(s)

Next ==
  \/ \E s \in Slots :
       \/ \E p \in Packet : Receive(s, p)
       \/ ReadState(s)
       \/ CallReturns(s)
       \/ PersistState(s)
       \/ CallRefused(s)
       \/ CallFails(s)
  \/ Restart
  \/ Expire
  \/ AtBound

Spec == Init /\ [][Next]_vars

----------------------------------------------------------------------------
(* Properties. *)

Types ==
  /\ trips \in Seq([start : Times, end : Times])
  /\ overspeeds \in Seq([trip : Nat, start : Times, end : Times, max : Nat])
  /\ idlings \in Seq([trip : Nat, start : Times, end : Times])
  /\ heap \in [Objs -> RuntimeState]
  /\ stored \in Objs \cup {NoObj}
  /\ run \in [Slots -> [pc : Calls \cup {"ready", "ingest"}, id : Nat,
                        val : Nat, pkt : Packet, obj : Objs \cup {NoObj},
                        closeRead : Times \cup {NoTime}]]
  /\ last \in Packet
  /\ offSince \in Times \cup {NoTime}
  /\ late \in 0 .. MaxLate
  /\ failures \in 0 .. MaxFailures
  /\ losses \in 0 .. MaxLosses

(* Every id held in an object is 0 or the id of an existing row, and a     *)
(* slot holds an object exactly while it executes handleTripsAndEvents.    *)
IdsExist ==
  /\ \A o \in Objs : /\ heap[o].trip <= Len(trips)
                     /\ heap[o].overEvent <= Len(overspeeds)
                     /\ heap[o].idleEvent <= Len(idlings)
  /\ \A s \in Slots : run[s].obj = NoObj <=> run[s].pc \in {"ready", "ingest"}

(* An awaited update names an existing row. *)
NamesRow(r) ==
  /\ r.pc = "updateTrip" => r.id \in 1 .. Len(trips)
  /\ r.pc \in {"updateOverspeed", "endOverspeed"} =>
       r.id \in 1 .. Len(overspeeds)
  /\ r.pc \in {"updateIdling", "endIdling"} => r.id \in 1 .. Len(idlings)

(* Types, and ids: with several invocations over one object, no update is  *)
(* issued for a row that another invocation is still creating.             *)
TypeOK == Types /\ IdsExist /\ \A s \in Slots : NamesRow(run[s])

(* The trip table is a log of intervals: see TripLog.  Packets handled one *)
(* at a time over a memory store write the newest trip only, and never     *)
(* reopen or overlap one while they come in the order of their timestamps, *)
(* whatever calls fail and whenever the stored state is lost.              *)
Log == INSTANCE TripLog WITH log <- trips, inOrder <- (late = 0)
TripLogSpec == Log!Spec

(* What a report has shown of a row's beginning stays, and the top speed   *)
(* it has shown of an overspeed period is never lowered: also when the     *)
(* period's packets come late, when calls fail after taking effect and     *)
(* when the state is lost.  (Ends are not covered: a late packet moves the *)
(* end of a row back.)                                                     *)
PeaksKept ==
  [][LET Keeps(old, new) ==
           /\ Len(new) >= Len(old)
           /\ \A i \in 1 .. Len(old) : new[i].start = old[i].start
     IN /\ Keeps(trips, trips')
        /\ Keeps(overspeeds, overspeeds')
        /\ Keeps(idlings, idlings')
        /\ \A i \in 1 .. Len(overspeeds) :
             overspeeds'[i].max >= overspeeds[i].max]_rows

(* No call has failed, no state been lost, no packet come late.  The next  *)
(* three properties are promised only then: a period split by a fault may  *)
(* be split in rows.                                                       *)
Faultless == failures = 0 /\ losses = 0 /\ late = 0

(* Where trips are split (the two-minute rule): when the ignition comes    *)
(* back, the packet opens a new trip if the ignition was off for the       *)
(* timeout, and otherwise extends the trip the off period interrupted.     *)
(* The decision is spread over the packets of the off period: the first    *)
(* notes the time, later ones may finalize the trip before it is over.     *)
TripSplitAtTimeout ==
  \A s \in Slots :
    Faultless /\ run[s].pc = "playback" /\ Pkt(s).ign /\ offSince # NoTime =>
      /\ Pkt(s).time - offSince >= TripTimeout =>
           trips[Len(trips)].start = Pkt(s).time
      /\ Pkt(s).time - offSince < TripTimeout =>
           (Len(trips) > 1 => trips[Len(trips)].start <= offSince)

(* An event names the trip it began in: it starts between the first and    *)
(* the last packet of that trip, although the id is taken from the runtime *)
(* state packets after the period began.                                   *)
EventsStartInTrip ==
  LET Inside(e) == /\ e.trip \in 1 .. Len(trips)
                   /\ trips[e.trip].start <= e.start
                   /\ e.start <= trips[e.trip].end
  IN Faultless =>
     /\ \A i \in 1 .. Len(overspeeds) : Inside(overspeeds[i])
     /\ \A i \in 1 .. Len(idlings) : Inside(idlings[i])

(* A period is recorded once: rows of a kind never overlap in time. *)
EventsDisjoint ==
  Faultless =>
  /\ \A i, j \in 1 .. Len(overspeeds) :
       i < j => overspeeds[i].end <= overspeeds[j].start
  /\ \A i, j \in 1 .. Len(idlings) :
       i < j => idlings[i].end <= idlings[j].start

(* However many invocations share or copy the state object, idleActive is  *)
(* never set without the id of its row.  The code's branch that creates an *)
(* idling event when a period without one ends is therefore dead.          *)
ActiveIdlingHasEvent ==
  \A o \in Objs : heap[o].idleActive => heap[o].idleEvent # 0

(* When a packet has been handled (all its calls returned), the state says *)
(* overspeed exactly if the packet was over the limit, and then names a    *)
(* row that reaches to this packet and has seen its speed.                 *)
OverspeedTracked ==
  \A s \in Slots :
    run[s].pc = "persist" =>
      LET st == State(s)
      IN /\ st.overActive <=> Pkt(s).speed > SpeedLimit
         /\ st.overActive =>
              /\ st.overEvent # 0
              /\ overspeeds[st.overEvent].end = Pkt(s).time
              /\ overspeeds[st.overEvent].max >= Pkt(s).speed

(* When a packet has been handled, the state agrees with it about idling.  *)
(* Standing: either the period is in a row that runs from the noted start  *)
(* to this packet, or it is still shorter than the threshold.  Driving or  *)
(* switched off: no period is open.  A start is noted only while standing  *)
(* or idling, so no period begins before the vehicle last moved.           *)
IdlingTracked ==
  \A s \in Slots :
    run[s].pc = "persist" =>
      LET st == State(s)
          p  == Pkt(s)
          standing == p.ign /\ p.speed = 0
      IN /\ st.idleActive =>
              /\ st.idleEvent # 0
              /\ idlings[st.idleEvent].start = st.idleStart
              /\ standing => idlings[st.idleEvent].end = p.time
              /\ p.ign /\ p.speed <= MovingSpeed
         /\ ~st.idleActive =>
              IF standing
              THEN st.idleStart # NoTime
                   /\ p.time - st.idleStart < IdleThreshold
              ELSE st.idleStart = NoTime

(* The documented tolerance of reconnect storms: packets handled together  *)
(* record one idling period once.                                          *)
NoDuplicateIdling ==
  \A i, j \in 1 .. Len(idlings) :
    i # j => <<idlings[i].trip, idlings[i].start>>
               # <<idlings[j].trip, idlings[j].start>>
=============================================================================
