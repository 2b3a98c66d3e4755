---------------------- MODULE TelemetryHandler_proofs ----------------------
(***************************************************************************)
(* Proofs about TelemetryHandler.  For any number of concurrent            *)
(* invocations, both stores, and every bound:                              *)
(*  - TypeCorrect, IdlingNamesItsRow.                                      *)
(*                                                                         *)
(* The rest is about packets of a vehicle that are handled one at a time   *)
(* (Alone), though not always in the order of their times.  Over the Redis *)
(* store, whatever calls fail and whenever the state expires:              *)
(*  - OverspeedIsTracked, IdlingIsTracked: what a handled packet says of   *)
(*    the open period is in the row that its state names.                  *)
(* Over the memory store (OneAtATime), whatever calls fail and whenever    *)
(* the state is lost:                                                      *)
(*  - TripsStayDisjoint, ImplementsTripLog: the trip table is a TripLog.   *)
(*  - PeaksAreKept: a row's largest speed never decreases.                 *)
(* Over the memory store, while no call fails, no state is lost and no     *)
(* packet is late:                                                         *)
(*  - PeriodsRecordedOnce, EventsBelongToTheirTrip, TripsSplitAtTimeout.   *)
(*                                                                         *)
(* The invariants: TypeInv, with NamesRow; TripInv (the object the handler *)
(* works on names no trip or the newest one, every other object names      *)
(* none; in Redis mode a stale copy may name an old trip), AloneInv,       *)
(* RedisInv, GrowInv, EventInv and SplitInv.  The last four say what is    *)
(* known of the object at every await of the handler; each is carried      *)
(* through the pure code between awaits (AfterIdling, AfterOverspeed,      *)
(* AfterTrips, Begin), then through every returning call (Goes), then      *)
(* through every step.                                                     *)
(***************************************************************************)
EXTENDS TelemetryHandler, SequenceTheorems, TLAPS

USE DEF history

(* What the pure code between two awaits yields. *)
Continuation == [st : RuntimeState, pc : Calls, id : Nat, val : Nat]

(* Code after the trip part: r continues from the object st.  It leaves    *)
(* the trip alone, forgets event ids but never makes one up, and creates   *)
(* an idling row with a recorded start.                                    *)
Continues(r, st) ==
  /\ r \in Continuation
  /\ r.st.trip = st.trip
  /\ r.pc \notin TripCalls
  /\ r.st.overEvent \in {st.overEvent, 0}
  /\ r.st.idleEvent \in {st.idleEvent, 0}
  /\ r.pc = "createIdling" => r.val \in Times

LEMMA TimesNat == Times \subseteq Nat /\ NoTime \notin Times /\ NoTime \in Int
  BY HandlerAssumption DEF Times, NoTime

LEMMA FreshType == FreshState \in RuntimeState
  BY DEF FreshState, RuntimeState, NoTime

LEMMA NoIdlingType ==
  ASSUME NEW st \in RuntimeState
  PROVE  /\ NoIdling(st) \in RuntimeState
         /\ NoIdling(st).trip = st.trip
         /\ NoIdling(st).overEvent = st.overEvent
         /\ NoIdling(st).idleEvent = 0
  BY DEF NoIdling, RuntimeState

LEMMA IdlingOpenedType ==
  ASSUME NEW st \in RuntimeState, NEW n \in Nat
  PROVE  LET open == [st EXCEPT !.idleActive = TRUE, !.idleEvent = n]
         IN /\ open \in RuntimeState
            /\ open.trip = st.trip
            /\ open.overEvent = st.overEvent
            /\ open.idleEvent = n
  BY DEF RuntimeState

LEMMA NoOverspeedType ==
  ASSUME NEW st \in RuntimeState
  PROVE  /\ NoOverspeed(st) \in RuntimeState
         /\ NoOverspeed(st).trip = st.trip
         /\ NoOverspeed(st).overEvent = 0
         /\ NoOverspeed(st).idleEvent = st.idleEvent
  BY DEF NoOverspeed, RuntimeState

LEMMA AfterIdlingContinues ==
  ASSUME NEW st \in RuntimeState, NEW p \in Packet
  PROVE  Continues(AfterIdling(st, p), st)
  BY NoIdlingType
  DEF Continues, Continuation, AfterIdling, Await, Calls, TripCalls,
      IdlingCalls, RuntimeState

LEMMA StandingStillContinues ==
  ASSUME NEW st \in RuntimeState, NEW p \in Packet
  PROVE  Continues(StandingStill(st, p), st)
<1> DEFINE open == IF st.idleStart = NoTime
                   THEN [st EXCEPT !.idleStart = p.time] ELSE st
<1>1. /\ open \in RuntimeState
      /\ open.idleStart \in Times
      /\ open.trip = st.trip
      /\ open.overEvent = st.overEvent
      /\ open.idleEvent = st.idleEvent
  BY DEF RuntimeState, Packet
<1>2. Continues(AfterIdling(open, p), open)
  BY <1>1, AfterIdlingContinues
<1>3. Continues(Await(open, "createIdling", open.trip, open.idleStart), st)
  BY <1>1, TimesNat
  DEF Continues, Continuation, Await, Calls, TripCalls, IdlingCalls,
      RuntimeState
<1>4. Continues(Await(open, "updateIdling", open.idleEvent, 0), st)
  BY <1>1
  DEF Continues, Continuation, Await, Calls, TripCalls, IdlingCalls,
      RuntimeState
<1>5. Continues(AfterIdling(open, p), st)
  BY <1>1, <1>2 DEF Continues
<1>6. StandingStill(st, p) \in
        {Await(open, "createIdling", open.trip, open.idleStart),
         Await(open, "updateIdling", open.idleEvent, 0),
         AfterIdling(open, p)}
  BY DEF StandingStill
<1> QED
  BY <1>3, <1>4, <1>5, <1>6

LEMMA AfterOverspeedContinues ==
  ASSUME NEW st \in RuntimeState, NEW p \in Packet
  PROVE  Continues(AfterOverspeed(st, p), st)
<1> DEFINE reset == [st EXCEPT !.idleEvent = 0, !.idleStart = NoTime]
<1>1. /\ reset \in RuntimeState
      /\ reset.trip = st.trip
      /\ reset.overEvent = st.overEvent
      /\ reset.idleEvent = 0
  BY DEF RuntimeState
<1>2. Continues(AfterIdling(reset, p), st)
  BY <1>1, AfterIdlingContinues DEF Continues
<1>3. AfterOverspeed(st, p) \in
        {StandingStill(st, p), AfterIdling(st, p), AfterIdling(reset, p)}
  BY DEF AfterOverspeed
<1> QED
  BY <1>2, <1>3, AfterIdlingContinues, StandingStillContinues

LEMMA AfterTripsContinues ==
  ASSUME NEW st \in RuntimeState, NEW p \in Packet
  PROVE  Continues(AfterTrips(st, p), st)
<1> DEFINE start == [st EXCEPT !.overActive = TRUE, !.overMax = p.speed]
           top == IF p.speed > st.overMax THEN p.speed ELSE st.overMax
           more == [st EXCEPT !.overMax = top]
<1>1. p.speed \in Nat
  BY HandlerAssumption DEF Packet
<1>2. Continues(Await(start, "createOverspeed", st.trip, 0), st)
  BY <1>1
  DEF Continues, Continuation, Await, Calls, TripCalls, OverspeedCalls,
      RuntimeState
<1>3. Continues(Await(more, "updateOverspeed", st.overEvent, top), st)
  BY <1>1
  DEF Continues, Continuation, Await, Calls, TripCalls, OverspeedCalls,
      RuntimeState
<1>4. Continues(Await(st, "endOverspeed", st.overEvent, 0), st)
  BY DEF Continues, Continuation, Await, Calls, TripCalls, OverspeedCalls,
         RuntimeState
<1>5. AfterTrips(st, p) \in
        {Await(start, "createOverspeed", st.trip, 0),
         Await(more, "updateOverspeed", st.overEvent, top),
         Await(st, "endOverspeed", st.overEvent, 0),
         AfterOverspeed(st, p)}
  BY DEF AfterTrips, Speeding
<1> QED
  BY <1>2, <1>3, <1>4, <1>5, AfterOverspeedContinues

(* From the read of the state object to the first awaited call. *)
Begins(r, st) ==
  /\ r \in Continuation
  /\ r.st.trip \in {st.trip, 0}
  /\ r.st.overEvent \in {st.overEvent, 0}
  /\ r.st.idleEvent \in {st.idleEvent, 0}
  /\ r.pc = "createIdling" => r.val \in Times
  /\ r.pc = "startTrip" => r.st.trip = 0
  /\ r.pc = "updateTrip" => r.id = r.st.trip /\ r.id # 0
  /\ r.pc # "playback"

LEMMA FinalizedType ==
  ASSUME NEW st \in RuntimeState
  PROVE  /\ Finalized(st) \in RuntimeState
         /\ Finalized(st).trip = 0
         /\ Finalized(st).overEvent = st.overEvent
         /\ Finalized(st).idleEvent = st.idleEvent
  BY DEF Finalized, RuntimeState

LEMMA ClosingType ==
  ASSUME NEW st \in RuntimeState, NEW p \in Packet, NEW c \in Times \cup {NoTime}
  PROVE  /\ Closing(st, p, c) \in RuntimeState
         /\ Closing(st, p, c).trip \in {st.trip, 0}
         /\ Closing(st, p, c).overEvent = st.overEvent
         /\ Closing(st, p, c).idleEvent = st.idleEvent
<1> DEFINE noted == [st EXCEPT !.pending = TRUE, !.closeTs = p.time]
<1>1. /\ noted \in RuntimeState
      /\ noted.trip = st.trip
      /\ noted.overEvent = st.overEvent
      /\ noted.idleEvent = st.idleEvent
  BY DEF RuntimeState, Packet
<1>2. Closing(st, p, c) \in {noted, Finalized(st), st}
  BY DEF Closing
<1> QED
  BY <1>1, <1>2, FinalizedType

LEMMA ResumedType ==
  ASSUME NEW st \in RuntimeState, NEW p \in Packet
  PROVE  /\ Resumed(st, p) \in RuntimeState
         /\ Resumed(st, p).trip \in {st.trip, 0}
         /\ Resumed(st, p).overEvent = st.overEvent
         /\ Resumed(st, p).idleEvent = st.idleEvent
<1> DEFINE open == [st EXCEPT !.pending = FALSE, !.closeTs = NoTime]
<1>1. /\ open \in RuntimeState
      /\ open.trip = st.trip
      /\ open.overEvent = st.overEvent
      /\ open.idleEvent = st.idleEvent
  BY DEF RuntimeState
<1>2. Resumed(st, p) \in {open, Finalized(st), st}
  BY DEF Resumed
<1> QED
  BY <1>1, <1>2, FinalizedType

LEMMA BeginBegins ==
  ASSUME NEW st \in RuntimeState, NEW p \in Packet
  PROVE  Begins(Begin(st, p), st)
<1> DEFINE start == IF p.ign THEN Resumed(st, p) ELSE st
<1>1. /\ start \in RuntimeState
      /\ start.trip \in {st.trip, 0}
      /\ start.overEvent = st.overEvent
      /\ start.idleEvent = st.idleEvent
  BY ResumedType
<1> HIDE DEF start
<1>2. CASE start.trip # 0
  <2>1. Begin(st, p) = Await(start, "updateTrip", start.trip, 0)
    BY <1>2 DEF Begin, start
  <2> QED
    BY <1>1, <1>2, <2>1
    DEF Begins, Continuation, Await, Calls, TripCalls, RuntimeState
<1>3. CASE start.trip = 0 /\ p.ign
  <2>1. Begin(st, p) = Await(start, "startTrip", 0, 0)
    BY <1>3 DEF Begin, start
  <2> QED
    BY <1>1, <1>3, <2>1
    DEF Begins, Continuation, Await, Calls, TripCalls, RuntimeState
<1>4. CASE start.trip = 0 /\ ~p.ign
  <2>1. Begin(st, p) = AfterTrips(start, p)
    BY <1>4 DEF Begin, start
  <2>2. Continues(AfterTrips(start, p), start)
    BY <1>1, AfterTripsContinues
  <2> QED
    BY <1>1, <1>4, <2>1, <2>2 DEF Begins, Continues, TripCalls
<1> QED
  BY <1>2, <1>3, <1>4

----------------------------------------------------------------------------
(* Type correctness. *)

TripRow == [start : Times, end : Times]
OverspeedRow == [trip : Nat, start : Times, end : Times, max : Nat]
IdlingRow == [trip : Nat, start : Times, end : Times]

TypesOK == Types /\ IdsExist

(* TypesOK is inductive together with the value a createIdling carries. *)
TypeInv ==
  /\ TypesOK
  /\ \A s \in Slots : run[s].pc = "createIdling" => run[s].val \in Times

LEMMA FunctionIsSeq ==
  ASSUME NEW S, NEW n \in Nat, NEW f \in [1 .. n -> S]
  PROVE  f \in Seq(S) /\ Len(f) = n
  OBVIOUS

(* A row is changed: an id that names no row changes nothing. *)
LEMMA UpdatedRow ==
  ASSUME NEW S, NEW q \in Seq(S), NEW i, NEW r, i \in 1 .. Len(q) => r \in S
  PROVE  /\ [q EXCEPT ![i] = r] \in Seq(S)
         /\ Len([q EXCEPT ![i] = r]) = Len(q)
         /\ \A j \in 1 .. Len(q) :
              [q EXCEPT ![i] = r][j] = IF j = i THEN r ELSE q[j]
<1>1. q \in [1 .. Len(q) -> S] /\ Len(q) \in Nat
  BY LenProperties
<1>2. [q EXCEPT ![i] = r] \in [1 .. Len(q) -> S]
  BY <1>1
<1> QED
  BY <1>1, <1>2, FunctionIsSeq

LEMMA TripsAfterType ==
  ASSUME TypeInv, NEW s \in Slots
  PROVE  /\ TripsAfter(s) \in Seq(TripRow)
         /\ Len(TripsAfter(s)) =
              IF run[s].pc = "startTrip" THEN Len(trips) + 1 ELSE Len(trips)
<1> USE DEF TripRow
<1>1. trips \in Seq(TripRow) /\ Pkt(s).time \in Times
  BY DEF TypeInv, TypesOK, Types, IdsExist, Packet, Pkt
<1>2. CASE run[s].pc = "startTrip"
  BY <1>1, <1>2, AppendProperties DEF TripsAfter
<1>3. CASE run[s].pc = "updateTrip"
  <2> DEFINE row == [trips[run[s].id] EXCEPT !.end = Pkt(s).time]
  <2>1. TripsAfter(s) = [trips EXCEPT ![run[s].id] = row]
    BY <1>3 DEF TripsAfter
  <2>2. ASSUME run[s].id \in 1 .. Len(trips)
        PROVE  row \in TripRow
    <3>1. trips[run[s].id] \in TripRow
      BY <1>1, <2>2, ElementOfSeq
    <3> QED
      BY <1>1, <3>1
  <2> HIDE DEF row
  <2> QED
    BY <1>1, <1>3, <2>1, <2>2, UpdatedRow
<1>4. CASE run[s].pc \notin {"startTrip", "updateTrip"}
  BY <1>1, <1>4 DEF TripsAfter
<1> QED
  BY <1>2, <1>3, <1>4

LEMMA OverspeedsAfterType ==
  ASSUME TypeInv, NEW s \in Slots
  PROVE  /\ OverspeedsAfter(s) \in Seq(OverspeedRow)
         /\ Len(OverspeedsAfter(s)) =
              IF run[s].pc = "createOverspeed" THEN Len(overspeeds) + 1
              ELSE Len(overspeeds)
<1> USE DEF OverspeedRow
<1>1. /\ overspeeds \in Seq(OverspeedRow)
      /\ Pkt(s).time \in Times /\ Pkt(s).speed \in Nat
      /\ run[s].id \in Nat /\ run[s].val \in Nat
  BY HandlerAssumption DEF TypeInv, TypesOK, Types, IdsExist, Packet, Pkt
<1>2. CASE run[s].pc = "createOverspeed"
  BY <1>1, <1>2, AppendProperties DEF OverspeedsAfter
<1>3. CASE run[s].pc = "updateOverspeed"
  <2> DEFINE row == [overspeeds[run[s].id] EXCEPT !.end = Pkt(s).time,
                                                   !.max = run[s].val]
  <2>1. OverspeedsAfter(s) = [overspeeds EXCEPT ![run[s].id] = row]
    BY <1>1, <1>3 DEF OverspeedsAfter
  <2>2. ASSUME run[s].id \in 1 .. Len(overspeeds)
        PROVE  row \in OverspeedRow
    <3>1. overspeeds[run[s].id] \in OverspeedRow
      BY <1>1, <2>2, ElementOfSeq
    <3> QED
      BY <1>1, <3>1
  <2> HIDE DEF row
  <2> QED
    BY <1>1, <1>3, <2>1, <2>2, UpdatedRow
<1>4. CASE run[s].pc = "endOverspeed"
  <2> DEFINE row == [overspeeds[run[s].id] EXCEPT !.end = Pkt(s).time]
  <2>1. OverspeedsAfter(s) = [overspeeds EXCEPT ![run[s].id] = row]
    BY <1>4 DEF OverspeedsAfter
  <2>2. ASSUME run[s].id \in 1 .. Len(overspeeds)
        PROVE  row \in OverspeedRow
    <3>1. overspeeds[run[s].id] \in OverspeedRow
      BY <1>1, <2>2, ElementOfSeq
    <3> QED
      BY <1>1, <3>1
  <2> HIDE DEF row
  <2> QED
    BY <1>1, <1>4, <2>1, <2>2, UpdatedRow
<1>5. CASE run[s].pc \notin OverspeedCalls
  BY <1>1, <1>5 DEF OverspeedsAfter, OverspeedCalls
<1> QED
  BY <1>2, <1>3, <1>4, <1>5 DEF OverspeedCalls

LEMMA IdlingsAfterType ==
  ASSUME TypeInv, NEW s \in Slots
  PROVE  /\ IdlingsAfter(s) \in Seq(IdlingRow)
         /\ Len(IdlingsAfter(s)) =
              IF run[s].pc = "createIdling" THEN Len(idlings) + 1
              ELSE Len(idlings)
<1> USE DEF IdlingRow
<1>1. /\ idlings \in Seq(IdlingRow)
      /\ Pkt(s).time \in Times
      /\ run[s].id \in Nat
      /\ run[s].pc = "createIdling" => run[s].val \in Times
  BY DEF TypeInv, TypesOK, Types, IdsExist, Packet, Pkt
<1>2. CASE run[s].pc = "createIdling"
  BY <1>1, <1>2, AppendProperties DEF IdlingsAfter
<1>3. CASE run[s].pc \in {"updateIdling", "endIdling"}
  <2> DEFINE row == [idlings[run[s].id] EXCEPT !.end = Pkt(s).time]
  <2>1. IdlingsAfter(s) = [idlings EXCEPT ![run[s].id] = row]
    BY <1>3 DEF IdlingsAfter
  <2>2. ASSUME run[s].id \in 1 .. Len(idlings)
        PROVE  row \in IdlingRow
    <3>1. idlings[run[s].id] \in IdlingRow
      BY <1>1, <2>2, ElementOfSeq
    <3> QED
      BY <1>1, <3>1
  <2> HIDE DEF row
  <2> QED
    BY <1>1, <1>3, <2>1, <2>2, UpdatedRow
<1>4. CASE run[s].pc \notin IdlingCalls
  BY <1>1, <1>4 DEF IdlingsAfter, IdlingCalls
<1> QED
  BY <1>2, <1>3, <1>4 DEF IdlingCalls

(* The tables after a call: well typed, and no row is ever removed. *)
LEMMA TakesEffectType ==
  ASSUME TypeInv, NEW s \in Slots, TakesEffect(s)
  PROVE  /\ trips' \in Seq(TripRow)
         /\ overspeeds' \in Seq(OverspeedRow)
         /\ idlings' \in Seq(IdlingRow)
         /\ Len(trips') >= Len(trips)
         /\ Len(overspeeds') >= Len(overspeeds)
         /\ Len(idlings') >= Len(idlings)
         /\ run[s].pc = "startTrip" => Len(trips') = Len(trips) + 1
         /\ run[s].pc = "createOverspeed" =>
              Len(overspeeds') = Len(overspeeds) + 1
         /\ run[s].pc = "createIdling" => Len(idlings') = Len(idlings) + 1
<1>1. /\ Len(trips) \in Nat /\ Len(overspeeds) \in Nat /\ Len(idlings) \in Nat
  BY DEF TypeInv, TypesOK, Types, IdsExist
<1> QED
  BY <1>1, TripsAfterType, OverspeedsAfterType, IdlingsAfterType
  DEF TakesEffect

(* An object within the tables as they are now is so after the call. *)
Within(st) ==
  /\ st \in RuntimeState
  /\ st.trip <= Len(trips)
  /\ st.overEvent <= Len(overspeeds)
  /\ st.idleEvent <= Len(idlings)

WithinNext(st) ==
  /\ st \in RuntimeState
  /\ st.trip <= Len(trips')
  /\ st.overEvent <= Len(overspeeds')
  /\ st.idleEvent <= Len(idlings')

RowsGrow ==
  /\ trips' \in Seq(TripRow)
  /\ overspeeds' \in Seq(OverspeedRow)
  /\ idlings' \in Seq(IdlingRow)
  /\ Len(trips') >= Len(trips)
  /\ Len(overspeeds') >= Len(overspeeds)
  /\ Len(idlings') >= Len(idlings)

LEMMA WithinGrows ==
  ASSUME TypeInv, RowsGrow, NEW st, Within(st)
  PROVE  WithinNext(st)
<1>1. /\ Len(trips) \in Nat /\ Len(overspeeds) \in Nat /\ Len(idlings) \in Nat
      /\ Len(trips') \in Nat /\ Len(overspeeds') \in Nat /\ Len(idlings') \in Nat
  BY DEF TypeInv, TypesOK, Types, IdsExist, RowsGrow
<1>2. st.trip \in Nat /\ st.overEvent \in Nat /\ st.idleEvent \in Nat
  BY DEF Within, RuntimeState
<1> QED
  BY <1>1, <1>2 DEF Within, WithinNext, RowsGrow

LEMMA HeapWithin ==
  ASSUME TypeInv, NEW o \in Objs
  PROVE  Within(heap[o])
  BY DEF TypeInv, TypesOK, Types, IdsExist, Within

LEMMA FreshWithin ==
  ASSUME TypeInv
  PROVE  Within(FreshState)
<1>1. /\ Len(trips) \in Nat /\ Len(overspeeds) \in Nat /\ Len(idlings) \in Nat
  BY DEF TypeInv, TypesOK, Types, IdsExist
<1> QED
  BY <1>1, FreshType DEF Within, FreshState

(* A slot that awaits a call has an object. *)
LEMMA BusyObject ==
  ASSUME TypeInv, NEW s \in Slots, run[s].pc \in Calls
  PROVE  /\ run[s].obj \in Objs
         /\ Within(State(s))
         /\ Pkt(s) \in Packet
         /\ run[s].closeRead \in Times \cup {NoTime}
<1>1. run[s].obj \in Objs
  BY DEF TypeInv, TypesOK, Types, IdsExist, Calls, TripCalls, OverspeedCalls, IdlingCalls
<1> QED
  BY <1>1, HeapWithin DEF State, TypeInv, TypesOK, Types, IdsExist, Pkt

Unchanged0 == UNCHANGED <<stored, history, counters>>

LEMMA ReturnsType ==
  ASSUME TypeInv, NEW s \in Slots, NEW r,
         run[s].pc \in Calls, RowsGrow, Proceed(s, r), Unchanged0,
         r \in Continuation, WithinNext(r.st),
         r.pc = "createIdling" => r.val \in Times
  PROVE  TypeInv'
<1>1. /\ run[s].obj \in Objs
      /\ r.pc \in Calls /\ r.id \in Nat /\ r.val \in Nat
      /\ r.st \in RuntimeState
  BY BusyObject DEF Continuation
<1>2. heap' \in [Objs -> RuntimeState]
  BY <1>1 DEF Proceed, TypeInv, TypesOK, Types, IdsExist
<1>3. \A o \in Objs : WithinNext(heap'[o])
  <2> SUFFICES ASSUME NEW o \in Objs PROVE WithinNext(heap'[o])
    OBVIOUS
  <2>1. CASE o = run[s].obj
    BY <2>1, <1>1 DEF Proceed, TypeInv, TypesOK, Types, IdsExist
  <2>2. CASE o # run[s].obj
    BY <2>2, <1>1, HeapWithin, WithinGrows DEF Proceed, TypeInv, TypesOK, Types, IdsExist
  <2> QED
    BY <2>1, <2>2
<1>4. run' \in [Slots -> [pc : Calls \cup {"ready", "ingest"}, id : Nat,
                          val : Nat, pkt : Packet, obj : Objs \cup {NoObj},
                          closeRead : Times \cup {NoTime}]]
  <2> DEFINE new == [run[s] EXCEPT !.pc = r.pc, !.id = r.id, !.val = r.val]
  <2>1. new \in [pc : Calls \cup {"ready", "ingest"}, id : Nat, val : Nat,
                 pkt : Packet, obj : Objs \cup {NoObj},
                 closeRead : Times \cup {NoTime}]
    BY <1>1 DEF TypeInv, TypesOK, Types, IdsExist
  <2>2. run' = [run EXCEPT ![s] = new]
    BY DEF Proceed, TypeInv, TypesOK, Types, IdsExist
  <2> HIDE DEF new
  <2> QED
    BY <2>1, <2>2 DEF TypeInv, TypesOK, Types, IdsExist
<1>5. ASSUME NEW t \in Slots
      PROVE  /\ run'[t].obj = NoObj <=> run'[t].pc \in {"ready", "ingest"}
             /\ run'[t].pc = "createIdling" => run'[t].val \in Times
  <2>1. run'[t] = IF t = s
                  THEN [run[t] EXCEPT !.pc = r.pc, !.id = r.id, !.val = r.val]
                  ELSE run[t]
    BY DEF Proceed, TypeInv, TypesOK, Types, IdsExist
  <2>2. CASE t = s
    <3>1. /\ run'[t].obj = run[s].obj
          /\ run'[t].pc = r.pc
          /\ run'[t].val = r.val
      BY <2>1, <2>2 DEF TypeInv, TypesOK, Types, IdsExist
    <3> QED
      BY <3>1, <1>1, HandlerAssumption
      DEF Calls, TripCalls, OverspeedCalls, IdlingCalls
  <2>3. CASE t # s
    BY <2>1, <2>3 DEF TypeInv, TypesOK, Types, IdsExist
  <2> QED
    BY <2>2, <2>3
<1> QED
  BY <1>2, <1>3, <1>4, <1>5
  DEF TypeInv, TypesOK, Types, IdsExist, Unchanged0, counters, RowsGrow, WithinNext,
      TripRow, OverspeedRow, IdlingRow

(* A call of the after-trip part returns: r continues from an object st.   *)
LEMMA ContinuesWithin ==
  ASSUME TypeInv, RowsGrow, NEW st, NEW r, WithinNext(st), Continues(r, st)
  PROVE  /\ r \in Continuation
         /\ WithinNext(r.st)
         /\ r.pc = "createIdling" => r.val \in Times
<1>1. /\ Len(overspeeds') \in Nat /\ Len(idlings') \in Nat
  BY DEF RowsGrow
<1> QED
  BY <1>1 DEF Continues, WithinNext, Continuation

LEMMA AwaitTrips ==
  ASSUME NEW st \in RuntimeState, NEW call \in {"updateTrip", "playback", "persist"},
         NEW id \in Nat
  PROVE  /\ Await(st, call, id, 0) \in Continuation
         /\ Await(st, call, id, 0).st = st
         /\ Await(st, call, id, 0).pc = call
  BY DEF Await, Continuation, Calls, TripCalls

LEMMA CallReturnsType ==
  ASSUME TypeInv, NEW s \in Slots, CallReturns(s)
  PROVE  TypeInv'
<1>1. ASSUME NEW call \in Calls, NEW r, Returns(s, call, r)
      PROVE  /\ run[s].pc \in Calls
             /\ Proceed(s, r)
             /\ Unchanged0
             /\ RowsGrow
             /\ WithinNext(State(s))
             /\ Pkt(s) \in Packet
             /\ run[s].closeRead \in Times \cup {NoTime}
  <2>1. run[s].pc \in Calls /\ TakesEffect(s)
    BY <1>1 DEF Returns
  <2>2. RowsGrow
    BY <2>1, TakesEffectType DEF RowsGrow
  <2> QED
    BY <1>1, <2>1, <2>2, BusyObject, WithinGrows DEF Returns, Unchanged0
<1>2. ASSUME NEW call \in Calls, NEW r, Returns(s, call, r),
             NEW st, WithinNext(st), Continues(r, st)
      PROVE  TypeInv'
  BY <1>1, <1>2, ContinuesWithin, ReturnsType
<1> USE DEF Calls, TripCalls, OverspeedCalls, IdlingCalls
<1>3. CASE StartTripReturns(s)
  <2> DEFINE id == Len(trips) + 1
             st == [State(s) EXCEPT !.trip = id, !.pending = FALSE,
                                    !.closeTs = NoTime]
             r == Await(st, "updateTrip", id, 0)
  <2>1. Returns(s, "startTrip", r)
    BY <1>3 DEF StartTripReturns
  <2>2. Len(trips') = id /\ id \in Nat
    BY <2>1, TakesEffectType DEF Returns, TypeInv, TypesOK, Types, IdsExist
  <2>3. WithinNext(st)
    <3>1. WithinNext(State(s))
      BY <1>1, <2>1
    <3>2. st \in RuntimeState
      BY <3>1, <2>2 DEF WithinNext, RuntimeState
    <3>3. /\ st.trip = id
          /\ st.overEvent = State(s).overEvent
          /\ st.idleEvent = State(s).idleEvent
      BY <3>1 DEF WithinNext, RuntimeState
    <3> QED
      BY <3>1, <3>2, <3>3, <2>2 DEF WithinNext
  <2>4. r \in Continuation /\ r.st = st /\ r.pc = "updateTrip"
    BY <2>2, <2>3, AwaitTrips DEF WithinNext
  <2> HIDE DEF r, st, id
  <2> QED
    BY <1>1, <2>1, <2>3, <2>4, ReturnsType
<1>4. CASE UpdateTripReturns(s)
  <2> DEFINE r == Await(State(s), "playback", State(s).trip, 0)
  <2>1. Returns(s, "updateTrip", r)
    BY <1>4 DEF UpdateTripReturns
  <2>2. WithinNext(State(s))
    BY <1>1, <2>1
  <2>3. r \in Continuation /\ r.st = State(s) /\ r.pc = "playback"
    <3>1. State(s).trip \in Nat
      BY <2>2 DEF WithinNext, RuntimeState
    <3> QED
      BY <2>2, <3>1, AwaitTrips DEF WithinNext
  <2> HIDE DEF r
  <2> QED
    BY <1>1, <2>1, <2>2, <2>3, ReturnsType
<1>5. CASE PlaybackReturns(s)
  <2> DEFINE st == IF Pkt(s).ign THEN State(s)
                   ELSE Closing(State(s), Pkt(s), run[s].closeRead)
             r == AfterTrips(st, Pkt(s))
  <2>1. Returns(s, "playback", r)
    BY <1>5 DEF PlaybackReturns
  <2>2. WithinNext(State(s)) /\ Pkt(s) \in Packet
    BY <1>1, <2>1
  <2>3. WithinNext(st)
    <3>1. run[s].closeRead \in Times \cup {NoTime} /\ RowsGrow
      BY <1>1, <2>1
    <3>2. Len(trips') \in Nat /\ 0 <= Len(trips')
      BY <3>1 DEF RowsGrow
    <3> QED
      BY <2>2, <3>1, <3>2, ClosingType DEF WithinNext
  <2>4. Continues(r, st)
    BY <2>2, <2>3, AfterTripsContinues DEF WithinNext
  <2> HIDE DEF r, st
  <2> QED
    BY <1>2, <2>1, <2>3, <2>4
<1>6. CASE CreateOverspeedReturns(s)
  <2> DEFINE st == [State(s) EXCEPT !.overEvent = Len(overspeeds) + 1]
             r == AfterOverspeed(st, Pkt(s))
  <2>1. Returns(s, "createOverspeed", r)
    BY <1>6 DEF CreateOverspeedReturns
  <2>2. WithinNext(State(s)) /\ Pkt(s) \in Packet
    BY <1>1, <2>1
  <2>3. WithinNext(st)
    <3>1. Len(overspeeds') = Len(overspeeds) + 1 /\ Len(overspeeds) \in Nat
      BY <2>1, TakesEffectType DEF Returns, TypeInv, TypesOK, Types, IdsExist
    <3> QED
      BY <2>2, <3>1 DEF WithinNext, RuntimeState
  <2>4. Continues(r, st)
    BY <2>2, <2>3, AfterOverspeedContinues DEF WithinNext
  <2> HIDE DEF r, st
  <2> QED
    BY <1>2, <2>1, <2>3, <2>4
<1>7. CASE UpdateOverspeedReturns(s)
  <2>1. Returns(s, "updateOverspeed", AfterOverspeed(State(s), Pkt(s)))
    BY <1>7 DEF UpdateOverspeedReturns
  <2>2. WithinNext(State(s)) /\ Pkt(s) \in Packet
    BY <1>1, <2>1
  <2> QED
    BY <1>2, <2>1, <2>2, AfterOverspeedContinues DEF WithinNext
<1>8. CASE EndOverspeedReturns(s)
  <2> DEFINE st == NoOverspeed(State(s))
  <2>1. Returns(s, "endOverspeed", AfterOverspeed(st, Pkt(s)))
    BY <1>8 DEF EndOverspeedReturns
  <2>2. WithinNext(State(s)) /\ Pkt(s) \in Packet /\ RowsGrow
    BY <1>1, <2>1
  <2>3. WithinNext(st)
    BY <2>2, NoOverspeedType DEF WithinNext, RowsGrow
  <2> HIDE DEF st
  <2> QED
    BY <1>2, <2>1, <2>2, <2>3, AfterOverspeedContinues DEF WithinNext
<1>9. CASE CreateIdlingReturns(s)
  <2> DEFINE st == [State(s) EXCEPT !.idleActive = TRUE,
                                    !.idleEvent = Len(idlings) + 1]
             r == AfterIdling(st, Pkt(s))
  <2>1. Returns(s, "createIdling", r)
    BY <1>9 DEF CreateIdlingReturns
  <2>2. WithinNext(State(s)) /\ Pkt(s) \in Packet
    BY <1>1, <2>1
  <2>3. WithinNext(st)
    <3>1. Len(idlings') = Len(idlings) + 1 /\ Len(idlings) \in Nat
      BY <2>1, TakesEffectType DEF Returns, TypeInv, TypesOK, Types, IdsExist
    <3>2. /\ st \in RuntimeState
          /\ st.trip = State(s).trip
          /\ st.overEvent = State(s).overEvent
          /\ st.idleEvent = Len(idlings) + 1
      <4>1. State(s) \in RuntimeState /\ Len(idlings) + 1 \in Nat
        BY <2>2, <3>1 DEF WithinNext
      <4> QED
        BY <4>1, IdlingOpenedType
    <3> HIDE DEF st
    <3> QED
      BY <2>2, <3>1, <3>2 DEF WithinNext
  <2>4. Continues(r, st)
    BY <2>2, <2>3, AfterIdlingContinues DEF WithinNext
  <2> HIDE DEF r, st
  <2> QED
    BY <1>2, <2>1, <2>3, <2>4
<1>10. CASE UpdateIdlingReturns(s)
  <2>1. Returns(s, "updateIdling", AfterIdling(State(s), Pkt(s)))
    BY <1>10 DEF UpdateIdlingReturns
  <2>2. WithinNext(State(s)) /\ Pkt(s) \in Packet
    BY <1>1, <2>1
  <2> QED
    BY <1>2, <2>1, <2>2, AfterIdlingContinues DEF WithinNext
<1>11. CASE EndIdlingReturns(s)
  <2> DEFINE st == NoIdling(State(s))
             r == Await(st, "persist", 0, 0)
  <2>1. Returns(s, "endIdling", r)
    BY <1>11 DEF EndIdlingReturns
  <2>2. WithinNext(State(s)) /\ RowsGrow
    BY <1>1, <2>1
  <2>3. WithinNext(st)
    BY <2>2, NoIdlingType DEF WithinNext, RowsGrow
  <2>4. r \in Continuation /\ r.st = st /\ r.pc = "persist"
    BY <2>3, AwaitTrips DEF WithinNext
  <2> HIDE DEF r, st
  <2> QED
    BY <1>1, <2>1, <2>3, <2>4, ReturnsType
<1> QED
  BY <1>3, <1>4, <1>5, <1>6, <1>7, <1>8, <1>9, <1>10, <1>11 DEF CallReturns

(* A slot whose handler ends is free: it refers to no object. *)
SlotType == [pc : Calls \cup {"ready", "ingest"}, id : Nat, val : Nat,
             pkt : Packet, obj : Objs \cup {NoObj},
             closeRead : Times \cup {NoTime}]

LEMMA FreeType ==
  /\ Free \in SlotType
  /\ Free.obj = NoObj /\ Free.pc = "ready"
<1>1. NoPacket \in Packet
  <2>1. 0 \in Times
    BY HandlerAssumption DEF Times
  <2> QED
    BY <2>1, HandlerAssumption DEF NoPacket, Packet
<1> QED
  BY <1>1 DEF Free, SlotType

(* What the collection of unreferenced objects leaves. *)
LEMMA SweepType ==
  ASSUME TypeInv, NEW keep, NEW rn
  PROVE  /\ Sweep(heap, keep, rn) \in [Objs -> RuntimeState]
         /\ \A o \in Objs : Within(Sweep(heap, keep, rn)[o])
<1>1. ASSUME NEW o \in Objs
      PROVE  Sweep(heap, keep, rn)[o] \in {heap[o], FreshState}
  BY DEF Sweep
<1>2. \A o \in Objs : Within(Sweep(heap, keep, rn)[o])
  BY <1>1, HeapWithin, FreshWithin
<1> QED
  BY <1>2 DEF Sweep, Within

(* The part of TypeInv about slots, and how it is established for a change *)
(* of one slot.                                                            *)
SlotsOK(rn) ==
  /\ rn \in [Slots -> SlotType]
  /\ \A s \in Slots : /\ rn[s].obj = NoObj <=> rn[s].pc \in {"ready", "ingest"}
                      /\ rn[s].pc = "createIdling" => rn[s].val \in Times

LEMMA SlotChanged ==
  ASSUME TypeInv, NEW s \in Slots, NEW new \in SlotType,
         new.obj = NoObj <=> new.pc \in {"ready", "ingest"},
         new.pc = "createIdling" => new.val \in Times
  PROVE  SlotsOK([run EXCEPT ![s] = new])
<1>1. run \in [Slots -> SlotType]
  BY DEF TypeInv, TypesOK, Types, IdsExist, SlotType
<1>2. [run EXCEPT ![s] = new] \in [Slots -> SlotType]
  BY <1>1
<1>3. \A t \in Slots : [run EXCEPT ![s] = new][t] = IF t = s THEN new ELSE run[t]
  BY <1>1
<1> QED
  BY <1>2, <1>3 DEF SlotsOK, TypeInv, TypesOK, Types, IdsExist

(* How TypeInv' follows from its parts. *)
LEMMA TypeInvNext ==
  ASSUME TypeInv, RowsGrow, SlotsOK(run'),
         heap' \in [Objs -> RuntimeState],
         \A o \in Objs : Within(heap'[o]),
         stored' \in Objs \cup {NoObj}, last' \in Packet,
         offSince' \in Times \cup {NoTime}, late' \in 0 .. MaxLate,
         failures' \in 0 .. MaxFailures, losses' \in 0 .. MaxLosses
  PROVE  TypeInv'
<1>1. \A o \in Objs : WithinNext(heap'[o])
  BY WithinGrows
<1> QED
  BY <1>1
  DEF TypeInv, TypesOK, Types, IdsExist, SlotsOK, SlotType, RowsGrow, WithinNext,
      TripRow, OverspeedRow, IdlingRow

LEMMA UnchangedRowsGrow ==
  ASSUME TypeInv, UNCHANGED rows
  PROVE  RowsGrow
<1>1. /\ Len(trips) \in Nat /\ Len(overspeeds) \in Nat /\ Len(idlings) \in Nat
  BY DEF TypeInv, TypesOK, Types, IdsExist
<1> QED
  BY <1>1
  DEF TypeInv, TypesOK, Types, IdsExist, RowsGrow, rows, TripRow, OverspeedRow, IdlingRow

LEMMA ReceiveType ==
  ASSUME TypeInv, NEW s \in Slots, NEW p \in Packet, Receive(s, p)
  PROVE  TypeInv'
<1> DEFINE new == [run[s] EXCEPT !.pc = "ingest", !.pkt = p]
<1>1. run[s] \in SlotType /\ run[s].pc = "ready" /\ run[s].obj = NoObj
  BY DEF TypeInv, TypesOK, Types, IdsExist, SlotType, Receive, Busy
<1>2. new \in SlotType /\ new.obj = NoObj /\ new.pc = "ingest"
  BY <1>1 DEF SlotType
<1>3. run' = [run EXCEPT ![s] = new]
  BY DEF Receive, TypeInv, TypesOK, Types, IdsExist
<1>4. SlotsOK(run')
  <2> HIDE DEF new
  <2> QED
    BY <1>2, <1>3, SlotChanged
<1>5. offSince' \in Times \cup {NoTime}
  BY DEF Receive, TypeInv, TypesOK, Types, IdsExist, Packet
<1>6. \A o \in Objs : Within(heap'[o])
  BY HeapWithin DEF Receive
<1>7. late' \in 0 .. MaxLate
  <2>1. late \in 0 .. MaxLate /\ MaxLate \in Nat
    BY HandlerAssumption DEF TypeInv, TypesOK, Types
  <2> QED
    BY <2>1 DEF Receive
<1> QED
  BY <1>4, <1>5, <1>6, <1>7, UnchangedRowsGrow, TypeInvNext
  DEF Receive, TypeInv, TypesOK, Types, IdsExist, counters

LEMMA ReadStateType ==
  ASSUME TypeInv, NEW s \in Slots, ReadState(s)
  PROVE  TypeInv'
<1> DEFINE st == IF stored = NoObj THEN FreshState ELSE heap[stored]
           r == Begin(st, Pkt(s))
<1>1. /\ Within(st) /\ st \in RuntimeState
  BY HeapWithin, FreshWithin DEF TypeInv, TypesOK, Types, IdsExist, Within
<1>2. /\ st.closeTs \in Times \cup {NoTime}
      /\ st.trip \in Nat /\ st.overEvent \in Nat /\ st.idleEvent \in Nat
  BY <1>1 DEF RuntimeState
<1>3. Pkt(s) \in Packet
  BY DEF TypeInv, TypesOK, Types, IdsExist, Pkt
<1>4. Begins(r, st)
  BY <1>1, <1>3, BeginBegins
<1>5. PICK o \in Objs :
        /\ heap' = [heap EXCEPT ![o] = r.st]
        /\ run' = [run EXCEPT ![s].pc = r.pc, ![s].id = r.id, ![s].val = r.val,
                              ![s].obj = o, ![s].closeRead = st.closeTs]
  BY DEF ReadState
<1> HIDE DEF r, st
<1>6. /\ r.st \in RuntimeState /\ r.pc \in Calls /\ r.id \in Nat /\ r.val \in Nat
      /\ r.pc = "createIdling" => r.val \in Times
  BY <1>4 DEF Begins, Continuation
<1>7. Within(r.st)
  <2>1. /\ Len(trips) \in Nat /\ Len(overspeeds) \in Nat /\ Len(idlings) \in Nat
    BY DEF TypeInv, TypesOK, Types, IdsExist
  <2> QED
    BY <1>1, <1>4, <1>6, <2>1 DEF Within, Begins
<1>8. heap' \in [Objs -> RuntimeState] /\ \A q \in Objs : Within(heap'[q])
  BY <1>5, <1>6, <1>7, HeapWithin DEF TypeInv, TypesOK, Types, IdsExist
<1> DEFINE new == [run[s] EXCEPT !.pc = r.pc, !.id = r.id, !.val = r.val,
                                 !.obj = o, !.closeRead = st.closeTs]
<1>9. /\ run[s] \in SlotType
      /\ run' = [run EXCEPT ![s] = new]
  BY <1>5 DEF TypeInv, TypesOK, Types, IdsExist, SlotType
<1>10. /\ new \in SlotType /\ new.obj = o /\ new.pc = r.pc /\ new.val = r.val
  BY <1>2, <1>6, <1>9 DEF SlotType
<1>11. SlotsOK(run')
  <2>1. o # NoObj /\ r.pc \notin {"ready", "ingest"}
    BY <1>6, HandlerAssumption
    DEF Calls, TripCalls, OverspeedCalls, IdlingCalls
  <2> HIDE DEF new
  <2> QED
    BY <1>6, <1>9, <1>10, <2>1, SlotChanged
<1> QED
  BY <1>8, <1>11, UnchangedRowsGrow, TypeInvNext
  DEF ReadState, TypeInv, TypesOK, Types, IdsExist, counters

LEMMA FreedType ==
  ASSUME TypeInv, NEW s \in Slots
  PROVE  SlotsOK([run EXCEPT ![s] = Free])
  BY FreeType, SlotChanged

LEMMA PersistStateType ==
  ASSUME TypeInv, NEW s \in Slots, PersistState(s)
  PROVE  TypeInv'
<1>1. run[s].obj \in Objs
  BY BusyObject DEF PersistState, Calls
<1>2. stored' \in Objs \cup {NoObj}
  BY <1>1 DEF PersistState
<1>3. SlotsOK(run')
  BY FreedType DEF PersistState
<1>4. heap' \in [Objs -> RuntimeState] /\ \A o \in Objs : Within(heap'[o])
  BY SweepType DEF PersistState
<1> QED
  BY <1>2, <1>3, <1>4, UnchangedRowsGrow, TypeInvNext
  DEF PersistState, TypeInv, TypesOK, Types, IdsExist, counters

LEMMA AbortType ==
  ASSUME TypeInv, NEW s \in Slots, Abort(s), RowsGrow,
         failures' \in 0 .. MaxFailures, losses' \in 0 .. MaxLosses
  PROVE  TypeInv'
<1>1. SlotsOK(run')
  BY FreedType DEF Abort
<1>2. heap' \in [Objs -> RuntimeState] /\ \A o \in Objs : Within(heap'[o])
  BY SweepType DEF Abort
<1> QED
  BY <1>1, <1>2, TypeInvNext DEF Abort, TypeInv, TypesOK, Types, IdsExist

LEMMA CallFailsType ==
  ASSUME TypeInv, NEW s \in Slots, CallFails(s)
  PROVE  TypeInv'
<1>1. RowsGrow
  BY UnchangedRowsGrow, TakesEffectType DEF CallFails, RowsGrow
<1>2. failures' \in 0 .. MaxFailures /\ losses' \in 0 .. MaxLosses
  BY HandlerAssumption DEF CallFails, TypeInv, TypesOK, Types, IdsExist
<1> QED
  BY <1>1, <1>2, AbortType DEF CallFails

LEMMA LossType ==
  ASSUME TypeInv, Restart \/ Expire
  PROVE  TypeInv'
<1>1. SlotsOK(run)
  BY DEF TypeInv, TypesOK, Types, IdsExist, SlotsOK, SlotType
<1>2. SlotsOK([s \in Slots |-> Free])
  BY FreeType DEF SlotsOK
<1>3. SlotsOK(run')
  BY <1>1, <1>2 DEF Restart, Expire
<1>4. heap' \in [Objs -> RuntimeState] /\ \A o \in Objs : Within(heap'[o])
  BY SweepType DEF Restart, Expire
<1>5. losses' \in 0 .. MaxLosses /\ failures' \in 0 .. MaxFailures
  BY HandlerAssumption DEF Restart, Expire, TypeInv, TypesOK, Types, IdsExist
<1>6. stored' \in Objs \cup {NoObj} /\ last' \in Packet
      /\ offSince' \in Times \cup {NoTime} /\ late' \in 0 .. MaxLate
  BY DEF Restart, Expire, TypeInv, TypesOK, Types, IdsExist
<1> QED
  BY <1>3, <1>4, <1>5, <1>6, UnchangedRowsGrow, TypeInvNext DEF Restart, Expire

LEMMA StutterType ==
  ASSUME TypeInv, UNCHANGED vars
  PROVE  TypeInv'
  BY DEF TypeInv, TypesOK, Types, IdsExist, vars, counters

LEMMA InitType ==
  ASSUME Init
  PROVE  TypeInv
<1>1. NoPacket \in Packet /\ NoTime \in Times \cup {NoTime}
  BY FreeType DEF Free, SlotType
<1>2. SlotsOK(run)
  BY FreeType DEF Init, SlotsOK
<1>3. /\ trips \in Seq(TripRow) /\ overspeeds \in Seq(OverspeedRow)
      /\ idlings \in Seq(IdlingRow)
      /\ Len(trips) = 0 /\ Len(overspeeds) = 0 /\ Len(idlings) = 0
  BY DEF Init
<1>4. \A o \in Objs : heap[o] = FreshState
  BY DEF Init
<1>5. FreshState.trip = 0 /\ FreshState.overEvent = 0 /\ FreshState.idleEvent = 0
  BY DEF FreshState
<1>6. heap \in [Objs -> RuntimeState]
  BY FreshType DEF Init
<1> QED
  BY <1>1, <1>2, <1>3, <1>4, <1>5, <1>6, HandlerAssumption
  DEF Init, TypeInv, TypesOK, Types, IdsExist, SlotsOK, SlotType, TripRow, OverspeedRow, IdlingRow

LEMMA NextType ==
  ASSUME TypeInv, [Next]_vars
  PROVE  TypeInv'
<1>1. ASSUME NEW s \in Slots, CallRefused(s)
      PROVE  TypeInv'
  <2>1. failures' \in 0 .. MaxFailures /\ losses' \in 0 .. MaxLosses
    BY <1>1 DEF CallRefused, counters, TypeInv, TypesOK, Types, IdsExist
  <2> QED
    BY <1>1, <2>1, UnchangedRowsGrow, AbortType DEF CallRefused
<1> QED
  BY <1>1, ReceiveType, ReadStateType, CallReturnsType, PersistStateType,
     CallFailsType, LossType, StutterType
  DEF Next, AtBound

----------------------------------------------------------------------------
(* Active idling has an event.                                             *)

IdleOK(st) == st.idleActive => st.idleEvent # 0

LEMMA AfterIdlingIdle ==
  ASSUME NEW st \in RuntimeState, IdleOK(st), NEW p \in Packet
  PROVE  IdleOK(AfterIdling(st, p).st)
  BY DEF AfterIdling, Await, NoIdling, RuntimeState, IdleOK

LEMMA StandingStillIdle ==
  ASSUME NEW st \in RuntimeState, IdleOK(st), NEW p \in Packet
  PROVE  IdleOK(StandingStill(st, p).st)
<1> DEFINE open == IF st.idleStart = NoTime
                   THEN [st EXCEPT !.idleStart = p.time] ELSE st
<1>1. open \in RuntimeState /\ IdleOK(open)
  BY DEF RuntimeState, Packet, IdleOK
<1>2. IdleOK(AfterIdling(open, p).st)
  BY <1>1, AfterIdlingIdle
<1>3. StandingStill(st, p).st \in {open, AfterIdling(open, p).st}
  BY DEF StandingStill, Await
<1> QED
  BY <1>1, <1>2, <1>3

LEMMA AfterOverspeedIdle ==
  ASSUME NEW st \in RuntimeState, IdleOK(st), NEW p \in Packet
  PROVE  IdleOK(AfterOverspeed(st, p).st)
<1> DEFINE reset == [st EXCEPT !.idleEvent = 0, !.idleStart = NoTime]
<1>1. ~st.idleActive => reset \in RuntimeState /\ IdleOK(reset)
  BY DEF RuntimeState, IdleOK
<1>2. \/ AfterOverspeed(st, p) \in {StandingStill(st, p), AfterIdling(st, p)}
      \/ ~st.idleActive /\ AfterOverspeed(st, p) = AfterIdling(reset, p)
  BY DEF AfterOverspeed
<1> QED
  BY <1>1, <1>2, StandingStillIdle, AfterIdlingIdle

LEMMA AfterTripsIdle ==
  ASSUME NEW st \in RuntimeState, IdleOK(st), NEW p \in Packet
  PROVE  IdleOK(AfterTrips(st, p).st)
<1> DEFINE start == [st EXCEPT !.overActive = TRUE, !.overMax = p.speed]
           top == IF p.speed > st.overMax THEN p.speed ELSE st.overMax
           more == [st EXCEPT !.overMax = top]
<1>1. IdleOK(start) /\ IdleOK(more)
  BY DEF RuntimeState, IdleOK
<1>2. AfterTrips(st, p).st \in {start, more, st, AfterOverspeed(st, p).st}
  BY DEF AfterTrips, Speeding, Await
<1> QED
  BY <1>1, <1>2, AfterOverspeedIdle

LEMMA TripPartIdle ==
  ASSUME NEW st \in RuntimeState, IdleOK(st), NEW p \in Packet,
         NEW c \in Times \cup {NoTime}
  PROVE  IdleOK(Closing(st, p, c)) /\ IdleOK(Resumed(st, p))
<1>1. IdleOK(Finalized(st))
  BY DEF Finalized, RuntimeState, IdleOK
<1>2. IdleOK([st EXCEPT !.pending = TRUE, !.closeTs = p.time])
  BY DEF RuntimeState, IdleOK
<1>3. IdleOK([st EXCEPT !.pending = FALSE, !.closeTs = NoTime])
  BY DEF RuntimeState, IdleOK
<1> QED
  BY <1>1, <1>2, <1>3 DEF Closing, Resumed

LEMMA BeginIdle ==
  ASSUME NEW st \in RuntimeState, IdleOK(st), NEW p \in Packet
  PROVE  IdleOK(Begin(st, p).st)
<1> DEFINE start == IF p.ign THEN Resumed(st, p) ELSE st
<1>1. start \in RuntimeState /\ IdleOK(start)
  BY ResumedType, TripPartIdle, TimesNat
<1>2. Begin(st, p).st \in {start, AfterTrips(start, p).st}
  BY DEF Begin, Await
<1> HIDE DEF start
<1> QED
  BY <1>1, <1>2, AfterTripsIdle

LEMMA CallReturnsIdle ==
  ASSUME TypeInv, ActiveIdlingHasEvent, NEW s \in Slots, CallReturns(s)
  PROVE  ActiveIdlingHasEvent'
<1>1. ASSUME NEW call \in Calls, NEW r, Returns(s, call, r), IdleOK(r.st)
      PROVE  ActiveIdlingHasEvent'
  <2>1. \A o \in Objs : heap'[o] \in {heap[o], r.st}
    BY <1>1 DEF Returns, Proceed, TypeInv, TypesOK, Types, IdsExist
  <2> QED
    BY <1>1, <2>1 DEF ActiveIdlingHasEvent, IdleOK
<1>2. ASSUME NEW call \in Calls, run[s].pc = call
      PROVE  /\ State(s) \in RuntimeState /\ Pkt(s) \in Packet
             /\ IdleOK(State(s))
             /\ run[s].closeRead \in Times \cup {NoTime}
  BY <1>2, BusyObject DEF Within, State, ActiveIdlingHasEvent, IdleOK
<1> USE DEF Calls, TripCalls, OverspeedCalls, IdlingCalls
<1>3. CASE StartTripReturns(s)
  <2> DEFINE st == [State(s) EXCEPT !.trip = Len(trips) + 1,
                                    !.pending = FALSE, !.closeTs = NoTime]
  <2>1. Returns(s, "startTrip", Await(st, "updateTrip", Len(trips) + 1, 0))
    BY <1>3 DEF StartTripReturns
  <2>2. IdleOK(st)
    BY <1>2, <2>1 DEF Returns, RuntimeState, IdleOK
  <2> HIDE DEF st
  <2> QED
    BY <1>1, <2>1, <2>2 DEF Await
<1>4. CASE UpdateTripReturns(s)
  BY <1>1, <1>2, <1>4 DEF UpdateTripReturns, Returns, Await
<1>5. CASE PlaybackReturns(s)
  <2> DEFINE st == IF Pkt(s).ign THEN State(s)
                   ELSE Closing(State(s), Pkt(s), run[s].closeRead)
  <2>1. Returns(s, "playback", AfterTrips(st, Pkt(s)))
    BY <1>5 DEF PlaybackReturns
  <2>2. st \in RuntimeState /\ IdleOK(st) /\ Pkt(s) \in Packet
    BY <1>2, <2>1, ClosingType, TripPartIdle DEF Returns
  <2> HIDE DEF st
  <2> QED
    BY <1>1, <2>1, <2>2, AfterTripsIdle
<1>6. CASE CreateOverspeedReturns(s)
  <2> DEFINE st == [State(s) EXCEPT !.overEvent = Len(overspeeds) + 1]
  <2>1. Returns(s, "createOverspeed", AfterOverspeed(st, Pkt(s)))
    BY <1>6 DEF CreateOverspeedReturns
  <2>2. Len(overspeeds) \in Nat
    BY DEF TypeInv, TypesOK, Types, IdsExist
  <2>3. st \in RuntimeState /\ IdleOK(st) /\ Pkt(s) \in Packet
    BY <1>2, <2>1, <2>2 DEF Returns, RuntimeState, IdleOK
  <2> HIDE DEF st
  <2> QED
    BY <1>1, <2>1, <2>3, AfterOverspeedIdle
<1>7. CASE UpdateOverspeedReturns(s)
  BY <1>1, <1>2, <1>7, AfterOverspeedIdle DEF UpdateOverspeedReturns, Returns
<1>8. CASE EndOverspeedReturns(s)
  <2> DEFINE st == NoOverspeed(State(s))
  <2>1. Returns(s, "endOverspeed", AfterOverspeed(st, Pkt(s)))
    BY <1>8 DEF EndOverspeedReturns
  <2>2. State(s) \in RuntimeState /\ IdleOK(State(s)) /\ Pkt(s) \in Packet
    BY <1>2, <2>1 DEF Returns
  <2>3. st \in RuntimeState /\ IdleOK(st)
    BY <2>2 DEF NoOverspeed, RuntimeState, IdleOK
  <2> HIDE DEF st
  <2> QED
    BY <1>1, <2>1, <2>2, <2>3, AfterOverspeedIdle
<1>9. CASE CreateIdlingReturns(s)
  <2> DEFINE st == [State(s) EXCEPT !.idleActive = TRUE,
                                    !.idleEvent = Len(idlings) + 1]
  <2>1. Returns(s, "createIdling", AfterIdling(st, Pkt(s)))
    BY <1>9 DEF CreateIdlingReturns
  <2>2. Len(idlings) + 1 \in Nat /\ Len(idlings) + 1 # 0
    BY DEF TypeInv, TypesOK, Types, IdsExist
  <2>3. State(s) \in RuntimeState /\ Pkt(s) \in Packet
    BY <1>2, <2>1 DEF Returns
  <2>4. st \in RuntimeState /\ st.idleEvent = Len(idlings) + 1
    BY <2>2, <2>3, IdlingOpenedType
  <2>5. IdleOK(st)
    BY <2>2, <2>4 DEF IdleOK
  <2> HIDE DEF st
  <2> QED
    BY <1>1, <2>1, <2>3, <2>4, <2>5, AfterIdlingIdle
<1>10. CASE UpdateIdlingReturns(s)
  BY <1>1, <1>2, <1>10, AfterIdlingIdle DEF UpdateIdlingReturns, Returns
<1>11. CASE EndIdlingReturns(s)
  <2>1. Returns(s, "endIdling", Await(NoIdling(State(s)), "persist", 0, 0))
    BY <1>11 DEF EndIdlingReturns
  <2>2. IdleOK(NoIdling(State(s)))
    BY <1>2, <2>1 DEF Returns, NoIdling, RuntimeState, IdleOK
  <2> QED
    BY <1>1, <2>1, <2>2 DEF Await
<1> QED
  BY <1>3, <1>4, <1>5, <1>6, <1>7, <1>8, <1>9, <1>10, <1>11 DEF CallReturns

LEMMA NextIdle ==
  ASSUME TypeInv, ActiveIdlingHasEvent, [Next]_vars
  PROVE  ActiveIdlingHasEvent'
<1>1. IdleOK(FreshState)
  BY DEF FreshState, IdleOK
<1>2. ASSUME NEW keep, NEW rn, heap' = Sweep(heap, keep, rn)
      PROVE  ActiveIdlingHasEvent'
  <2>1. \A o \in Objs : heap'[o] \in {heap[o], FreshState}
    BY <1>2 DEF Sweep
  <2> QED
    BY <1>1, <2>1 DEF ActiveIdlingHasEvent, IdleOK
<1>3. ASSUME NEW s \in Slots, ReadState(s)
      PROVE  ActiveIdlingHasEvent'
  <2> DEFINE st == IF stored = NoObj THEN FreshState ELSE heap[stored]
  <2>1. st \in RuntimeState /\ IdleOK(st) /\ Pkt(s) \in Packet
    BY <1>1, FreshType
    DEF TypeInv, TypesOK, Types, IdsExist, Pkt, ActiveIdlingHasEvent, IdleOK
  <2>2. IdleOK(Begin(st, Pkt(s)).st)
    <3> HIDE DEF st
    <3> QED
      BY <2>1, BeginIdle
  <2>3. PICK o \in Objs : heap' = [heap EXCEPT ![o] = Begin(st, Pkt(s)).st]
    BY <1>3 DEF ReadState
  <2>4. \A q \in Objs : heap'[q] \in {heap[q], Begin(st, Pkt(s)).st}
    BY <2>3 DEF TypeInv, TypesOK, Types, IdsExist
  <2> QED
    BY <2>2, <2>4 DEF ActiveIdlingHasEvent, IdleOK
<1>4. ASSUME NEW s \in Slots, PersistState(s) \/ CallRefused(s) \/ CallFails(s)
      PROVE  ActiveIdlingHasEvent'
  BY <1>2, <1>4 DEF PersistState, CallRefused, CallFails, Abort
<1>5. ASSUME Restart \/ Expire
      PROVE  ActiveIdlingHasEvent'
  BY <1>2, <1>5 DEF Restart, Expire
<1>6. ASSUME UNCHANGED heap
      PROVE  ActiveIdlingHasEvent'
  BY <1>6 DEF ActiveIdlingHasEvent
<1> QED
  BY <1>3, <1>4, <1>5, <1>6, CallReturnsIdle
  DEF Next, Receive, AtBound, vars

(* With any number of invocations interleaved over either store, whatever  *)
(* calls fail and whenever the state is lost, no object says idle without  *)
(* the id of its row: the handler's branch for that case is dead code.     *)
THEOREM IdlingNamesItsRow == Spec => []ActiveIdlingHasEvent
<1>1. Init => TypeInv /\ ActiveIdlingHasEvent
  BY InitType DEF Init, ActiveIdlingHasEvent, FreshState
<1>2. TypeInv /\ ActiveIdlingHasEvent /\ [Next]_vars
        => TypeInv' /\ ActiveIdlingHasEvent'
  BY NextType, NextIdle
<1> QED
  BY <1>1, <1>2, PTL DEF Spec

----------------------------------------------------------------------------
(* Packets handled one at a time.                                         *)

(* The hypotheses of the theorems: constraints on the constants. *)
Alone == \A s, t \in Slots : s = t

OneAtATime == StoreMode = "memory" /\ Alone

SlotTrip(s) ==
  /\ Busy(s) => Pkt(s).time = last.time
  /\ run[s].obj # NoObj => stored \in {NoObj, run[s].obj}
  /\ run[s].pc = "startTrip" => State(s).trip = 0
  /\ run[s].pc = "updateTrip" => run[s].id = State(s).trip /\ run[s].id # 0

Unused(o) == o # stored /\ \A s \in Slots : run[s].obj # o

ObjectTrip(o) ==
  /\ heap[o].trip \in {0, Len(trips)}
  /\ Unused(o) => heap[o].trip = 0

(* The part of TripInv about objects and the slots that use them. *)
ObjectsInv ==
  /\ \A s \in Slots : SlotTrip(s)
  /\ \A o \in Objs : ObjectTrip(o)

TripInv ==
  /\ late = 0 => Log!TripsDisjoint /\ Log!Latest(last.time)
  /\ ObjectsInv

Inv == TypeInv /\ TripInv

LEMMA Facts ==
  ASSUME Inv
  PROVE  /\ trips \in Seq(TripRow) /\ Len(trips) \in Nat
         /\ last.time \in Times /\ last.time \in Int
         /\ \A i \in 1 .. Len(trips) :
              trips[i].start \in Int /\ trips[i].end \in Int
<1>1. /\ trips \in Seq(TripRow) /\ Len(trips) \in Nat
      /\ last.time \in Times
  BY DEF Inv, TypeInv, TypesOK, Types, IdsExist, TripRow, Packet
<1>2. \A i \in 1 .. Len(trips) : trips[i] \in TripRow
  BY <1>1, ElementOfSeq
<1>3. \A i \in 1 .. Len(trips) : trips[i].start \in Times /\ trips[i].end \in Times
  BY <1>2 DEF TripRow
<1>4. Times \subseteq Int
  BY TimesNat
<1> QED
  BY <1>1, <1>3, <1>4

(* With one invocation, every object but the one it works on names no trip. *)
LEMMA OtherObjects ==
  ASSUME OneAtATime, Inv, NEW s \in Slots, run[s].obj \in Objs,
         NEW o \in Objs, o # run[s].obj
  PROVE  heap[o].trip = 0
<1>1. Unused(o)
  BY HandlerAssumption DEF OneAtATime, Alone, Inv, TripInv, ObjectsInv, SlotTrip, Unused
<1> QED
  BY <1>1 DEF Inv, TripInv, ObjectsInv, ObjectTrip

(* The effect of a call on the trip table is a step of the log. *)
LEMMA TakesEffectStep ==
  ASSUME Inv, NEW s \in Slots, run[s].pc \in Calls, TakesEffect(s), late' = late
  PROVE  \/ UNCHANGED trips
         \/ Log!StartTrip(last.time)
         \/ Log!ExtendTrip(last.time)
<1>1. Busy(s) /\ Pkt(s).time = last.time
  BY DEF Inv, TripInv, ObjectsInv, SlotTrip, Busy, Calls, TripCalls, OverspeedCalls,
         IdlingCalls
<1>2. CASE run[s].pc = "startTrip"
  BY <1>1, <1>2
  DEF TakesEffect, TripsAfter, Log!StartTrip, Inv, TripInv
<1>3. CASE run[s].pc = "updateTrip"
  <2>1. run[s].obj \in Objs
    BY BusyObject DEF Inv
  <2>2. run[s].id = Len(trips) /\ run[s].id # 0
    BY <1>3, <2>1 DEF Inv, TripInv, ObjectsInv, SlotTrip, ObjectTrip, State
  <2>3. trips # <<>>
    BY <2>2, Facts, EmptySeq
  <2> QED
    BY <1>1, <1>3, <2>2, <2>3
    DEF TakesEffect, TripsAfter, Log!ExtendTrip, Inv, TripInv
<1>4. CASE run[s].pc \notin {"startTrip", "updateTrip"}
  BY <1>4 DEF TakesEffect, TripsAfter
<1> QED
  BY <1>2, <1>3, <1>4

(* A step of the log at the newest instant keeps its trips disjoint. *)
LEMMA LogStep ==
  ASSUME Inv, late = 0, late' = 0,
         last' = last \/ (last'.time \in Int /\ last'.time >= last.time),
         \/ UNCHANGED trips
         \/ Log!StartTrip(last.time) /\ last' = last
         \/ Log!ExtendTrip(last.time) /\ last' = last
  PROVE  Log!TripsDisjoint' /\ Log!Latest(last.time)'
<1> USE DEF Log!TripsDisjoint, Log!Latest
<1>1. /\ Log!TripsDisjoint
      /\ Log!Latest(last.time)
  BY DEF Inv, TripInv
<1>2. CASE UNCHANGED trips
  <2>1. trips # <<>> => Len(trips) \in 1 .. Len(trips)
    BY Facts, EmptySeq
  <2> QED
    BY <1>1, <1>2, <2>1, Facts
<1>3. CASE Log!StartTrip(last.time) /\ last' = last
  <2> DEFINE new == [start |-> last.time, end |-> last.time]
  <2>1. trips' = Append(trips, new)
    BY <1>3 DEF Log!StartTrip
  <2>2. new \in TripRow
    BY Facts DEF TripRow
  <2>3. /\ Len(trips') = Len(trips) + 1
        /\ \A i \in 1 .. Len(trips) : trips'[i] = trips[i]
        /\ trips'[Len(trips) + 1] = new
    BY <2>1, <2>2, Facts, AppendProperties
  <2>4. \A i \in 1 .. Len(trips) : trips[i].end <= last.time
    <3> SUFFICES ASSUME NEW i \in 1 .. Len(trips) PROVE trips[i].end <= last.time
      OBVIOUS
    <3>1. trips # <<>> /\ Len(trips) \in 1 .. Len(trips)
      BY Facts
    <3>2. trips[Len(trips)].end <= last.time
      BY <1>1, <3>1
    <3>3. CASE i < Len(trips)
      BY <1>1, <3>1, <3>2, <3>3, Facts
    <3>4. CASE i = Len(trips)
      BY <3>2, <3>4
    <3> QED
      BY <3>3, <3>4, Facts
  <2>5. /\ trips'[Len(trips) + 1].start = last.time
        /\ trips'[Len(trips) + 1].end = last.time
    BY <2>3
  <2>6. trips' # <<>>
    BY <2>3, Facts
  <2>7. Log!Latest(last.time)'
    BY <1>3, <2>3, <2>5, Facts
  <2>8. \A i \in 1 .. Len(trips') : trips'[i].start <= trips'[i].end
    BY <1>1, <2>3, <2>5, Facts
  <2>9. \A i, j \in 1 .. Len(trips') :
          i < j => trips'[i].end <= trips'[j].start
    <3> SUFFICES ASSUME NEW i \in 1 .. Len(trips'), NEW j \in 1 .. Len(trips'),
                        i < j
                 PROVE  trips'[i].end <= trips'[j].start
      OBVIOUS
    <3>1. i \in 1 .. Len(trips)
      BY <2>3, Facts
    <3>2. trips'[i] = trips[i]
      BY <2>3, <3>1
    <3>3. CASE j \in 1 .. Len(trips)
      <4>1. trips'[j] = trips[j] /\ trips[i].end <= trips[j].start
        BY <1>1, <2>3, <3>1, <3>3
      <4> QED
        BY <3>2, <4>1
    <3>4. CASE j = Len(trips) + 1
      <4>1. trips'[j].start = last.time /\ trips[i].end <= last.time
        BY <2>4, <2>5, <3>1, <3>4
      <4> QED
        BY <3>2, <4>1
    <3>5. j \in 1 .. Len(trips) \/ j = Len(trips) + 1
      <4>1. Len(trips') = Len(trips) + 1 /\ Len(trips) \in Nat
        BY <2>3, Facts
      <4> QED
        BY <4>1
    <3> QED
      BY <3>3, <3>4, <3>5
  <2> QED
    BY <2>7, <2>8, <2>9
<1>4. CASE Log!ExtendTrip(last.time) /\ last' = last
  <2> DEFINE n == Len(trips)
             row == [trips[n] EXCEPT !.end = last.time]
  <2>1. trips' = [trips EXCEPT ![n] = row] /\ n \in 1 .. n
    BY <1>4, Facts, EmptySeq DEF Log!ExtendTrip
  <2>2. /\ row \in TripRow
        /\ row.start = trips[n].start /\ row.end = last.time
    <3>1. trips[n] \in TripRow
      BY <2>1, Facts, ElementOfSeq
    <3> QED
      BY <3>1, Facts DEF TripRow
  <2> HIDE DEF row
  <2>3. /\ Len(trips') = n
        /\ \A i \in 1 .. n : trips'[i] = IF i = n THEN row ELSE trips[i]
    BY <2>1, <2>2, Facts, UpdatedRow
  <2>4. trips[n].start <= trips[n].end /\ trips[n].end <= last.time
    BY <1>1, <2>1, Facts, EmptySeq
  <2>5. /\ last.time \in Int /\ n \in Nat
        /\ \A i \in 1 .. n : trips[i].start \in Int /\ trips[i].end \in Int
        /\ \A i \in 1 .. n : trips'[i].start = trips[i].start
        /\ \A i \in 1 .. n : trips'[i].end = IF i = n THEN last.time
                                                       ELSE trips[i].end
    BY <2>2, <2>3, Facts
  <2>6. \A i \in 1 .. n : trips'[i].start <= trips'[i].end
    BY <1>1, <2>1, <2>4, <2>5
  <2>7. \A i, j \in 1 .. n : i < j => trips'[i].end <= trips'[j].start
    BY <1>1, <2>1, <2>5
  <2>8. Log!Latest(last.time)'
    BY <1>4, <2>1, <2>2, <2>3, Facts
  <2> QED
    BY <2>3, <2>6, <2>7, <2>8
<1> QED
  BY <1>2, <1>3, <1>4

----------------------------------------------------------------------------
(* Preservation of ObjectsInv, one lemma per kind of step. *)

(* A call returns and the handler continues with r. *)
LEMMA ReturnsObjects ==
  ASSUME OneAtATime, Inv, NEW s \in Slots, NEW call \in Calls, NEW r,
         Returns(s, call, r), TypeInv',
         r.st.trip \in {0, Len(trips')},
         r.pc = "startTrip" => r.st.trip = 0,
         r.pc = "updateTrip" => r.id = r.st.trip /\ r.id # 0
  PROVE  ObjectsInv'
<1>1. /\ run[s].pc \in Calls
      /\ run[s].obj \in Objs
      /\ UNCHANGED <<stored, last>>
      /\ heap' = [heap EXCEPT ![run[s].obj] = r.st]
      /\ run' = [run EXCEPT ![s].pc = r.pc, ![s].id = r.id, ![s].val = r.val]
  BY BusyObject DEF Returns, Proceed, Inv
<1>2. /\ run'[s].pc = r.pc /\ run'[s].id = r.id
      /\ run'[s].obj = run[s].obj /\ run'[s].pkt = run[s].pkt
      /\ heap'[run[s].obj] = r.st
      /\ \A o \in Objs : o # run[s].obj => heap'[o] = heap[o]
  BY <1>1 DEF Inv, TypeInv, TypesOK, Types, IdsExist
<1>3. Busy(s)
  BY <1>1 DEF Busy, Calls, TripCalls, OverspeedCalls, IdlingCalls
<1>4. ASSUME NEW t \in Slots
      PROVE  SlotTrip(t)'
  <2>1. t = s
    BY DEF OneAtATime, Alone
  <2>2. SlotTrip(s)
    BY DEF Inv, TripInv, ObjectsInv
  <2> QED
    BY <1>1, <1>2, <1>3, <2>1, <2>2 DEF SlotTrip, State, Pkt
<1>5. ASSUME NEW o \in Objs
      PROVE  ObjectTrip(o)'
  <2>1. CASE o = run[s].obj
    BY <1>2, <2>1 DEF ObjectTrip, Unused
  <2>2. CASE o # run[s].obj
    BY <1>1, <1>2, <2>2, OtherObjects DEF ObjectTrip
  <2> QED
    BY <2>1, <2>2
<1> QED
  BY <1>4, <1>5 DEF ObjectsInv

(* What a call that returns does to the number of trips and the object. *)
LEMMA ReturnsFacts ==
  ASSUME Inv, NEW s \in Slots, NEW call \in Calls, NEW r, Returns(s, call, r)
  PROVE  /\ State(s) \in RuntimeState /\ State(s).trip \in {0, Len(trips)}
         /\ Pkt(s) \in Packet
         /\ run[s].closeRead \in Times \cup {NoTime}
         /\ call = "startTrip" => Len(trips') = Len(trips) + 1
         /\ call # "startTrip" => Len(trips') = Len(trips)
<1>1. run[s].pc = call /\ TakesEffect(s)
  BY DEF Returns
<1>2. run[s].obj \in Objs /\ Within(State(s)) /\ Pkt(s) \in Packet
      /\ run[s].closeRead \in Times \cup {NoTime}
  BY <1>1, BusyObject DEF Inv
<1>3. Len(trips') = IF call = "startTrip" THEN Len(trips) + 1 ELSE Len(trips)
  BY <1>1, TripsAfterType DEF TakesEffect, Inv
<1>4. ObjectTrip(run[s].obj)
  BY <1>2 DEF Inv, TripInv, ObjectsInv
<1> QED
  BY <1>2, <1>3, <1>4 DEF Within, ObjectTrip, State

LEMMA CallReturnsObjects ==
  ASSUME OneAtATime, Inv, NEW s \in Slots, CallReturns(s), TypeInv'
  PROVE  ObjectsInv'
<1>1. ASSUME NEW call \in Calls, call # "startTrip",
             NEW st, NEW r, Returns(s, call, r), Continues(r, st),
             st.trip \in {0, State(s).trip}
      PROVE  ObjectsInv'
  <2>1. State(s).trip \in {0, Len(trips)} /\ Len(trips') = Len(trips)
    BY <1>1, ReturnsFacts
  <2>2. r.st.trip = st.trip /\ r.pc \notin {"startTrip", "updateTrip"}
    BY <1>1 DEF Continues, TripCalls
  <2> QED
    BY <1>1, <2>1, <2>2, ReturnsObjects
<1> USE DEF Calls, TripCalls, OverspeedCalls, IdlingCalls
<1>2. CASE StartTripReturns(s)
  <2> DEFINE id == Len(trips) + 1
             st == [State(s) EXCEPT !.trip = id, !.pending = FALSE,
                                    !.closeTs = NoTime]
             r == Await(st, "updateTrip", id, 0)
  <2>1. Returns(s, "startTrip", r)
    BY <1>2 DEF StartTripReturns
  <2>2. Len(trips') = id /\ id # 0 /\ State(s) \in RuntimeState
    BY <2>1, ReturnsFacts, Facts
  <2>3. r.st.trip = id /\ r.pc = "updateTrip" /\ r.id = id
    BY <2>2 DEF Await, RuntimeState
  <2> HIDE DEF r, st, id
  <2> QED
    BY <2>1, <2>2, <2>3, ReturnsObjects
<1>3. CASE UpdateTripReturns(s)
  <2> DEFINE r == Await(State(s), "playback", State(s).trip, 0)
  <2>1. Returns(s, "updateTrip", r)
    BY <1>3 DEF UpdateTripReturns
  <2>2. State(s).trip \in {0, Len(trips')}
    BY <2>1, ReturnsFacts
  <2>3. r.st = State(s) /\ r.pc = "playback"
    BY DEF Await
  <2> HIDE DEF r
  <2> QED
    BY <2>1, <2>2, <2>3, ReturnsObjects
<1>4. CASE PlaybackReturns(s)
  <2> DEFINE st == IF Pkt(s).ign THEN State(s)
                   ELSE Closing(State(s), Pkt(s), run[s].closeRead)
             r == AfterTrips(st, Pkt(s))
  <2>1. Returns(s, "playback", r)
    BY <1>4 DEF PlaybackReturns
  <2>2. st \in RuntimeState /\ st.trip \in {0, State(s).trip}
    BY <2>1, ReturnsFacts, ClosingType
  <2>3. Continues(r, st)
    BY <2>1, <2>2, ReturnsFacts, AfterTripsContinues
  <2> HIDE DEF r, st
  <2> QED
    BY <1>1, <2>1, <2>2, <2>3
<1>5. CASE CreateOverspeedReturns(s)
  <2> DEFINE st == [State(s) EXCEPT !.overEvent = Len(overspeeds) + 1]
             r == AfterOverspeed(st, Pkt(s))
  <2>1. Returns(s, "createOverspeed", r)
    BY <1>5 DEF CreateOverspeedReturns
  <2>2. Len(overspeeds) + 1 \in Nat
    BY DEF Inv, TypeInv, TypesOK, Types, IdsExist
  <2>3. st \in RuntimeState /\ st.trip = State(s).trip
    BY <2>1, <2>2, ReturnsFacts DEF RuntimeState
  <2>4. Continues(r, st)
    BY <2>1, <2>3, ReturnsFacts, AfterOverspeedContinues
  <2> HIDE DEF r, st
  <2> QED
    BY <1>1, <2>1, <2>3, <2>4
<1>6. CASE UpdateOverspeedReturns(s)
  <2> DEFINE r == AfterOverspeed(State(s), Pkt(s))
  <2>1. Returns(s, "updateOverspeed", r)
    BY <1>6 DEF UpdateOverspeedReturns
  <2>2. Continues(r, State(s))
    BY <2>1, ReturnsFacts, AfterOverspeedContinues
  <2> HIDE DEF r
  <2> QED
    BY <1>1, <2>1, <2>2
<1>7. CASE EndOverspeedReturns(s)
  <2> DEFINE st == NoOverspeed(State(s))
             r == AfterOverspeed(st, Pkt(s))
  <2>1. Returns(s, "endOverspeed", r)
    BY <1>7 DEF EndOverspeedReturns
  <2>2. st \in RuntimeState /\ st.trip = State(s).trip
    BY <2>1, ReturnsFacts, NoOverspeedType
  <2>3. Continues(r, st)
    BY <2>1, <2>2, ReturnsFacts, AfterOverspeedContinues
  <2> HIDE DEF r, st
  <2> QED
    BY <1>1, <2>1, <2>2, <2>3
<1>8. CASE CreateIdlingReturns(s)
  <2> DEFINE st == [State(s) EXCEPT !.idleActive = TRUE,
                                    !.idleEvent = Len(idlings) + 1]
             r == AfterIdling(st, Pkt(s))
  <2>1. Returns(s, "createIdling", r)
    BY <1>8 DEF CreateIdlingReturns
  <2>2. Len(idlings) + 1 \in Nat
    BY DEF Inv, TypeInv, TypesOK, Types, IdsExist
  <2>3. st \in RuntimeState /\ st.trip = State(s).trip
    BY <2>1, <2>2, ReturnsFacts, IdlingOpenedType
  <2>4. Continues(r, st)
    BY <2>1, <2>3, ReturnsFacts, AfterIdlingContinues
  <2> HIDE DEF r, st
  <2> QED
    BY <1>1, <2>1, <2>3, <2>4
<1>9. CASE UpdateIdlingReturns(s)
  <2> DEFINE r == AfterIdling(State(s), Pkt(s))
  <2>1. Returns(s, "updateIdling", r)
    BY <1>9 DEF UpdateIdlingReturns
  <2>2. Continues(r, State(s))
    BY <2>1, ReturnsFacts, AfterIdlingContinues
  <2> HIDE DEF r
  <2> QED
    BY <1>1, <2>1, <2>2
<1>10. CASE EndIdlingReturns(s)
  <2> DEFINE st == NoIdling(State(s))
             r == Await(st, "persist", 0, 0)
  <2>1. Returns(s, "endIdling", r)
    BY <1>10 DEF EndIdlingReturns
  <2>2. st.trip \in {0, Len(trips')}
    BY <2>1, ReturnsFacts, NoIdlingType
  <2>3. r.st = st /\ r.pc = "persist"
    BY DEF Await
  <2> HIDE DEF r, st
  <2> QED
    BY <2>1, <2>2, <2>3, ReturnsObjects
<1> QED
  BY <1>2, <1>3, <1>4, <1>5, <1>6, <1>7, <1>8, <1>9, <1>10 DEF CallReturns

LEMMA ReceiveObjects ==
  ASSUME OneAtATime, Inv, NEW s \in Slots, NEW p \in Packet, Receive(s, p)
  PROVE  ObjectsInv'
<1>1. run[s].pc = "ready" /\ run[s].obj = NoObj
  BY DEF Receive, Busy, Inv, TypeInv, TypesOK, Types, IdsExist
<1>2. /\ run'[s].pc = "ingest" /\ run'[s].pkt = p /\ run'[s].obj = NoObj
      /\ \A t \in Slots : t = s
      /\ last' = p
      /\ UNCHANGED <<trips, heap, stored>>
  BY <1>1 DEF Receive, Inv, TypeInv, TypesOK, Types, IdsExist, OneAtATime, Alone, rows
<1>3. \A t \in Slots : SlotTrip(t)'
  BY <1>2 DEF SlotTrip, Pkt
<1>4. ASSUME NEW o \in Objs
      PROVE  ObjectTrip(o)'
  <2>1. Unused(o)' => Unused(o)
    BY <1>1, <1>2 DEF Unused
  <2> QED
    BY <1>2, <2>1 DEF ObjectTrip, Inv, TripInv, ObjectsInv
<1> QED
  BY <1>3, <1>4 DEF ObjectsInv

LEMMA ReadStateObjects ==
  ASSUME OneAtATime, Inv, NEW s \in Slots, ReadState(s)
  PROVE  ObjectsInv'
<1> DEFINE st == IF stored = NoObj THEN FreshState ELSE heap[stored]
           r == Begin(st, Pkt(s))
<1>1. PICK o \in Objs :
        /\ stored # NoObj => o = stored
        /\ heap' = [heap EXCEPT ![o] = r.st]
        /\ run' = [run EXCEPT ![s].pc = r.pc, ![s].id = r.id, ![s].val = r.val,
                              ![s].obj = o, ![s].closeRead = st.closeTs]
  BY DEF ReadState, OneAtATime, Alone
<1>2. /\ run[s].pc = "ingest" /\ run[s].obj = NoObj
      /\ \A t \in Slots : t = s
      /\ UNCHANGED <<trips, stored, last>>
  BY DEF ReadState, Inv, TypeInv, TypesOK, Types, IdsExist, OneAtATime, Alone, rows
<1>3. st \in RuntimeState
  BY FreshType DEF Inv, TypeInv, TypesOK, Types, IdsExist
<1>4. st.trip \in {0, Len(trips)}
  BY DEF FreshState, Inv, TripInv, ObjectsInv, ObjectTrip, TypeInv, TypesOK, Types, IdsExist
<1>5. Begins(r, st)
  BY <1>3, BeginBegins DEF Inv, TypeInv, TypesOK, Types, IdsExist, Pkt
<1> HIDE DEF st, r
<1>6. /\ run'[s].pc = r.pc /\ run'[s].id = r.id /\ run'[s].obj = o
      /\ run'[s].pkt = run[s].pkt
      /\ heap'[o] = r.st
      /\ \A q \in Objs : q # o => heap'[q] = heap[q]
  BY <1>1 DEF Inv, TypeInv, TypesOK, Types, IdsExist
<1>7. Pkt(s).time = last.time
  BY <1>2 DEF Inv, TripInv, ObjectsInv, SlotTrip, Busy
<1>8. \A t \in Slots : SlotTrip(t)'
  <2>1. /\ Pkt(s)' = Pkt(s) /\ State(s)' = r.st
        /\ stored \in {NoObj, o}
    BY <1>1, <1>6 DEF State, Pkt, Inv, TypeInv, TypesOK, Types, IdsExist
  <2> QED
    BY <1>2, <1>5, <1>6, <1>7, <2>1 DEF SlotTrip, Begins
<1>9. ASSUME NEW q \in Objs
      PROVE  ObjectTrip(q)'
  <2>1. CASE q = o
    BY <1>2, <1>4, <1>5, <1>6, <2>1 DEF ObjectTrip, Unused, Begins
  <2>2. CASE q # o
    <3>1. Unused(q)
      BY <1>1, <1>2, <2>2, HandlerAssumption DEF Unused
    <3> QED
      BY <1>2, <1>6, <2>2, <3>1 DEF ObjectTrip, Inv, TripInv, ObjectsInv
  <2> QED
    BY <2>1, <2>2
<1> QED
  BY <1>8, <1>9 DEF ObjectsInv

(* Steps that free slots or the store and collect garbage: every object    *)
(* still used is unchanged.  The slot may have opened a trip just before.  *)
LEMMA SweepObjects ==
  ASSUME OneAtATime, Inv,
         heap' = Sweep(heap, stored', run'),
         \A s \in Slots : run'[s] \in {Free, run[s]},
         \A o \in Objs : heap[o].trip \in {0, Len(trips')},
         stored' \in {NoObj, stored} \cup {run[s].obj : s \in Slots},
         UNCHANGED last
  PROVE  ObjectsInv'
<1>1. ASSUME NEW o \in Objs
      PROVE  /\ heap'[o] \in {heap[o], FreshState}
             /\ Unused(o)' => heap'[o] = FreshState
             /\ ~Unused(o)' => heap'[o] = heap[o]
  BY DEF Sweep, Unused
<1>2. FreshState.trip = 0
  BY DEF FreshState
<1>3. \A o \in Objs : ObjectTrip(o)'
  BY <1>1, <1>2 DEF ObjectTrip
<1>4. ASSUME NEW s \in Slots
      PROVE  SlotTrip(s)'
  <2>1. CASE run'[s] = Free
    BY <2>1 DEF SlotTrip, Free, Busy
  <2>2. CASE run'[s] = run[s] /\ run[s] # Free
    <3>1. SlotTrip(s) /\ \A t \in Slots : t = s
      BY DEF Inv, TripInv, ObjectsInv, OneAtATime, Alone
    <3>2. run[s].obj \in Objs \cup {NoObj}
      BY DEF Inv, TypeInv, TypesOK, Types, IdsExist
    <3>3. CASE run[s].obj = NoObj
      BY <2>2, <3>1, <3>3 DEF SlotTrip, Busy, Pkt, Inv, TypeInv, TypesOK, Types, IdsExist
    <3>4. CASE run[s].obj \in Objs
      <4>1. State(s)' = State(s)
        BY <1>1, <2>2, <3>4 DEF State, Unused
      <4>2. run[s].obj # NoObj
        BY <3>4, HandlerAssumption
      <4> QED
        BY <2>2, <3>1, <4>1, <4>2 DEF SlotTrip, Busy, Pkt
    <3> QED
      BY <3>2, <3>3, <3>4
  <2> QED
    BY <2>1, <2>2
<1> QED
  BY <1>3, <1>4 DEF ObjectsInv

LEMMA PersistStateObjects ==
  ASSUME OneAtATime, Inv, NEW s \in Slots, PersistState(s)
  PROVE  ObjectsInv'
<1>1. \A t \in Slots : run'[t] \in {Free, run[t]}
  BY DEF PersistState, Inv, TypeInv, TypesOK, Types, IdsExist
<1>2. \A o \in Objs : heap[o].trip \in {0, Len(trips')}
  BY DEF PersistState, rows, Inv, TripInv, ObjectsInv, ObjectTrip
<1> QED
  BY <1>1, <1>2, SweepObjects DEF PersistState

LEMMA AbortObjects ==
  ASSUME OneAtATime, Inv, NEW s \in Slots, Busy(s), Abort(s),
         UNCHANGED trips \/ TakesEffect(s)
  PROVE  ObjectsInv'
<1>1. \A t \in Slots : run'[t] \in {Free, run[t]}
  BY DEF Abort, Inv, TypeInv, TypesOK, Types, IdsExist
<1>2. ASSUME NEW o \in Objs
      PROVE  heap[o].trip \in {0, Len(trips')}
  <2>1. heap[o].trip \in {0, Len(trips)}
    BY DEF Inv, TripInv, ObjectsInv, ObjectTrip
  <2>2. CASE run[s].pc = "startTrip"
    <3>1. run[s].obj \in Objs
      BY <2>2, BusyObject DEF Inv, Calls, TripCalls
    <3>2. State(s).trip = 0
      BY <2>2 DEF Inv, TripInv, ObjectsInv, SlotTrip
    <3> QED
      BY <3>1, <3>2, OtherObjects DEF State
  <2>3. CASE run[s].pc # "startTrip"
    <3>1. Len(trips') = Len(trips)
      BY <2>3, TripsAfterType DEF TakesEffect, Inv
    <3> QED
      BY <2>1, <3>1
  <2> QED
    BY <2>2, <2>3
<1> QED
  BY <1>1, <1>2, SweepObjects DEF Abort

LEMMA LossObjects ==
  ASSUME OneAtATime, Inv, Restart \/ Expire
  PROVE  ObjectsInv'
<1>1. \A s \in Slots : run'[s] \in {Free, run[s]}
  BY DEF Restart, Expire
<1>2. \A o \in Objs : heap[o].trip \in {0, Len(trips')}
  BY DEF Restart, Expire, rows, Inv, TripInv, ObjectsInv, ObjectTrip
<1> QED
  BY <1>1, <1>2, SweepObjects DEF Restart, Expire, OneAtATime, Alone

----------------------------------------------------------------------------
(* Steps of the handler are steps of the log. *)
LEMMA StepOfLog ==
  ASSUME Inv, [Next]_vars
  PROVE  /\ late' = 0 => late = 0
         /\ \/ last' = last
            \/ last'.time \in Int /\ (late' = 0 => last'.time >= last.time)
         /\ \/ UNCHANGED trips
            \/ Log!StartTrip(last.time) /\ last' = last /\ late' = late
            \/ Log!ExtendTrip(last.time) /\ last' = last /\ late' = late
<1>1. ASSUME NEW s \in Slots, NEW p \in Packet, Receive(s, p)
      PROVE  /\ UNCHANGED trips /\ last'.time \in Int
             /\ late' = 0 => late = 0 /\ last'.time >= last.time
  <2>1. late \in Nat /\ last.time \in Times /\ p.time \in Times
    BY DEF Inv, TypeInv, TypesOK, Types, Packet
  <2>2. last.time \in Int /\ p.time \in Int
    <3>1. Times \subseteq Int
      BY TimesNat
    <3> QED
      BY <2>1, <3>1
  <2>3. last' = p /\ UNCHANGED trips
        /\ late' = IF p.time < last.time THEN late + 1 ELSE late
    BY <1>1 DEF Receive, rows
  <2> QED
    BY <2>1, <2>2, <2>3
<1>2. ASSUME NEW s \in Slots, ReadState(s) \/ PersistState(s) \/ CallRefused(s)
      PROVE  UNCHANGED <<trips, last, late>>
  BY <1>2 DEF ReadState, PersistState, CallRefused, Abort, rows
<1>3. ASSUME NEW s \in Slots, NEW call \in Calls, NEW r, Returns(s, call, r)
      PROVE  /\ last' = last /\ late' = late
             /\ \/ UNCHANGED trips
                \/ Log!StartTrip(last.time)
                \/ Log!ExtendTrip(last.time)
  BY <1>3, TakesEffectStep DEF Returns
<1>4. ASSUME NEW s \in Slots, CallReturns(s)
      PROVE  \E call \in Calls : \E r : Returns(s, call, r)
  BY <1>4
  DEF CallReturns, StartTripReturns, UpdateTripReturns, PlaybackReturns,
      CreateOverspeedReturns, UpdateOverspeedReturns, EndOverspeedReturns,
      CreateIdlingReturns, UpdateIdlingReturns, EndIdlingReturns,
      Calls, TripCalls, OverspeedCalls, IdlingCalls
<1>5. ASSUME NEW s \in Slots, CallFails(s)
      PROVE  /\ last' = last /\ late' = late
             /\ \/ UNCHANGED trips
                \/ Log!StartTrip(last.time)
                \/ Log!ExtendTrip(last.time)
  <2>1. CASE run[s].pc \in Calls
    BY <1>5, <2>1, TakesEffectStep DEF CallFails, Abort, rows
  <2>2. CASE run[s].pc \notin Calls
    BY <1>5, <2>2
    DEF CallFails, Abort, rows, TakesEffect, TripsAfter, Calls, TripCalls
  <2> QED
    BY <2>1, <2>2
<1>6. ASSUME Restart \/ Expire \/ AtBound \/ UNCHANGED vars
      PROVE  UNCHANGED <<trips, last, late>>
  BY <1>6 DEF Restart, Expire, AtBound, vars, rows
<1> QED
  BY <1>1, <1>2, <1>3, <1>4, <1>5, <1>6 DEF Next

LEMMA NextObjects ==
  ASSUME OneAtATime, Inv, [Next]_vars
  PROVE  ObjectsInv'
<1>1. TypeInv'
  BY NextType DEF Inv
<1>2. ASSUME NEW s \in Slots, CallRefused(s)
      PROVE  ObjectsInv'
  <2>1. Busy(s)
    BY <1>2 DEF CallRefused, Refused, Busy
  <2> QED
    BY <1>2, <2>1, AbortObjects DEF CallRefused, rows
<1>3. ASSUME NEW s \in Slots, CallFails(s)
      PROVE  ObjectsInv'
  BY <1>3, AbortObjects DEF CallFails, rows
<1>4. ASSUME UNCHANGED vars
      PROVE  ObjectsInv'
  BY <1>4
  DEF vars, Inv, TripInv, ObjectsInv, SlotTrip, ObjectTrip, Unused, Busy,
      Pkt, State
<1> QED
  BY <1>1, <1>2, <1>3, <1>4, ReceiveObjects, ReadStateObjects,
     CallReturnsObjects, PersistStateObjects, LossObjects
  DEF Next, AtBound

LEMMA InitInv ==
  ASSUME Init
  PROVE  Inv
<1>1. TypeInv
  BY InitType
<1>2. late = 0 => Log!TripsDisjoint /\ Log!Latest(last.time)
  BY DEF Init, Log!TripsDisjoint, Log!Latest
<1>3. ObjectsInv
  BY DEF Init, ObjectsInv, SlotTrip, ObjectTrip, Busy, Free, FreshState
<1> QED
  BY <1>1, <1>2, <1>3 DEF Inv, TripInv

LEMMA NextInv ==
  ASSUME OneAtATime, Inv, [Next]_vars
  PROVE  Inv'
<1>1. TypeInv'
  BY NextType DEF Inv
<1>2. ObjectsInv'
  BY NextObjects
<1>3. ASSUME late' = 0
      PROVE  Log!TripsDisjoint' /\ Log!Latest(last.time)'
  BY <1>3, StepOfLog, LogStep
<1> QED
  BY <1>1, <1>2, <1>3 DEF Inv, TripInv

(* While packets come in the order of their timestamps, trips of the       *)
(* vehicle never overlap, for every bound, timeout and number of failures  *)
(* and restarts.                                                           *)
THEOREM TripsStayDisjoint ==
  ASSUME OneAtATime
  PROVE  Spec => [](late = 0 => Log!TripsDisjoint)
<1>1. Init => Inv
  BY InitInv
<1>2. Inv /\ [Next]_vars => Inv'
  BY NextInv
<1>3. Inv => (late = 0 => Log!TripsDisjoint)
  BY DEF Inv, TripInv
<1> QED
  BY <1>1, <1>2, <1>3, PTL DEF Spec

(* The handler writes the trip table only at its newest end, and forwards  *)
(* in time while packets come in order: it implements TripLog.             *)
THEOREM ImplementsTripLog ==
  ASSUME OneAtATime
  PROVE  Spec => TripLogSpec
<1>1. Init => Inv
  BY InitInv
<1>2. Inv /\ [Next]_vars => Inv'
  BY NextInv
<1>3. Init => Log!Init
  BY DEF Init, Log!Init
<1>4. Inv /\ [Next]_vars => [Log!Next]_<<trips, (late = 0)>>
  <2> SUFFICES ASSUME Inv, [Next]_vars,
                      ~(UNCHANGED <<trips, (late = 0)>>)
               PROVE  Log!Next
    OBVIOUS
  <2>1. last.time \in Times
    BY Facts
  <2>2. CASE UNCHANGED trips
    <3>1. (late = 0) /\ ~(late' = 0)
      BY <2>2, StepOfLog
    <3> QED
      BY <2>2, <3>1 DEF Log!Next, Log!LoseOrder
  <2>3. CASE ~UNCHANGED trips
    BY <2>1, <2>3, StepOfLog DEF Log!Next
  <2> QED
    BY <2>2, <2>3
<1> QED
  BY <1>1, <1>2, <1>3, <1>4, PTL DEF Spec, TripLogSpec, Log!Spec

----------------------------------------------------------------------------
(* A returning call, as a function of the slot: what the handler does next *)
(* with the object, and what the call did to each row.                     *)

Goes(s) ==
  LET st == State(s)
      p  == Pkt(s)
  IN CASE run[s].pc = "startTrip" ->
            Await([st EXCEPT !.trip = Len(trips) + 1, !.pending = FALSE,
                             !.closeTs = NoTime],
                  "updateTrip", Len(trips) + 1, 0)
       [] run[s].pc = "updateTrip" -> Await(st, "playback", st.trip, 0)
       [] run[s].pc = "playback" ->
            AfterTrips(IF p.ign THEN st ELSE Closing(st, p, run[s].closeRead), p)
       [] run[s].pc = "createOverspeed" ->
            AfterOverspeed([st EXCEPT !.overEvent = Len(overspeeds) + 1], p)
       [] run[s].pc = "updateOverspeed" -> AfterOverspeed(st, p)
       [] run[s].pc = "endOverspeed" -> AfterOverspeed(NoOverspeed(st), p)
       [] run[s].pc = "createIdling" ->
            AfterIdling([st EXCEPT !.idleActive = TRUE,
                                   !.idleEvent = Len(idlings) + 1], p)
       [] run[s].pc = "updateIdling" -> AfterIdling(st, p)
       [] OTHER -> Await(NoIdling(st), "persist", 0, 0)

Returning == Calls \ {"persist"}

LEMMA CallReturnsGoes ==
  ASSUME NEW s \in Slots, CallReturns(s)
  PROVE  run[s].pc \in Returning /\ Returns(s, run[s].pc, Goes(s))
<1> USE DEF Returning, Calls, TripCalls, OverspeedCalls, IdlingCalls, Goes
<1>1. CASE StartTripReturns(s)
  BY <1>1 DEF StartTripReturns, Returns
<1>2. CASE UpdateTripReturns(s)
  BY <1>2 DEF UpdateTripReturns, Returns
<1>3. CASE PlaybackReturns(s)
  BY <1>3 DEF PlaybackReturns, Returns
<1>4. CASE CreateOverspeedReturns(s)
  BY <1>4 DEF CreateOverspeedReturns, Returns
<1>5. CASE UpdateOverspeedReturns(s)
  BY <1>5 DEF UpdateOverspeedReturns, Returns
<1>6. CASE EndOverspeedReturns(s)
  BY <1>6 DEF EndOverspeedReturns, Returns
<1>7. CASE CreateIdlingReturns(s)
  BY <1>7 DEF CreateIdlingReturns, Returns
<1>8. CASE UpdateIdlingReturns(s)
  BY <1>8 DEF UpdateIdlingReturns, Returns
<1>9. CASE EndIdlingReturns(s)
  BY <1>9 DEF EndIdlingReturns, Returns
<1> QED
  BY <1>1, <1>2, <1>3, <1>4, <1>5, <1>6, <1>7, <1>8, <1>9 DEF CallReturns

(* The objects the handler continues with are well typed. *)
LEMMA StartedType ==
  ASSUME NEW st \in RuntimeState, NEW n \in Nat
  PROVE  LET new == [st EXCEPT !.trip = n, !.pending = FALSE, !.closeTs = NoTime]
         IN /\ new \in RuntimeState
            /\ new.trip = n /\ new.pending = FALSE /\ new.closeTs = NoTime
            /\ new.overActive = st.overActive /\ new.overEvent = st.overEvent
            /\ new.overMax = st.overMax
            /\ new.idleActive = st.idleActive /\ new.idleEvent = st.idleEvent
            /\ new.idleStart = st.idleStart
  BY DEF RuntimeState

LEMMA OverspeedNamedType ==
  ASSUME NEW st \in RuntimeState, NEW n \in Nat
  PROVE  LET new == [st EXCEPT !.overEvent = n]
         IN /\ new \in RuntimeState
            /\ new.overEvent = n
            /\ new.trip = st.trip /\ new.pending = st.pending
            /\ new.closeTs = st.closeTs
            /\ new.overActive = st.overActive /\ new.overMax = st.overMax
            /\ new.idleActive = st.idleActive /\ new.idleEvent = st.idleEvent
            /\ new.idleStart = st.idleStart
  BY DEF RuntimeState

LEMMA GoesType ==
  ASSUME TypeInv, NEW s \in Slots, run[s].pc \in Returning
  PROVE  Goes(s) \in Continuation
<1> USE DEF Returning, Calls, TripCalls, OverspeedCalls, IdlingCalls
<1>1. /\ State(s) \in RuntimeState /\ Pkt(s) \in Packet
      /\ run[s].closeRead \in Times \cup {NoTime}
      /\ Len(trips) + 1 \in Nat /\ Len(overspeeds) + 1 \in Nat
      /\ Len(idlings) + 1 \in Nat
  BY BusyObject DEF Within, TypeInv, TypesOK, Types, IdsExist
<1>2. CASE run[s].pc = "startTrip"
  <2> DEFINE st == [State(s) EXCEPT !.trip = Len(trips) + 1, !.pending = FALSE,
                                    !.closeTs = NoTime]
  <2>1. Goes(s) = Await(st, "updateTrip", Len(trips) + 1, 0)
    BY <1>2 DEF Goes
  <2>2. st \in RuntimeState
    BY <1>1, StartedType
  <2> HIDE DEF st
  <2> QED
    BY <1>1, <2>1, <2>2 DEF Await, Continuation
<1>3. CASE run[s].pc = "updateTrip"
  <2>1. Goes(s) = Await(State(s), "playback", State(s).trip, 0)
    BY <1>3 DEF Goes
  <2>2. State(s).trip \in Nat
    BY <1>1 DEF RuntimeState
  <2> QED
    BY <1>1, <2>1, <2>2 DEF Await, Continuation
<1>4. CASE run[s].pc = "playback"
  <2> DEFINE st == IF Pkt(s).ign THEN State(s)
                   ELSE Closing(State(s), Pkt(s), run[s].closeRead)
  <2>1. Goes(s) = AfterTrips(st, Pkt(s))
    BY <1>4 DEF Goes
  <2>2. st \in RuntimeState
    BY <1>1, ClosingType
  <2> HIDE DEF st
  <2> QED
    BY <1>1, <2>1, <2>2, AfterTripsContinues DEF Continues
<1>5. CASE run[s].pc = "createOverspeed"
  <2> DEFINE st == [State(s) EXCEPT !.overEvent = Len(overspeeds) + 1]
  <2>1. Goes(s) = AfterOverspeed(st, Pkt(s))
    BY <1>5 DEF Goes
  <2>2. st \in RuntimeState
    BY <1>1, OverspeedNamedType
  <2> HIDE DEF st
  <2> QED
    BY <1>1, <2>1, <2>2, AfterOverspeedContinues DEF Continues
<1>6. CASE run[s].pc = "updateOverspeed"
  BY <1>1, <1>6, AfterOverspeedContinues DEF Continues, Goes
<1>7. CASE run[s].pc = "endOverspeed"
  BY <1>1, <1>7, NoOverspeedType, AfterOverspeedContinues DEF Continues, Goes
<1>8. CASE run[s].pc = "createIdling"
  <2> DEFINE st == [State(s) EXCEPT !.idleActive = TRUE,
                                    !.idleEvent = Len(idlings) + 1]
  <2>1. Goes(s) = AfterIdling(st, Pkt(s))
    BY <1>8 DEF Goes
  <2>2. st \in RuntimeState
    BY <1>1, IdlingOpenedType
  <2> HIDE DEF st
  <2> QED
    BY <1>1, <2>1, <2>2, AfterIdlingContinues DEF Continues
<1>9. CASE run[s].pc = "updateIdling"
  BY <1>1, <1>9, AfterIdlingContinues DEF Continues, Goes
<1>10. CASE run[s].pc = "endIdling"
  <2>1. Goes(s) = Await(NoIdling(State(s)), "persist", 0, 0)
    BY <1>10 DEF Goes
  <2> QED
    BY <1>1, <2>1, NoIdlingType DEF Await, Continuation
<1> QED
  BY <1>2, <1>3, <1>4, <1>5, <1>6, <1>7, <1>8, <1>9, <1>10

(* What slot s is about to do, in the form of a continuation. *)
Cont(s) == [st |-> State(s), pc |-> run[s].pc, id |-> run[s].id,
            val |-> run[s].val]

LEMMA ReturnsCont ==
  ASSUME TypeInv, NEW s \in Slots, NEW call \in Calls, NEW r \in Continuation,
         Returns(s, call, r)
  PROVE  /\ Cont(s)' = r /\ Pkt(s)' = Pkt(s)
         /\ run'[s].pc = r.pc /\ run'[s].obj = run[s].obj
         /\ run'[s].closeRead = run[s].closeRead
         /\ \A o \in Objs : o # run[s].obj => heap'[o] = heap[o]
         /\ UNCHANGED <<stored, history, counters>>
<1>1. run[s].obj \in Objs /\ run[s] \in SlotType
  BY BusyObject DEF Returns, TypeInv, TypesOK, Types, IdsExist, SlotType
<1>2. /\ run'[s].pc = r.pc /\ run'[s].id = r.id /\ run'[s].val = r.val
      /\ run'[s].obj = run[s].obj /\ run'[s].pkt = run[s].pkt
      /\ run'[s].closeRead = run[s].closeRead
  BY <1>1 DEF Returns, Proceed, TypeInv, TypesOK, Types, IdsExist, SlotType
<1>3. /\ heap'[run[s].obj] = r.st
      /\ \A o \in Objs : o # run[s].obj => heap'[o] = heap[o]
  BY <1>1 DEF Returns, Proceed, TypeInv, TypesOK, Types, IdsExist
<1>4. Cont(s)' = [st |-> r.st, pc |-> r.pc, id |-> r.id, val |-> r.val]
  BY <1>2, <1>3 DEF Cont, State
<1>5. r = [st |-> r.st, pc |-> r.pc, id |-> r.id, val |-> r.val]
  BY DEF Continuation
<1> QED
  BY <1>2, <1>3, <1>4, <1>5 DEF Pkt, Returns

(* The rows after a call. *)
LEMMA TripRows ==
  ASSUME TypeInv, NEW s \in Slots
  PROVE  LET new == TripsAfter(s)
         IN /\ \A i \in 1 .. Len(trips) :
                 /\ new[i].start = trips[i].start
                 /\ new[i].end = IF run[s].pc = "updateTrip" /\ i = run[s].id
                                 THEN Pkt(s).time ELSE trips[i].end
            /\ run[s].pc = "startTrip" =>
                 new[Len(trips) + 1] = [start |-> Pkt(s).time, end |-> Pkt(s).time]
<1>1. trips \in Seq(TripRow) /\ Pkt(s).time \in Times
  BY DEF TypeInv, TypesOK, Types, IdsExist, Packet, Pkt, TripRow
<1>2. CASE run[s].pc = "startTrip"
  <2> DEFINE row == [start |-> Pkt(s).time, end |-> Pkt(s).time]
  <2>1. TripsAfter(s) = Append(trips, row) /\ row \in TripRow
    BY <1>1, <1>2 DEF TripsAfter, TripRow
  <2> HIDE DEF row
  <2>2. /\ \A i \in 1 .. Len(trips) : TripsAfter(s)[i] = trips[i]
        /\ TripsAfter(s)[Len(trips) + 1] = row
    BY <1>1, <2>1, AppendProperties
  <2> QED
    BY <1>2, <2>2 DEF row
<1>3. CASE run[s].pc = "updateTrip"
  <2> DEFINE row == [trips[run[s].id] EXCEPT !.end = Pkt(s).time]
  <2>1. TripsAfter(s) = [trips EXCEPT ![run[s].id] = row]
    BY <1>3 DEF TripsAfter
  <2>2. ASSUME run[s].id \in 1 .. Len(trips)
        PROVE  /\ row \in TripRow
               /\ row.start = trips[run[s].id].start /\ row.end = Pkt(s).time
    <3>1. trips[run[s].id] \in TripRow
      BY <1>1, <2>2, ElementOfSeq
    <3> QED
      BY <1>1, <3>1 DEF TripRow
  <2> HIDE DEF row
  <2>3. \A j \in 1 .. Len(trips) :
          TripsAfter(s)[j] = IF j = run[s].id THEN row ELSE trips[j]
    BY <1>1, <2>1, <2>2, UpdatedRow
  <2> QED
    BY <1>3, <2>2, <2>3
<1>4. CASE run[s].pc \notin {"startTrip", "updateTrip"}
  BY <1>4 DEF TripsAfter
<1> QED
  BY <1>2, <1>3, <1>4

LEMMA OverspeedRows ==
  ASSUME TypeInv, NEW s \in Slots
  PROVE  LET new == OverspeedsAfter(s)
         IN /\ \A i \in 1 .. Len(overspeeds) :
                 /\ new[i].trip = overspeeds[i].trip
                 /\ new[i].start = overspeeds[i].start
                 /\ new[i].end =
                      IF /\ run[s].pc \in {"updateOverspeed", "endOverspeed"}
                         /\ i = run[s].id
                      THEN Pkt(s).time ELSE overspeeds[i].end
                 /\ new[i].max =
                      IF run[s].pc = "updateOverspeed" /\ i = run[s].id
                      THEN run[s].val ELSE overspeeds[i].max
            /\ run[s].pc = "createOverspeed" =>
                 new[Len(overspeeds) + 1] =
                   [trip |-> run[s].id, start |-> Pkt(s).time,
                    end |-> Pkt(s).time, max |-> Pkt(s).speed]
<1>1. /\ overspeeds \in Seq(OverspeedRow)
      /\ Pkt(s).time \in Times /\ Pkt(s).speed \in Nat
      /\ run[s].id \in Nat /\ run[s].val \in Nat
  BY HandlerAssumption DEF TypeInv, TypesOK, Types, IdsExist, Packet, Pkt, OverspeedRow
<1>2. CASE run[s].pc = "createOverspeed"
  <2> DEFINE row == [trip |-> run[s].id, start |-> Pkt(s).time,
                     end |-> Pkt(s).time, max |-> Pkt(s).speed]
  <2>1. OverspeedsAfter(s) = Append(overspeeds, row) /\ row \in OverspeedRow
    BY <1>1, <1>2 DEF OverspeedsAfter, OverspeedRow
  <2> HIDE DEF row
  <2>2. /\ \A i \in 1 .. Len(overspeeds) : OverspeedsAfter(s)[i] = overspeeds[i]
        /\ OverspeedsAfter(s)[Len(overspeeds) + 1] = row
    BY <1>1, <2>1, AppendProperties
  <2> QED
    BY <1>2, <2>2 DEF row
<1>3. CASE run[s].pc = "updateOverspeed"
  <2> DEFINE old == overspeeds[run[s].id]
             row == [old EXCEPT !.end = Pkt(s).time, !.max = run[s].val]
  <2>1. OverspeedsAfter(s) = [overspeeds EXCEPT ![run[s].id] = row]
    BY <1>1, <1>3 DEF OverspeedsAfter
  <2>2. ASSUME run[s].id \in 1 .. Len(overspeeds)
        PROVE  /\ row \in OverspeedRow
               /\ row.trip = old.trip /\ row.start = old.start
               /\ row.end = Pkt(s).time /\ row.max = run[s].val
    <3>1. old \in OverspeedRow
      BY <1>1, <2>2, ElementOfSeq
    <3> HIDE DEF old
    <3> QED
      BY <1>1, <3>1 DEF OverspeedRow
  <2> HIDE DEF row
  <2>3. \A j \in 1 .. Len(overspeeds) :
          OverspeedsAfter(s)[j] = IF j = run[s].id THEN row ELSE overspeeds[j]
    BY <1>1, <2>1, <2>2, UpdatedRow
  <2> QED
    BY <1>3, <2>2, <2>3
<1>4. CASE run[s].pc = "endOverspeed"
  <2> DEFINE old == overspeeds[run[s].id]
             row == [old EXCEPT !.end = Pkt(s).time]
  <2>1. OverspeedsAfter(s) = [overspeeds EXCEPT ![run[s].id] = row]
    BY <1>4 DEF OverspeedsAfter
  <2>2. ASSUME run[s].id \in 1 .. Len(overspeeds)
        PROVE  /\ row \in OverspeedRow
               /\ row.trip = old.trip /\ row.start = old.start
               /\ row.end = Pkt(s).time /\ row.max = old.max
    <3>1. old \in OverspeedRow
      BY <1>1, <2>2, ElementOfSeq
    <3> HIDE DEF old
    <3> QED
      BY <1>1, <3>1 DEF OverspeedRow
  <2> HIDE DEF row
  <2>3. \A j \in 1 .. Len(overspeeds) :
          OverspeedsAfter(s)[j] = IF j = run[s].id THEN row ELSE overspeeds[j]
    BY <1>1, <2>1, <2>2, UpdatedRow
  <2> QED
    BY <1>4, <2>2, <2>3
<1>5. CASE run[s].pc \notin OverspeedCalls
  BY <1>5 DEF OverspeedsAfter, OverspeedCalls
<1> QED
  BY <1>2, <1>3, <1>4, <1>5 DEF OverspeedCalls

LEMMA IdlingRows ==
  ASSUME TypeInv, NEW s \in Slots
  PROVE  LET new == IdlingsAfter(s)
         IN /\ \A i \in 1 .. Len(idlings) :
                 /\ new[i].trip = idlings[i].trip
                 /\ new[i].start = idlings[i].start
                 /\ new[i].end =
                      IF run[s].pc \in {"updateIdling", "endIdling"} /\ i = run[s].id
                      THEN Pkt(s).time ELSE idlings[i].end
            /\ run[s].pc = "createIdling" =>
                 new[Len(idlings) + 1] = [trip |-> run[s].id, start |-> run[s].val,
                                          end |-> Pkt(s).time]
<1>1. /\ idlings \in Seq(IdlingRow)
      /\ Pkt(s).time \in Times
      /\ run[s].id \in Nat
      /\ run[s].pc = "createIdling" => run[s].val \in Times
  BY DEF TypeInv, TypesOK, Types, IdsExist, Packet, Pkt, IdlingRow
<1>2. CASE run[s].pc = "createIdling"
  <2> DEFINE row == [trip |-> run[s].id, start |-> run[s].val, end |-> Pkt(s).time]
  <2>1. IdlingsAfter(s) = Append(idlings, row) /\ row \in IdlingRow
    BY <1>1, <1>2 DEF IdlingsAfter, IdlingRow
  <2> HIDE DEF row
  <2>2. /\ \A i \in 1 .. Len(idlings) : IdlingsAfter(s)[i] = idlings[i]
        /\ IdlingsAfter(s)[Len(idlings) + 1] = row
    BY <1>1, <2>1, AppendProperties
  <2> QED
    BY <1>2, <2>2 DEF row
<1>3. CASE run[s].pc \in {"updateIdling", "endIdling"}
  <2> DEFINE old == idlings[run[s].id]
             row == [old EXCEPT !.end = Pkt(s).time]
  <2>1. IdlingsAfter(s) = [idlings EXCEPT ![run[s].id] = row]
    BY <1>3 DEF IdlingsAfter
  <2>2. ASSUME run[s].id \in 1 .. Len(idlings)
        PROVE  /\ row \in IdlingRow
               /\ row.trip = old.trip /\ row.start = old.start
               /\ row.end = Pkt(s).time
    <3>1. old \in IdlingRow
      BY <1>1, <2>2, ElementOfSeq
    <3> HIDE DEF old
    <3> QED
      BY <1>1, <3>1 DEF IdlingRow
  <2> HIDE DEF row
  <2>3. \A j \in 1 .. Len(idlings) :
          IdlingsAfter(s)[j] = IF j = run[s].id THEN row ELSE idlings[j]
    BY <1>1, <2>1, <2>2, UpdatedRow
  <2> QED
    BY <1>3, <2>2, <2>3
<1>4. CASE run[s].pc \notin IdlingCalls
  BY <1>4 DEF IdlingsAfter, IdlingCalls
<1> QED
  BY <1>2, <1>3, <1>4 DEF IdlingCalls

(* The same for the tables after a step: a row is an old one or the new.   *)
LEMMA TripRowsNext ==
  ASSUME TypeInv, NEW s \in Slots, TakesEffect(s), NEW i \in 1 .. Len(trips')
  PROVE  \/ /\ i \in 1 .. Len(trips)
            /\ trips'[i].start = trips[i].start
            /\ trips'[i].end = IF run[s].pc = "updateTrip" /\ i = run[s].id
                               THEN Pkt(s).time ELSE trips[i].end
         \/ /\ run[s].pc = "startTrip" /\ i = Len(trips) + 1
            /\ trips'[i].start = Pkt(s).time /\ trips'[i].end = Pkt(s).time
<1>1. Len(trips) \in Nat
  BY DEF TypeInv, TypesOK, Types, IdsExist
<1>2. Len(trips') = IF run[s].pc = "startTrip" THEN Len(trips) + 1 ELSE Len(trips)
  BY TripsAfterType DEF TakesEffect
<1>3. CASE i \in 1 .. Len(trips)
  BY <1>3, TripRows DEF TakesEffect
<1>4. CASE run[s].pc = "startTrip" /\ i = Len(trips) + 1
  <2>1. trips'[i] = [start |-> Pkt(s).time, end |-> Pkt(s).time]
    BY <1>4, TripRows DEF TakesEffect
  <2> QED
    BY <1>4, <2>1
<1> QED
  BY <1>1, <1>2, <1>3, <1>4

LEMMA OverspeedRowsNext ==
  ASSUME TypeInv, NEW s \in Slots, TakesEffect(s), NEW i \in 1 .. Len(overspeeds')
  PROVE  \/ /\ i \in 1 .. Len(overspeeds)
            /\ overspeeds'[i].trip = overspeeds[i].trip
            /\ overspeeds'[i].start = overspeeds[i].start
            /\ overspeeds'[i].end =
                 IF /\ run[s].pc \in {"updateOverspeed", "endOverspeed"}
                    /\ i = run[s].id
                 THEN Pkt(s).time ELSE overspeeds[i].end
            /\ overspeeds'[i].max =
                 IF run[s].pc = "updateOverspeed" /\ i = run[s].id
                 THEN run[s].val ELSE overspeeds[i].max
         \/ /\ run[s].pc = "createOverspeed" /\ i = Len(overspeeds) + 1
            /\ overspeeds'[i].trip = run[s].id
            /\ overspeeds'[i].start = Pkt(s).time
            /\ overspeeds'[i].end = Pkt(s).time
            /\ overspeeds'[i].max = Pkt(s).speed
<1>1. Len(overspeeds) \in Nat
  BY DEF TypeInv, TypesOK, Types, IdsExist
<1>2. Len(overspeeds') = IF run[s].pc = "createOverspeed" THEN Len(overspeeds) + 1
                         ELSE Len(overspeeds)
  BY OverspeedsAfterType DEF TakesEffect
<1>3. CASE i \in 1 .. Len(overspeeds)
  BY <1>3, OverspeedRows DEF TakesEffect
<1>4. CASE run[s].pc = "createOverspeed" /\ i = Len(overspeeds) + 1
  <2>1. overspeeds'[i] = [trip |-> run[s].id, start |-> Pkt(s).time,
                           end |-> Pkt(s).time, max |-> Pkt(s).speed]
    BY <1>4, OverspeedRows DEF TakesEffect
  <2> QED
    BY <1>4, <2>1
<1> QED
  BY <1>1, <1>2, <1>3, <1>4

LEMMA IdlingRowsNext ==
  ASSUME TypeInv, NEW s \in Slots, TakesEffect(s), NEW i \in 1 .. Len(idlings')
  PROVE  \/ /\ i \in 1 .. Len(idlings)
            /\ idlings'[i].trip = idlings[i].trip
            /\ idlings'[i].start = idlings[i].start
            /\ idlings'[i].end =
                 IF run[s].pc \in {"updateIdling", "endIdling"} /\ i = run[s].id
                 THEN Pkt(s).time ELSE idlings[i].end
         \/ /\ run[s].pc = "createIdling" /\ i = Len(idlings) + 1
            /\ idlings'[i].trip = run[s].id
            /\ idlings'[i].start = run[s].val
            /\ idlings'[i].end = Pkt(s).time
<1>1. Len(idlings) \in Nat
  BY DEF TypeInv, TypesOK, Types, IdsExist
<1>2. Len(idlings') = IF run[s].pc = "createIdling" THEN Len(idlings) + 1
                      ELSE Len(idlings)
  BY IdlingsAfterType DEF TakesEffect
<1>3. CASE i \in 1 .. Len(idlings)
  BY <1>3, IdlingRows DEF TakesEffect
<1>4. CASE run[s].pc = "createIdling" /\ i = Len(idlings) + 1
  <2>1. idlings'[i] = [trip |-> run[s].id, start |-> run[s].val,
                        end |-> Pkt(s).time]
    BY <1>4, IdlingRows DEF TakesEffect
  <2> QED
    BY <1>4, <2>1
<1> QED
  BY <1>1, <1>2, <1>3, <1>4

----------------------------------------------------------------------------
(* One invocation over either store: the packet in hand is the one         *)
(* received last, and while packets come in order nothing recorded ends    *)
(* after it.                                                               *)

Current == \A s \in Slots : Busy(s) => Pkt(s) = last

Recorded ==
  late = 0 =>
  /\ \A i \in 1 .. Len(trips) : trips[i].end <= last.time
  /\ \A i \in 1 .. Len(overspeeds) : overspeeds[i].end <= last.time
  /\ \A i \in 1 .. Len(idlings) : idlings[i].end <= last.time

AloneInv ==
  /\ TypeInv
  /\ Current
  /\ Recorded

(* A step writes no row, or what the call of the slot at work writes. *)
LEMMA RowStep ==
  ASSUME TypeInv, [Next]_vars
  PROVE  \/ UNCHANGED rows
         \/ \E s \in Slots :
              /\ Busy(s) /\ ~Refused(s) /\ TakesEffect(s)
              /\ UNCHANGED <<last, late>>
<1>1. ASSUME NEW s \in Slots, CallReturns(s)
      PROVE  Busy(s) /\ ~Refused(s) /\ TakesEffect(s) /\ UNCHANGED <<last, late>>
  BY <1>1, CallReturnsGoes
  DEF Returns, Returning, Calls, TripCalls, OverspeedCalls, IdlingCalls, Busy
<1>2. ASSUME NEW s \in Slots, CallFails(s)
      PROVE  \/ UNCHANGED rows
             \/ Busy(s) /\ ~Refused(s) /\ TakesEffect(s) /\ UNCHANGED <<last, late>>
  BY <1>2 DEF CallFails, Abort
<1> QED
  BY <1>1, <1>2
  DEF Next, Receive, ReadState, PersistState, CallRefused, Restart, Expire,
      AtBound, vars, rows

LEMMA LastStep ==
  ASSUME TypeInv, [Next]_vars
  PROVE  /\ last' \in Packet /\ last.time \in Int /\ last'.time \in Int
         /\ late' = 0 => late = 0 /\ last'.time >= last.time
<1>1. /\ last \in Packet /\ last' \in Packet
      /\ late \in Nat
  BY NextType DEF TypeInv, TypesOK, Types
<1>2. last.time \in Int /\ last'.time \in Int
  <2>1. last.time \in Times /\ last'.time \in Times
    BY <1>1 DEF Packet
  <2>2. Times \subseteq Int
    BY TimesNat
  <2> QED
    BY <2>1, <2>2
<1>3. ASSUME NEW s \in Slots, NEW p \in Packet, Receive(s, p)
      PROVE  late' = 0 => late = 0 /\ last'.time >= last.time
  BY <1>1, <1>2, <1>3 DEF Receive
<1>4. ASSUME NEW s \in Slots, CallReturns(s)
      PROVE  UNCHANGED <<last, late>>
  BY <1>4, CallReturnsGoes DEF Returns
<1>5. ASSUME UNCHANGED <<last, late>>
      PROVE  late' = 0 => late = 0 /\ last'.time >= last.time
  BY <1>2, <1>5
<1> QED
  BY <1>1, <1>2, <1>3, <1>4, <1>5
  DEF Next, ReadState, PersistState, CallRefused, CallFails, Abort, Restart,
      Expire, AtBound, vars

LEMMA RowTimes ==
  ASSUME TypeInv
  PROVE  /\ last.time \in Int
         /\ Len(trips) \in Nat /\ Len(overspeeds) \in Nat /\ Len(idlings) \in Nat
         /\ \A i \in 1 .. Len(trips) :
              trips[i].start \in Int /\ trips[i].end \in Int
         /\ \A i \in 1 .. Len(overspeeds) :
              /\ overspeeds[i].start \in Int /\ overspeeds[i].end \in Int
              /\ overspeeds[i].max \in Nat
         /\ \A i \in 1 .. Len(idlings) :
              idlings[i].start \in Int /\ idlings[i].end \in Int
<1>1. /\ trips \in Seq(TripRow) /\ overspeeds \in Seq(OverspeedRow)
      /\ idlings \in Seq(IdlingRow) /\ last \in Packet
  BY DEF TypeInv, TypesOK, Types, IdsExist, TripRow, OverspeedRow, IdlingRow
<1>2. /\ \A i \in 1 .. Len(trips) : trips[i] \in TripRow
      /\ \A i \in 1 .. Len(overspeeds) : overspeeds[i] \in OverspeedRow
      /\ \A i \in 1 .. Len(idlings) : idlings[i] \in IdlingRow
  BY <1>1, ElementOfSeq
<1>3. Times \subseteq Int
  BY TimesNat
<1>4. \A i \in 1 .. Len(trips) : trips[i].start \in Int /\ trips[i].end \in Int
  BY <1>2, <1>3 DEF TripRow
<1>5. \A i \in 1 .. Len(overspeeds) :
        /\ overspeeds[i].start \in Int /\ overspeeds[i].end \in Int
        /\ overspeeds[i].max \in Nat
  BY <1>2, <1>3 DEF OverspeedRow
<1>6. \A i \in 1 .. Len(idlings) : idlings[i].start \in Int /\ idlings[i].end \in Int
  BY <1>2, <1>3 DEF IdlingRow
<1>7. last.time \in Int
  BY <1>1, <1>3 DEF Packet
<1>8. Len(trips) \in Nat /\ Len(overspeeds) \in Nat /\ Len(idlings) \in Nat
  BY <1>1, LenProperties
<1> QED
  BY <1>4, <1>5, <1>6, <1>7, <1>8

LEMMA RecordedNext ==
  ASSUME TypeInv, Current, Recorded, [Next]_vars
  PROVE  Recorded'
<1> SUFFICES ASSUME late' = 0 PROVE Recorded'
  BY DEF Recorded
<1> USE RowTimes
<1>0. late = 0 /\ last'.time >= last.time /\ last'.time \in Int
  BY LastStep
<1>1. CASE UNCHANGED rows
  BY <1>0, <1>1 DEF Recorded, rows
<1>2. CASE \E s \in Slots : /\ Busy(s) /\ TakesEffect(s)
                            /\ UNCHANGED <<last, late>>
  <2>1. PICK s \in Slots : Busy(s) /\ TakesEffect(s) /\ UNCHANGED <<last, late>>
    BY <1>2
  <2>2. Pkt(s).time = last.time
    BY <2>1 DEF Current
  <2>3. ASSUME NEW i \in 1 .. Len(trips')
        PROVE  trips'[i].end <= last.time
    BY <1>0, <2>1, <2>2, TripRowsNext DEF Recorded
  <2>4. ASSUME NEW i \in 1 .. Len(overspeeds')
        PROVE  overspeeds'[i].end <= last.time
    BY <1>0, <2>1, <2>2, OverspeedRowsNext DEF Recorded
  <2>5. ASSUME NEW i \in 1 .. Len(idlings')
        PROVE  idlings'[i].end <= last.time
    BY <1>0, <2>1, <2>2, IdlingRowsNext DEF Recorded
  <2> QED
    BY <2>1, <2>3, <2>4, <2>5 DEF Recorded
<1> QED
  BY <1>1, <1>2, RowStep

(* What a step does to the slot in use, if it is still busy afterwards. *)
LEMMA SlotStep ==
  ASSUME Alone, TypeInv, [Next]_vars, NEW s \in Slots
  PROVE  \/ run'[s] = Free
         \/ run'[s] = run[s] /\ last' = last
         \/ \E p \in Packet : Receive(s, p) /\ run'[s].pkt = p
         \/ run'[s].pkt = run[s].pkt /\ last' = last /\ Busy(s)
<1> USE DEF Alone
<1>1. run[s] \in SlotType /\ run \in [Slots -> SlotType]
  BY DEF TypeInv, TypesOK, Types, IdsExist, SlotType
<1>2. ASSUME NEW p \in Packet, Receive(s, p)
      PROVE  run'[s].pkt = p
  BY <1>1, <1>2 DEF Receive, SlotType
<1>3. ASSUME ReadState(s)
      PROVE  run'[s].pkt = run[s].pkt /\ last' = last /\ Busy(s)
  BY <1>1, <1>3 DEF ReadState, Busy, SlotType
<1>4. ASSUME CallReturns(s)
      PROVE  run'[s].pkt = run[s].pkt /\ last' = last /\ Busy(s)
  <2>1. run[s].pc \in Returning /\ Returns(s, run[s].pc, Goes(s))
    BY <1>4, CallReturnsGoes
  <2> QED
    BY <1>1, <2>1
    DEF Returns, Proceed, SlotType, Returning, Calls, TripCalls, OverspeedCalls,
        IdlingCalls, Busy
<1>5. ASSUME PersistState(s) \/ CallRefused(s) \/ CallFails(s)
      PROVE  run'[s] = Free
  BY <1>1, <1>5 DEF PersistState, CallRefused, CallFails, Abort
<1>6. ASSUME Restart \/ Expire \/ AtBound \/ UNCHANGED vars
      PROVE  run'[s] = Free \/ (run'[s] = run[s] /\ last' = last)
  BY <1>6 DEF Restart, Expire, AtBound, vars
<1> QED
  BY <1>2, <1>3, <1>4, <1>5, <1>6 DEF Next

LEMMA CurrentNext ==
  ASSUME Alone, TypeInv, Current, [Next]_vars
  PROVE  Current'
<1> SUFFICES ASSUME NEW s \in Slots
             PROVE  (Busy(s) => Pkt(s) = last)'
  BY DEF Current
<1>1. CASE run'[s] = Free
  BY <1>1 DEF Free, Busy
<1>2. CASE run'[s] = run[s] /\ last' = last
  BY <1>2 DEF Current, Busy, Pkt
<1>3. CASE \E p \in Packet : Receive(s, p) /\ run'[s].pkt = p
  BY <1>3 DEF Receive, Pkt
<1>4. CASE run'[s].pkt = run[s].pkt /\ last' = last /\ Busy(s)
  BY <1>4 DEF Current, Pkt
<1> QED
  BY <1>1, <1>2, <1>3, <1>4, SlotStep

LEMMA InitAlone ==
  ASSUME Init
  PROVE  AloneInv
  BY InitType DEF Init, AloneInv, Current, Recorded, Busy, Free

LEMMA NextAlone ==
  ASSUME Alone, AloneInv, [Next]_vars
  PROVE  AloneInv'
  BY NextType, RecordedNext, CurrentNext DEF AloneInv

(* The state the next invocation reads. *)
StoredState == IF stored = NoObj THEN FreshState ELSE heap[stored]

LEMMA StoredStateType ==
  ASSUME TypeInv
  PROVE  StoredState \in RuntimeState /\ Within(StoredState)
  BY FreshType, HeapWithin, FreshWithin DEF StoredState, TypeInv, TypesOK, Types, IdsExist

(* The steps of an invocation, as the invariants below need them. *)
LEMMA ReadStateCont ==
  ASSUME TypeInv, NEW s \in Slots, ReadState(s)
  PROVE  /\ run[s].pc = "ingest" /\ Pkt(s) \in Packet
         /\ Begin(StoredState, Pkt(s)) \in Continuation
         /\ Cont(s)' = Begin(StoredState, Pkt(s)) /\ Pkt(s)' = Pkt(s)
         /\ run'[s].closeRead = StoredState.closeTs
         /\ run'[s].pc \in Calls
         /\ run'[s].obj \in Objs
         /\ IF StoreMode = "memory" /\ stored # NoObj
            THEN run'[s].obj = stored
            ELSE run'[s].obj # stored
         /\ \A q \in Objs : q # run'[s].obj => heap'[q] = heap[q]
         /\ UNCHANGED <<rows, stored, history, counters>>
<1> DEFINE r == Begin(StoredState, Pkt(s))
<1>1. Pkt(s) \in Packet /\ run[s] \in SlotType
  BY DEF TypeInv, TypesOK, Types, IdsExist, Pkt, SlotType
<1>2. r \in Continuation
  BY <1>1, StoredStateType, BeginBegins DEF Begins
<1>3. PICK o \in Objs :
        /\ IF StoreMode = "memory" /\ stored # NoObj THEN o = stored
           ELSE o # stored
        /\ heap' = [heap EXCEPT ![o] = r.st]
        /\ run' = [run EXCEPT ![s].pc = r.pc, ![s].id = r.id, ![s].val = r.val,
                              ![s].obj = o, ![s].closeRead = StoredState.closeTs]
  BY DEF ReadState, StoredState
<1> HIDE DEF r
<1>4. /\ run'[s].pc = r.pc /\ run'[s].id = r.id /\ run'[s].val = r.val
      /\ run'[s].obj = o /\ run'[s].closeRead = StoredState.closeTs
      /\ run'[s].pkt = run[s].pkt
  BY <1>1, <1>3 DEF TypeInv, TypesOK, Types, IdsExist, SlotType
<1>5. heap'[o] = r.st /\ \A q \in Objs : q # o => heap'[q] = heap[q]
  BY <1>3 DEF TypeInv, TypesOK, Types, IdsExist
<1>6. Cont(s)' = [st |-> r.st, pc |-> r.pc, id |-> r.id, val |-> r.val]
  BY <1>4, <1>5 DEF Cont, State
<1>7. r = [st |-> r.st, pc |-> r.pc, id |-> r.id, val |-> r.val] /\ r.pc \in Calls
  BY <1>2 DEF Continuation
<1> QED
  BY <1>1, <1>2, <1>3, <1>4, <1>5, <1>6, <1>7 DEF ReadState, Pkt, r

LEMMA SweepKeeps ==
  ASSUME TypeInv, TypeInv', heap' = Sweep(heap, stored', run')
  PROVE  /\ stored' \in Objs => heap'[stored'] = heap[stored']
         /\ \A s \in Slots : run'[s].obj \in Objs =>
              heap'[run'[s].obj] = heap[run'[s].obj]
  BY DEF Sweep

(* A step is one of these. *)
LEMMA Steps ==
  ASSUME TypeInv, [Next]_vars
  PROVE  \/ \E s \in Slots :
              \/ \E p \in Packet : Receive(s, p)
              \/ ReadState(s)
              \/ /\ run[s].pc \in Returning /\ Goes(s) \in Continuation
                 /\ Returns(s, run[s].pc, Goes(s))
              \/ PersistState(s)
              \/ /\ Busy(s) /\ Abort(s)
                 /\ \/ UNCHANGED rows
                    \/ TakesEffect(s) /\ ~Refused(s)
                 /\ UNCHANGED losses
                 /\ \/ UNCHANGED <<rows, failures>> /\ Refused(s)
                    \/ failures' = failures + 1
         \/ (Restart \/ Expire) /\ losses' = losses + 1
         \/ UNCHANGED vars
<1>1. ASSUME NEW s \in Slots, CallReturns(s)
      PROVE  /\ run[s].pc \in Returning /\ Goes(s) \in Continuation
             /\ Returns(s, run[s].pc, Goes(s))
  BY <1>1, CallReturnsGoes, GoesType
<1>2. ASSUME NEW s \in Slots, CallRefused(s)
      PROVE  /\ Busy(s) /\ Abort(s) /\ Refused(s)
             /\ UNCHANGED <<rows, failures, losses>>
  BY <1>2 DEF CallRefused, Refused, Busy, counters
<1>3. ASSUME NEW s \in Slots, CallFails(s)
      PROVE  /\ Busy(s) /\ Abort(s)
             /\ UNCHANGED rows \/ (TakesEffect(s) /\ ~Refused(s))
             /\ failures' = failures + 1 /\ UNCHANGED losses
  BY <1>3 DEF CallFails
<1>4. Restart \/ Expire => losses' = losses + 1
  BY DEF Restart, Expire
<1> QED
  BY <1>1, <1>2, <1>3, <1>4 DEF Next, AtBound

----------------------------------------------------------------------------
(* An awaited update names a row that exists: when it is issued it is the  *)
(* one the object names, and rows are never removed.                       *)

OwnRow(r) ==
  /\ r.pc = "updateTrip" => r.id = r.st.trip /\ r.id # 0
  /\ r.pc \in {"updateOverspeed", "endOverspeed"} =>
       r.id = r.st.overEvent /\ r.id # 0
  /\ r.pc \in {"updateIdling", "endIdling"} => r.id = r.st.idleEvent /\ r.id # 0

LEMMA AfterIdlingOwn ==
  ASSUME NEW st \in RuntimeState, IdleOK(st), NEW p \in Packet
  PROVE  OwnRow(AfterIdling(st, p))
  BY DEF OwnRow, AfterIdling, Await, IdleOK

LEMMA AfterOverspeedOwn ==
  ASSUME NEW st \in RuntimeState, IdleOK(st), NEW p \in Packet
  PROVE  OwnRow(AfterOverspeed(st, p))
<1> DEFINE reset == [st EXCEPT !.idleEvent = 0, !.idleStart = NoTime]
           open == IF st.idleStart = NoTime
                   THEN [st EXCEPT !.idleStart = p.time] ELSE st
<1>1. /\ open \in RuntimeState /\ IdleOK(open)
      /\ ~st.idleActive => reset \in RuntimeState /\ IdleOK(reset)
  BY DEF RuntimeState, Packet, IdleOK
<1>2. \/ ~st.idleActive /\ AfterOverspeed(st, p) = AfterIdling(reset, p)
      \/ AfterOverspeed(st, p) \in {AfterIdling(st, p), AfterIdling(open, p)}
      \/ AfterOverspeed(st, p) = Await(open, "createIdling", open.trip,
                                       open.idleStart)
      \/ /\ AfterOverspeed(st, p) = Await(open, "updateIdling", open.idleEvent, 0)
         /\ open.idleEvent # 0
  BY DEF AfterOverspeed, StandingStill
<1> HIDE DEF open, reset
<1> QED
  BY <1>1, <1>2, AfterIdlingOwn DEF OwnRow, Await

LEMMA AfterTripsOwn ==
  ASSUME NEW st \in RuntimeState, IdleOK(st), NEW p \in Packet
  PROVE  OwnRow(AfterTrips(st, p))
<1> DEFINE start == [st EXCEPT !.overActive = TRUE, !.overMax = p.speed]
           top == IF p.speed > st.overMax THEN p.speed ELSE st.overMax
           more == [st EXCEPT !.overMax = top]
<1>1. more.overEvent = st.overEvent
  BY DEF RuntimeState
<1>2. \/ AfterTrips(st, p) = Await(start, "createOverspeed", st.trip, 0)
      \/ /\ st.overEvent # 0
         /\ AfterTrips(st, p) \in
              {Await(more, "updateOverspeed", st.overEvent, top),
               Await(st, "endOverspeed", st.overEvent, 0)}
      \/ AfterTrips(st, p) = AfterOverspeed(st, p)
  BY DEF AfterTrips, Speeding
<1> HIDE DEF start, more, top
<1> QED
  BY <1>1, <1>2, AfterOverspeedOwn DEF OwnRow, Await

LEMMA BeginOwn ==
  ASSUME NEW st \in RuntimeState, IdleOK(st), NEW p \in Packet
  PROVE  OwnRow(Begin(st, p))
<1> DEFINE now == IF p.ign THEN Resumed(st, p) ELSE st
<1>1. now \in RuntimeState /\ IdleOK(now)
  BY ResumedType, TripPartIdle, TimesNat
<1>2. \/ Begin(st, p) = Await(now, "updateTrip", now.trip, 0) /\ now.trip # 0
      \/ Begin(st, p) = Await(now, "startTrip", 0, 0)
      \/ Begin(st, p) = AfterTrips(now, p)
  BY DEF Begin
<1> HIDE DEF now
<1> QED
  BY <1>1, <1>2, AfterTripsOwn DEF OwnRow, Await

LEMMA GoesOwn ==
  ASSUME TypeInv, ActiveIdlingHasEvent, NEW s \in Slots, run[s].pc \in Returning
  PROVE  OwnRow(Goes(s))
<1> USE DEF Returning, Calls, TripCalls, OverspeedCalls, IdlingCalls
<1> DEFINE st == State(s)
           p == Pkt(s)
<1>1. /\ st \in RuntimeState /\ IdleOK(st) /\ p \in Packet
      /\ run[s].closeRead \in Times \cup {NoTime}
  BY BusyObject DEF Within, State, ActiveIdlingHasEvent, IdleOK
<1>2. /\ Len(trips) + 1 \in Nat /\ Len(overspeeds) + 1 \in Nat
      /\ Len(idlings) + 1 \in Nat /\ Len(trips) + 1 # 0 /\ Len(idlings) + 1 # 0
  BY RowTimes
<1>3. CASE run[s].pc = "startTrip"
  <2> DEFINE new == [st EXCEPT !.trip = Len(trips) + 1, !.pending = FALSE,
                               !.closeTs = NoTime]
  <2>1. Goes(s) = Await(new, "updateTrip", Len(trips) + 1, 0)
    BY <1>3 DEF Goes
  <2>2. new.trip = Len(trips) + 1
    BY <1>1, <1>2, StartedType
  <2> HIDE DEF new
  <2> QED
    BY <1>2, <2>1, <2>2 DEF OwnRow, Await
<1>4. CASE run[s].pc = "updateTrip"
  BY <1>4 DEF Goes, OwnRow, Await
<1>5. CASE run[s].pc = "playback"
  <2> DEFINE new == IF p.ign THEN st ELSE Closing(st, p, run[s].closeRead)
  <2>1. Goes(s) = AfterTrips(new, p)
    BY <1>5 DEF Goes
  <2>2. new \in RuntimeState /\ IdleOK(new)
    BY <1>1, ClosingType, TripPartIdle
  <2> HIDE DEF new
  <2> QED
    BY <1>1, <2>1, <2>2, AfterTripsOwn
<1>6. CASE run[s].pc = "createOverspeed"
  <2> DEFINE new == [st EXCEPT !.overEvent = Len(overspeeds) + 1]
  <2>1. Goes(s) = AfterOverspeed(new, p)
    BY <1>6 DEF Goes
  <2>2. new \in RuntimeState /\ IdleOK(new)
    BY <1>1, <1>2, OverspeedNamedType DEF IdleOK
  <2> HIDE DEF new
  <2> QED
    BY <1>1, <2>1, <2>2, AfterOverspeedOwn
<1>7. CASE run[s].pc = "updateOverspeed"
  BY <1>1, <1>7, AfterOverspeedOwn DEF Goes
<1>8. CASE run[s].pc = "endOverspeed"
  <2>1. Goes(s) = AfterOverspeed(NoOverspeed(st), p)
    BY <1>8 DEF Goes
  <2>2. NoOverspeed(st) \in RuntimeState /\ IdleOK(NoOverspeed(st))
    BY <1>1 DEF NoOverspeed, RuntimeState, IdleOK
  <2> QED
    BY <1>1, <2>1, <2>2, AfterOverspeedOwn
<1>9. CASE run[s].pc = "createIdling"
  <2> DEFINE new == [st EXCEPT !.idleActive = TRUE, !.idleEvent = Len(idlings) + 1]
  <2>1. Goes(s) = AfterIdling(new, p)
    BY <1>9 DEF Goes
  <2>2. new \in RuntimeState /\ IdleOK(new)
    BY <1>1, <1>2, IdlingOpenedType DEF IdleOK
  <2> HIDE DEF new
  <2> QED
    BY <1>1, <2>1, <2>2, AfterIdlingOwn
<1>10. CASE run[s].pc = "updateIdling"
  BY <1>1, <1>10, AfterIdlingOwn DEF Goes
<1>11. CASE run[s].pc = "endIdling"
  BY <1>11 DEF Goes, OwnRow, Await
<1> QED
  BY <1>3, <1>4, <1>5, <1>6, <1>7, <1>8, <1>9, <1>10, <1>11

LEMMA NamesNext ==
  ASSUME TypeInv, ActiveIdlingHasEvent, \A s \in Slots : NamesRow(run[s]),
         [Next]_vars
  PROVE  (\A s \in Slots : NamesRow(run[s]))'
<1>1. TypeInv' /\ RowsGrow
  BY NextType, RowStep, TakesEffectType, UnchangedRowsGrow DEF RowsGrow
<1>2. /\ Len(trips) \in Nat /\ Len(overspeeds) \in Nat /\ Len(idlings) \in Nat
      /\ Len(trips') \in Nat /\ Len(overspeeds') \in Nat /\ Len(idlings') \in Nat
  BY <1>1, RowTimes DEF RowsGrow
<1>3. ASSUME NEW t \in Slots, run'[t] \in {run[t], Free} \/ run'[t].pc = "ingest"
      PROVE  NamesRow(run[t])'
  <2>1. CASE run'[t] = run[t]
    BY <1>1, <1>2, <2>1 DEF NamesRow, RowsGrow
  <2>2. CASE run'[t].pc \in {"ready", "ingest"}
    BY <2>2 DEF NamesRow
  <2> QED
    BY <1>3, <2>1, <2>2 DEF Free
<1>4. ASSUME NEW s \in Slots, OwnRow(Cont(s)'), run'[s].obj \in Objs
      PROVE  NamesRow(run[s])'
  <2>1. /\ heap'[run'[s].obj].trip \in 0 .. Len(trips')
        /\ heap'[run'[s].obj].overEvent \in 0 .. Len(overspeeds')
        /\ heap'[run'[s].obj].idleEvent \in 0 .. Len(idlings')
    BY <1>1, <1>2, <1>4 DEF TypeInv, TypesOK, Types, IdsExist, RuntimeState
  <2> QED
    BY <1>2, <1>4, <2>1 DEF OwnRow, Cont, State, NamesRow
<1>5. ASSUME NEW s \in Slots, ReadState(s), NEW t \in Slots
      PROVE  NamesRow(run[t])'
  <2>1. StoredState \in RuntimeState /\ IdleOK(StoredState)
    BY StoredStateType
    DEF StoredState, FreshState, IdleOK, ActiveIdlingHasEvent, TypeInv, TypesOK, Types
  <2>2. OwnRow(Begin(StoredState, Pkt(s)))
    BY <1>5, <2>1, ReadStateCont, BeginOwn
  <2>3. t # s => run'[t] = run[t]
    BY <1>5 DEF ReadState, TypeInv, TypesOK, Types
  <2> QED
    BY <1>3, <1>4, <1>5, <2>2, <2>3, ReadStateCont
<1>6. ASSUME NEW s \in Slots, run[s].pc \in Returning, Goes(s) \in Continuation,
             Returns(s, run[s].pc, Goes(s)), NEW t \in Slots
      PROVE  NamesRow(run[t])'
  <2>1. OwnRow(Goes(s)) /\ run[s].pc \in Calls /\ run[s].obj \in Objs
    BY <1>6, GoesOwn, BusyObject DEF Returning
  <2>2. t # s => run'[t] = run[t]
    BY <1>6 DEF Returns, Proceed, TypeInv, TypesOK, Types
  <2> QED
    BY <1>3, <1>4, <1>6, <2>1, <2>2, ReturnsCont
<1>7. ASSUME NEW s \in Slots, NEW p \in Packet, Receive(s, p), NEW t \in Slots
      PROVE  run'[t] = run[t] \/ run'[t].pc = "ingest"
  BY <1>7 DEF Receive, TypeInv, TypesOK, Types
<1>8. ASSUME NEW s \in Slots, PersistState(s) \/ Abort(s), NEW t \in Slots
      PROVE  run'[t] \in {run[t], Free}
  BY <1>8 DEF PersistState, Abort, TypeInv, TypesOK, Types
<1>9. ASSUME Restart \/ Expire \/ UNCHANGED vars, NEW t \in Slots
      PROVE  run'[t] \in {run[t], Free}
  BY <1>9 DEF Restart, Expire, vars
<1>10. ASSUME NEW t \in Slots
       PROVE  NamesRow(run[t])'
  BY <1>3, <1>5, <1>6, <1>7, <1>8, <1>9, Steps
<1> QED
  BY <1>10

(* With any number of invocations interleaved over either store, whatever  *)
(* calls fail and whenever the state is lost: every value has its type,    *)
(* the ids an object holds are those of rows, and an update is awaited     *)
(* only for a row that exists, also while another invocation is creating   *)
(* the row of the same period.                                             *)
THEOREM TypeCorrect == Spec => []TypeOK
<1> DEFINE Named == \A s \in Slots : NamesRow(run[s])
<1>1. Init => TypeInv /\ ActiveIdlingHasEvent /\ Named
  BY InitType DEF Init, ActiveIdlingHasEvent, FreshState, Free, NamesRow
<1>2. TypeInv /\ ActiveIdlingHasEvent /\ Named /\ [Next]_vars
        => TypeInv' /\ ActiveIdlingHasEvent' /\ Named'
  BY NextType, NextIdle, NamesNext
<1>3. TypeInv /\ Named => TypeOK
  BY DEF TypeInv, TypesOK, TypeOK
<1> QED
  BY <1>1, <1>2, <1>3, PTL DEF Spec

----------------------------------------------------------------------------
(* What the code between two awaits leaves of the parts of the object.     *)

SameTrip(a, b) == /\ a.trip = b.trip
                  /\ a.pending = b.pending
                  /\ a.closeTs = b.closeTs

SameIdle(a, b) == /\ a.idleActive = b.idleActive
                  /\ a.idleEvent = b.idleEvent
                  /\ a.idleStart = b.idleStart

SameOver(a, b) == /\ a.overActive = b.overActive
                  /\ a.overEvent = b.overEvent
                  /\ a.overMax = b.overMax

(* What the parts of the handler leave of each other's fields. *)
LEMMA NoIdlingFields ==
  ASSUME NEW st \in RuntimeState
  PROVE  /\ SameTrip(NoIdling(st), st) /\ SameOver(NoIdling(st), st)
         /\ NoIdling(st).idleActive = FALSE /\ NoIdling(st).idleEvent = 0
         /\ NoIdling(st).idleStart = NoTime
  BY DEF NoIdling, RuntimeState, SameTrip, SameOver

LEMMA NoOverspeedFields ==
  ASSUME NEW st \in RuntimeState
  PROVE  /\ SameTrip(NoOverspeed(st), st) /\ SameIdle(NoOverspeed(st), st)
         /\ NoOverspeed(st).overEvent = 0
  BY DEF NoOverspeed, RuntimeState, SameTrip, SameIdle

LEMMA TripPartFields ==
  ASSUME NEW st \in RuntimeState, NEW p \in Packet
  PROVE  LET noted == [st EXCEPT !.pending = TRUE, !.closeTs = p.time]
             open == [st EXCEPT !.pending = FALSE, !.closeTs = NoTime]
         IN /\ SameOver(noted, st) /\ SameIdle(noted, st)
            /\ noted.trip = st.trip /\ noted.pending = TRUE /\ noted.closeTs = p.time
            /\ SameOver(open, st) /\ SameIdle(open, st)
            /\ open.trip = st.trip /\ open.pending = FALSE /\ open.closeTs = NoTime
            /\ SameOver(Finalized(st), st) /\ SameIdle(Finalized(st), st)
            /\ Finalized(st).trip = 0 /\ Finalized(st).pending = FALSE
            /\ Finalized(st).closeTs = NoTime
  BY DEF Finalized, RuntimeState, SameOver, SameIdle

LEMMA NamedFields ==
  ASSUME NEW st \in RuntimeState, NEW n \in Nat
  PROVE  LET trip == [st EXCEPT !.trip = n, !.pending = FALSE, !.closeTs = NoTime]
             over == [st EXCEPT !.overEvent = n]
             idle == [st EXCEPT !.idleActive = TRUE, !.idleEvent = n]
         IN /\ SameOver(trip, st) /\ SameIdle(trip, st)
            /\ trip.trip = n /\ trip.pending = FALSE /\ trip.closeTs = NoTime
            /\ over \in RuntimeState /\ over.overEvent = n
            /\ SameTrip(over, st) /\ SameIdle(over, st)
            /\ idle \in RuntimeState /\ idle.overEvent = st.overEvent
            /\ idle.idleActive = TRUE /\ idle.idleEvent = n
            /\ idle.idleStart = st.idleStart
            /\ SameTrip(idle, st)
<1> DEFINE trip == [st EXCEPT !.trip = n, !.pending = FALSE, !.closeTs = NoTime]
           over == [st EXCEPT !.overEvent = n]
           idle == [st EXCEPT !.idleActive = TRUE, !.idleEvent = n]
<1>1. /\ SameOver(trip, st) /\ SameIdle(trip, st)
      /\ trip.trip = n /\ trip.pending = FALSE /\ trip.closeTs = NoTime
  BY DEF RuntimeState, SameOver, SameIdle
<1>2. /\ over \in RuntimeState /\ over.overEvent = n
      /\ SameTrip(over, st) /\ SameIdle(over, st)
  BY DEF RuntimeState, SameTrip, SameIdle
<1>3. /\ idle \in RuntimeState /\ idle.overEvent = st.overEvent
      /\ idle.idleActive = TRUE /\ idle.idleEvent = n
      /\ idle.idleStart = st.idleStart
      /\ SameTrip(idle, st)
  BY DEF RuntimeState, SameTrip
<1> QED
  BY <1>1, <1>2, <1>3

LEMMA AfterIdlingOver ==
  ASSUME NEW st \in RuntimeState, NEW p \in Packet
  PROVE  /\ SameOver(AfterIdling(st, p).st, st)
         /\ AfterIdling(st, p).pc \in {"endIdling", "persist"}
<1>1. SameOver(NoIdling(st), st)
  BY DEF SameOver, NoIdling, RuntimeState
<1> QED
  BY <1>1 DEF AfterIdling, Await, SameOver

LEMMA AfterOverspeedOver ==
  ASSUME NEW st \in RuntimeState, NEW p \in Packet
  PROVE  /\ SameOver(AfterOverspeed(st, p).st, st)
         /\ AfterOverspeed(st, p).pc \in IdlingCalls \cup {"persist"}
<1> DEFINE reset == [st EXCEPT !.idleEvent = 0, !.idleStart = NoTime]
           open == IF st.idleStart = NoTime
                   THEN [st EXCEPT !.idleStart = p.time] ELSE st
<1>1. reset \in RuntimeState /\ SameOver(reset, st)
  BY DEF RuntimeState, SameOver
<1>2. open \in RuntimeState /\ SameOver(open, st)
  BY DEF RuntimeState, SameOver, Packet
<1>3. AfterOverspeed(st, p) \in
        {AfterIdling(reset, p), AfterIdling(st, p), AfterIdling(open, p),
         Await(open, "createIdling", open.trip, open.idleStart),
         Await(open, "updateIdling", open.idleEvent, 0)}
  BY DEF AfterOverspeed, StandingStill
<1> HIDE DEF reset, open
<1>4. ASSUME NEW now \in RuntimeState, SameOver(now, st)
      PROVE  /\ SameOver(AfterIdling(now, p).st, st)
             /\ AfterIdling(now, p).pc \in IdlingCalls \cup {"persist"}
  BY <1>4, AfterIdlingOver DEF SameOver, IdlingCalls
<1>5. SameOver(st, st)
  BY DEF SameOver
<1> QED
  BY <1>1, <1>2, <1>3, <1>4, <1>5 DEF Await, IdlingCalls

LEMMA TripPartOver ==
  ASSUME NEW st \in RuntimeState, NEW p \in Packet
  PROVE  /\ \A c \in Times \cup {NoTime} : SameOver(Closing(st, p, c), st)
         /\ SameOver(Resumed(st, p), st)
<1>1. /\ SameOver(Finalized(st), st)
      /\ SameOver([st EXCEPT !.pending = TRUE, !.closeTs = p.time], st)
      /\ SameOver([st EXCEPT !.pending = FALSE, !.closeTs = NoTime], st)
      /\ SameOver(st, st)
  BY DEF SameOver, Finalized, RuntimeState
<1> QED
  BY <1>1 DEF Closing, Resumed

----------------------------------------------------------------------------
(* Overspeed, over the Redis store: the stored state says overspeed only   *)
(* with the row of the event (in memory mode it may not: a creation that   *)
(* fails leaves the claim in the shared object).                           *)

TrackRest(st) == st.overActive <=> st.overEvent # 0

(* The packet's part in the overspeed period is recorded. *)
Tracked(st, p, os) ==
  /\ TrackRest(st)
  /\ st.overActive <=> p.speed > SpeedLimit
  /\ st.overActive => /\ os[st.overEvent].end = p.time
                      /\ os[st.overEvent].max >= p.speed

TrackStep(r, p, os) ==
  /\ r.pc \in TripCalls => TrackRest(r.st)
  /\ r.pc = "createOverspeed" => r.st.overActive /\ p.speed > SpeedLimit
  /\ r.pc = "updateOverspeed" => /\ p.speed > SpeedLimit /\ r.st.overActive
                                 /\ r.id = r.st.overEvent /\ r.id # 0
                                 /\ r.val >= p.speed
  /\ r.pc = "endOverspeed" => p.speed <= SpeedLimit
  /\ r.pc \in IdlingCalls \cup {"persist"} => Tracked(r.st, p, os)

LEMMA PacketFacts ==
  ASSUME NEW p \in Packet
  PROVE  /\ p.speed \in Nat /\ p.time \in Nat /\ p.time \in Times
         /\ p.ign \in BOOLEAN
         /\ SpeedLimit \in Nat
  BY HandlerAssumption, TimesNat DEF Packet

LEMMA AfterOverspeedTrack ==
  ASSUME NEW st \in RuntimeState, NEW p \in Packet, NEW os, Tracked(st, p, os)
  PROVE  TrackStep(AfterOverspeed(st, p), p, os)
<1> DEFINE r == AfterOverspeed(st, p)
<1>1. SameOver(r.st, st) /\ r.pc \in IdlingCalls \cup {"persist"}
  BY AfterOverspeedOver
<1> HIDE DEF r
<1>2. Tracked(r.st, p, os)
  BY <1>1 DEF SameOver, Tracked, TrackRest
<1> QED
  BY <1>1, <1>2 DEF TrackStep, TripCalls, IdlingCalls, r

LEMMA AfterTripsTrack ==
  ASSUME NEW st \in RuntimeState, NEW p \in Packet, NEW os, TrackRest(st)
  PROVE  TrackStep(AfterTrips(st, p), p, os)
<1> USE PacketFacts
<1> DEFINE start == [st EXCEPT !.overActive = TRUE, !.overMax = p.speed]
           top == IF p.speed > st.overMax THEN p.speed ELSE st.overMax
           more == [st EXCEPT !.overMax = top]
<1>1. CASE p.speed > SpeedLimit /\ ~st.overActive
  <2>1. AfterTrips(st, p) = Await(start, "createOverspeed", st.trip, 0)
    BY <1>1 DEF AfterTrips, Speeding
  <2>2. start.overActive
    BY DEF RuntimeState
  <2> HIDE DEF start
  <2> QED
    BY <1>1, <2>1, <2>2 DEF TrackStep, Await, TripCalls, IdlingCalls
<1>2. CASE p.speed > SpeedLimit /\ st.overActive
  <2>1. st.overEvent # 0
    BY <1>2 DEF TrackRest
  <2>2. AfterTrips(st, p) = Await(more, "updateOverspeed", st.overEvent, top)
    BY <1>2, <2>1 DEF AfterTrips, Speeding
  <2>3. more.overActive /\ more.overEvent = st.overEvent
    BY <1>2 DEF RuntimeState
  <2>4. top >= p.speed
    BY DEF RuntimeState
  <2> HIDE DEF more, top
  <2> QED
    BY <1>2, <2>1, <2>2, <2>3, <2>4 DEF TrackStep, Await, TripCalls, IdlingCalls
<1>3. CASE p.speed <= SpeedLimit /\ st.overActive
  <2>1. AfterTrips(st, p) = Await(st, "endOverspeed", st.overEvent, 0)
    BY <1>3 DEF AfterTrips, TrackRest
  <2> QED
    BY <1>3, <2>1 DEF TrackStep, Await, TripCalls, IdlingCalls
<1>4. CASE p.speed <= SpeedLimit /\ ~st.overActive
  <2>1. AfterTrips(st, p) = AfterOverspeed(st, p)
    BY <1>4 DEF AfterTrips
  <2>2. Tracked(st, p, os)
    BY <1>4 DEF Tracked, TrackRest
  <2> QED
    BY <2>1, <2>2, AfterOverspeedTrack
<1> QED
  BY <1>1, <1>2, <1>3, <1>4

LEMMA BeginTrack ==
  ASSUME NEW st \in RuntimeState, NEW p \in Packet, NEW os, TrackRest(st)
  PROVE  TrackStep(Begin(st, p), p, os)
<1> DEFINE now == IF p.ign THEN Resumed(st, p) ELSE st
<1>1. now \in RuntimeState /\ TrackRest(now)
  BY ResumedType, TripPartOver DEF SameOver, TrackRest
<1>2. Begin(st, p) \in {Await(now, "updateTrip", now.trip, 0),
                        Await(now, "startTrip", 0, 0), AfterTrips(now, p)}
  BY DEF Begin
<1> HIDE DEF now
<1>3. ASSUME NEW call \in TripCalls, NEW id
      PROVE  TrackStep(Await(now, call, id, 0), p, os)
  BY <1>1, <1>3 DEF TrackStep, Await, TripCalls, IdlingCalls
<1> QED
  BY <1>1, <1>2, <1>3, AfterTripsTrack DEF TripCalls

LEMMA GoesTrack ==
  ASSUME TypeInv, NEW s \in Slots, run[s].pc \in Returning, TakesEffect(s),
         TrackStep(Cont(s), Pkt(s), overspeeds)
  PROVE  TrackStep(Goes(s), Pkt(s), overspeeds')
<1> USE DEF Returning, Calls, TripCalls, OverspeedCalls, IdlingCalls
<1> DEFINE st == State(s)
           p == Pkt(s)
<1>1. /\ st \in RuntimeState /\ p \in Packet
      /\ run[s].closeRead \in Times \cup {NoTime}
      /\ st.overEvent <= Len(overspeeds) /\ st.overEvent \in Nat
      /\ Len(trips) + 1 \in Nat /\ Len(overspeeds) \in Nat
      /\ Len(idlings) + 1 \in Nat
  <2>1. /\ Within(State(s)) /\ p \in Packet
        /\ run[s].closeRead \in Times \cup {NoTime}
    BY BusyObject
  <2>2. Len(trips) \in Nat /\ Len(overspeeds) \in Nat /\ Len(idlings) \in Nat
    BY RowTimes
  <2> QED
    BY <2>1, <2>2 DEF Within, RuntimeState
<1>2. /\ Cont(s).st = st /\ Cont(s).pc = run[s].pc /\ Cont(s).id = run[s].id
      /\ Cont(s).val = run[s].val
  BY DEF Cont
<1> HIDE DEF st, p
<1>3. CASE run[s].pc = "startTrip"
  <2> DEFINE new == [st EXCEPT !.trip = Len(trips) + 1, !.pending = FALSE,
                               !.closeTs = NoTime]
  <2>1. Goes(s) = Await(new, "updateTrip", Len(trips) + 1, 0)
    BY <1>3 DEF Goes, st
  <2>2. TrackRest(st)
    BY <1>2, <1>3 DEF TrackStep, p
  <2>3. new.overActive = st.overActive /\ new.overEvent = st.overEvent
    BY <1>1, StartedType
  <2> HIDE DEF new
  <2>4. TrackRest(new)
    BY <2>2, <2>3 DEF TrackRest
  <2> QED
    BY <2>1, <2>4 DEF TrackStep, Await
<1>4. CASE run[s].pc = "updateTrip"
  <2>1. Goes(s) = Await(st, "playback", st.trip, 0)
    BY <1>4 DEF Goes, st
  <2>2. TrackRest(st)
    BY <1>2, <1>4 DEF TrackStep, p
  <2> QED
    BY <2>1, <2>2 DEF TrackStep, Await
<1>5. CASE run[s].pc = "playback"
  <2> DEFINE new == IF p.ign THEN st ELSE Closing(st, p, run[s].closeRead)
  <2>1. Goes(s) = AfterTrips(new, p)
    BY <1>5 DEF Goes, st, p
  <2>2. TrackRest(st)
    BY <1>2, <1>5 DEF TrackStep, p
  <2>3. new \in RuntimeState /\ TrackRest(new)
    BY <1>1, <2>2, ClosingType, TripPartOver DEF TrackRest, SameOver
  <2> HIDE DEF new
  <2> QED
    BY <1>1, <2>1, <2>3, AfterTripsTrack DEF p
<1>6. CASE run[s].pc = "createOverspeed"
  <2> DEFINE new == [st EXCEPT !.overEvent = Len(overspeeds) + 1]
  <2>1. Goes(s) = AfterOverspeed(new, p)
    BY <1>6 DEF Goes, st, p
  <2>2. new \in RuntimeState /\ new.overEvent = Len(overspeeds) + 1
        /\ new.overActive = st.overActive
    BY <1>1, OverspeedNamedType
  <2>3. st.overActive /\ p.speed > SpeedLimit
    BY <1>2, <1>6 DEF TrackStep, p
  <2>4. overspeeds'[Len(overspeeds) + 1] =
          [trip |-> run[s].id, start |-> p.time, end |-> p.time, max |-> p.speed]
    BY <1>6, OverspeedRows DEF TakesEffect, p
  <2> HIDE DEF new
  <2>5. Tracked(new, p, overspeeds')
    BY <1>1, <2>2, <2>3, <2>4, PacketFacts DEF Tracked, TrackRest
  <2> QED
    BY <1>1, <2>1, <2>2, <2>5, AfterOverspeedTrack DEF p
<1>7. CASE run[s].pc = "updateOverspeed"
  <2>1. Goes(s) = AfterOverspeed(st, p)
    BY <1>7 DEF Goes, st, p
  <2>2. /\ p.speed > SpeedLimit /\ st.overActive
        /\ run[s].id = st.overEvent /\ run[s].id # 0 /\ run[s].val >= p.speed
    BY <1>2, <1>7 DEF TrackStep, p
  <2>3. run[s].id \in 1 .. Len(overspeeds)
    BY <1>1, <2>2
  <2>4. /\ overspeeds'[run[s].id].end = p.time
        /\ overspeeds'[run[s].id].max = run[s].val
    BY <1>7, <2>3, OverspeedRows DEF TakesEffect, p
  <2>5. Tracked(st, p, overspeeds')
    BY <1>1, <2>2, <2>4 DEF Tracked, TrackRest
  <2> QED
    BY <1>1, <2>1, <2>5, AfterOverspeedTrack DEF p
<1>8. CASE run[s].pc = "endOverspeed"
  <2> DEFINE new == NoOverspeed(st)
  <2>1. Goes(s) = AfterOverspeed(new, p)
    BY <1>8 DEF Goes, st, p
  <2>2. p.speed <= SpeedLimit
    BY <1>2, <1>8 DEF TrackStep, p
  <2>3. new \in RuntimeState /\ new.overEvent = 0 /\ new.overActive = FALSE
    BY <1>1 DEF NoOverspeed, RuntimeState
  <2> HIDE DEF new
  <2>4. Tracked(new, p, overspeeds')
    BY <1>1, <2>2, <2>3, PacketFacts DEF Tracked, TrackRest
  <2> QED
    BY <1>1, <2>1, <2>3, <2>4, AfterOverspeedTrack DEF p
<1>9. ASSUME run[s].pc \in IdlingCalls
      PROVE  Tracked(st, p, overspeeds') /\ overspeeds' = overspeeds
  <2>1. overspeeds' = overspeeds
    BY <1>9 DEF TakesEffect, OverspeedsAfter
  <2>2. Tracked(st, p, overspeeds)
    BY <1>2, <1>9 DEF TrackStep, p
  <2> QED
    BY <2>1, <2>2
<1>10. ASSUME NEW now \in RuntimeState, SameOver(now, st),
              Tracked(st, p, overspeeds')
       PROVE  TrackStep(AfterIdling(now, p), p, overspeeds')
  <2> DEFINE r == AfterIdling(now, p)
  <2>1. SameOver(r.st, st) /\ r.pc \in {"endIdling", "persist"}
    BY <1>1, <1>10, AfterIdlingOver DEF SameOver
  <2> HIDE DEF r
  <2>2. Tracked(r.st, p, overspeeds')
    BY <1>10, <2>1 DEF SameOver, Tracked, TrackRest
  <2> QED
    BY <2>1, <2>2 DEF TrackStep, r
<1>11. CASE run[s].pc = "createIdling"
  <2> DEFINE new == [st EXCEPT !.idleActive = TRUE, !.idleEvent = Len(idlings) + 1]
  <2>1. Goes(s) = AfterIdling(new, p)
    BY <1>11 DEF Goes, st, p
  <2>2. new \in RuntimeState /\ SameOver(new, st)
    BY <1>1 DEF RuntimeState, SameOver
  <2> HIDE DEF new
  <2> QED
    BY <1>9, <1>10, <1>11, <2>1, <2>2 DEF p
<1>12. CASE run[s].pc = "updateIdling"
  <2>1. Goes(s) = AfterIdling(st, p) /\ SameOver(st, st)
    BY <1>12 DEF Goes, st, p, SameOver
  <2> QED
    BY <1>1, <1>9, <1>10, <1>12, <2>1 DEF p
<1>13. CASE run[s].pc = "endIdling"
  <2> DEFINE new == NoIdling(st)
  <2>1. Goes(s) = Await(new, "persist", 0, 0)
    BY <1>13 DEF Goes, st
  <2>2. SameOver(new, st)
    BY <1>1 DEF NoIdling, RuntimeState, SameOver
  <2>3. Tracked(new, p, overspeeds')
    BY <1>9, <1>13, <2>2 DEF SameOver, Tracked, TrackRest
  <2> HIDE DEF new
  <2> QED
    BY <2>1, <2>3 DEF TrackStep, Await, p
<1> QED
  BY <1>3, <1>4, <1>5, <1>6, <1>7, <1>8, <1>11, <1>12, <1>13

----------------------------------------------------------------------------
(* Idling, over the Redis store: the stored state says idle only with the  *)
(* row of the period, which starts where the period does.                  *)

IdleRest(st, ids) ==
  st.idleActive => /\ st.idleEvent # 0 /\ st.idleStart # NoTime
                   /\ ids[st.idleEvent].start = st.idleStart

Standing(p) == p.ign /\ p.speed = 0

(* What the code after the idling part may rely on.                        *)
Stood(st, p, ids) ==
  /\ st.idleActive /\ Standing(p) => ids[st.idleEvent].end = p.time
  /\ ~st.idleActive => IF Standing(p)
                       THEN /\ st.idleStart # NoTime
                            /\ p.time - st.idleStart < IdleThreshold
                       ELSE st.idleStart = NoTime

(* The packet's part in the idling period is recorded. *)
IdleTracked(st, p, ids) ==
  /\ IdleRest(st, ids) /\ Stood(st, p, ids)
  /\ st.idleActive => p.ign /\ p.speed <= MovingSpeed

IdleStep(r, p, ids) ==
  /\ IdleRest(r.st, ids)
  /\ r.pc = "createIdling" => /\ ~r.st.idleActive /\ Standing(p)
                              /\ r.st.idleStart # NoTime
                              /\ r.val = r.st.idleStart
  /\ r.pc = "updateIdling" => /\ r.st.idleActive /\ Standing(p)
                              /\ r.id = r.st.idleEvent
  /\ r.pc = "endIdling" => ~Standing(p)
  /\ r.pc = "persist" => IdleTracked(r.st, p, ids)

LEMMA IdleRestSame ==
  ASSUME NEW a, NEW b, NEW ids, SameIdle(a, b), IdleRest(b, ids)
  PROVE  IdleRest(a, ids)
  BY DEF SameIdle, IdleRest

LEMMA AfterIdlingIdling ==
  ASSUME NEW st \in RuntimeState, NEW p \in Packet, NEW ids,
         IdleRest(st, ids), Stood(st, p, ids)
  PROVE  IdleStep(AfterIdling(st, p), p, ids)
<1>1. CASE st.idleActive /\ (p.speed > MovingSpeed \/ ~p.ign)
  <2>1. AfterIdling(st, p) = Await(st, "endIdling", st.idleEvent, 0)
    BY <1>1 DEF AfterIdling, IdleRest
  <2>2. ~Standing(p)
    BY <1>1 DEF Standing, MovingSpeed
  <2> QED
    BY <2>1, <2>2 DEF IdleStep, Await
<1>2. CASE ~(st.idleActive /\ (p.speed > MovingSpeed \/ ~p.ign))
  <2>1. AfterIdling(st, p) = Await(st, "persist", 0, 0)
    BY <1>2 DEF AfterIdling
  <2>2. st.idleActive => p.ign /\ p.speed <= MovingSpeed
    BY <1>2, PacketFacts DEF MovingSpeed
  <2> QED
    BY <2>1, <2>2 DEF IdleStep, IdleTracked, Await
<1> QED
  BY <1>1, <1>2

LEMMA AfterOverspeedIdling ==
  ASSUME NEW st \in RuntimeState, NEW p \in Packet, NEW ids, IdleRest(st, ids)
  PROVE  IdleStep(AfterOverspeed(st, p), p, ids)
<1>1. CASE Standing(p)
  <2> DEFINE open == IF st.idleStart = NoTime
                     THEN [st EXCEPT !.idleStart = p.time] ELSE st
  <2>1. /\ open \in RuntimeState /\ open.idleStart # NoTime
        /\ open.idleActive = st.idleActive
        /\ open.idleEvent = st.idleEvent
        /\ IdleRest(open, ids)
    BY TimesNat, PacketFacts DEF RuntimeState, IdleRest
  <2>2. AfterOverspeed(st, p) = StandingStill(st, p)
    BY <1>1 DEF AfterOverspeed, Standing
  <2>3. StandingStill(st, p) =
          IF ~open.idleActive
          THEN IF p.time - open.idleStart >= IdleThreshold
               THEN Await(open, "createIdling", open.trip, open.idleStart)
               ELSE AfterIdling(open, p)
          ELSE IF open.idleEvent # 0
               THEN Await(open, "updateIdling", open.idleEvent, 0)
               ELSE AfterIdling(open, p)
    BY DEF StandingStill
  <2> HIDE DEF open
  <2>4. CASE ~open.idleActive /\ p.time - open.idleStart >= IdleThreshold
    BY <1>1, <2>1, <2>2, <2>3, <2>4 DEF IdleStep, Await
  <2>5. CASE ~open.idleActive /\ ~(p.time - open.idleStart >= IdleThreshold)
    <3>1. p.time - open.idleStart < IdleThreshold
      <4>1. open.idleStart \in Times \cup {NoTime}
        BY <2>1 DEF RuntimeState
      <4>2. open.idleStart \in Int
        <5> HIDE DEF Times
        <5>1. \A x : x \in Times => x \in Int
          BY TimesNat
        <5> QED
          BY <4>1, <5>1, TimesNat
      <4>3. p.time \in Int
        BY PacketFacts
      <4>4. IdleThreshold \in Int
        BY HandlerAssumption
      <4> QED
        BY <2>5, <4>2, <4>3, <4>4
    <3>2. Stood(open, p, ids)
      BY <1>1, <2>1, <2>5, <3>1 DEF Stood
    <3> QED
      BY <2>1, <2>2, <2>3, <2>5, <3>2, AfterIdlingIdling
  <2>6. CASE open.idleActive
    <3>1. AfterOverspeed(st, p) = Await(open, "updateIdling", open.idleEvent, 0)
      BY <2>1, <2>2, <2>3, <2>6 DEF IdleRest
    <3> QED
      BY <1>1, <2>1, <2>6, <3>1 DEF IdleStep, Await
  <2> QED
    BY <2>4, <2>5, <2>6
<1>2. CASE ~Standing(p) /\ st.idleActive
  <2>1. AfterOverspeed(st, p) = AfterIdling(st, p)
    BY <1>2 DEF AfterOverspeed, Standing
  <2> QED
    BY <1>2, <2>1, AfterIdlingIdling DEF Stood
<1>3. CASE ~Standing(p) /\ ~st.idleActive
  <2> DEFINE reset == [st EXCEPT !.idleEvent = 0, !.idleStart = NoTime]
  <2>1. AfterOverspeed(st, p) = AfterIdling(reset, p)
    BY <1>3 DEF AfterOverspeed, Standing
  <2>2. reset \in RuntimeState /\ ~reset.idleActive /\ reset.idleStart = NoTime
    BY <1>3 DEF RuntimeState
  <2> HIDE DEF reset
  <2> QED
    BY <1>3, <2>1, <2>2, AfterIdlingIdling DEF Stood, IdleRest
<1> QED
  BY <1>1, <1>2, <1>3

LEMMA AfterTripsIdling ==
  ASSUME NEW st \in RuntimeState, NEW p \in Packet, NEW ids, IdleRest(st, ids)
  PROVE  IdleStep(AfterTrips(st, p), p, ids)
<1> DEFINE start == [st EXCEPT !.overActive = TRUE, !.overMax = p.speed]
           top == IF p.speed > st.overMax THEN p.speed ELSE st.overMax
           more == [st EXCEPT !.overMax = top]
<1>1. IdleRest(start, ids) /\ IdleRest(more, ids)
  BY IdleRestSame DEF SameIdle, RuntimeState
<1>2. \/ AfterTrips(st, p) = Await(start, "createOverspeed", st.trip, 0)
      \/ AfterTrips(st, p) = Await(more, "updateOverspeed", st.overEvent, top)
      \/ AfterTrips(st, p) = Await(st, "endOverspeed", st.overEvent, 0)
      \/ AfterTrips(st, p) = AfterOverspeed(st, p)
  BY DEF AfterTrips, Speeding
<1> HIDE DEF start, more, top
<1> QED
  BY <1>1, <1>2, AfterOverspeedIdling DEF IdleStep, Await

LEMMA BeginIdling ==
  ASSUME NEW st \in RuntimeState, NEW p \in Packet, NEW ids, IdleRest(st, ids)
  PROVE  IdleStep(Begin(st, p), p, ids)
<1> DEFINE now == IF p.ign THEN Resumed(st, p) ELSE st
<1>1. now \in {[st EXCEPT !.pending = FALSE, !.closeTs = NoTime],
               Finalized(st), st}
  BY DEF Resumed
<1>2. now \in RuntimeState
  BY ResumedType
<1>3. SameIdle(now, st)
  <2>1. /\ SameIdle([st EXCEPT !.pending = FALSE, !.closeTs = NoTime], st)
        /\ SameIdle(Finalized(st), st) /\ SameIdle(st, st)
    BY DEF SameIdle, Finalized, RuntimeState
  <2> HIDE DEF now
  <2> QED
    BY <1>1, <2>1
<1>4. IdleRest(now, ids)
  BY <1>3, IdleRestSame
<1>5. Begin(st, p) \in {Await(now, "updateTrip", now.trip, 0),
                        Await(now, "startTrip", 0, 0), AfterTrips(now, p)}
  BY DEF Begin
<1> HIDE DEF now
<1> QED
  BY <1>2, <1>4, <1>5, AfterTripsIdling DEF IdleStep, Await

(* Rows keep their start: what is known of the object stays known. *)
LEMMA EffectIdleRest ==
  ASSUME TypeInv, NEW s \in Slots, TakesEffect(s), NEW st, Within(st),
         IdleRest(st, idlings)
  PROVE  IdleRest(st, idlings')
<1>1. st.idleActive => st.idleEvent \in 1 .. Len(idlings)
  BY RowTimes DEF Within, RuntimeState, IdleRest
<1>2. \A i \in 1 .. Len(idlings) : idlings'[i].start = idlings[i].start
  BY IdlingRows DEF TakesEffect
<1> QED
  BY <1>1, <1>2 DEF IdleRest

LEMMA StepIdleRest ==
  ASSUME TypeInv, [Next]_vars, NEW st, Within(st), IdleRest(st, idlings)
  PROVE  IdleRest(st, idlings')
  BY RowStep, EffectIdleRest DEF rows

LEMMA GoesIdling ==
  ASSUME TypeInv, NEW s \in Slots, run[s].pc \in Returning, TakesEffect(s),
         IdleStep(Cont(s), Pkt(s), idlings)
  PROVE  IdleStep(Goes(s), Pkt(s), idlings')
<1> USE DEF Returning, Calls, TripCalls, OverspeedCalls, IdlingCalls
<1> DEFINE st == State(s)
           p == Pkt(s)
<1>1. /\ st \in RuntimeState /\ Within(st) /\ p \in Packet
      /\ run[s].closeRead \in Times \cup {NoTime}
  BY BusyObject DEF Within
<1>2. /\ Len(trips) + 1 \in Nat /\ Len(overspeeds) + 1 \in Nat
      /\ Len(idlings) + 1 \in Nat /\ Len(idlings) + 1 # 0
  BY RowTimes
<1>3. IdleRest(st, idlings) /\ IdleRest(st, idlings')
  BY <1>1, EffectIdleRest DEF IdleStep, Cont
<1>4. CASE run[s].pc = "startTrip"
  <2> DEFINE new == [st EXCEPT !.trip = Len(trips) + 1, !.pending = FALSE,
                               !.closeTs = NoTime]
  <2>1. Goes(s) = Await(new, "updateTrip", Len(trips) + 1, 0)
    BY <1>4 DEF Goes
  <2>2. SameIdle(new, st)
    <3> HIDE DEF st, p
    <3> QED
      BY <1>1, <1>2 DEF RuntimeState, SameIdle
  <2> HIDE DEF new
  <2> QED
    BY <1>3, <2>1, <2>2, IdleRestSame DEF IdleStep, Await
<1>5. CASE run[s].pc = "updateTrip"
  BY <1>3, <1>5 DEF Goes, IdleStep, Await
<1>6. CASE run[s].pc = "playback"
  <2> DEFINE new == IF p.ign THEN st ELSE Closing(st, p, run[s].closeRead)
  <2>1. Goes(s) = AfterTrips(new, p)
    BY <1>6 DEF Goes
  <2>2. Closing(st, p, run[s].closeRead) \in
          {[st EXCEPT !.pending = TRUE, !.closeTs = p.time], Finalized(st), st}
    BY DEF Closing
  <2>3. new \in RuntimeState
    BY <1>1, ClosingType
  <2>4. SameIdle(new, st)
    <3>1. /\ SameIdle([st EXCEPT !.pending = TRUE, !.closeTs = p.time], st)
          /\ SameIdle(Finalized(st), st) /\ SameIdle(st, st)
      <4> HIDE DEF st, p
      <4> QED
        BY <1>1 DEF SameIdle, Finalized, RuntimeState
    <3>2. new \in {[st EXCEPT !.pending = TRUE, !.closeTs = p.time], Finalized(st), st}
      BY <2>2
    <3> HIDE DEF new, st, p
    <3> QED
      BY <3>1, <3>2
  <2>5. IdleRest(new, idlings')
    BY <1>3, <2>4, IdleRestSame
  <2> HIDE DEF new
  <2> QED
    BY <1>1, <2>1, <2>3, <2>5, AfterTripsIdling
<1>7. CASE run[s].pc = "createOverspeed"
  <2> DEFINE new == [st EXCEPT !.overEvent = Len(overspeeds) + 1]
  <2>1. Goes(s) = AfterOverspeed(new, p)
    BY <1>7 DEF Goes
  <2>2. new \in RuntimeState /\ SameIdle(new, st)
    <3> HIDE DEF st, p
    <3> QED
      BY <1>1, <1>2 DEF RuntimeState, SameIdle
  <2> HIDE DEF new
  <2> QED
    BY <1>1, <1>3, <2>1, <2>2, IdleRestSame, AfterOverspeedIdling
<1>8. CASE run[s].pc = "updateOverspeed"
  BY <1>1, <1>3, <1>8, AfterOverspeedIdling DEF Goes
<1>9. CASE run[s].pc = "endOverspeed"
  <2>1. Goes(s) = AfterOverspeed(NoOverspeed(st), p)
    BY <1>9 DEF Goes
  <2>2. NoOverspeed(st) \in RuntimeState /\ SameIdle(NoOverspeed(st), st)
    BY <1>1, NoOverspeedType, NoOverspeedFields
  <2> QED
    BY <1>1, <1>3, <2>1, <2>2, IdleRestSame, AfterOverspeedIdling
<1>10. CASE run[s].pc = "createIdling"
  <2> DEFINE new == [st EXCEPT !.idleActive = TRUE, !.idleEvent = Len(idlings) + 1]
  <2>1. Goes(s) = AfterIdling(new, p)
    BY <1>10 DEF Goes
  <2>2. /\ new \in RuntimeState /\ new.idleEvent = Len(idlings) + 1
        /\ new.idleActive /\ new.idleStart = st.idleStart
    <3> HIDE DEF st, p
    <3> QED
      BY <1>1, <1>2 DEF RuntimeState, SameIdle
  <2>3. /\ run[s].val = st.idleStart /\ st.idleStart # NoTime /\ Standing(p)
    BY <1>10 DEF IdleStep, Cont
  <2>4. idlings'[Len(idlings) + 1] =
          [trip |-> run[s].id, start |-> run[s].val, end |-> p.time]
    BY <1>10, IdlingRows DEF TakesEffect
  <2> HIDE DEF new
  <2>5. IdleRest(new, idlings') /\ Stood(new, p, idlings')
    BY <1>2, <2>2, <2>3, <2>4 DEF IdleRest, Stood
  <2> QED
    BY <1>1, <2>1, <2>2, <2>5, AfterIdlingIdling
<1>11. CASE run[s].pc = "updateIdling"
  <2>1. Goes(s) = AfterIdling(st, p)
    BY <1>11 DEF Goes
  <2>2. st.idleActive /\ Standing(p) /\ run[s].id = st.idleEvent
    BY <1>11 DEF IdleStep, Cont
  <2>3. run[s].id \in 1 .. Len(idlings)
    BY <1>1, <1>3, <2>2, RowTimes DEF Within, RuntimeState, IdleRest
  <2>4. idlings'[run[s].id].end = p.time
    BY <1>11, <2>3, IdlingRows DEF TakesEffect
  <2>5. Stood(st, p, idlings')
    BY <2>2, <2>4 DEF Stood
  <2> QED
    BY <1>1, <1>3, <2>1, <2>5, AfterIdlingIdling
<1>12. CASE run[s].pc = "endIdling"
  <2> DEFINE new == NoIdling(st)
  <2>1. Goes(s) = Await(new, "persist", 0, 0)
    BY <1>12 DEF Goes
  <2>2. new.idleActive = FALSE /\ new.idleStart = NoTime
    BY <1>1, NoIdlingFields
  <2>3. ~Standing(p)
    BY <1>12 DEF IdleStep, Cont
  <2> HIDE DEF new
  <2> QED
    BY <2>1, <2>2, <2>3 DEF IdleStep, IdleTracked, IdleRest, Stood, Await
<1> QED
  BY <1>4, <1>5, <1>6, <1>7, <1>8, <1>9, <1>10, <1>11, <1>12

----------------------------------------------------------------------------
(* Both parts together: what holds of the stored state and of the copy an  *)
(* invocation works on.                                                    *)

RedisRest(st, ids) == TrackRest(st) /\ IdleRest(st, ids)

RedisStep(r, p, os, ids) == TrackStep(r, p, os) /\ IdleStep(r, p, ids)

RedisInv ==
  /\ RedisRest(StoredState, idlings)
  /\ \A s \in Slots :
       run[s].obj # NoObj =>
         /\ run[s].obj # stored
         /\ RedisStep(Cont(s), Pkt(s), overspeeds, idlings)

LEMMA NextRedis ==
  ASSUME Alone, StoreMode = "redis", TypeInv, TypeInv', RedisInv, [Next]_vars
  PROVE  RedisInv'
<1> DEFINE SlotOK(s) == run[s].obj # NoObj =>
                          /\ run[s].obj # stored
                          /\ RedisStep(Cont(s), Pkt(s), overspeeds, idlings)
<1>1. RedisRest(StoredState, idlings) /\ \A s \in Slots : SlotOK(s)
  BY DEF RedisInv
<1>2. ASSUME RedisRest(StoredState, idlings)', \A s \in Slots : SlotOK(s)'
      PROVE  RedisInv'
  BY <1>2 DEF RedisInv
<1>3. ASSUME UNCHANGED stored, \A o \in Objs : o = stored => heap'[o] = heap[o]
      PROVE  RedisRest(StoredState, idlings)'
  <2>1. StoredState' = StoredState
    BY <1>3 DEF StoredState, TypeInv, TypesOK, Types, IdsExist
  <2> QED
    BY <1>1, <2>1, StoredStateType, StepIdleRest DEF RedisRest
<1>4. ASSUME NEW s \in Slots, NEW p \in Packet, Receive(s, p)
      PROVE  RedisInv'
  <2>1. run[s].pc = "ready" /\ run[s].obj = NoObj /\ run'[s].obj = run[s].obj
    BY <1>4 DEF Receive, Busy, TypeInv, TypesOK, Types, IdsExist
  <2>2. \A t \in Slots : SlotOK(t)'
    BY <2>1 DEF Alone
  <2> HIDE DEF SlotOK
  <2> QED
    BY <1>2, <1>3, <1>4, <2>2 DEF Receive
<1>5. ASSUME NEW s \in Slots, ReadState(s)
      PROVE  RedisInv'
  <2>1. RedisStep(Begin(StoredState, Pkt(s)), Pkt(s), overspeeds, idlings)
    BY <1>1, <1>5, ReadStateCont, StoredStateType, BeginTrack, BeginIdling
    DEF RedisRest, RedisStep
  <2>2. SlotOK(s)'
    BY <1>5, <2>1, ReadStateCont DEF rows
  <2>3. \A t \in Slots : SlotOK(t)'
    BY <2>2 DEF Alone
  <2>4. UNCHANGED stored /\ \A o \in Objs : o = stored => heap'[o] = heap[o]
    BY <1>5, ReadStateCont
  <2> HIDE DEF SlotOK
  <2> QED
    BY <1>2, <1>3, <2>3, <2>4
<1>6. ASSUME NEW s \in Slots, run[s].pc \in Returning, Goes(s) \in Continuation,
             Returns(s, run[s].pc, Goes(s))
      PROVE  RedisInv'
  <2>1. /\ run[s].pc \in Calls /\ run[s].obj \in Objs /\ run[s].obj # NoObj
        /\ TakesEffect(s)
    BY <1>6, BusyObject, HandlerAssumption DEF Returning, Returns
  <2>2. run[s].obj # stored /\ RedisStep(Cont(s), Pkt(s), overspeeds, idlings)
    BY <1>1, <2>1
  <2>3. RedisStep(Goes(s), Pkt(s), overspeeds', idlings')
    BY <1>6, <2>1, <2>2, GoesTrack, GoesIdling DEF RedisStep
  <2>4. /\ Cont(s)' = Goes(s) /\ Pkt(s)' = Pkt(s) /\ run'[s].obj = run[s].obj
        /\ UNCHANGED stored
        /\ \A o \in Objs : o = stored => heap'[o] = heap[o]
    BY <1>6, <2>1, <2>2, ReturnsCont
  <2>5. SlotOK(s)'
    BY <2>2, <2>3, <2>4
  <2>6. \A t \in Slots : SlotOK(t)'
    BY <2>5 DEF Alone
  <2> HIDE DEF SlotOK
  <2> QED
    BY <1>2, <1>3, <2>4, <2>6
<1>7. ASSUME NEW s \in Slots, PersistState(s)
      PROVE  RedisInv'
  <2>1. /\ run'[s] = Free /\ run[s].obj \in Objs
        /\ stored' \in {NoObj, run[s].obj}
        /\ heap' = Sweep(heap, stored', run')
        /\ run[s].pc = "persist" /\ idlings' = idlings
    BY <1>7, BusyObject DEF PersistState, TypeInv, TypesOK, Types, IdsExist, Calls, rows
  <2>2. TrackRest(State(s)) /\ IdleRest(State(s), idlings)
    BY <1>1, <2>1, HandlerAssumption
    DEF RedisStep, TrackStep, IdleStep, Tracked, Cont
  <2>3. StoredState' \in {FreshState, State(s)}
    BY <2>1, SweepKeeps, HandlerAssumption DEF StoredState, State
  <2>4. RedisRest(StoredState, idlings)'
    BY <2>1, <2>2, <2>3 DEF RedisRest, TrackRest, IdleRest, FreshState
  <2>5. \A t \in Slots : SlotOK(t)'
    BY <2>1 DEF Alone, Free
  <2> HIDE DEF SlotOK
  <2> QED
    BY <1>2, <2>4, <2>5
<1>8. ASSUME NEW s \in Slots, Abort(s)
      PROVE  RedisInv'
  <2>1. /\ run'[s] = Free /\ UNCHANGED stored
        /\ heap' = Sweep(heap, stored', run')
    BY <1>8 DEF Abort, TypeInv, TypesOK, Types, IdsExist
  <2>2. \A t \in Slots : SlotOK(t)'
    BY <2>1 DEF Alone, Free
  <2> HIDE DEF SlotOK
  <2> QED
    BY <1>2, <1>3, <2>1, <2>2, SweepKeeps
<1>9. CASE Restart
  <2>1. /\ \A t \in Slots : run'[t] = Free
        /\ UNCHANGED stored
        /\ heap' = Sweep(heap, stored', run')
    BY <1>9 DEF Restart
  <2>2. \A t \in Slots : SlotOK(t)'
    BY <2>1 DEF Free
  <2> HIDE DEF SlotOK
  <2> QED
    BY <1>2, <1>3, <2>1, <2>2, SweepKeeps
<1>10. CASE Expire
  <2>1. /\ stored' = NoObj /\ run' = run
        /\ overspeeds' = overspeeds /\ idlings' = idlings
        /\ heap' = Sweep(heap, stored', run')
    BY <1>10 DEF Expire, rows
  <2>2. ASSUME NEW t \in Slots
        PROVE  SlotOK(t)'
    <3>1. CASE run[t].obj = NoObj
      BY <2>1, <3>1
    <3>2. CASE run[t].obj # NoObj
      <4>1. run[t].obj \in Objs
        BY <3>2 DEF TypeInv, TypesOK, Types, IdsExist
      <4>2. Cont(t)' = Cont(t) /\ Pkt(t)' = Pkt(t)
        BY <2>1, <4>1, SweepKeeps DEF Cont, State, Pkt
      <4> QED
        BY <1>1, <2>1, <3>2, <4>2
    <3> QED
      BY <3>1, <3>2
  <2>3. RedisRest(StoredState, idlings)'
    BY <2>1 DEF StoredState, FreshState, RedisRest, TrackRest, IdleRest
  <2> HIDE DEF SlotOK
  <2> QED
    BY <1>2, <2>2, <2>3
<1>11. CASE UNCHANGED vars
  BY <1>11 DEF vars, RedisInv, StoredState, Cont, State, Pkt
<1> QED
  BY <1>4, <1>5, <1>6, <1>7, <1>8, <1>9, <1>10, <1>11, Steps

LEMMA AlwaysRedis ==
  ASSUME Alone, StoreMode = "redis"
  PROVE  Spec => [](TypeInv /\ RedisInv)
<1>1. Init => TypeInv /\ RedisInv
  <2> SUFFICES ASSUME Init PROVE TypeInv /\ RedisInv
    OBVIOUS
  <2>1. RedisRest(StoredState, idlings)
    BY DEF Init, StoredState, FreshState, RedisRest, TrackRest, IdleRest
  <2> QED
    BY <2>1, InitType DEF Init, RedisInv, Free
<1>2. TypeInv /\ RedisInv /\ [Next]_vars => TypeInv' /\ RedisInv'
  BY NextType, NextRedis
<1> QED
  BY <1>1, <1>2, PTL DEF Spec

LEMMA PersistTracked ==
  ASSUME TypeInv, RedisInv, NEW s \in Slots, run[s].pc = "persist"
  PROVE  /\ Tracked(State(s), Pkt(s), overspeeds)
         /\ IdleTracked(State(s), Pkt(s), idlings)
<1>1. run[s].obj # NoObj
  BY BusyObject, HandlerAssumption DEF Calls
<1> QED
  BY <1>1 DEF RedisInv, RedisStep, TrackStep, IdleStep, Cont

(* Over the Redis store a handled packet over the limit is in the row of   *)
(* its overspeed event, and one within the limit has ended it, whatever    *)
(* calls fail and whenever the state expires.                              *)
THEOREM OverspeedIsTracked ==
  ASSUME Alone, StoreMode = "redis"
  PROVE  Spec => []OverspeedTracked
<1>1. TypeInv /\ RedisInv => OverspeedTracked
  <2> SUFFICES ASSUME TypeInv, RedisInv, NEW s \in Slots, run[s].pc = "persist"
               PROVE  Tracked(State(s), Pkt(s), overspeeds)
    BY DEF OverspeedTracked, Tracked, TrackRest
  <2> QED
    BY PersistTracked
<1> QED
  BY <1>1, AlwaysRedis, PTL

(* Over the Redis store the idling row that a handled packet's state names *)
(* is the row of that period: it has the period's start and, while the     *)
(* vehicle stands, the packet's time; a period with no row is shorter than *)
(* the threshold, and a packet that is not standing has ended a period     *)
(* with none.  Packets may be late, calls may fail and the state expire.   *)
THEOREM IdlingIsTracked ==
  ASSUME Alone, StoreMode = "redis"
  PROVE  Spec => []IdlingTracked
<1>1. TypeInv /\ RedisInv => IdlingTracked
  <2> SUFFICES ASSUME TypeInv, RedisInv, NEW s \in Slots, run[s].pc = "persist"
               PROVE  IdleTracked(State(s), Pkt(s), idlings)
    BY DEF IdlingTracked, IdleTracked, IdleRest, Stood, Standing
  <2> QED
    BY PersistTracked
<1> QED
  BY <1>1, AlwaysRedis, PTL

----------------------------------------------------------------------------
(* The memory store.  An invocation works on the stored object itself, so  *)
(* a step of the handler is one of six kinds of step on the stored state   *)
(* and on the continuation of the slot.                                    *)

Shared ==
  \A s \in Slots : run[s].obj # NoObj => stored \in {NoObj, run[s].obj}

Receives(s) ==
  /\ \E p \in Packet : Receive(s, p)
  /\ run[s].pc = "ready" /\ run[s].obj = NoObj
  /\ run'[s].pc = "ingest" /\ run'[s].obj = NoObj
  /\ Pkt(s)' = last' /\ StoredState' = StoredState
  /\ UNCHANGED <<rows, counters>>

Reads(s) ==
  /\ run[s].pc = "ingest" /\ run[s].obj = NoObj
  /\ run'[s].pc \in Calls /\ run'[s].obj # NoObj
  /\ Cont(s)' = Begin(StoredState, Pkt(s)) /\ Pkt(s)' = Pkt(s)
  /\ run'[s].closeRead = StoredState.closeTs
  /\ UNCHANGED <<rows, last, offSince, counters>>

Advances(s) ==
  /\ run[s].pc \in Returning /\ run[s].obj # NoObj
  /\ ~Refused(s) /\ TakesEffect(s)
  /\ run'[s].pc \in Calls /\ run'[s].obj # NoObj
  /\ Cont(s)' = Goes(s) /\ Pkt(s)' = Pkt(s)
  /\ run'[s].closeRead = run[s].closeRead
  /\ UNCHANGED <<last, offSince, counters>>

Persists(s) ==
  /\ run[s].pc = "persist" /\ run[s].obj # NoObj
  /\ run'[s] = Free
  /\ \/ StoredState' = State(s)
     \/ StoredState' = FreshState /\ NothingToKeep(State(s))
  /\ UNCHANGED <<rows, last, offSince, counters>>

Drops(s) ==
  /\ Busy(s) /\ run'[s] = Free
  /\ IF run[s].obj = NoObj THEN StoredState' = StoredState
     ELSE StoredState' \in {State(s), FreshState}
  /\ \/ UNCHANGED <<rows, counters>> /\ Refused(s)
     \/ /\ UNCHANGED rows \/ (TakesEffect(s) /\ ~Refused(s))
        /\ failures' = failures + 1
  /\ UNCHANGED <<last, offSince, losses>>

Loses(s) ==
  /\ StoredState' = FreshState
  /\ losses' = losses + 1
  /\ \/ run'[s] = Free
     \/ /\ run'[s] = run[s]
        /\ run[s].obj # NoObj => Cont(s)' = Cont(s)
  /\ UNCHANGED <<rows, last, offSince, failures>>

LEMMA MemoryStep ==
  ASSUME OneAtATime, TypeInv, Shared, [Next]_vars, NEW s \in Slots
  PROVE  /\ Shared'
         /\ \/ Receives(s) \/ Reads(s) \/ Advances(s) \/ Persists(s)
            \/ Drops(s) \/ Loses(s) \/ UNCHANGED vars
<1>1. \A t \in Slots : t = s
  BY DEF OneAtATime, Alone
<1>2. TypeInv'
  BY NextType
<1>3. ASSUME NEW p \in Packet, Receive(s, p)
      PROVE  Shared' /\ Receives(s)
  <2>1. /\ run[s].pc = "ready" /\ run[s].obj = NoObj
        /\ run'[s].pc = "ingest" /\ run'[s].obj = NoObj /\ run'[s].pkt = p
    BY <1>3 DEF Receive, Busy, TypeInv, TypesOK, Types, IdsExist
  <2>2. StoredState' = StoredState /\ UNCHANGED <<rows, counters>> /\ last' = p
    BY <1>3 DEF Receive, StoredState
  <2> QED
    BY <1>1, <1>3, <2>1, <2>2 DEF Shared, Receives, Pkt
<1>4. ASSUME ReadState(s)
      PROVE  Shared' /\ Reads(s)
  <2>1. run[s].obj = NoObj
    BY <1>4 DEF ReadState, TypeInv, TypesOK, Types, IdsExist
  <2>2. stored' \in {NoObj, run'[s].obj} /\ run'[s].obj # NoObj
    BY <1>4, ReadStateCont, HandlerAssumption DEF OneAtATime
  <2> QED
    BY <1>1, <1>4, <2>1, <2>2, ReadStateCont DEF Shared, Reads
<1>5. ASSUME run[s].pc \in Returning, Goes(s) \in Continuation,
             Returns(s, run[s].pc, Goes(s))
      PROVE  Shared' /\ Advances(s)
  <2>1. run[s].pc \in Calls /\ run[s].obj \in Objs /\ run[s].obj # NoObj
    BY <1>5, BusyObject, HandlerAssumption DEF Returning
  <2>2. run'[s].pc \in Calls
    BY <1>5, <2>1, ReturnsCont DEF Continuation
  <2>3. stored' \in {NoObj, run'[s].obj}
    BY <1>5, <2>1, ReturnsCont DEF Shared
  <2> QED
    BY <1>1, <1>5, <2>1, <2>2, <2>3, ReturnsCont DEF Shared, Advances, Returns
<1>6. ASSUME PersistState(s)
      PROVE  Shared' /\ Persists(s)
  <2>1. /\ run[s].pc = "persist" /\ run[s].obj \in Objs
        /\ stored' = IF NothingToKeep(State(s)) THEN NoObj ELSE run[s].obj
        /\ run'[s] = Free
        /\ heap' = Sweep(heap, stored', run')
        /\ UNCHANGED <<rows, last, offSince, counters>>
    BY <1>6, BusyObject DEF PersistState, TypeInv, TypesOK, Types, IdsExist, Calls
  <2>2. \/ StoredState' = State(s)
        \/ StoredState' = FreshState /\ NothingToKeep(State(s))
    BY <1>2, <2>1, SweepKeeps, HandlerAssumption DEF StoredState, State
  <2> QED
    BY <1>1, <2>1, <2>2, HandlerAssumption DEF Shared, Persists, Free
<1>7. ASSUME Busy(s), Abort(s),
             \/ UNCHANGED rows
             \/ TakesEffect(s) /\ ~Refused(s),
             UNCHANGED losses,
             \/ UNCHANGED <<rows, failures>> /\ Refused(s)
             \/ failures' = failures + 1
      PROVE  Shared' /\ Drops(s)
  <2>1. /\ run'[s] = Free /\ UNCHANGED <<stored, last, offSince>>
        /\ heap' = Sweep(heap, stored', run')
    BY <1>7 DEF Abort, TypeInv, TypesOK, Types, IdsExist
  <2>2. StoredState' = StoredState
    BY <1>2, <2>1, SweepKeeps DEF StoredState, TypeInv, TypesOK, Types, IdsExist
  <2>3. run[s].obj # NoObj => StoredState \in {State(s), FreshState}
    BY DEF Shared, StoredState, State
  <2> QED
    BY <1>1, <1>7, <2>1, <2>2, <2>3 DEF Shared, Drops, Free, counters
<1>8. ASSUME Restart \/ Expire
      PROVE  Shared' /\ Loses(s)
  <2>1. /\ stored' = NoObj /\ heap' = Sweep(heap, stored', run')
        /\ run'[s] = Free \/ run' = run
        /\ losses' = losses + 1 /\ UNCHANGED <<rows, last, offSince, failures>>
    BY <1>8 DEF Restart, Expire, OneAtATime
  <2>2. run' = run /\ run[s].obj # NoObj => Cont(s)' = Cont(s)
    <3> SUFFICES ASSUME run' = run, run[s].obj # NoObj
                 PROVE  Cont(s)' = Cont(s)
      OBVIOUS
    <3>1. run'[s].obj \in Objs
      BY DEF TypeInv, TypesOK, Types, IdsExist
    <3> QED
      BY <1>2, <2>1, <3>1, SweepKeeps DEF Cont, State
  <2>3. StoredState' = FreshState
    BY <2>1 DEF StoredState
  <2> QED
    BY <1>1, <2>1, <2>2, <2>3 DEF Shared, Loses
<1>9. ASSUME UNCHANGED vars
      PROVE  Shared'
  BY <1>9 DEF vars, Shared
<1> QED
  BY <1>1, <1>3, <1>4, <1>5, <1>6, <1>7, <1>8, <1>9, Steps

----------------------------------------------------------------------------
(* Peaks are kept: the object that names an overspeed row has seen every   *)
(* speed the row has.                                                      *)

OverRow(st, os) ==
  st.overEvent # 0 => st.overActive /\ os[st.overEvent].max <= st.overMax

OverStep(r, p, os) ==
  /\ OverRow(r.st, os)
  /\ r.pc = "createOverspeed" => r.st.overActive /\ r.st.overMax = p.speed
  /\ r.pc = "updateOverspeed" => /\ r.id = r.st.overEvent /\ r.id # 0
                                 /\ r.val = r.st.overMax

GrowInv ==
  \A s \in Slots :
    IF run[s].obj = NoObj THEN OverRow(StoredState, overspeeds)
                          ELSE OverStep(Cont(s), Pkt(s), overspeeds)

LEMMA AfterOverspeedGrow ==
  ASSUME NEW st \in RuntimeState, NEW p \in Packet, NEW os, OverRow(st, os)
  PROVE  OverStep(AfterOverspeed(st, p), p, os)
<1> DEFINE r == AfterOverspeed(st, p)
<1>1. SameOver(r.st, st) /\ r.pc \in IdlingCalls \cup {"persist"}
  BY AfterOverspeedOver
<1> HIDE DEF r
<1> QED
  BY <1>1 DEF SameOver, OverRow, OverStep, IdlingCalls, r

LEMMA AfterTripsGrow ==
  ASSUME NEW st \in RuntimeState, NEW p \in Packet, NEW os, OverRow(st, os),
         st.overEvent # 0 => os[st.overEvent].max \in Nat
  PROVE  OverStep(AfterTrips(st, p), p, os)
<1> USE PacketFacts
<1> DEFINE start == [st EXCEPT !.overActive = TRUE, !.overMax = p.speed]
           top == IF p.speed > st.overMax THEN p.speed ELSE st.overMax
           more == [st EXCEPT !.overMax = top]
<1>1. CASE p.speed > SpeedLimit /\ ~st.overActive
  <2>1. AfterTrips(st, p) = Await(start, "createOverspeed", st.trip, 0)
    BY <1>1 DEF AfterTrips, Speeding
  <2>2. start.overActive /\ start.overMax = p.speed /\ start.overEvent = 0
    BY <1>1 DEF RuntimeState, OverRow
  <2> HIDE DEF start
  <2> QED
    BY <2>1, <2>2 DEF OverStep, OverRow, Await
<1>2. CASE p.speed > SpeedLimit /\ st.overActive /\ st.overEvent # 0
  <2>1. AfterTrips(st, p) = Await(more, "updateOverspeed", st.overEvent, top)
    BY <1>2 DEF AfterTrips, Speeding
  <2>2. /\ more.overActive /\ more.overEvent = st.overEvent /\ more.overMax = top
        /\ os[st.overEvent].max <= top
    BY <1>2 DEF RuntimeState, OverRow
  <2> HIDE DEF more, top
  <2> QED
    BY <1>2, <2>1, <2>2 DEF OverStep, OverRow, Await
<1>3. CASE ~(p.speed > SpeedLimit /\ (~st.overActive \/ st.overEvent # 0))
  <2>1. AfterTrips(st, p) \in {Await(st, "endOverspeed", st.overEvent, 0),
                               AfterOverspeed(st, p)}
    BY <1>3 DEF AfterTrips, Speeding
  <2>2. OverStep(Await(st, "endOverspeed", st.overEvent, 0), p, os)
    BY DEF OverStep, Await
  <2> QED
    BY <2>1, <2>2, AfterOverspeedGrow
<1> QED
  BY <1>1, <1>2, <1>3

LEMMA BeginGrow ==
  ASSUME TypeInv, NEW st \in RuntimeState, Within(st), NEW p \in Packet,
         OverRow(st, overspeeds)
  PROVE  OverStep(Begin(st, p), p, overspeeds)
<1> DEFINE now == IF p.ign THEN Resumed(st, p) ELSE st
<1>1. now \in RuntimeState /\ SameOver(now, st)
  BY ResumedType, TripPartOver DEF SameOver
<1>2. Begin(st, p) \in {Await(now, "updateTrip", now.trip, 0),
                        Await(now, "startTrip", 0, 0), AfterTrips(now, p)}
  BY DEF Begin
<1> HIDE DEF now
<1>3. OverRow(now, overspeeds)
  BY <1>1 DEF SameOver, OverRow
<1>4. now.overEvent # 0 => overspeeds[now.overEvent].max \in Nat
  BY <1>1, RowTimes DEF SameOver, Within, RuntimeState
<1> QED
  BY <1>1, <1>2, <1>3, <1>4, AfterTripsGrow DEF OverStep, Await

(* A call that takes effect keeps the row within the object. *)
LEMMA EffectGrow ==
  ASSUME TypeInv, NEW s \in Slots, run[s].pc \in Calls, TakesEffect(s),
         OverStep(Cont(s), Pkt(s), overspeeds)
  PROVE  OverRow(State(s), overspeeds')
<1>1. /\ State(s).overEvent \in Nat /\ State(s).overMax \in Nat
      /\ State(s).overEvent <= Len(overspeeds)
  BY BusyObject DEF Within, RuntimeState
<1>2. OverRow(State(s), overspeeds)
  BY DEF OverStep, Cont
<1>3. CASE State(s).overEvent = 0
  BY <1>3 DEF OverRow
<1>4. CASE State(s).overEvent # 0
  <2> DEFINE e == State(s).overEvent
  <2>1. e \in 1 .. Len(overspeeds)
    BY <1>1, <1>4, RowTimes
  <2>2. overspeeds'[e].max = IF run[s].pc = "updateOverspeed" /\ e = run[s].id
                             THEN run[s].val ELSE overspeeds[e].max
    BY <2>1, OverspeedRows DEF TakesEffect
  <2>3. run[s].pc = "updateOverspeed" => run[s].val = State(s).overMax
    BY DEF OverStep, Cont
  <2> QED
    BY <1>1, <1>2, <1>4, <2>2, <2>3 DEF OverRow
<1> QED
  BY <1>3, <1>4

LEMMA GoesGrow ==
  ASSUME TypeInv, NEW s \in Slots, run[s].pc \in Returning, TakesEffect(s),
         OverStep(Cont(s), Pkt(s), overspeeds)
  PROVE  OverStep(Goes(s), Pkt(s), overspeeds')
<1> USE DEF Returning, Calls, TripCalls, OverspeedCalls, IdlingCalls
<1> DEFINE st == State(s)
           p == Pkt(s)
<1>1. /\ st \in RuntimeState /\ p \in Packet
      /\ run[s].closeRead \in Times \cup {NoTime}
      /\ st.overEvent <= Len(overspeeds) /\ st.overEvent \in Nat
      /\ Len(trips) + 1 \in Nat /\ Len(overspeeds) \in Nat
      /\ Len(idlings) + 1 \in Nat
  <2>1. /\ Within(State(s)) /\ p \in Packet
        /\ run[s].closeRead \in Times \cup {NoTime}
    BY BusyObject
  <2> QED
    BY <2>1, RowTimes DEF Within, RuntimeState
<1>2. OverRow(st, overspeeds')
  BY EffectGrow
<1>3. /\ run[s].pc = "createOverspeed" => st.overActive /\ st.overMax = p.speed
  BY DEF OverStep, Cont
<1> HIDE DEF st, p
<1>4. ASSUME NEW now \in RuntimeState, SameOver(now, st), NEW call, NEW id,
             call \notin {"createOverspeed", "updateOverspeed"}
      PROVE  OverStep(Await(now, call, id, 0), p, overspeeds')
  BY <1>2, <1>4 DEF OverStep, OverRow, SameOver, Await
<1>5. ASSUME NEW now \in RuntimeState, SameOver(now, st)
      PROVE  OverStep(AfterIdling(now, p), p, overspeeds')
  <2> DEFINE r == AfterIdling(now, p)
  <2>1. SameOver(r.st, st) /\ r.pc \in {"endIdling", "persist"}
    BY <1>1, <1>5, AfterIdlingOver DEF SameOver
  <2> HIDE DEF r
  <2> QED
    BY <1>2, <2>1 DEF OverStep, OverRow, SameOver, r
<1>6. SameOver(st, st)
  BY DEF SameOver
<1>7. CASE run[s].pc = "startTrip"
  <2> DEFINE new == [st EXCEPT !.trip = Len(trips) + 1, !.pending = FALSE,
                               !.closeTs = NoTime]
  <2>1. Goes(s) = Await(new, "updateTrip", Len(trips) + 1, 0)
    BY <1>7 DEF Goes, st
  <2>2. new \in RuntimeState /\ SameOver(new, st)
    BY <1>1 DEF SameOver, RuntimeState
  <2> HIDE DEF new
  <2> QED
    BY <1>4, <2>1, <2>2 DEF p
<1>8. CASE run[s].pc = "updateTrip"
  <2>1. Goes(s) = Await(st, "playback", st.trip, 0)
    BY <1>8 DEF Goes, st
  <2> QED
    BY <1>1, <1>4, <1>6, <2>1 DEF p
<1>9. CASE run[s].pc = "playback"
  <2> DEFINE new == IF p.ign THEN st ELSE Closing(st, p, run[s].closeRead)
  <2>1. Goes(s) = AfterTrips(new, p)
    BY <1>9 DEF Goes, st, p
  <2>2. new \in RuntimeState /\ SameOver(new, st)
    BY <1>1, <1>6, ClosingType, TripPartOver
  <2>3. overspeeds' = overspeeds
    BY <1>9 DEF TakesEffect, OverspeedsAfter
  <2> HIDE DEF new
  <2>4. OverRow(new, overspeeds')
    BY <1>2, <2>2 DEF OverRow, SameOver
  <2>5. new.overEvent # 0 => overspeeds'[new.overEvent].max \in Nat
    BY <1>1, <2>2, <2>3, RowTimes DEF SameOver
  <2> QED
    BY <1>1, <2>1, <2>2, <2>4, <2>5, AfterTripsGrow DEF p
<1>10. CASE run[s].pc = "createOverspeed"
  <2> DEFINE new == [st EXCEPT !.overEvent = Len(overspeeds) + 1]
  <2>1. Goes(s) = AfterOverspeed(new, p)
    BY <1>10 DEF Goes, st, p
  <2>2. /\ new \in RuntimeState
        /\ new.overEvent = Len(overspeeds) + 1
        /\ new.overActive = st.overActive
        /\ new.overMax = st.overMax
    BY <1>1, OverspeedNamedType
  <2>3. overspeeds'[Len(overspeeds) + 1].max = p.speed
    <3>1. overspeeds'[Len(overspeeds) + 1] =
            [trip |-> run[s].id, start |-> p.time, end |-> p.time, max |-> p.speed]
      BY <1>10, OverspeedRows DEF TakesEffect, p
    <3> QED
      BY <3>1
  <2> HIDE DEF new
  <2>4. OverRow(new, overspeeds')
    BY <1>1, <1>3, <1>10, <2>2, <2>3, PacketFacts DEF OverRow
  <2> QED
    BY <1>1, <2>1, <2>2, <2>4, AfterOverspeedGrow DEF p
<1>11. CASE run[s].pc = "updateOverspeed"
  <2>1. Goes(s) = AfterOverspeed(st, p)
    BY <1>11 DEF Goes, st, p
  <2> QED
    BY <1>1, <1>2, <2>1, AfterOverspeedGrow DEF p
<1>12. CASE run[s].pc = "endOverspeed"
  <2>1. Goes(s) = AfterOverspeed(NoOverspeed(st), p)
    BY <1>12 DEF Goes, st, p
  <2>2. NoOverspeed(st) \in RuntimeState /\ OverRow(NoOverspeed(st), overspeeds')
    BY <1>1, NoOverspeedType DEF OverRow
  <2> QED
    BY <1>1, <2>1, <2>2, AfterOverspeedGrow DEF p
<1>13. CASE run[s].pc = "createIdling"
  <2> DEFINE new == [st EXCEPT !.idleActive = TRUE, !.idleEvent = Len(idlings) + 1]
  <2>1. Goes(s) = AfterIdling(new, p)
    BY <1>13 DEF Goes, st, p
  <2>2. new \in RuntimeState /\ SameOver(new, st)
    BY <1>1 DEF RuntimeState, SameOver
  <2> HIDE DEF new
  <2> QED
    BY <1>5, <2>1, <2>2 DEF p
<1>14. CASE run[s].pc = "updateIdling"
  <2>1. Goes(s) = AfterIdling(st, p)
    BY <1>14 DEF Goes, st, p
  <2> QED
    BY <1>1, <1>5, <1>6, <2>1 DEF p
<1>15. CASE run[s].pc = "endIdling"
  <2>1. Goes(s) = Await(NoIdling(st), "persist", 0, 0)
    BY <1>15 DEF Goes, st
  <2>2. NoIdling(st) \in RuntimeState /\ SameOver(NoIdling(st), st)
    BY <1>1 DEF NoIdling, RuntimeState, SameOver
  <2> QED
    BY <1>4, <2>1, <2>2 DEF p
<1> QED
  BY <1>7, <1>8, <1>9, <1>10, <1>11, <1>12, <1>13, <1>14, <1>15

LEMMA NextGrow ==
  ASSUME OneAtATime, TypeInv, Shared, GrowInv, [Next]_vars
  PROVE  GrowInv'
<1> DEFINE OK(s) == IF run[s].obj = NoObj THEN OverRow(StoredState, overspeeds)
                    ELSE OverStep(Cont(s), Pkt(s), overspeeds)
<1>1. SUFFICES ASSUME NEW s \in Slots PROVE OK(s)'
  BY DEF GrowInv
<1>2. OK(s)
  BY DEF GrowInv
<1>4. CASE Receives(s)
  BY <1>2, <1>4 DEF Receives, OverRow, rows
<1>5. CASE Reads(s)
  <2>1. OverStep(Begin(StoredState, Pkt(s)), Pkt(s), overspeeds)
    BY <1>2, <1>5, BeginGrow, StoredStateType DEF Reads, TypeInv, TypesOK, Types, IdsExist, Pkt
  <2> QED
    BY <1>5, <2>1 DEF Reads, rows
<1>6. CASE Advances(s)
  <2>1. OverStep(Goes(s), Pkt(s), overspeeds')
    BY <1>2, <1>6, GoesGrow DEF Advances
  <2> QED
    BY <1>6, <2>1 DEF Advances
<1>7. OverRow(FreshState, overspeeds')
  BY DEF OverRow, FreshState
<1>8. CASE Persists(s)
  <2>1. OverRow(State(s), overspeeds')
    BY <1>2, <1>8 DEF Persists, OverStep, Cont, rows
  <2> QED
    BY <1>7, <1>8, <2>1 DEF Persists, Free, OverRow
<1>9. CASE Drops(s)
  <2>1. CASE run[s].obj = NoObj
    <3>1. run[s].pc = "ingest"
      BY <1>9, <2>1 DEF Drops, Busy, TypeInv, TypesOK, Types, IdsExist
    <3>2. overspeeds' = overspeeds
      BY <1>9, <3>1 DEF Drops, rows, TakesEffect, OverspeedsAfter
    <3> QED
      BY <1>2, <1>9, <2>1, <3>2 DEF Drops, Free, OverRow
  <2>2. CASE run[s].obj # NoObj
    <3>1. run[s].pc \in Calls
      BY <2>2 DEF TypeInv, TypesOK, Types, IdsExist
    <3>2. OverRow(State(s), overspeeds')
      <4>1. CASE TakesEffect(s)
        BY <1>2, <2>2, <3>1, <4>1, EffectGrow
      <4>2. CASE UNCHANGED rows
        BY <1>2, <2>2, <4>2 DEF OverStep, Cont, rows
      <4> QED
        BY <1>9, <4>1, <4>2 DEF Drops
    <3> QED
      BY <1>7, <1>9, <2>2, <3>2 DEF Drops, Free, OverRow
  <2> QED
    BY <2>1, <2>2
<1>10. CASE Loses(s)
  <2>1. CASE run'[s] = Free \/ run[s].obj = NoObj
    BY <1>7, <1>10, <2>1 DEF Loses, Free, OverRow
  <2>2. CASE run'[s] = run[s] /\ run[s].obj # NoObj
    <3>0. run'[s] # Free
      BY <2>2 DEF Free
    <3>1. Cont(s)' = Cont(s)
      BY <1>10, <2>2, <3>0 DEF Loses
    <3>2. Pkt(s)' = Pkt(s) /\ run'[s].obj # NoObj
      BY <2>2 DEF Pkt
    <3>3. overspeeds' = overspeeds
      BY <1>10 DEF Loses, rows
    <3>4. OverStep(Cont(s), Pkt(s), overspeeds)
      BY <1>2, <2>2
    <3> QED
      BY <3>1, <3>2, <3>3, <3>4
  <2> QED
    BY <1>10, <2>1, <2>2 DEF Loses
<1>11. CASE UNCHANGED vars
  BY <1>2, <1>11 DEF vars, StoredState, Cont, State, Pkt
<1> QED
  BY <1>4, <1>5, <1>6, <1>8, <1>9, <1>10, <1>11, MemoryStep

----------------------------------------------------------------------------
LEMMA InitGrow ==
  ASSUME Init
  PROVE  Shared /\ GrowInv
<1>1. StoredState = FreshState /\ \A s \in Slots : run[s].obj = NoObj
  BY DEF Init, StoredState, Free
<1> QED
  BY <1>1 DEF Shared, GrowInv, OverRow, FreshState

LEMMA NextShared ==
  ASSUME OneAtATime, TypeInv, Shared, [Next]_vars
  PROVE  Shared'
<1>1. CASE \E s \in Slots : TRUE
  BY <1>1, MemoryStep
<1>2. CASE ~\E s \in Slots : TRUE
  BY <1>2 DEF Shared
<1> QED
  BY <1>1, <1>2

(* One table later on: no row is gone or starts elsewhere.                 *)
Kept(old, new) ==
  /\ Len(new) >= Len(old)
  /\ \A i \in 1 .. Len(old) : new[i].start = old[i].start

RowsKept ==
  /\ Kept(trips, trips') /\ Kept(overspeeds, overspeeds')
  /\ Kept(idlings, idlings')
  /\ \A i \in 1 .. Len(overspeeds) : overspeeds'[i].max >= overspeeds[i].max

LEMMA EffectKeeps ==
  ASSUME TypeInv, GrowInv, NEW s \in Slots, TakesEffect(s)
  PROVE  RowsKept
<1> USE RowTimes
<1>1. /\ Len(trips') >= Len(trips)
      /\ Len(overspeeds') >= Len(overspeeds)
      /\ Len(idlings') >= Len(idlings)
  BY TripsAfterType, OverspeedsAfterType, IdlingsAfterType DEF TakesEffect
<1>2. \A i \in 1 .. Len(trips) : trips'[i].start = trips[i].start
  BY TripRows DEF TakesEffect
<1>3. \A i \in 1 .. Len(overspeeds) : overspeeds'[i].start = overspeeds[i].start
  BY OverspeedRows DEF TakesEffect
<1>4. \A i \in 1 .. Len(idlings) : idlings'[i].start = idlings[i].start
  BY IdlingRows DEF TakesEffect
<1>5. ASSUME NEW i \in 1 .. Len(overspeeds)
      PROVE  overspeeds'[i].max >= overspeeds[i].max
  <2>1. overspeeds'[i].max = IF run[s].pc = "updateOverspeed" /\ i = run[s].id
                             THEN run[s].val ELSE overspeeds[i].max
    BY <1>5, OverspeedRows DEF TakesEffect
  <2>2. CASE run[s].pc = "updateOverspeed" /\ i = run[s].id
    <3>1. run[s].obj # NoObj
      BY <2>2 DEF TypeInv, TypesOK, Types, IdsExist
    <3>2. OverStep(Cont(s), Pkt(s), overspeeds)
      BY <3>1 DEF GrowInv
    <3>3. /\ run[s].id = State(s).overEvent /\ run[s].id # 0
          /\ run[s].val = State(s).overMax
          /\ OverRow(State(s), overspeeds)
      BY <2>2, <3>2 DEF OverStep, Cont
    <3> QED
      BY <2>1, <2>2, <3>3 DEF OverRow
  <2> QED
    BY <1>5, <2>1, <2>2
<1> QED
  BY <1>1, <1>2, <1>3, <1>4, <1>5 DEF RowsKept, Kept

LEMMA NextKeeps ==
  ASSUME TypeInv, GrowInv, [Next]_vars
  PROVE  RowsKept
<1>1. CASE UNCHANGED rows
  BY <1>1, RowTimes DEF rows, RowsKept, Kept
<1>2. CASE \E s \in Slots : TakesEffect(s)
  BY <1>2, EffectKeeps
<1> QED
  BY <1>1, <1>2, RowStep

(* What a report has shown of a row's start stays, and an overspeed row    *)
(* never forgets its top speed, whatever calls fail, whenever the stored   *)
(* state is lost and however late packets come.                            *)
THEOREM PeaksAreKept ==
  ASSUME OneAtATime
  PROVE  Spec => PeaksKept
<1> DEFINE WithGrowth == TypeInv /\ Shared /\ GrowInv
<1>1. Init => WithGrowth
  BY InitType, InitGrow
<1>2. WithGrowth /\ [Next]_vars => WithGrowth'
  BY NextType, NextGrow, NextShared
<1>3. WithGrowth /\ [Next]_vars =>
        [LET Keeps(old, new) ==
               /\ Len(new) >= Len(old)
               /\ \A i \in 1 .. Len(old) : new[i].start = old[i].start
         IN /\ Keeps(trips, trips')
            /\ Keeps(overspeeds, overspeeds')
            /\ Keeps(idlings, idlings')
            /\ \A i \in 1 .. Len(overspeeds) :
                 overspeeds'[i].max >= overspeeds[i].max]_rows
  BY NextKeeps DEF RowsKept, Kept
<1> QED
  BY <1>1, <1>2, <1>3, PTL DEF Spec, PeaksKept

----------------------------------------------------------------------------
(* Events without faults.  The object names the newest row of each table,  *)
(* the trip of a standing period began before the period, and no idling    *)
(* row reaches into a period whose row is still to be written.             *)

NamesLatest(st, os, ids) ==
  st.overEvent \in {0, Len(os)} /\ st.idleEvent \in {0, Len(ids)}

PeriodRest(st, now, ts, ids) ==
  /\ st.trip # 0 => ts[st.trip].start <= now
  /\ st.pending => st.trip # 0 /\ st.closeTs # NoTime
  /\ st.idleActive => st.idleStart # NoTime
  /\ st.idleStart # NoTime =>
       /\ st.trip # 0
       /\ ts[st.trip].start <= st.idleStart /\ st.idleStart <= now
       /\ ~st.idleActive => \A i \in 1 .. Len(ids) : ids[i].end <= st.idleStart

EventRest(st, now, ts, os, ids) ==
  NamesLatest(st, os, ids) /\ PeriodRest(st, now, ts, ids)

Parked(st) == st.pending => st.idleStart = NoTime

InTrip(st, p, ts) ==
  /\ p.ign => st.trip # 0 /\ ~st.pending
  /\ st.trip # 0 => ts[st.trip].end = p.time

EventStep(r, p, ts, os, ids) ==
  /\ EventRest(r.st, p.time, ts, os, ids)
  /\ r.pc = "startTrip" => r.st.trip = 0 /\ p.ign
  /\ r.pc \in {"updateTrip", "playback"} =>
       /\ r.id = r.st.trip /\ r.id # 0
       /\ p.ign => ~r.st.pending
       /\ Parked(r.st)
  /\ r.pc = "playback" => ts[r.st.trip].end = p.time
  /\ r.pc \notin TripCalls => InTrip(r.st, p, ts)
  /\ r.pc = "createOverspeed" => r.id = r.st.trip
  /\ r.pc \in {"updateOverspeed", "endOverspeed"} => r.id = r.st.overEvent
  /\ r.pc = "createIdling" =>
       /\ r.id = r.st.trip /\ r.val = r.st.idleStart
       /\ r.st.idleStart # NoTime /\ ~r.st.idleActive /\ p.ign
  /\ r.pc \in {"updateIdling", "endIdling"} =>
       r.id = r.st.idleEvent /\ r.st.idleActive
  /\ r.pc = "updateIdling" => p.ign
  /\ r.pc = "persist" => Parked(r.st)

EventInv ==
  \A s \in Slots :
    IF run[s].obj = NoObj
    THEN EventRest(StoredState, last.time, trips, overspeeds, idlings)
         /\ Parked(StoredState)
    ELSE EventStep(Cont(s), Pkt(s), trips, overspeeds, idlings)

LEMMA EventRestSame ==
  ASSUME NEW a, NEW b, NEW now, NEW ts, NEW os, NEW ids,
         SameTrip(a, b), SameIdle(a, b), a.overEvent = b.overEvent
  PROVE  /\ EventRest(a, now, ts, os, ids) <=> EventRest(b, now, ts, os, ids)
         /\ Parked(a) <=> Parked(b)
         /\ \A p : InTrip(a, p, ts) <=> InTrip(b, p, ts)
  BY DEF SameTrip, SameIdle, EventRest, NamesLatest, PeriodRest, Parked, InTrip

LEMMA AfterIdlingEvent ==
  ASSUME NEW st \in RuntimeState, NEW p \in Packet, NEW ts, NEW os, NEW ids,
         EventRest(st, p.time, ts, os, ids), InTrip(st, p, ts),
         st.idleActive \/ Parked(st)
  PROVE  EventStep(AfterIdling(st, p), p, ts, os, ids)
<1> USE DEF TripCalls
<1>1. CASE st.idleActive /\ (p.speed > MovingSpeed \/ ~p.ign)
  <2>1. AfterIdling(st, p) = Await(st, "endIdling", st.idleEvent, 0)
    BY <1>1 DEF AfterIdling, EventRest, PeriodRest
  <2> QED
    BY <1>1, <2>1 DEF EventStep, Await
<1>2. CASE ~(st.idleActive /\ (p.speed > MovingSpeed \/ ~p.ign))
  <2>1. AfterIdling(st, p) = Await(st, "persist", 0, 0)
    BY <1>2 DEF AfterIdling
  <2>2. Parked(st)
    BY <1>2 DEF InTrip, Parked
  <2> QED
    BY <2>1, <2>2 DEF EventStep, Await
<1> QED
  BY <1>1, <1>2

LEMMA AfterOverspeedEvent ==
  ASSUME NEW st \in RuntimeState, NEW p \in Packet, NEW ts, NEW os, NEW ids,
         EventRest(st, p.time, ts, os, ids), InTrip(st, p, ts),
         \A i \in 1 .. Len(ids) : ids[i].end <= p.time
  PROVE  EventStep(AfterOverspeed(st, p), p, ts, os, ids)
<1> USE DEF TripCalls
<1>1. CASE p.ign /\ p.speed = 0
  <2> DEFINE open == IF st.idleStart = NoTime
                     THEN [st EXCEPT !.idleStart = p.time] ELSE st
  <2>1. /\ open \in RuntimeState
        /\ SameTrip(open, st) /\ open.overEvent = st.overEvent
        /\ open.idleActive = st.idleActive /\ open.idleEvent = st.idleEvent
        /\ open.idleStart = IF st.idleStart = NoTime THEN p.time ELSE st.idleStart
    BY DEF RuntimeState, SameTrip, Packet
  <2>2. AfterOverspeed(st, p) \in
          {AfterIdling(open, p),
           IF open.idleActive THEN Await(open, "updateIdling", open.idleEvent, 0)
           ELSE Await(open, "createIdling", open.trip, open.idleStart)}
    BY <1>1 DEF AfterOverspeed, StandingStill
  <2> HIDE DEF open
  <2>3. p.time \in Int /\ p.time # NoTime /\ open.idleStart # NoTime
    BY <2>1, PacketFacts, TimesNat
  <2>4. st.trip # 0 /\ ~st.pending
    BY <1>1 DEF InTrip
  <2>5. EventRest(open, p.time, ts, os, ids)
    <3>1. NamesLatest(open, os, ids)
      BY <2>1 DEF NamesLatest, EventRest
    <3>2. PeriodRest(open, p.time, ts, ids)
      <4>1. CASE st.idleStart = NoTime
        BY <2>1, <2>3, <2>4, <4>1 DEF PeriodRest, EventRest, SameTrip
      <4>2. CASE st.idleStart # NoTime
        BY <2>1, <2>3, <2>4, <4>2 DEF PeriodRest, EventRest, SameTrip
      <4> QED
        BY <4>1, <4>2
    <3> QED
      BY <3>1, <3>2 DEF EventRest
  <2>6. InTrip(open, p, ts) /\ Parked(open)
    BY <2>1, <2>4 DEF InTrip, SameTrip, Parked
  <2>7. EventStep(AfterIdling(open, p), p, ts, os, ids)
    BY <2>1, <2>5, <2>6, AfterIdlingEvent
  <2>8. open.idleActive =>
          EventStep(Await(open, "updateIdling", open.idleEvent, 0), p, ts, os, ids)
    BY <1>1, <2>5, <2>6 DEF EventStep, Await
  <2>9. ~open.idleActive =>
          EventStep(Await(open, "createIdling", open.trip, open.idleStart),
                    p, ts, os, ids)
    BY <1>1, <2>3, <2>5, <2>6 DEF EventStep, Await
  <2> QED
    BY <2>2, <2>7, <2>8, <2>9
<1>2. CASE ~(p.ign /\ p.speed = 0)
  <2> DEFINE reset == [st EXCEPT !.idleEvent = 0, !.idleStart = NoTime]
             now == IF st.idleActive THEN st ELSE reset
  <2>1. AfterOverspeed(st, p) = AfterIdling(now, p)
    BY <1>2 DEF AfterOverspeed
  <2>2. /\ reset \in RuntimeState
        /\ SameTrip(reset, st) /\ reset.overEvent = st.overEvent
        /\ reset.idleActive = st.idleActive /\ reset.idleEvent = 0
        /\ reset.idleStart = NoTime
    BY DEF RuntimeState, SameTrip
  <2> HIDE DEF reset
  <2>3. ~st.idleActive => EventRest(reset, p.time, ts, os, ids)
    <3>1. NamesLatest(reset, os, ids)
      BY <2>2 DEF NamesLatest, EventRest
    <3>2. ~st.idleActive => PeriodRest(reset, p.time, ts, ids)
      BY <2>2 DEF PeriodRest, EventRest, SameTrip
    <3> QED
      BY <3>1, <3>2 DEF EventRest
  <2>4. InTrip(reset, p, ts) /\ Parked(reset)
    BY <2>2 DEF InTrip, SameTrip, Parked
  <2>5. st.idleActive => EventStep(AfterIdling(st, p), p, ts, os, ids)
    BY AfterIdlingEvent
  <2>6. ~st.idleActive => EventStep(AfterIdling(reset, p), p, ts, os, ids)
    BY <2>2, <2>3, <2>4, AfterIdlingEvent
  <2> QED
    BY <2>1, <2>5, <2>6
<1> QED
  BY <1>1, <1>2

LEMMA AfterTripsEvent ==
  ASSUME NEW st \in RuntimeState, NEW p \in Packet, NEW ts, NEW os, NEW ids,
         EventRest(st, p.time, ts, os, ids), InTrip(st, p, ts),
         \A i \in 1 .. Len(ids) : ids[i].end <= p.time
  PROVE  EventStep(AfterTrips(st, p), p, ts, os, ids)
<1> USE DEF TripCalls
<1> DEFINE start == [st EXCEPT !.overActive = TRUE, !.overMax = p.speed]
           top == IF p.speed > st.overMax THEN p.speed ELSE st.overMax
           more == [st EXCEPT !.overMax = top]
<1>1. AfterTrips(st, p) \in
        {Await(start, "createOverspeed", st.trip, 0),
         Await(more, "updateOverspeed", st.overEvent, top),
         Await(st, "endOverspeed", st.overEvent, 0), AfterOverspeed(st, p)}
  BY DEF AfterTrips, Speeding
<1>2. /\ SameTrip(start, st) /\ SameIdle(start, st)
      /\ start.overEvent = st.overEvent
      /\ SameTrip(more, st) /\ SameIdle(more, st)
      /\ more.overEvent = st.overEvent
  BY DEF RuntimeState, SameTrip, SameIdle
<1> HIDE DEF start, more, top
<1>3. /\ EventRest(start, p.time, ts, os, ids) /\ InTrip(start, p, ts)
      /\ EventRest(more, p.time, ts, os, ids) /\ InTrip(more, p, ts)
  BY <1>2, EventRestSame
<1>4. EventStep(Await(start, "createOverspeed", st.trip, 0), p, ts, os, ids)
  BY <1>2, <1>3 DEF EventStep, Await, SameTrip
<1>5. EventStep(Await(more, "updateOverspeed", st.overEvent, top), p, ts, os, ids)
  BY <1>2, <1>3 DEF EventStep, Await
<1>6. EventStep(Await(st, "endOverspeed", st.overEvent, 0), p, ts, os, ids)
  BY DEF EventStep, Await
<1> QED
  BY <1>1, <1>4, <1>5, <1>6, AfterOverspeedEvent

LEMMA BeginEvent ==
  ASSUME NEW st \in RuntimeState, NEW p \in Packet, NEW ts, NEW os, NEW ids,
         EventRest(st, p.time, ts, os, ids), Parked(st),
         \A i \in 1 .. Len(ids) : ids[i].end <= p.time
  PROVE  EventStep(Begin(st, p), p, ts, os, ids)
<1> USE DEF TripCalls
<1> DEFINE now == IF p.ign THEN Resumed(st, p) ELSE st
<1>1. now \in RuntimeState
  BY ResumedType
<1>2. /\ EventRest(now, p.time, ts, os, ids) /\ Parked(now)
      /\ p.ign => ~now.pending
  <2>1. CASE ~p.ign
    BY <2>1
  <2>2. CASE p.ign /\ ~st.pending
    <3>1. now = st
      BY <2>2 DEF Resumed
    <3> HIDE DEF now
    <3> QED
      BY <2>2, <3>1
  <2>3. CASE p.ign /\ st.pending
    <3> DEFINE open == [st EXCEPT !.pending = FALSE, !.closeTs = NoTime]
    <3>1. st.trip # 0 /\ st.closeTs # NoTime /\ st.idleStart = NoTime
      BY <2>3 DEF EventRest, PeriodRest, Parked
    <3>2. now \in {open, Finalized(st)}
      BY <2>3, <3>1 DEF Resumed
    <3>3. SameIdle(now, st) /\ SameOver(now, st)
          /\ now.trip \in {st.trip, 0} /\ now.pending = FALSE
      BY <3>2, TripPartFields
    <3> HIDE DEF now
    <3>4. NamesLatest(now, os, ids)
      BY <3>3 DEF EventRest, NamesLatest, SameIdle, SameOver
    <3>5. PeriodRest(now, p.time, ts, ids)
      BY <3>1, <3>3 DEF EventRest, PeriodRest, SameIdle
    <3> QED
      BY <3>3, <3>4, <3>5 DEF EventRest, Parked
  <2> QED
    BY <2>1, <2>2, <2>3
<1> HIDE DEF now
<1>3. CASE now.trip # 0
  <2>1. Begin(st, p) = Await(now, "updateTrip", now.trip, 0)
    BY <1>3 DEF Begin, now
  <2> QED
    BY <1>2, <1>3, <2>1 DEF EventStep, Await
<1>4. CASE now.trip = 0 /\ p.ign
  <2>1. Begin(st, p) = Await(now, "startTrip", 0, 0)
    BY <1>4 DEF Begin, now
  <2> QED
    BY <1>2, <1>4, <2>1 DEF EventStep, Await
<1>5. CASE now.trip = 0 /\ ~p.ign
  <2>1. Begin(st, p) = AfterTrips(now, p)
    BY <1>5 DEF Begin, now
  <2>2. InTrip(now, p, ts)
    BY <1>5 DEF InTrip
  <2> QED
    BY <1>1, <1>2, <2>1, <2>2, AfterTripsEvent
<1> QED
  BY <1>3, <1>4, <1>5

----------------------------------------------------------------------------
(* A call that takes effect. *)
LEMMA EffectPeriod ==
  ASSUME TypeInv, NEW s \in Slots, run[s].pc \in Calls, TakesEffect(s),
         EventStep(Cont(s), Pkt(s), trips, overspeeds, idlings),
         run[s].pc # "createIdling"
  PROVE  PeriodRest(State(s), Pkt(s).time, trips', idlings')
<1> DEFINE st == State(s)
<1>1. PeriodRest(st, Pkt(s).time, trips, idlings)
  BY DEF EventStep, EventRest, Cont
<1>2. st.trip # 0 => trips'[st.trip].start = trips[st.trip].start
  <2>1. st.trip \in Nat /\ st.trip <= Len(trips)
    BY BusyObject DEF Within, RuntimeState
  <2>2. st.trip # 0 => st.trip \in 1 .. Len(trips)
    BY <2>1, RowTimes
  <2> QED
    BY <2>2, TripRows DEF TakesEffect
<1>3. ~st.idleActive => idlings' = idlings
  BY DEF EventStep, Cont, TakesEffect, IdlingsAfter
<1> HIDE DEF st
<1> QED
  BY <1>1, <1>2, <1>3 DEF PeriodRest, st

LEMMA EffectLens ==
  ASSUME TypeInv, NEW s \in Slots, TakesEffect(s)
  PROVE  /\ Len(overspeeds') = IF run[s].pc = "createOverspeed"
                               THEN Len(overspeeds) + 1 ELSE Len(overspeeds)
         /\ Len(idlings') = IF run[s].pc = "createIdling"
                            THEN Len(idlings) + 1 ELSE Len(idlings)
  BY OverspeedsAfterType, IdlingsAfterType DEF TakesEffect

LEMMA EffectRest ==
  ASSUME TypeInv, NEW s \in Slots, run[s].pc \in Calls, TakesEffect(s),
         EventStep(Cont(s), Pkt(s), trips, overspeeds, idlings),
         run[s].pc \notin {"createOverspeed", "createIdling"}
  PROVE  EventRest(State(s), Pkt(s).time, trips', overspeeds', idlings')
<1>1. NamesLatest(State(s), overspeeds, idlings)
  BY DEF EventStep, EventRest, Cont
<1>2. NamesLatest(State(s), overspeeds', idlings')
  BY <1>1, EffectLens DEF NamesLatest
<1> QED
  BY <1>2, EffectPeriod DEF EventRest

(* The trip part of the handler. *)
LEMMA GoesTripEvent ==
  ASSUME TypeInv, NEW s \in Slots, run[s].pc \in TripCalls, TakesEffect(s),
         EventStep(Cont(s), Pkt(s), trips, overspeeds, idlings),
         \A i \in 1 .. Len(idlings') : idlings'[i].end <= Pkt(s).time
  PROVE  EventStep(Goes(s), Pkt(s), trips', overspeeds', idlings')
<1> USE DEF TripCalls, Calls
<1> DEFINE st == State(s)
           p == Pkt(s)
<1>1. /\ st \in RuntimeState /\ p \in Packet
      /\ run[s].closeRead \in Times \cup {NoTime}
      /\ st.trip \in Nat /\ st.trip <= Len(trips)
      /\ Len(trips) \in Nat /\ Len(trips) + 1 \in Nat
  <2>1. Within(State(s)) /\ p \in Packet /\ run[s].closeRead \in Times \cup {NoTime}
    BY BusyObject
  <2> QED
    BY <2>1, RowTimes DEF Within, RuntimeState
<1>2. EventRest(st, p.time, trips', overspeeds', idlings')
  BY EffectRest DEF OverspeedCalls, IdlingCalls
<1>3. CASE run[s].pc = "startTrip"
  <2> DEFINE n == Len(trips) + 1
             new == [st EXCEPT !.trip = n, !.pending = FALSE, !.closeTs = NoTime]
  <2>1. Goes(s) = Await(new, "updateTrip", n, 0)
    BY <1>3 DEF Goes, st
  <2>2. /\ new.trip = n /\ new.pending = FALSE /\ n # 0
        /\ SameOver(new, st) /\ SameIdle(new, st)
    <3>1. n \in Nat /\ n # 0
      BY <1>1
    <3> HIDE DEF n, st
    <3> QED
      BY <1>1, <3>1, NamedFields
  <2>3. trips'[n].start = p.time
    <3>1. trips'[n] = [start |-> p.time, end |-> p.time]
      BY <1>3, TripRows DEF TakesEffect, p
    <3> QED
      BY <3>1
  <2>4. st.idleStart = NoTime /\ ~st.idleActive
    BY <1>3 DEF EventStep, EventRest, PeriodRest, Cont
  <2> HIDE DEF new, n, st, p
  <2>5. NamesLatest(new, overspeeds', idlings')
    BY <1>2, <2>2 DEF EventRest, NamesLatest, SameOver, SameIdle
  <2>6. PeriodRest(new, p.time, trips', idlings')
    BY <1>1, <2>2, <2>3, <2>4, PacketFacts DEF PeriodRest, SameIdle
  <2> QED
    BY <2>1, <2>2, <2>4, <2>5, <2>6 DEF EventStep, EventRest, Await, Parked, p
<1>4. CASE run[s].pc = "updateTrip"
  <2>1. Goes(s) = Await(st, "playback", st.trip, 0)
    BY <1>4 DEF Goes, st
  <2>2. /\ run[s].id = st.trip /\ run[s].id # 0
        /\ p.ign => ~st.pending
        /\ Parked(st)
    BY <1>4 DEF EventStep, Cont
  <2>3. trips'[st.trip].end = p.time
    <3>1. st.trip \in 1 .. Len(trips)
      BY <1>1, <2>2
    <3> HIDE DEF st
    <3> QED
      BY <1>4, <2>2, <3>1, TripRows DEF TakesEffect
  <2> HIDE DEF st, p
  <2> QED
    BY <1>2, <2>1, <2>2, <2>3 DEF EventStep, Await, p
<1>5. CASE run[s].pc = "playback"
  <2> DEFINE c == run[s].closeRead
             new == IF p.ign THEN st ELSE Closing(st, p, c)
             noted == [st EXCEPT !.pending = TRUE, !.closeTs = p.time]
  <2>1. Goes(s) = AfterTrips(new, p)
    BY <1>5 DEF Goes, st, p
  <2>2. /\ st.trip # 0
        /\ p.ign => ~st.pending
        /\ Parked(st)
        /\ trips[st.trip].end = p.time
    BY <1>5 DEF EventStep, Cont
  <2>3. trips' = trips
    BY <1>5 DEF TakesEffect, TripsAfter
  <2>4. new \in RuntimeState
    BY <1>1, ClosingType
  <2>5. /\ new \in {st, noted, Finalized(st)}
        /\ p.ign => new = st
        /\ ~st.pending => new \in {st, noted}
    BY DEF Closing
  <2>50. st.pending => st.idleStart = NoTime /\ ~st.idleActive
    BY <1>2, <2>2 DEF Parked, EventRest, PeriodRest
  <2>6. EventRest(new, p.time, trips', overspeeds', idlings')
    <3>1. CASE new = st
      BY <1>2, <3>1
    <3>2. CASE new = noted
      <4>1. /\ SameOver(noted, st) /\ SameIdle(noted, st)
            /\ noted.trip = st.trip /\ noted.closeTs = p.time
        BY <1>1, TripPartFields
      <4>2. p.time # NoTime
        BY <1>1, PacketFacts, TimesNat
      <4> HIDE DEF new, noted, st, p
      <4>3. NamesLatest(noted, overspeeds', idlings')
        BY <1>2, <4>1 DEF EventRest, NamesLatest, SameOver, SameIdle
      <4>4. PeriodRest(noted, p.time, trips', idlings')
        BY <1>2, <2>2, <4>1, <4>2 DEF EventRest, PeriodRest, SameIdle
      <4> QED
        BY <3>2, <4>3, <4>4 DEF EventRest
    <3>3. CASE new = Finalized(st) /\ st.pending
      <4>1. /\ SameOver(new, st) /\ SameIdle(new, st)
            /\ new.trip = 0 /\ new.pending = FALSE
        BY <1>1, <3>3, TripPartFields
      <4> HIDE DEF new, noted, st, p
      <4>3. NamesLatest(new, overspeeds', idlings')
        BY <1>2, <4>1 DEF EventRest, NamesLatest, SameOver, SameIdle
      <4>4. PeriodRest(new, p.time, trips', idlings')
        BY <2>50, <3>3, <4>1 DEF PeriodRest, SameIdle
      <4> QED
        BY <4>3, <4>4 DEF EventRest
    <3> QED
      BY <2>5, <3>1, <3>2, <3>3
  <2>7. InTrip(new, p, trips')
    <3>1. new.trip \in {st.trip, 0}
      BY <1>1, ClosingType
    <3> HIDE DEF new, noted
    <3> QED
      BY <2>2, <2>3, <2>5, <3>1 DEF InTrip
  <2> HIDE DEF new, noted
  <2> QED
    BY <1>1, <2>1, <2>4, <2>6, <2>7, AfterTripsEvent
<1> QED
  BY <1>3, <1>4, <1>5

(* The overspeed part and the idling part. *)
LEMMA GoesPeriodEvent ==
  ASSUME TypeInv, NEW s \in Slots, run[s].pc \in OverspeedCalls \cup IdlingCalls,
         TakesEffect(s),
         EventStep(Cont(s), Pkt(s), trips, overspeeds, idlings),
         \A i \in 1 .. Len(idlings') : idlings'[i].end <= Pkt(s).time
  PROVE  EventStep(Goes(s), Pkt(s), trips', overspeeds', idlings')
<1> USE DEF TripCalls, OverspeedCalls, IdlingCalls, Calls
<1> DEFINE st == State(s)
           p == Pkt(s)
<1>1. /\ st \in RuntimeState /\ p \in Packet
      /\ Len(overspeeds) + 1 \in Nat /\ Len(idlings) + 1 \in Nat
  BY BusyObject, RowTimes DEF Within
<1>2. run[s].pc \notin {"createOverspeed", "createIdling"} =>
        EventRest(st, p.time, trips', overspeeds', idlings')
  BY EffectRest
<1>3. trips' = trips /\ InTrip(st, p, trips')
  <2>1. trips' = trips
    BY DEF TakesEffect, TripsAfter
  <2> QED
    BY <2>1 DEF EventStep, Cont
<1>4. CASE run[s].pc = "createOverspeed"
  <2> DEFINE new == [st EXCEPT !.overEvent = Len(overspeeds) + 1]
  <2>1. Goes(s) = AfterOverspeed(new, p)
    BY <1>4 DEF Goes, st, p
  <2>2. /\ new \in RuntimeState /\ new.overEvent = Len(overspeeds) + 1
        /\ SameTrip(new, st) /\ SameIdle(new, st)
    BY <1>1, NamedFields
  <2>3. Len(overspeeds') = Len(overspeeds) + 1 /\ Len(idlings') = Len(idlings)
    BY <1>4, EffectLens
  <2>4. NamesLatest(st, overspeeds, idlings)
    BY DEF EventStep, EventRest, Cont
  <2>5. PeriodRest(st, p.time, trips', idlings')
    BY <1>4, EffectPeriod
  <2> HIDE DEF new, st, p
  <2>6. NamesLatest(new, overspeeds', idlings')
    BY <2>2, <2>3, <2>4 DEF NamesLatest, SameIdle
  <2>7. PeriodRest(new, p.time, trips', idlings') /\ InTrip(new, p, trips')
    BY <1>3, <2>2, <2>5 DEF PeriodRest, InTrip, SameIdle, SameTrip
  <2> QED
    BY <1>1, <2>1, <2>2, <2>6, <2>7, AfterOverspeedEvent DEF EventRest, p
<1>5. CASE run[s].pc = "updateOverspeed"
  <2>1. Goes(s) = AfterOverspeed(st, p)
    BY <1>5 DEF Goes, st, p
  <2> QED
    BY <1>1, <1>2, <1>3, <1>5, <2>1, AfterOverspeedEvent
<1>6. CASE run[s].pc = "endOverspeed"
  <2> DEFINE new == NoOverspeed(st)
  <2>1. Goes(s) = AfterOverspeed(new, p)
    BY <1>6 DEF Goes, st, p
  <2>2. /\ new \in RuntimeState /\ new.overEvent = 0
        /\ SameTrip(new, st) /\ SameIdle(new, st)
    BY <1>1, NoOverspeedType, NoOverspeedFields
  <2>3. EventRest(st, p.time, trips', overspeeds', idlings')
    BY <1>2, <1>6
  <2> HIDE DEF new, st, p
  <2>6. NamesLatest(new, overspeeds', idlings')
    BY <2>2, <2>3 DEF EventRest, NamesLatest, SameIdle
  <2>7. PeriodRest(new, p.time, trips', idlings') /\ InTrip(new, p, trips')
    BY <1>3, <2>2, <2>3 DEF EventRest, PeriodRest, InTrip, SameIdle, SameTrip
  <2> QED
    BY <1>1, <2>1, <2>2, <2>6, <2>7, AfterOverspeedEvent DEF EventRest, p
<1>7. CASE run[s].pc = "createIdling"
  <2> DEFINE new == [st EXCEPT !.idleActive = TRUE, !.idleEvent = Len(idlings) + 1]
  <2>1. Goes(s) = AfterIdling(new, p)
    BY <1>7 DEF Goes, st, p
  <2>2. /\ new \in RuntimeState /\ new.overEvent = st.overEvent
        /\ new.idleEvent = Len(idlings) + 1
        /\ new.idleActive = TRUE /\ new.idleStart = st.idleStart
        /\ SameTrip(new, st)
    BY <1>1, NamedFields
  <2>3. Len(overspeeds') = Len(overspeeds) /\ Len(idlings') = Len(idlings) + 1
    BY <1>7, EffectLens
  <2>4. /\ NamesLatest(st, overspeeds, idlings)
        /\ PeriodRest(st, p.time, trips, idlings)
        /\ st.idleStart # NoTime
    BY <1>7 DEF EventStep, EventRest, Cont
  <2> HIDE DEF new, st, p
  <2>6. NamesLatest(new, overspeeds', idlings')
    BY <2>2, <2>3, <2>4 DEF NamesLatest
  <2>7. PeriodRest(new, p.time, trips', idlings') /\ InTrip(new, p, trips')
    BY <1>3, <2>2, <2>4 DEF PeriodRest, InTrip, SameTrip
  <2> QED
    BY <1>1, <2>1, <2>2, <2>6, <2>7, AfterIdlingEvent DEF EventRest, p
<1>8. CASE run[s].pc = "updateIdling"
  <2>1. Goes(s) = AfterIdling(st, p)
    BY <1>8 DEF Goes, st, p
  <2>2. st.idleActive
    BY <1>8 DEF EventStep, Cont
  <2> QED
    BY <1>1, <1>2, <1>3, <1>8, <2>1, <2>2, AfterIdlingEvent
<1>9. CASE run[s].pc = "endIdling"
  <2> DEFINE new == NoIdling(st)
  <2>1. Goes(s) = Await(new, "persist", 0, 0)
    BY <1>9 DEF Goes, st
  <2>2. /\ SameTrip(new, st) /\ SameOver(new, st)
        /\ new.idleActive = FALSE /\ new.idleEvent = 0 /\ new.idleStart = NoTime
    BY <1>1, NoIdlingFields
  <2>3. EventRest(st, p.time, trips', overspeeds', idlings')
    BY <1>2, <1>9
  <2> HIDE DEF new, st, p
  <2>6. NamesLatest(new, overspeeds', idlings')
    BY <2>2, <2>3 DEF EventRest, NamesLatest, SameOver
  <2>7. PeriodRest(new, p.time, trips', idlings') /\ InTrip(new, p, trips')
    BY <1>3, <2>2, <2>3 DEF EventRest, PeriodRest, InTrip, SameTrip
  <2> QED
    BY <2>1, <2>2, <2>6, <2>7 DEF EventStep, EventRest, Parked, Await, p
<1> QED
  BY <1>4, <1>5, <1>6, <1>7, <1>8, <1>9

----------------------------------------------------------------------------
LEMMA RestLater ==
  ASSUME TypeInv, NEW st, Within(st), NEW later \in Int, last.time <= later,
         EventRest(st, last.time, trips, overspeeds, idlings)
  PROVE  EventRest(st, later, trips, overspeeds, idlings)
<1>1. last.time \in Int /\ Len(trips) \in Nat
  BY RowTimes
<1>2. st.trip # 0 => trips[st.trip].start \in Int
  BY <1>1, RowTimes DEF Within, RuntimeState
<1>3. st.idleStart \in Int
  <2>1. st.idleStart \in Times \cup {NoTime}
    BY DEF Within, RuntimeState
  <2>2. Times \subseteq Int /\ NoTime \in Int
    BY TimesNat
  <2> QED
    BY <2>1, <2>2
<1>4. PeriodRest(st, later, trips, idlings)
  BY <1>1, <1>2, <1>3 DEF EventRest, PeriodRest
<1> QED
  BY <1>4 DEF EventRest

LEMMA FreshRest ==
  \A now, ts, os, ids : EventRest(FreshState, now, ts, os, ids) /\ Parked(FreshState)
  BY DEF EventRest, NamesLatest, PeriodRest, Parked, FreshState

(* A packet whose row the database refuses leaves the object at rest. *)
LEMMA RefusedRest ==
  ASSUME NEW s \in Slots, Refused(s),
         EventStep(Cont(s), Pkt(s), trips, overspeeds, idlings)
  PROVE  /\ EventRest(State(s), Pkt(s).time, trips, overspeeds, idlings)
         /\ Parked(State(s))
<1>1. EventRest(State(s), Pkt(s).time, trips, overspeeds, idlings)
  BY DEF EventStep, Cont
<1>2. State(s).trip = 0
  BY DEF EventStep, Cont, Refused
<1> QED
  BY <1>1, <1>2 DEF EventRest, PeriodRest, Parked

LEMMA FaultlessBefore ==
  ASSUME TypeInv, [Next]_vars, Faultless'
  PROVE  /\ Faultless /\ last'.time >= last.time
         /\ failures' # failures + 1
         /\ losses' # losses + 1
<1>1. failures \in Nat /\ losses \in Nat
  BY HandlerAssumption DEF TypeInv, TypesOK, Types, IdsExist
<1>2. ASSUME NEW s \in Slots, CallReturns(s)
      PROVE  failures' = failures /\ losses' = losses
  BY <1>2, CallReturnsGoes DEF Returns, counters
<1>3. failures' \in {failures, failures + 1} /\ losses' \in {losses, losses + 1}
  BY <1>2 DEF Next, Receive, ReadState, PersistState, CallRefused, CallFails,
              Restart, Expire, AtBound, vars, counters
<1> QED
  BY <1>1, <1>3, LastStep DEF Faultless

(* The step of an invocation, when nothing fails. *)
LEMMA FaultlessStep ==
  ASSUME OneAtATime, TypeInv, Shared, [Next]_vars, Faultless', NEW s \in Slots
  PROVE  /\ Faultless
         /\ \/ Receives(s) \/ Reads(s) \/ Advances(s) \/ Persists(s)
            \/ /\ Refused(s) /\ UNCHANGED <<rows, last, offSince>>
               /\ run[s].obj # NoObj
               /\ run'[s] = Free
               /\ StoredState' \in {State(s), FreshState}
            \/ UNCHANGED vars
<1>1. Loses(s) => losses' = losses + 1
  BY DEF Loses
<1>2. Drops(s) /\ Refused(s) => run[s].obj # NoObj
  BY DEF Refused, TypeInv, TypesOK, Types, IdsExist
<1>3. Drops(s) /\ failures' # failures + 1 =>
        /\ Refused(s) /\ UNCHANGED <<rows, last, offSince>>
        /\ run'[s] = Free
  BY DEF Drops
<1>4. Drops(s) /\ run[s].obj # NoObj => StoredState' \in {State(s), FreshState}
  BY DEF Drops
<1> QED
  BY <1>1, <1>2, <1>3, <1>4, MemoryStep, FaultlessBefore

LEMMA NextEvent ==
  ASSUME OneAtATime, AloneInv, Shared, Faultless => EventInv, [Next]_vars,
         Faultless'
  PROVE  EventInv'
<1> DEFINE Rest(st, now) == /\ EventRest(st, now, trips, overspeeds, idlings)
                            /\ Parked(st)
           OK(s) == IF run[s].obj = NoObj THEN Rest(StoredState, last.time)
                    ELSE EventStep(Cont(s), Pkt(s), trips, overspeeds, idlings)
<1>1. SUFFICES ASSUME NEW s \in Slots PROVE OK(s)'
  BY DEF EventInv
<1>2. TypeInv /\ Current /\ Recorded
  BY DEF AloneInv
<1>0. late = 0 /\ late' = 0 /\ last'.time >= last.time
  BY <1>2, FaultlessBefore DEF Faultless
<1>3. OK(s)
  BY <1>2, FaultlessBefore DEF EventInv
<1>4. Busy(s) => Pkt(s).time = last.time
  BY <1>2 DEF Current
<1>5. run[s].obj # NoObj => run[s].pc \in Calls /\ Busy(s)
  BY <1>2 DEF TypeInv, TypesOK, Types, IdsExist, Busy
<1>6. CASE Receives(s)
  <2>1. EventRest(StoredState, last'.time, trips, overspeeds, idlings)
    <3>1. last'.time >= last.time /\ last'.time \in Int /\ last.time \in Int
      BY <1>0, <1>2, LastStep
    <3>2. Within(StoredState)
      BY <1>2, StoredStateType
    <3>3. EventRest(StoredState, last.time, trips, overspeeds, idlings)
      BY <1>3, <1>6 DEF Receives
    <3> QED
      BY <1>2, <3>1, <3>2, <3>3, RestLater
  <2>2. Parked(StoredState)
    BY <1>3, <1>6 DEF Receives
  <2> QED
    BY <1>6, <2>1, <2>2 DEF Receives, rows
<1>7. CASE Reads(s)
  <2>1. Pkt(s).time = last.time /\ Pkt(s) \in Packet
    BY <1>2, <1>4, <1>7 DEF Reads, Busy, TypeInv, TypesOK, Types, IdsExist, Pkt
  <2>2. EventStep(Begin(StoredState, Pkt(s)), Pkt(s), trips, overspeeds, idlings)
    BY <1>0, <1>2, <1>3, <1>7, <2>1, StoredStateType, BeginEvent DEF Reads, Recorded
  <2> QED
    BY <1>7, <2>2 DEF Reads, rows
<1>8. CASE Advances(s)
  <2>1. run[s].pc \in Calls /\ TakesEffect(s) /\ Pkt(s).time = last'.time
    BY <1>4, <1>5, <1>8 DEF Advances
  <2>2. \A i \in 1 .. Len(idlings') : idlings'[i].end <= Pkt(s).time
    BY <1>0, <1>2, <2>1, RecordedNext DEF Recorded
  <2>3. EventStep(Cont(s), Pkt(s), trips, overspeeds, idlings)
    BY <1>3, <1>8 DEF Advances
  <2>4. EventStep(Goes(s), Pkt(s), trips', overspeeds', idlings')
    <3>1. run[s].pc \in TripCalls \/ run[s].pc \in OverspeedCalls \cup IdlingCalls
      BY <1>8 DEF Advances, Returning, Calls
    <3> QED
      BY <1>2, <2>1, <2>2, <2>3, <3>1, GoesTripEvent, GoesPeriodEvent
  <2> QED
    BY <1>8, <2>4 DEF Advances
<1>9. CASE Persists(s)
  <2>1. Rest(State(s), last.time)
    BY <1>3, <1>4, <1>5, <1>9 DEF Persists, EventStep, Cont, TripCalls
  <2>2. run'[s].obj = NoObj /\ StoredState' \in {State(s), FreshState}
    BY <1>9 DEF Persists, Free
  <2>3. UNCHANGED <<last, trips, overspeeds, idlings>>
    BY <1>9 DEF Persists, rows
  <2> QED
    BY <2>1, <2>2, <2>3, FreshRest
<1>10. CASE /\ Refused(s) /\ UNCHANGED <<rows, last, offSince>>
            /\ run[s].obj # NoObj
            /\ run'[s] = Free
            /\ StoredState' \in {State(s), FreshState}
  <2>1. Rest(State(s), last.time)
    BY <1>3, <1>4, <1>5, <1>10, RefusedRest
  <2>2. run'[s].obj = NoObj
    BY <1>10 DEF Free
  <2>3. UNCHANGED <<last, trips, overspeeds, idlings>>
    BY <1>10 DEF rows
  <2> QED
    BY <1>10, <2>1, <2>2, <2>3, FreshRest
<1>11. CASE UNCHANGED vars
  BY <1>3, <1>11 DEF vars, StoredState, Cont, State, Pkt
<1> QED
  BY <1>2, <1>6, <1>7, <1>8, <1>9, <1>10, <1>11, FaultlessStep

----------------------------------------------------------------------------
(* Periods are recorded once, and within the trip they name. *)
OverspeedsDisjoint ==
  \A i, j \in 1 .. Len(overspeeds) :
    i < j => overspeeds[i].end <= overspeeds[j].start

IdlingsDisjoint ==
  \A i, j \in 1 .. Len(idlings) : i < j => idlings[i].end <= idlings[j].start

LEMMA EventCall ==
  ASSUME TypeInv, EventInv, NEW s \in Slots, run[s].pc \in Calls
  PROVE  EventStep(Cont(s), Pkt(s), trips, overspeeds, idlings)
<1>1. run[s].obj # NoObj
  BY DEF TypeInv, TypesOK, Types, IdsExist, Calls, TripCalls, OverspeedCalls, IdlingCalls
<1> QED
  BY <1>1 DEF EventInv

LEMMA DisjointNext ==
  ASSUME AloneInv, late = 0, EventInv, OverspeedsDisjoint, IdlingsDisjoint,
         [Next]_vars
  PROVE  OverspeedsDisjoint' /\ IdlingsDisjoint'
<1> USE RowTimes
<1>0. TypeInv /\ Current /\ Recorded
  BY DEF AloneInv
<1> USE <1>0
<1>1. CASE UNCHANGED rows
  BY <1>1 DEF rows, OverspeedsDisjoint, IdlingsDisjoint
<1>2. CASE \E s \in Slots : Busy(s) /\ TakesEffect(s)
  <2>1. PICK s \in Slots : Busy(s) /\ TakesEffect(s)
    BY <1>2
  <2>2. Pkt(s).time = last.time
    BY <2>1 DEF Current
  <2>3. ASSUME NEW i \in 1 .. Len(overspeeds'), NEW j \in 1 .. Len(overspeeds'),
               i < j
        PROVE  overspeeds'[i].end <= overspeeds'[j].start
    <3>1. i \in 1 .. Len(overspeeds)
      BY <2>1, <2>3, OverspeedRowsNext
    <3>2. overspeeds'[i].end =
            IF run[s].pc \in {"updateOverspeed", "endOverspeed"} /\ i = run[s].id
            THEN Pkt(s).time ELSE overspeeds[i].end
      BY <2>1, <3>1, OverspeedRows DEF TakesEffect
    <3>3. CASE j \in 1 .. Len(overspeeds)
      <4>1. overspeeds'[j].start = overspeeds[j].start
        BY <2>1, <3>3, OverspeedRows DEF TakesEffect
      <4>2. ~(run[s].pc \in {"updateOverspeed", "endOverspeed"} /\ i = run[s].id)
        <5>1. SUFFICES ASSUME run[s].pc \in {"updateOverspeed", "endOverspeed"}
                       PROVE  i # run[s].id
          OBVIOUS
        <5>2. EventStep(Cont(s), Pkt(s), trips, overspeeds, idlings)
          BY <5>1, EventCall DEF Calls, OverspeedCalls
        <5>3. run[s].id \in {0, Len(overspeeds)}
          BY <5>1, <5>2 DEF EventStep, EventRest, NamesLatest, Cont
        <5> QED
          BY <2>3, <3>1, <3>3, <5>3
      <4> QED
        BY <2>3, <3>1, <3>2, <3>3, <4>1, <4>2 DEF OverspeedsDisjoint
    <3>4. CASE j \notin 1 .. Len(overspeeds)
      <4>1. run[s].pc = "createOverspeed" /\ overspeeds'[j].start = Pkt(s).time
        BY <2>1, <3>4, OverspeedRowsNext
      <4> QED
        BY <2>2, <3>1, <3>2, <4>1 DEF Recorded
    <3> QED
      BY <3>3, <3>4
  <2>4. ASSUME NEW i \in 1 .. Len(idlings'), NEW j \in 1 .. Len(idlings'), i < j
        PROVE  idlings'[i].end <= idlings'[j].start
    <3>1. i \in 1 .. Len(idlings)
      BY <2>1, <2>4, IdlingRowsNext
    <3>2. idlings'[i].end =
            IF run[s].pc \in {"updateIdling", "endIdling"} /\ i = run[s].id
            THEN Pkt(s).time ELSE idlings[i].end
      BY <2>1, <3>1, IdlingRows DEF TakesEffect
    <3>3. CASE j \in 1 .. Len(idlings)
      <4>1. idlings'[j].start = idlings[j].start
        BY <2>1, <3>3, IdlingRows DEF TakesEffect
      <4>2. ~(run[s].pc \in {"updateIdling", "endIdling"} /\ i = run[s].id)
        <5>1. SUFFICES ASSUME run[s].pc \in {"updateIdling", "endIdling"}
                       PROVE  i # run[s].id
          OBVIOUS
        <5>2. EventStep(Cont(s), Pkt(s), trips, overspeeds, idlings)
          BY <5>1, EventCall DEF Calls, IdlingCalls
        <5>3. run[s].id \in {0, Len(idlings)}
          BY <5>1, <5>2 DEF EventStep, EventRest, NamesLatest, Cont
        <5> QED
          BY <2>4, <3>1, <3>3, <5>3
      <4> QED
        BY <2>4, <3>1, <3>2, <3>3, <4>1, <4>2 DEF IdlingsDisjoint
    <3>4. CASE j \notin 1 .. Len(idlings)
      <4>1. run[s].pc = "createIdling" /\ idlings'[j].start = run[s].val
        BY <2>1, <3>4, IdlingRowsNext
      <4>2. EventStep(Cont(s), Pkt(s), trips, overspeeds, idlings)
        BY <4>1, EventCall DEF Calls, IdlingCalls
      <4>3. idlings[i].end <= run[s].val
        BY <3>1, <4>1, <4>2 DEF EventStep, EventRest, PeriodRest, Cont
      <4> QED
        BY <3>2, <4>1, <4>3
    <3> QED
      BY <3>3, <3>4
  <2> QED
    BY <2>3, <2>4 DEF OverspeedsDisjoint, IdlingsDisjoint
<1> QED
  BY <1>1, <1>2, RowStep

Inside(e, ts) ==
  /\ e.trip \in 1 .. Len(ts)
  /\ ts[e.trip].start <= e.start
  /\ e.start <= ts[e.trip].end

EventsInside ==
  /\ \A i \in 1 .. Len(overspeeds) : Inside(overspeeds[i], trips)
  /\ \A i \in 1 .. Len(idlings) : Inside(idlings[i], trips)

LEMMA InsideNext ==
  ASSUME AloneInv, late = 0, EventInv, EventsInside, [Next]_vars
  PROVE  EventsInside'
<1> USE RowTimes
<1>0. TypeInv /\ Current /\ Recorded
  BY DEF AloneInv
<1> USE <1>0
<1>1. CASE UNCHANGED rows
  BY <1>1 DEF rows, EventsInside
<1>2. CASE \E s \in Slots :
             Busy(s) /\ ~Refused(s) /\ TakesEffect(s)
  <2>1. PICK s \in Slots : Busy(s) /\ TakesEffect(s) /\ ~Refused(s)
    BY <1>2
  <2>2. /\ Len(trips') >= Len(trips) /\ Len(trips') \in Nat
        /\ \A i \in 1 .. Len(trips) : /\ trips'[i].start = trips[i].start
                                      /\ trips'[i].end >= trips[i].end
    <3>1. Len(trips') >= Len(trips) /\ Len(trips') \in Nat
      BY <2>1, TripsAfterType, NextType
      DEF TakesEffect, TypeInv, TypesOK, Types, IdsExist
    <3>2. ASSUME NEW i \in 1 .. Len(trips)
          PROVE  /\ trips'[i].start = trips[i].start
                 /\ trips'[i].end >= trips[i].end
      <4>1. Pkt(s).time = last.time /\ trips[i].end <= last.time
        BY <2>1, <3>2 DEF Current, Recorded
      <4>2. /\ trips'[i].start = trips[i].start
            /\ trips'[i].end \in {trips[i].end, last.time}
        BY <2>1, <3>2, <4>1, TripRows DEF TakesEffect
      <4> QED
        BY <3>2, <4>1, <4>2
    <3> QED
      BY <3>1, <3>2
  <2>3. \A i \in 1 .. Len(trips') : trips'[i].start \in Int /\ trips'[i].end \in Int
    <3>1. trips' \in Seq(TripRow)
      BY NextType DEF TypeInv, TypesOK, Types, IdsExist, TripRow
    <3>2. \A i \in 1 .. Len(trips') : trips'[i] \in TripRow
      BY <3>1, ElementOfSeq
    <3>3. Times \subseteq Int
      BY TimesNat
    <3> QED
      BY <3>2, <3>3 DEF TripRow
  <2>4. ASSUME NEW e, NEW f, Inside(e, trips), e.start \in Int,
               f.trip = e.trip, f.start = e.start
        PROVE  Inside(f, trips')
    BY <2>2, <2>3, <2>4 DEF Inside
  <2>5. ASSUME run[s].pc \in {"createOverspeed", "createIdling"}
        PROVE  /\ run[s].id \in 1 .. Len(trips) /\ trips' = trips
               /\ trips[run[s].id].start <= Pkt(s).time
               /\ trips[run[s].id].end = Pkt(s).time
               /\ run[s].pc = "createIdling" =>
                    /\ trips[run[s].id].start <= run[s].val
                    /\ run[s].val <= Pkt(s).time
    <3>1. EventStep(Cont(s), Pkt(s), trips, overspeeds, idlings)
      BY <2>5, EventCall DEF Calls, IdlingCalls, OverspeedCalls
    <3>2. run[s].id = State(s).trip /\ run[s].id # 0
      BY <2>1, <2>5, <3>1 DEF EventStep, Cont, Refused
    <3>3. State(s).trip \in Nat /\ State(s).trip <= Len(trips)
      BY <2>5, BusyObject
      DEF Within, RuntimeState, Calls, IdlingCalls, OverspeedCalls
    <3>4. /\ trips[run[s].id].start <= Pkt(s).time
          /\ trips[run[s].id].end = Pkt(s).time
      BY <2>5, <3>1, <3>2
      DEF EventStep, EventRest, PeriodRest, InTrip, Cont, TripCalls
    <3>5. run[s].pc = "createIdling" =>
            /\ trips[run[s].id].start <= run[s].val
            /\ run[s].val <= Pkt(s).time
      BY <2>5, <3>1, <3>2 DEF EventStep, EventRest, PeriodRest, Cont
    <3>6. trips' = trips
      BY <2>1, <2>5 DEF TakesEffect, TripsAfter
    <3> QED
      BY <3>2, <3>3, <3>4, <3>5, <3>6
  <2>6. ASSUME NEW i \in 1 .. Len(overspeeds')
        PROVE  Inside(overspeeds'[i], trips')
    <3>1. CASE i \in 1 .. Len(overspeeds)
      BY <2>1, <2>4, <3>1, OverspeedRows DEF TakesEffect, EventsInside
    <3>2. CASE i \notin 1 .. Len(overspeeds)
      <4>1. /\ run[s].pc = "createOverspeed"
            /\ overspeeds'[i].trip = run[s].id
            /\ overspeeds'[i].start = Pkt(s).time
        BY <2>1, <3>2, OverspeedRowsNext
      <4> QED
        BY <2>2, <2>3, <2>5, <4>1 DEF Inside
    <3> QED
      BY <3>1, <3>2
  <2>7. ASSUME NEW i \in 1 .. Len(idlings')
        PROVE  Inside(idlings'[i], trips')
    <3>1. CASE i \in 1 .. Len(idlings)
      BY <2>1, <2>4, <3>1, IdlingRows DEF TakesEffect, EventsInside
    <3>2. CASE i \notin 1 .. Len(idlings)
      <4>1. /\ run[s].pc = "createIdling"
            /\ idlings'[i].trip = run[s].id
            /\ idlings'[i].start = run[s].val
        BY <2>1, <3>2, IdlingRowsNext
      <4> QED
        BY <2>2, <2>3, <2>5, <4>1 DEF Inside
    <3> QED
      BY <3>1, <3>2
  <2> QED
    BY <2>6, <2>7 DEF EventsInside
<1> QED
  BY <1>1, <1>2, RowStep

(* The invariants of one invocation over the memory store. *)
MemoryInv ==
  /\ AloneInv
  /\ Shared
  /\ Faultless => /\ EventInv
                  /\ OverspeedsDisjoint /\ IdlingsDisjoint
                  /\ EventsInside

LEMMA InitMemory ==
  ASSUME Init
  PROVE  MemoryInv
<1>1. StoredState = FreshState /\ \A s \in Slots : run[s].obj = NoObj
  BY DEF Init, StoredState, Free
<1>2. EventInv
  BY <1>1, FreshRest DEF EventInv
<1>3. OverspeedsDisjoint /\ IdlingsDisjoint /\ EventsInside
  BY DEF Init, OverspeedsDisjoint, IdlingsDisjoint, EventsInside
<1> QED
  BY <1>2, <1>3, InitAlone, InitGrow DEF MemoryInv

LEMMA NextMemory ==
  ASSUME OneAtATime, MemoryInv, [Next]_vars
  PROVE  MemoryInv'
<1>1. AloneInv /\ TypeInv /\ Shared
  BY DEF MemoryInv, AloneInv
<1>2. AloneInv' /\ Shared'
  BY <1>1, NextAlone, NextShared DEF OneAtATime
<1>3. ASSUME Faultless'
      PROVE  /\ EventInv'
             /\ OverspeedsDisjoint' /\ IdlingsDisjoint'
             /\ EventsInside'
  <2>1. /\ EventInv /\ late = 0
        /\ OverspeedsDisjoint /\ IdlingsDisjoint
        /\ EventsInside
    BY <1>1, <1>3, FaultlessBefore DEF MemoryInv, Faultless
  <2> QED
    BY <1>1, <1>3, <2>1, NextEvent, DisjointNext, InsideNext
<1> QED
  BY <1>2, <1>3 DEF MemoryInv

LEMMA AlwaysMemory ==
  ASSUME OneAtATime
  PROVE  Spec => []MemoryInv
<1>1. Init => MemoryInv
  BY InitMemory
<1>2. MemoryInv /\ [Next]_vars => MemoryInv'
  BY NextMemory
<1> QED
  BY <1>1, <1>2, PTL DEF Spec

(* Without faults no period is recorded twice: neither two overspeed rows  *)
(* nor two idling rows of the vehicle overlap.                             *)
THEOREM PeriodsRecordedOnce ==
  ASSUME OneAtATime
  PROVE  Spec => []EventsDisjoint
<1>1. MemoryInv => EventsDisjoint
  BY DEF MemoryInv, OverspeedsDisjoint, IdlingsDisjoint, EventsDisjoint
<1> QED
  BY <1>1, AlwaysMemory, PTL

(* Without faults every event starts between the first and the last packet *)
(* of the trip it names.                                                   *)
THEOREM EventsBelongToTheirTrip ==
  ASSUME OneAtATime
  PROVE  Spec => []EventsStartInTrip
<1>1. MemoryInv => EventsStartInTrip
  BY DEF MemoryInv, EventsInside, Inside, EventsStartInTrip
<1> QED
  BY <1>1, AlwaysMemory, PTL

----------------------------------------------------------------------------
(* Where trips are split, without faults.  While the ignition is off the   *)
(* object either keeps the trip the off period interrupted, noted with the *)
(* start of the period, or has given it up because the period reached the  *)
(* timeout; off is offSince.                                               *)

OnState(st) == st.trip # 0 /\ ~st.pending

OffState(st, off, now, ts) ==
  \/ /\ st.pending /\ st.closeTs = off /\ st.trip # 0
     /\ ts[st.trip].start <= off
  \/ /\ st.trip = 0 /\ ~st.pending
     /\ Len(ts) = 0 \/ now - off >= TripTimeout

(* Between packets, p being the last one. *)
SplitRest(st, p, off, ts) ==
  IF p.ign THEN OnState(st)
  ELSE IF off = NoTime THEN Len(ts) = 0 /\ st.trip = 0 /\ ~st.pending
  ELSE OffState(st, off, p.time, ts)

(* With the packet p in hand, before the state is read. *)
SplitIngest(st, p, off, ts) ==
  /\ ~p.ign => /\ off # NoTime
               /\ \/ OffState(st, off, p.time, ts)
                  \/ OnState(st) /\ off = p.time
  /\ p.ign /\ off # NoTime => OffState(st, off, p.time, ts)

SplitDone(p, off, ts) ==
  /\ p.time - off >= TripTimeout => ts[Len(ts)].start = p.time
  /\ p.time - off < TripTimeout => (Len(ts) > 1 => ts[Len(ts)].start <= off)

SplitStep(r, p, c, off, ts) ==
  /\ ~p.ign =>
       /\ off # NoTime
       /\ \/ OffState(r.st, off, p.time, ts)
          \/ /\ r.pc \in {"updateTrip", "playback"}
             /\ OnState(r.st) /\ off = p.time
       /\ r.pc \in {"updateTrip", "playback"} => c = r.st.closeTs
  /\ p.ign /\ off # NoTime =>
       /\ r.pc = "startTrip" => Len(ts) = 0 \/ p.time - off >= TripTimeout
       /\ r.pc \in {"updateTrip", "playback"} => SplitDone(p, off, ts)

SplitInv ==
  \A s \in Slots :
    CASE run[s].pc = "ready" -> SplitRest(StoredState, last, offSince, trips)
      [] run[s].pc = "ingest" -> SplitIngest(StoredState, Pkt(s), offSince, trips)
      [] OTHER -> SplitStep(Cont(s), Pkt(s), run[s].closeRead, offSince, trips)

(* The overspeed part and the idling part leave the trip alone. *)
LeavesTrip(r, st) == SameTrip(r.st, st) /\ r.pc \notin TripCalls

LEMMA AfterIdlingTrip ==
  ASSUME NEW st \in RuntimeState, NEW p \in Packet
  PROVE  LeavesTrip(AfterIdling(st, p), st)
<1>1. SameTrip(NoIdling(st), st) /\ SameTrip(st, st)
  BY NoIdlingFields DEF SameTrip
<1> QED
  BY <1>1 DEF AfterIdling, Await, LeavesTrip, TripCalls

LEMMA AfterOverspeedTrip ==
  ASSUME NEW st \in RuntimeState, NEW p \in Packet
  PROVE  LeavesTrip(AfterOverspeed(st, p), st)
<1> DEFINE reset == [st EXCEPT !.idleEvent = 0, !.idleStart = NoTime]
           open == IF st.idleStart = NoTime
                   THEN [st EXCEPT !.idleStart = p.time] ELSE st
<1>1. reset \in RuntimeState /\ SameTrip(reset, st)
  BY DEF RuntimeState, SameTrip
<1>2. open \in RuntimeState /\ SameTrip(open, st)
  BY DEF RuntimeState, SameTrip, Packet
<1>3. AfterOverspeed(st, p) \in
        {AfterIdling(reset, p), AfterIdling(st, p), AfterIdling(open, p),
         Await(open, "createIdling", open.trip, open.idleStart),
         Await(open, "updateIdling", open.idleEvent, 0)}
  BY DEF AfterOverspeed, StandingStill
<1> HIDE DEF reset, open
<1>4. ASSUME NEW now \in RuntimeState, SameTrip(now, st)
      PROVE  LeavesTrip(AfterIdling(now, p), st)
  BY <1>4, AfterIdlingTrip DEF SameTrip, LeavesTrip
<1>5. SameTrip(st, st)
  BY DEF SameTrip
<1>6. \A id, val : /\ LeavesTrip(Await(open, "createIdling", id, val), st)
                   /\ LeavesTrip(Await(open, "updateIdling", id, val), st)
  BY <1>2 DEF LeavesTrip, Await, TripCalls
<1> QED
  BY <1>1, <1>2, <1>3, <1>4, <1>5, <1>6

LEMMA AfterTripsTrip ==
  ASSUME NEW st \in RuntimeState, NEW p \in Packet
  PROVE  LeavesTrip(AfterTrips(st, p), st)
<1> DEFINE start == [st EXCEPT !.overActive = TRUE, !.overMax = p.speed]
           top == IF p.speed > st.overMax THEN p.speed ELSE st.overMax
           more == [st EXCEPT !.overMax = top]
<1>1. AfterTrips(st, p) \in
        {Await(start, "createOverspeed", st.trip, 0),
         Await(more, "updateOverspeed", st.overEvent, top),
         Await(st, "endOverspeed", st.overEvent, 0), AfterOverspeed(st, p)}
  BY DEF AfterTrips, Speeding
<1>2. SameTrip(start, st) /\ SameTrip(more, st) /\ SameTrip(st, st)
  BY DEF RuntimeState, SameTrip
<1> HIDE DEF start, more, top
<1> QED
  BY <1>1, <1>2, AfterOverspeedTrip DEF LeavesTrip, Await, TripCalls

LEMMA LeavesSplit ==
  ASSUME NEW r, NEW st, NEW p \in Packet, NEW c, NEW off, NEW ts,
         LeavesTrip(r, st),
         ~p.ign => off # NoTime /\ OffState(st, off, p.time, ts)
  PROVE  SplitStep(r, p, c, off, ts)
  BY DEF LeavesTrip, SameTrip, SplitStep, OffState, TripCalls

LEMMA BeginSplit ==
  ASSUME NEW st \in RuntimeState, NEW p \in Packet, NEW off \in Int, NEW ts,
         st.trip \in {0, Len(ts)},
         SplitIngest(st, p, off, ts)
  PROVE  SplitStep(Begin(st, p), p, st.closeTs, off, ts)
<1> DEFINE now == IF p.ign THEN Resumed(st, p) ELSE st
<1>1. now \in RuntimeState
  BY ResumedType
<1>2. CASE ~p.ign /\ st.trip # 0
  <2>1. Begin(st, p) = Await(st, "updateTrip", st.trip, 0)
    BY <1>2 DEF Begin
  <2> QED
    BY <1>2, <2>1 DEF SplitIngest, SplitStep, Await
<1>3. CASE ~p.ign /\ st.trip = 0
  <2>1. Begin(st, p) = AfterTrips(st, p)
    BY <1>3 DEF Begin
  <2>2. off # NoTime /\ OffState(st, off, p.time, ts)
    BY <1>3 DEF SplitIngest, OnState
  <2> QED
    BY <2>1, <2>2, AfterTripsTrip, LeavesSplit
<1>4. CASE p.ign /\ off = NoTime
  BY <1>4 DEF SplitStep
<1>5. CASE p.ign /\ off # NoTime
  <2>1. OffState(st, off, p.time, ts) /\ p.time \in Int /\ TripTimeout \in Int
    BY <1>5, PacketFacts, HandlerAssumption DEF SplitIngest
  <2>2. CASE st.trip = 0
    <3>1. now = st
      BY <1>5, <2>2 DEF Resumed
    <3>2. Begin(st, p) = Await(st, "startTrip", 0, 0)
      BY <1>5, <2>2, <3>1 DEF Begin
    <3> QED
      BY <1>5, <2>1, <2>2, <3>2 DEF OffState, SplitStep, Await
  <2>3. CASE st.trip # 0
    <3>1. st.pending /\ st.closeTs = off /\ ts[Len(ts)].start <= off
      BY <2>1, <2>3 DEF OffState
    <3>2. CASE p.time - off < TripTimeout
      <4> DEFINE open == [st EXCEPT !.pending = FALSE, !.closeTs = NoTime]
      <4>1. now = open /\ open.trip = st.trip
        BY <1>5, <2>3, <3>1, <3>2 DEF Resumed, RuntimeState
      <4> HIDE DEF open
      <4>2. Begin(st, p) = Await(open, "updateTrip", open.trip, 0)
        BY <1>5, <2>3, <4>1 DEF Begin
      <4> QED
        BY <1>5, <2>1, <3>1, <3>2, <4>2 DEF SplitStep, SplitDone, Await
    <3>3. CASE p.time - off >= TripTimeout
      <4>1. now = Finalized(st) /\ Finalized(st).trip = 0
        BY <1>5, <2>1, <2>3, <3>1, <3>3, FinalizedType DEF Resumed
      <4>2. Begin(st, p) = Await(now, "startTrip", 0, 0)
        BY <1>5, <4>1 DEF Begin
      <4> HIDE DEF now
      <4> QED
        BY <1>5, <3>3, <4>2 DEF SplitStep, Await
    <3> QED
      BY <2>1, <3>2, <3>3
  <2> QED
    BY <2>2, <2>3
<1> QED
  BY <1>2, <1>3, <1>4, <1>5

----------------------------------------------------------------------------
LEMMA OffStateSame ==
  ASSUME NEW a, NEW b, NEW off, NEW now, NEW ts, SameTrip(a, b),
         OffState(b, off, now, ts)
  PROVE  OffState(a, off, now, ts)
  BY DEF SameTrip, OffState

LEMMA GoesTripSplit ==
  ASSUME TypeInv, NEW s \in Slots, run[s].pc \in TripCalls, TakesEffect(s),
         State(s).trip \in {0, Len(trips)},
         EventStep(Cont(s), Pkt(s), trips, overspeeds, idlings),
         SplitStep(Cont(s), Pkt(s), run[s].closeRead, offSince, trips)
  PROVE  SplitStep(Goes(s), Pkt(s), run[s].closeRead, offSince, trips')
<1> USE DEF TripCalls, Calls
<1> DEFINE st == State(s)
           p == Pkt(s)
           c == run[s].closeRead
<1>1. /\ st \in RuntimeState /\ p \in Packet
      /\ c \in Times \cup {NoTime}
      /\ Len(trips) \in Nat
      /\ offSince \in Times \cup {NoTime}
  BY BusyObject, RowTimes DEF Within, TypeInv, TypesOK, Types, IdsExist
<1>2. /\ p.time \in Int /\ p.time # NoTime /\ offSince \in Int
      /\ TripTimeout \in Int
  <2>1. Times \subseteq Int /\ NoTime \in Int
    BY TimesNat
  <2> QED
    BY <1>1, <2>1, PacketFacts, TimesNat, HandlerAssumption
<1>3. CASE run[s].pc = "startTrip"
  <2> DEFINE n == Len(trips) + 1
             new == [st EXCEPT !.trip = n, !.pending = FALSE, !.closeTs = NoTime]
  <2>1. Goes(s) = Await(new, "updateTrip", n, 0)
    BY <1>3 DEF Goes, st
  <2>2. p.ign
    BY <1>3 DEF EventStep, Cont
  <2>3. trips'[n].start = p.time /\ Len(trips') = n
    <3>1. trips'[n] = [start |-> p.time, end |-> p.time]
      BY <1>3, TripRows DEF TakesEffect, p
    <3>2. Len(trips') = n
      BY <1>3, TripsAfterType DEF TakesEffect
    <3> QED
      BY <3>1, <3>2
  <2>4. offSince # NoTime => Len(trips) = 0 \/ p.time - offSince >= TripTimeout
    BY <1>3, <2>2 DEF SplitStep, Cont
  <2>5. offSince # NoTime => SplitDone(p, offSince, trips')
    BY <1>1, <1>2, <2>3, <2>4 DEF SplitDone
  <2> HIDE DEF new, n, st, p
  <2> QED
    BY <2>1, <2>2, <2>5 DEF SplitStep, Await, p
<1>4. CASE run[s].pc = "updateTrip"
  <2>1. Goes(s) = Await(st, "playback", st.trip, 0)
    BY <1>4 DEF Goes, st
  <2>2. st.trip = Len(trips) /\ st.trip # 0
    BY <1>4 DEF EventStep, Cont
  <2>3. trips'[Len(trips)].start = trips[Len(trips)].start
    <3>1. Len(trips) \in 1 .. Len(trips)
      BY <1>1, <2>2
    <3> QED
      BY <3>1, TripRows DEF TakesEffect
  <2>4. Len(trips') = Len(trips)
    BY <1>4, TripsAfterType DEF TakesEffect
  <2>5. ~p.ign => /\ offSince # NoTime
                  /\ \/ OffState(st, offSince, p.time, trips)
                     \/ OnState(st) /\ offSince = p.time
                  /\ c = st.closeTs
    BY <1>4 DEF SplitStep, Cont
  <2>6. p.ign /\ offSince # NoTime => SplitDone(p, offSince, trips)
    BY <1>4 DEF SplitStep, Cont
  <2> HIDE DEF st, p, c
  <2>7. ~p.ign => \/ OffState(st, offSince, p.time, trips')
                  \/ OnState(st) /\ offSince = p.time
    BY <2>2, <2>3, <2>4, <2>5 DEF OffState
  <2>8. p.ign /\ offSince # NoTime => SplitDone(p, offSince, trips')
    BY <2>3, <2>4, <2>6 DEF SplitDone
  <2> QED
    BY <2>1, <2>5, <2>7, <2>8 DEF SplitStep, Await, p, c
<1>5. CASE run[s].pc = "playback"
  <2> DEFINE new == IF p.ign THEN st ELSE Closing(st, p, c)
             noted == [st EXCEPT !.pending = TRUE, !.closeTs = p.time]
  <2>1. Goes(s) = AfterTrips(new, p)
    BY <1>5 DEF Goes, st, p
  <2>2. trips' = trips
    BY <1>5 DEF TakesEffect, TripsAfter
  <2>3. new \in RuntimeState
    BY <1>1, ClosingType
  <2>4. ~p.ign => offSince # NoTime /\ OffState(new, offSince, p.time, trips)
    <3> SUFFICES ASSUME ~p.ign
                 PROVE  offSince # NoTime /\ OffState(new, offSince, p.time, trips)
      OBVIOUS
    <3>1. /\ offSince # NoTime /\ c = st.closeTs
          /\ \/ OffState(st, offSince, p.time, trips)
             \/ OnState(st) /\ offSince = p.time
      BY <1>5 DEF SplitStep, Cont
    <3>2. st.trip # 0 /\ trips[st.trip].start <= p.time
      BY <1>5 DEF EventStep, EventRest, PeriodRest, Cont
    <3>3. CASE OnState(st) /\ offSince = p.time
      <4>1. new = noted
        BY <3>3 DEF Closing, OnState
      <4>2. noted.trip = st.trip /\ noted.pending = TRUE /\ noted.closeTs = p.time
        BY <1>1, TripPartFields
      <4> HIDE DEF new, noted, st, p
      <4> QED
        BY <3>1, <3>2, <3>3, <4>1, <4>2 DEF OffState
    <3>4. CASE OffState(st, offSince, p.time, trips)
      <4>1. st.pending /\ st.closeTs = offSince
        BY <3>2, <3>4 DEF OffState
      <4>2. new = IF p.time - offSince >= TripTimeout THEN Finalized(st) ELSE st
        BY <3>1, <4>1 DEF Closing
      <4>3. Finalized(st).trip = 0 /\ Finalized(st).pending = FALSE
        BY <1>1, TripPartFields
      <4> HIDE DEF new, noted, st, p
      <4> QED
        BY <1>2, <3>1, <3>4, <4>2, <4>3 DEF OffState
    <3> QED
      BY <3>1, <3>3, <3>4
  <2> HIDE DEF new, noted
  <2> QED
    BY <1>1, <2>1, <2>2, <2>3, <2>4, AfterTripsTrip, LeavesSplit
<1> QED
  BY <1>3, <1>4, <1>5

LEMMA GoesLeavesTrip ==
  ASSUME TypeInv, NEW s \in Slots, run[s].pc \in OverspeedCalls \cup IdlingCalls
  PROVE  LeavesTrip(Goes(s), State(s))
<1> USE DEF TripCalls, OverspeedCalls, IdlingCalls, Calls
<1> DEFINE st == State(s)
           p == Pkt(s)
<1>1. /\ st \in RuntimeState /\ p \in Packet
      /\ Len(overspeeds) + 1 \in Nat /\ Len(idlings) + 1 \in Nat
  BY BusyObject, RowTimes DEF Within
<1>2. ASSUME NEW now \in RuntimeState, SameTrip(now, st)
      PROVE  /\ LeavesTrip(AfterOverspeed(now, p), st)
             /\ LeavesTrip(AfterIdling(now, p), st)
  BY <1>1, <1>2, AfterOverspeedTrip, AfterIdlingTrip DEF LeavesTrip, SameTrip
<1>3. SameTrip(st, st)
  BY DEF SameTrip
<1>4. CASE run[s].pc = "createOverspeed"
  <2> DEFINE new == [st EXCEPT !.overEvent = Len(overspeeds) + 1]
  <2>1. Goes(s) = AfterOverspeed(new, p)
    BY <1>4 DEF Goes, st, p
  <2>2. new \in RuntimeState /\ SameTrip(new, st)
    BY <1>1, NamedFields
  <2> HIDE DEF new
  <2> QED
    BY <1>2, <2>1, <2>2
<1>5. CASE run[s].pc = "updateOverspeed"
  <2>1. Goes(s) = AfterOverspeed(st, p)
    BY <1>5 DEF Goes, st, p
  <2> QED
    BY <1>1, <1>2, <1>3, <2>1
<1>6. CASE run[s].pc = "endOverspeed"
  <2>1. Goes(s) = AfterOverspeed(NoOverspeed(st), p)
    BY <1>6 DEF Goes, st, p
  <2>2. NoOverspeed(st) \in RuntimeState /\ SameTrip(NoOverspeed(st), st)
    BY <1>1, NoOverspeedType, NoOverspeedFields
  <2> QED
    BY <1>2, <2>1, <2>2
<1>7. CASE run[s].pc = "createIdling"
  <2> DEFINE new == [st EXCEPT !.idleActive = TRUE, !.idleEvent = Len(idlings) + 1]
  <2>1. Goes(s) = AfterIdling(new, p)
    BY <1>7 DEF Goes, st, p
  <2>2. new \in RuntimeState /\ SameTrip(new, st)
    BY <1>1, NamedFields
  <2> HIDE DEF new
  <2> QED
    BY <1>2, <2>1, <2>2
<1>8. CASE run[s].pc = "updateIdling"
  <2>1. Goes(s) = AfterIdling(st, p)
    BY <1>8 DEF Goes, st, p
  <2> QED
    BY <1>1, <1>2, <1>3, <2>1
<1>9. CASE run[s].pc = "endIdling"
  <2>1. Goes(s) = Await(NoIdling(st), "persist", 0, 0)
    BY <1>9 DEF Goes, st
  <2>2. SameTrip(NoIdling(st), st)
    BY <1>1, NoIdlingFields
  <2> QED
    BY <2>1, <2>2 DEF LeavesTrip, Await
<1> QED
  BY <1>4, <1>5, <1>6, <1>7, <1>8, <1>9

LEMMA GoesSplit ==
  ASSUME TypeInv, NEW s \in Slots, run[s].pc \in Returning, TakesEffect(s),
         State(s).trip \in {0, Len(trips)},
         EventStep(Cont(s), Pkt(s), trips, overspeeds, idlings),
         SplitStep(Cont(s), Pkt(s), run[s].closeRead, offSince, trips)
  PROVE  SplitStep(Goes(s), Pkt(s), run[s].closeRead, offSince, trips')
<1>1. CASE run[s].pc \in TripCalls
  BY <1>1, GoesTripSplit
<1>2. CASE run[s].pc \in OverspeedCalls \cup IdlingCalls
  <2>1. trips' = trips
    BY <1>2 DEF TakesEffect, TripsAfter, OverspeedCalls, IdlingCalls
  <2>2. ~Pkt(s).ign => /\ offSince # NoTime
                       /\ OffState(State(s), offSince, Pkt(s).time, trips')
    BY <1>2, <2>1 DEF SplitStep, Cont, OverspeedCalls, IdlingCalls
  <2>3. Pkt(s) \in Packet
    BY DEF TypeInv, TypesOK, Types, IdsExist, Pkt
  <2> QED
    BY <1>2, <2>2, <2>3, GoesLeavesTrip, LeavesSplit
<1> QED
  BY <1>1, <1>2 DEF Returning, Calls

LEMMA ReceiveSplit ==
  ASSUME TypeInv, NEW s \in Slots, Receives(s), last'.time >= last.time, NEW st,
         SplitRest(st, last, offSince, trips)
  PROVE  SplitIngest(st, last', offSince', trips)
<1>1. PICK p \in Packet : Receive(s, p)
  BY DEF Receives
<1>2. /\ last' = p /\ p.time >= last.time
      /\ offSince' = CASE p.ign /\ last.ign -> NoTime
                       [] ~p.ign /\ (last.ign \/ offSince = NoTime) -> p.time
                       [] OTHER -> offSince
  BY <1>1 DEF Receive
<1>3. /\ p.time \in Int /\ p.time # NoTime /\ last.time \in Int /\ offSince \in Int
      /\ TripTimeout \in Int
  <2>1. Times \subseteq Int /\ NoTime \in Int
    BY TimesNat
  <2>2. offSince \in Times \cup {NoTime} /\ last \in Packet
    BY DEF TypeInv, TypesOK, Types, IdsExist
  <2> QED
    BY <2>1, <2>2, PacketFacts, TimesNat, HandlerAssumption
<1>4. p.ign \in BOOLEAN /\ last.ign \in BOOLEAN
  BY DEF TypeInv, TypesOK, Types, IdsExist, Packet
<1>5. CASE last.ign /\ p.ign
  <2>1. offSince' = NoTime
    BY <1>2, <1>5
  <2> QED
    BY <1>2, <1>5, <2>1 DEF SplitIngest
<1>6. CASE last.ign /\ ~p.ign
  <2>1. offSince' = p.time
    BY <1>2, <1>6
  <2> QED
    BY <1>2, <1>3, <1>6, <2>1 DEF SplitIngest, SplitRest
<1>7. CASE ~last.ign /\ ~p.ign /\ offSince = NoTime
  <2>1. offSince' = p.time
    BY <1>2, <1>7
  <2> QED
    BY <1>2, <1>3, <1>7, <2>1 DEF SplitIngest, SplitRest, OffState
<1>8. CASE ~last.ign /\ (p.ign \/ offSince # NoTime)
  <2>1. offSince' = offSince
    BY <1>2, <1>8
  <2>2. offSince # NoTime => OffState(st, offSince, last.time, trips)
    BY <1>8 DEF SplitRest
  <2>3. offSince # NoTime => OffState(st, offSince, p.time, trips)
    BY <1>2, <1>3, <2>2 DEF OffState
  <2> QED
    BY <1>2, <1>8, <2>1, <2>3 DEF SplitIngest
<1> QED
  BY <1>4, <1>5, <1>6, <1>7, <1>8

LEMMA NextSplit ==
  ASSUME OneAtATime, AloneInv, Shared, Inv, Faultless => EventInv /\ SplitInv,
         [Next]_vars, Faultless'
  PROVE  SplitInv'
<1> DEFINE OK(s) ==
      CASE run[s].pc = "ready" -> SplitRest(StoredState, last, offSince, trips)
        [] run[s].pc = "ingest" -> SplitIngest(StoredState, Pkt(s), offSince, trips)
        [] OTHER -> SplitStep(Cont(s), Pkt(s), run[s].closeRead, offSince, trips)
<1>1. SUFFICES ASSUME NEW s \in Slots PROVE OK(s)'
  BY DEF SplitInv
<1>2. TypeInv /\ Current
  BY DEF AloneInv
<1>3. OK(s) /\ EventInv
  BY <1>2, FaultlessBefore DEF SplitInv
<1>4. Busy(s) => Pkt(s) = last
  BY <1>2 DEF Current
<1>5. \A o \in Objs : heap[o].trip \in {0, Len(trips)}
  BY DEF Inv, TripInv, ObjectsInv, ObjectTrip
<1>6. run[s].pc \in Calls =>
        /\ run[s].pc \notin {"ready", "ingest"} /\ Busy(s)
        /\ EventStep(Cont(s), Pkt(s), trips, overspeeds, idlings)
        /\ SplitStep(Cont(s), Pkt(s), run[s].closeRead, offSince, trips)
        /\ State(s).trip \in {0, Len(trips)}
  BY <1>2, <1>3, <1>5, EventCall, BusyObject
  DEF Busy, Calls, TripCalls, OverspeedCalls, IdlingCalls, State
<1>7. CASE Receives(s)
  <2>1. SplitIngest(StoredState, last', offSince', trips)
    BY <1>2, <1>3, <1>7, FaultlessBefore, ReceiveSplit DEF Receives
  <2> QED
    BY <1>7, <2>1 DEF Receives, rows
<1>8. CASE Reads(s)
  <2>1. SplitIngest(StoredState, Pkt(s), offSince, trips)
    BY <1>3, <1>8 DEF Reads
  <2>2. /\ StoredState \in RuntimeState /\ Pkt(s) \in Packet
        /\ StoredState.trip \in {0, Len(trips)}
        /\ offSince \in Int
    <3>1. Times \subseteq Int /\ NoTime \in Int
      BY TimesNat
    <3> QED
      BY <1>2, <1>5, <3>1, StoredStateType
      DEF TypeInv, TypesOK, Types, IdsExist, Pkt, StoredState, FreshState
  <2>3. SplitStep(Begin(StoredState, Pkt(s)), Pkt(s), StoredState.closeTs,
                  offSince, trips)
    BY <2>1, <2>2, BeginSplit
  <2>4. run'[s].pc \notin {"ready", "ingest"}
    BY <1>8 DEF Reads, Calls, TripCalls, OverspeedCalls, IdlingCalls
  <2> QED
    BY <1>8, <2>3, <2>4 DEF Reads, rows
<1>9. CASE Advances(s)
  <2>1. run[s].pc \in Calls /\ run[s].pc \in Returning /\ TakesEffect(s)
    BY <1>9 DEF Advances, Returning
  <2>2. SplitStep(Goes(s), Pkt(s), run[s].closeRead, offSince, trips')
    BY <1>2, <1>6, <2>1, GoesSplit
  <2>3. run'[s].pc \notin {"ready", "ingest"}
    BY <1>9 DEF Advances, Calls, TripCalls, OverspeedCalls, IdlingCalls
  <2> QED
    BY <1>9, <2>2, <2>3 DEF Advances
<1>10. CASE Persists(s)
  <2>1. run[s].pc = "persist" /\ run[s].pc \in Calls
    BY <1>10 DEF Persists, Calls
  <2>2. IF last.ign THEN OnState(State(s))
        ELSE offSince # NoTime /\ OffState(State(s), offSince, last.time, trips)
    BY <1>4, <1>6, <2>1
    DEF EventStep, InTrip, SplitStep, Cont, TripCalls, OnState
  <2>3. SplitRest(State(s), last, offSince, trips)
    BY <2>2 DEF SplitRest
  <2>4. NothingToKeep(State(s)) => SplitRest(FreshState, last, offSince, trips)
    BY <2>2 DEF SplitRest, NothingToKeep, OnState, OffState, FreshState
  <2>5. UNCHANGED <<last, offSince, trips>> /\ run'[s].pc = "ready"
    BY <1>10 DEF Persists, rows, Free
  <2>6. SplitRest(StoredState', last, offSince, trips)
    BY <1>10, <2>3, <2>4 DEF Persists
  <2> QED
    BY <2>5, <2>6
<1>11. CASE /\ Refused(s) /\ UNCHANGED <<rows, last, offSince>>
            /\ run[s].obj # NoObj
            /\ run'[s] = Free
            /\ StoredState' \in {State(s), FreshState}
  <2>1. run[s].pc \in Calls
    BY <1>11 DEF Refused, Calls, TripCalls, OverspeedCalls, IdlingCalls
  <2>2. State(s).trip = 0 /\ run[s].pc \notin TripCalls /\ ~last.ign
    BY <1>4, <1>6, <1>11, <2>1
    DEF Refused, EventStep, EventRest, PeriodRest, InTrip, Cont, TripCalls
  <2>3. offSince # NoTime /\ OffState(State(s), offSince, last.time, trips)
    BY <1>4, <1>6, <2>1, <2>2 DEF SplitStep, Cont, TripCalls
  <2>4. /\ SplitRest(State(s), last, offSince, trips)
        /\ SplitRest(FreshState, last, offSince, trips)
    BY <2>2, <2>3 DEF SplitRest, OffState, FreshState
  <2>5. UNCHANGED <<last, offSince, trips>> /\ run'[s].pc = "ready"
    BY <1>11 DEF rows, Free
  <2>6. SplitRest(StoredState', last, offSince, trips)
    BY <1>11, <2>4
  <2> QED
    BY <2>5, <2>6
<1>12. CASE UNCHANGED vars
  <2>1. /\ StoredState' = StoredState /\ Cont(s)' = Cont(s) /\ Pkt(s)' = Pkt(s)
        /\ run' = run /\ UNCHANGED <<last, offSince, trips>>
    BY <1>12 DEF vars, StoredState, Cont, State, Pkt
  <2> QED
    BY <1>3, <2>1
<1> QED
  BY <1>2, <1>7, <1>8, <1>9, <1>10, <1>11, <1>12, FaultlessStep

(* Without faults, the ignition coming back opens a new trip exactly when  *)
(* it was off for the timeout, for every timeout and every number and      *)
(* spacing of the packets of the off period.                               *)
THEOREM TripsSplitAtTimeout ==
  ASSUME OneAtATime
  PROVE  Spec => []TripSplitAtTimeout
<1> DEFINE SInv == Faultless => SplitInv
<1>1. Init => Inv /\ SInv
  <2> SUFFICES ASSUME Init
               PROVE  Inv /\ SplitInv
    OBVIOUS
  <2>1. \A s \in Slots : run[s].pc = "ready"
    BY DEF Init, Free
  <2>2. SplitRest(StoredState, last, offSince, trips)
    BY DEF Init, SplitRest, StoredState, FreshState, NoPacket
  <2> QED
    BY <2>1, <2>2, InitInv DEF SplitInv
<1>2. MemoryInv /\ Inv /\ SInv /\ [Next]_vars => Inv' /\ SInv'
  <2> SUFFICES ASSUME MemoryInv, Inv, SInv, [Next]_vars
               PROVE  Inv' /\ SInv'
    OBVIOUS
  <2>1. AloneInv /\ Shared /\ (Faultless => EventInv /\ SplitInv)
    BY DEF MemoryInv
  <2> QED
    BY <2>1, NextInv, NextSplit
<1>3. MemoryInv /\ SInv => TripSplitAtTimeout
  <2> SUFFICES ASSUME SInv, NEW s \in Slots, Faultless, run[s].pc = "playback",
                      Pkt(s).ign, offSince # NoTime
               PROVE  SplitDone(Pkt(s), offSince, trips)
    BY DEF TripSplitAtTimeout, SplitDone
  <2>1. SplitStep(Cont(s), Pkt(s), run[s].closeRead, offSince, trips)
    BY DEF SplitInv
  <2> QED
    BY <2>1 DEF SplitStep, Cont
<1> QED
  BY <1>1, <1>2, <1>3, AlwaysMemory, PTL DEF Spec
=============================================================================
