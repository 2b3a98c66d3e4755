-------------------------- MODULE GeofenceTracking --------------------------
(* Ingestion of telemetry into the tables (modules/telemetry/telemetry.service.ts,  *)
(* ingest and what it calls): the address of a position, the geofence around  *)
(* it, the notifications about fences entered and left, the new row and the   *)
(* row of the vehicle.  Packets of one vehicle are handled at the same time;  *)
(* each await of the code is a step of its own.  The fences of the college    *)
(* are edited meanwhile (modules/geofences/geofences.service.ts), and         *)
(* addresses come from the Geocoder.  Positions are points of a line.         *)
EXTENDS Geocoder, FiniteSets

CONSTANTS
    Elsewhere,         \* where the other vehicles are
    Slots,             \* packets of the vehicle handled at the same time
    Fences,            \* ids of geofences of the college
    Radii,             \* their radii
    InitialGeofences,  \* what the table of fences may hold at the start
    Threshold,         \* MOVEMENT_THRESHOLD_METERS
    CacheAge,          \* GEOFENCE_CACHE_MS, in ticks
    MaxPackets,        \* packets in a behaviour
    MaxTime,           \* device timestamps
    MaxEdits           \* edits of the fences in a behaviour

ASSUME TrackingAssumption ==
    /\ Keys \subseteq Int /\ Elsewhere \subseteq Keys
    /\ Radii \subseteq Nat
    /\ InitialGeofences \subseteq Seq([id : Fences, at : Keys, radius : Radii])
    /\ Threshold \in Nat \ {0}
    /\ CacheAge \in Nat \ {0}
    /\ MaxPackets \in Nat /\ MaxTime \in Nat /\ MaxEdits \in Nat
    /\ None \notin Fences

VARIABLES
    slot,              \* what the handling of each packet has reached
    lastKnown,         \* the last resolved place of the vehicle
    geofences,         \* table geofences, most recently updated first
    geofenceCache,     \* the fences kept for the college; read: age of the data
    rows,              \* table telemetry_records
    notes,             \* table notifications, in the order of insertion
    received,          \* packets so far
    edits,             \* edits so far
    disturbed          \* history: packets overlapped, came out of order or failed

trackingVars == <<slot, lastKnown, geofences, geofenceCache, rows, notes,
                  received, edits, disturbed>>
vars == <<geocoderVars, trackingVars>>

Places == Keys         \* a cell of the geocoder's cache is a place

Addresses == Places \cup {Unknown}

Geofence == [id : Fences, at : Places, radius : Radii]

Idle == [pc |-> "idle", place |-> None, ts |-> 0, address |-> None, loading |-> 0,
         data |-> <<>>, read |-> 0, fence |-> None, previous |-> None]

Row == [n : Nat, place : Places, ts : 1 .. MaxTime, address : Addresses,
        fence : Fences \cup {None}]

Init ==
    /\ GeocoderInit
    /\ slot = [s \in Slots |-> Idle]
    /\ lastKnown = None
    /\ geofences \in InitialGeofences
    /\ geofenceCache = None
    /\ rows = {}
    /\ notes = <<>>
    /\ received = 0
    /\ edits = 0
    /\ disturbed = FALSE

-----------------------------------------------------------------------------

Distance(p, q) == IF p < q THEN q - p ELSE p - q

\* findCurrentGeofence: the nearest fence around the place, the first of the
\* list when two are as near.
CurrentGeofence(place, data) ==
    LET around == {i \in DOMAIN data :
                     Distance(place, data[i].at) <= data[i].radius}
        Nearer(i, j) ==
          \/ Distance(place, data[i].at) < Distance(place, data[j].at)
          \/ Distance(place, data[i].at) = Distance(place, data[j].at) /\ i <= j
    IN  IF around = {} THEN None
        ELSE data[CHOOSE i \in around : \A j \in around : Nearer(i, j)].id

\* The handling of a packet has reached r.
Reach(s, r) == slot' = [slot EXCEPT ![s] = r]

\* The fences of the college for a packet with its address: those of the
\* cache while they are young enough, else a query that starts now.
StartGeofences(s, r) ==
    \/ /\ geofenceCache # None /\ geofenceCache.age < CacheAge
       /\ Reach(s, [r EXCEPT !.pc = "previous", !.read = geofenceCache.read,
                             !.fence = CurrentGeofence(r.place, geofenceCache.data)])
    \/ /\ ~(geofenceCache # None /\ geofenceCache.age < CacheAge)
       /\ Reach(s, [r EXCEPT !.pc = "load", !.loading = 0])

\* Mutant: the answer of the geocoder is not awaited.
ResolvedUnawaited(s, address) ==
    /\ lastKnown' = [place |-> slot[s].place, address |-> address]
    /\ StartGeofences(s, slot[s])

\* resolveAddress with the answer of the geocoder.
Resolved(s, address) ==
    /\ lastKnown' = [place |-> slot[s].place, address |-> address]
    /\ StartGeofences(s, [slot[s] EXCEPT !.address = address])

\* No packet was handled after the latest one, in the order of arrival.
InOrder(ts) == \A r \in rows : r.ts < ts

Handled(s) == slot[s].pc # "idle"

\* A packet of the vehicle arrives.
Receive(s) ==
    /\ ~Handled(s)
    /\ received < MaxPackets
    /\ received' = received + 1
    /\ \E place \in Places, ts \in 1 .. MaxTime :
         /\ Reach(s, [Idle EXCEPT !.pc = "lookup", !.place = place, !.ts = ts])
         /\ disturbed' = (disturbed \/ ~InOrder(ts) \/ \E t \in Slots : Handled(t))
    /\ UNCHANGED <<geocoderVars, lastKnown, geofences, geofenceCache, rows,
                   notes, edits>>

\* Mutant: the last known address is used wherever the vehicle is.
KnownAnywhere(place) == lastKnown # None

Near(place) == lastKnown # None /\ Distance(lastKnown.place, place) < Threshold

\* The device and its vehicle are found: the address is that of the last known
\* place if it is near, else the geocoder's.
LookedUp(s) ==
    LET place == slot[s].place
    IN  /\ slot[s].pc = "lookup"
        /\ \/ /\ Near(place)
              /\ StartGeofences(s, [slot[s] EXCEPT !.address = lastKnown.address])
              /\ UNCHANGED <<geocoderVars, lastKnown>>
           \/ /\ ~Near(place)
              /\ \/ /\ cache[place] # None
                    /\ Resolved(s, cache[place])
                    /\ UNCHANGED geocoderVars
                 \/ /\ cache[place] = None /\ place \notin inFlight
                    /\ Len(queue) >= MaxQueue
                    /\ Resolved(s, Unknown)
                    /\ UNCHANGED geocoderVars
                 \/ /\ cache[place] = None
                    /\ Reach(s, [slot[s] EXCEPT !.pc = "address"])
                    /\ UNCHANGED lastKnown
                    /\ IF place \in inFlight THEN UNCHANGED geocoderVars
                       ELSE Enqueue(place)
    /\ UNCHANGED <<geofences, geofenceCache, rows, notes, received,
                   edits, disturbed>>

\* The promise of the geocoder is resolved.
Addressed(s) ==
    /\ slot[s].pc = "address"
    /\ cache[slot[s].place] # None
    /\ Resolved(s, cache[slot[s].place])
    /\ UNCHANGED <<geocoderVars, geofences, geofenceCache, rows, notes,
                   received, edits, disturbed>>

\* The database reads the fences.
ReadGeofences(s) ==
    /\ slot[s].pc = "load"
    /\ Reach(s, [slot[s] EXCEPT !.pc = "loaded", !.data = geofences, !.read = 0])
    /\ UNCHANGED <<geocoderVars, lastKnown, geofences, geofenceCache, rows,
                   notes, received, edits, disturbed>>

\* Mutant: the time of the load is taken after the query.
LoadedGeofencesStampedLate(s) ==
    /\ slot[s].pc = "loaded"
    /\ geofenceCache' = [data |-> slot[s].data, age |-> 0,
                         read |-> slot[s].read]
    /\ Reach(s, [slot[s] EXCEPT
         !.pc = "previous", !.data = <<>>, !.read = 0, !.loading = 0,
         !.fence = CurrentGeofence(slot[s].place, slot[s].data)])
    /\ UNCHANGED <<geocoderVars, lastKnown, geofences, rows, notes,
                   received, edits, disturbed>>

\* The answer of the database reaches the service.
LoadedGeofences(s) ==
    /\ slot[s].pc = "loaded"
    /\ geofenceCache' = [data |-> slot[s].data, age |-> slot[s].loading,
                         read |-> slot[s].read]
    /\ Reach(s, [slot[s] EXCEPT
         !.pc = "previous", !.data = <<>>, !.read = 0, !.loading = 0,
         !.fence = CurrentGeofence(slot[s].place, slot[s].data)])
    /\ UNCHANGED <<geocoderVars, lastKnown, geofences, rows, notes,
                   received, edits, disturbed>>

Crossing(from, to) ==
    CASE from = to -> "save"
      [] from # to /\ from # None -> "exit"
      [] OTHER -> "enter"

\* The row with the latest timestamp: its fence is the one to compare with.
Previous(s) ==
    /\ slot[s].pc = "previous"
    /\ \E previous \in
         IF rows = {} THEN {None}
         ELSE {r.fence : r \in {q \in rows : \A o \in rows : o.ts <= q.ts}} :
         Reach(s, [slot[s] EXCEPT !.previous = previous, !.read = 0,
                                  !.pc = Crossing(previous, slot[s].fence)])
    /\ UNCHANGED <<geocoderVars, lastKnown, geofences, geofenceCache, rows,
                   notes, received, edits, disturbed>>

\* Mutant: a vehicle that left a fence is not asked for the one it entered.
AfterExitDone(s) == "save"

AfterExit(s) == IF slot[s].fence = None THEN "save" ELSE "enter"

\* The notification about the fence that was left, and the one entered.
NoteExit(s) ==
    /\ slot[s].pc = "exit"
    /\ notes' = Append(notes, [type |-> "exit", fence |-> slot[s].previous])
    /\ Reach(s, [slot[s] EXCEPT !.pc = AfterExit(s)])
    /\ UNCHANGED <<geocoderVars, lastKnown, geofences, geofenceCache, rows, received, edits, disturbed>>

\* Mutant: a notification that cannot be saved is passed over.
NoteEnterPassedOver(s) ==
    /\ slot[s].pc = "enter"
    /\ \/ notes' = Append(notes, [type |-> "enter", fence |-> slot[s].fence])
       \/ UNCHANGED notes
    /\ Reach(s, [slot[s] EXCEPT !.pc = "save"])
    /\ UNCHANGED <<geocoderVars, lastKnown, geofences, geofenceCache, rows, received, edits, disturbed>>

NoteEnter(s) ==
    /\ slot[s].pc = "enter"
    /\ notes' = Append(notes, [type |-> "enter", fence |-> slot[s].fence])
    /\ Reach(s, [slot[s] EXCEPT !.pc = "save"])
    /\ UNCHANGED <<geocoderVars, lastKnown, geofences, geofenceCache, rows, received, edits, disturbed>>

\* create, with the address and the fence of ingest: the row is saved.
SaveRow(s) ==
    /\ slot[s].pc = "save"
    /\ rows' = rows \cup
         {[n |-> Cardinality(rows) + 1, place |-> slot[s].place, ts |-> slot[s].ts,
           address |-> slot[s].address, fence |-> slot[s].fence]}
    /\ Reach(s, [slot[s] EXCEPT !.pc = "vehicle"])
    /\ UNCHANGED <<geocoderVars, lastKnown, geofences, geofenceCache, notes, received, edits, disturbed>>

\* The row of the vehicle is saved: the packet ends.  Its geofenceId is left
\* out, since ingest is not the only one to write it from a row read earlier
\* (telemetry.handler.ts:120-129, vehicles.service.ts:142-157 and 194).
SaveVehicle(s) ==
    /\ slot[s].pc = "vehicle"
    /\ Reach(s, Idle)
    /\ UNCHANGED <<geocoderVars, lastKnown, geofences, geofenceCache, rows,
                   notes, received, edits, disturbed>>

\* A query fails, or finds no device or vehicle: the packet ends there.
Fail(s) ==
    /\ slot[s].pc \notin {"idle", "address"}
    /\ Reach(s, Idle)
    /\ disturbed' = TRUE
    /\ UNCHANGED <<geocoderVars, lastKnown, geofences, geofenceCache, rows,
                   notes, received, edits>>

-----------------------------------------------------------------------------

\* geofences.service create, update and remove: a fence that is saved is the
\* most recently updated one.
Edited(fences) ==
    /\ edits < MaxEdits
    /\ edits' = edits + 1
    /\ geofences' = fences
    /\ UNCHANGED <<geocoderVars, slot, lastKnown, geofenceCache, rows, notes, received, disturbed>>

CreateGeofence ==
    \E g \in Geofence :
      /\ \A i \in DOMAIN geofences : geofences[i].id # g.id
      /\ Edited(<<g>> \o geofences)

UpdateGeofence(i) ==
    \E g \in Geofence :
      /\ g.id = geofences[i].id
      /\ Edited(<<g>> \o RemoveAt(geofences, i))

RemoveGeofence(i) == Edited(RemoveAt(geofences, i))

\* The geocoder at work, for this vehicle and for the others of the backend.
GeocoderStep ==
    /\ \/ \E d \in Drainers : Request(d) \/ Answer(d)
       \/ \E k \in Elsewhere : cache[k] = None /\ k \notin inFlight /\ Enqueue(k)
    /\ UNCHANGED trackingVars

Older(age) == IF age < CacheAge THEN age + 1 ELSE age

\* Time passes; ages stop at CacheAge, where the cache is stale.
Tick ==
    /\ GeocoderPatient
    /\ GeocoderTick
    /\ slot' = [s \in Slots |->
         CASE slot[s].pc = "load"   -> [slot[s] EXCEPT !.loading = Older(@)]
           [] slot[s].pc = "loaded" -> [slot[s] EXCEPT !.loading = Older(@), !.read = Older(@)]
           [] OTHER -> slot[s]]
    /\ geofenceCache' = IF geofenceCache = None THEN None
                        ELSE [geofenceCache EXCEPT !.age = Older(@), !.read = Older(@)]
    /\ UNCHANGED <<lastKnown, geofences, rows, notes, received, edits,
                   disturbed>>

Handle(s) ==
    \/ LookedUp(s)
    \/ Addressed(s)
    \/ ReadGeofences(s)
    \/ LoadedGeofences(s)
    \/ Previous(s)
    \/ NoteExit(s)
    \/ NoteEnter(s)
    \/ SaveRow(s)
    \/ SaveVehicle(s)

Next ==
    \/ \E s \in Slots : Receive(s) \/ Handle(s) \/ Fail(s)
    \/ CreateGeofence
    \/ \E i \in DOMAIN geofences : UpdateGeofence(i) \/ RemoveGeofence(i)
    \/ GeocoderStep
    \/ Tick

Spec == Init /\ [][Next]_vars

-----------------------------------------------------------------------------

TypeOK ==
    /\ cache \in [Keys -> Addresses \cup {None}]
    /\ inFlight \subseteq Keys
    /\ queue \in Seq(Keys)
    /\ processingQueue \in BOOLEAN
    /\ loop \in [Drainers -> Loops]
    /\ sinceRequest \in 0 .. RequestInterval
    /\ slot \in [Slots ->
         [pc : {"idle", "lookup", "address", "load", "loaded", "previous", "exit",
                "enter", "save", "vehicle"},
          place : Places \cup {None}, ts : 0 .. MaxTime,
          address : Addresses \cup {None}, loading : 0 .. CacheAge,
          data : Seq(Geofence), read : 0 .. CacheAge,
          fence : Fences \cup {None}, previous : Fences \cup {None}]]
    /\ lastKnown \in [place : Places, address : Addresses] \cup {None}
    /\ geofences \in Seq(Geofence)
    /\ geofenceCache \in [data : Seq(Geofence), age : 0 .. CacheAge, read : 0 .. CacheAge]
                           \cup {None}
    /\ rows \subseteq Row
    /\ notes \in Seq([type : {"exit", "enter"}, fence : Fences])
    /\ received \in 0 .. MaxPackets
    /\ edits \in 0 .. MaxEdits
    /\ disturbed \in BOOLEAN

\* However packets overlap, come out of order or fail, nobody is told that a
\* vehicle left a fence without having been told that it entered it, and a row
\* names no fence whose entry was not told (ingest, lines 272-280: the notes
\* are inserted before the row is).
Entered(f, i) == \E j \in 1 .. i : notes[j] = [type |-> "enter", fence |-> f]

CrossingsBacked ==
    /\ \A r \in rows : r.fence # None => Entered(r.fence, Len(notes))
    /\ \A i \in 1 .. Len(notes) :
         notes[i].type = "exit" => Entered(notes[i].fence, i)

\* The reference: what the rows, in the order they were saved in, say of the
\* fences left and entered.
Crossings(from, to) ==
    (IF from # to /\ from # None THEN <<[type |-> "exit", fence |-> from]>> ELSE <<>>)
      \o (IF from # to /\ to # None THEN <<[type |-> "enter", fence |-> to]>> ELSE <<>>)

Track == [i \in 1 .. Cardinality(rows) |-> CHOOSE r \in rows : r.n = i]

FenceAt(i) == IF i = 0 THEN None ELSE Track[i].fence

\* When the packets of a vehicle came one after the other, in order, and none
\* failed, the notifications are the crossings of its track, each told once.
NotesTellTrack ==
    ~disturbed /\ (\A s \in Slots : ~Handled(s)) =>
      notes = FlattenSeq([i \in 1 .. Len(Track) |-> Crossings(FenceAt(i - 1), FenceAt(i))])

\* The fences a packet is compared with, when they are those of the cache, were
\* read from the table less than GEOFENCE_CACHE_MS ago, whatever the order in
\* which queries of several packets are answered (line 82 takes the time before
\* the query).
FencesRecent ==
    \A s \in Slots : slot[s].pc = "previous" => slot[s].read < CacheAge

\* The address of a row is unknown, or that of a place less than the movement
\* threshold away: reusing the last known address does not add up along a slow
\* drive.
AddressNear ==
    \A r \in rows : r.address # Unknown => Distance(r.place, r.address) < Threshold

\* No packet waits for an address in vain: one that waits has its address, or
\* its key is in flight, and a key in flight is in the queue or in the hands of
\* the loop, which does not end before the queue is empty.
WaitersServed ==
    /\ \A s \in Slots :
         slot[s].pc = "address" => cache[slot[s].place] # None \/ slot[s].place \in inFlight
    /\ \A k \in inFlight :
         k \in ToSet(queue) \/ \E d \in Drainers : Busy(d) /\ loop[d].key = k
    /\ queue # <<>> => \E d \in Drainers : Busy(d)
=============================================================================
