# Verification of the vehicle tracking system

TLA+ models of the vehicle tracking system in `src/code`, the TLC runs that
check them on small instances, and TLAPS proofs of the results that hold for
every value of the constants. Paths below are relative to `src/code`; `backend`
is `vts-backend/src`, `main.cpp` is `Firmware/src/main.cpp`.

## 1. The system

A **device** (ESP32 and LTE modem) samples GPS and ignition, queues samples
while it has no MQTT session, and publishes them. The **backend** (NestJS)
receives them over MQTT, TCP or UDP, stores a telemetry row, updates the vehicle
row, and runs the trip / overspeed / idling machine of the vehicle, whose runtime
state is kept in a `Map` or in Redis. Operators use the **frontend** (React)
over HTTP and a websocket; a request to change the sampling intervals goes back
to the device over MQTT and waits for its acknowledgement.

    device loop --queue--> MQTT --> mqtt.service --> telemetry.handler --> trips, events
        ^                             |                    |
        |                             v                    v
    NVS, intervals <-- commands   device-ack          telemetry-state (Map | Redis)
                          ^           ^
                          +-- devices.controller (interval request)

### Inventory

| Component | State | Operations | What makes it correct | Where |
|---|---|---|---|---|
| Telemetry handler | runtime state of a vehicle; rows of trips, overspeed, idling | one invocation per packet, suspended at every `await` | trips written at their newest end and split at two minutes; events in their trip, once each; overspeed and idling tracked to the last packet | `TelemetryHandler` |
| Firmware queue | ring buffer in RAM, `mqttConnected` | enqueue, flush, publish, reconnect | order kept, newest kept, drained | `FirmwareQueue` |
| Firmware loop | absolute and relative `millis()` times | poll, maintain, reconnect, publish | sampling and retries in bounded time, across the wrap of `millis()` | `FirmwareTimers` |
| Interval control | ACK per IMEI, device row, intervals in RAM and NVS | request, command, save, ACK, wait | the row tells what the device does; a request the broker took is answered | `IntervalControl` |
| Devices and vehicles | two rows that name each other | create, update, assign, unassign, remove | the two sides agree; no vehicle has two devices | `DeviceAssignment` |
| Telemetry and geofences | fence cache, last known address, rows, notifications | ingest a packet; edit fences | crossings told are backed by rows and told once; fences and addresses not stale | `GeofenceTracking` |
| Geocoder | queue, requests in flight, cache, one loop | look up, pause, time out, fall back | bounded queue, no caller forgotten | `Geocoder` |
| Colleges and users | status of a college, its admin, users; tokens | create, update, request and cancel deletion, remove | nobody without a college; one admin | `CollegeLifecycle` |
| Tenant scope | none | predicates on the token | what a request may see and write | `TenantScope` |
| Stop events | none: a query over telemetry | list | the stops are the times with the ignition off | `StopEvents` |
| Notifications, frontend store | table, list, unread count, toasts, session, selection | create, list, mark, refresh, select, log in and out | the list belongs to the view; list and count of the newest page catch up | `NotificationFeed` |
| Authentication, profile | token | log in, change password | | in `CollegeLifecycle` |
| Routes, vehicle status, TCP and UDP ingestion, gateway, history, simulator, Temporal worker, pages | see section 6 | | | not modelled |

    packet --> ingest --> geocoder queue --> fence cache --> notifications --> row, vehicle
                                                                  |
    browser: session, selection --> refresh <-- event (socket) <--+
    operators: colleges, users, fences, devices, vehicles --> the tables

What is hard in this code: the handler of a packet is suspended at ten awaited
calls while `mqtt.service` starts the next one without waiting; the store hands
out the object itself (memory) or a copy (Redis); calls fail after taking
effect; the firmware's modem dialogues block the loop for seconds and lose
acknowledgements; `millis()` wraps; two NVS writes are not one; a command, its
acknowledgement and the request that waits are three clocks; services read rows,
wait, and save them whole, without foreign keys between users and colleges; one
loop serves every packet that waits for an address; answers reach the browser in
any order, across a change of user or college. PROJECT.json lists
each of these hazards at its line with the properties that cover it.

## 2. Modules

| Module | Role |
|---|---|
| `TripLog` | abstract: a log written at its newest end only; of disjoint intervals that grow while packets come in order |
| `TelemetryHandler` | the handler, one action per awaited call that returns |
| `StoreAndForward` | abstract: a bounded buffer that may drop its oldest, and sends in order |
| `FirmwareQueue` | the ring buffer and the publish path |
| `FirmwareTimers` | the loop, its timers and a clock modulo `Word` |
| `IntervalControl` | backend, network and firmware side of an interval request |
| `Matching` | abstract: a matching of devices and vehicles |
| `DeviceAssignment` | the services that assign devices, query by query, and packets that rewrite vehicle rows |
| `Geocoder`, `GeofenceTracking` | the geocoder's queue and loop; `ingest`, composed with it |
| `TenantScope`, `CollegeLifecycle` | scope predicates; colleges and their users, query by query |
| `StopEvents` | the stop-events query as operators, over rows that arrive in any order |
| `NotificationFeed` | the notification table, the socket, the browser's store and its requests |
| `MC*` | instances for TLC |
| `TelemetryHandler_proofs`, `FirmwareQueue_proofs`, `FirmwareTimers_proofs`, `IntervalControl_proofs`, `DeviceAssignment_proofs`, `CollegeLifecycle_proofs`, `NotificationFeed_proofs` | proofs about the module of that name |
| `Telemetry_proofs` | proofs about `GeofenceTracking` with `Geocoder`, and about `StopEvents` |

Names ending in the description of a fault (`NoIdlingKeepingStart`,
`PopWithoutWrap`, ...) are mutated definitions. No specification uses them; they
document which slip of the code each property would notice.

### TelemetryHandler

One vehicle; `Slots` are invocations of `handleTripsAndEvents`, `Objs` addresses
of runtime-state objects. `heap[o]` is the object at `o`, `stored` what the store
holds, `run[s]` where invocation `s` is suspended (`pc`: the call it awaits), with
which arguments and on which object. An invocation runs from one `await` to the
next without interruption, so an action `XReturns(s)` is: the call's effect on
the database, then the code up to the next call. `Begin`, `AfterTrips`,
`AfterOverspeed`, `AfterIdling` are those stretches of code, as functions from a
state and a packet to a state and the next call. In memory mode `ReadState` gives
the invocation the stored object, so two invocations share it and an aborted one
leaves its changes in it; in Redis mode it gives a copy, and `PersistState` writes
it back. `CallFails` is any awaited call that throws, before or after its effect;
`CallRefused` is the database refusing the empty trip id (`?? ''`) of an event
without a trip; `Restart` and `Expire` lose invocations and stored state. The
branch of the code that creates an idling row when idling ends without one
(lines 448-462) is unreachable: `ActiveIdlingHasEvent` shows it, so it has no
action. A packet's time is its own `timestamp` (`telemetry.service.ts:251`), not
that of its arrival: up to `MaxLate` packets come late, with any time before the
latest one, and the code then subtracts and writes as always, so that the end of
a row may move back and a timeout may look negative. Positions, distances and
durations are left out, and ids are row numbers.

### FirmwareQueue

`slots`, `head`, `count` are `telemetryQueue`, `queueHead`, `queueCount`; messages
are numbered as they are built. `connected` is what the firmware believes,
`session` whether the broker has the session, `link` whether the network works.
`pc` distinguishes the flush in the loop, the flush inside `publishMessage` (with
the new message in `hand`) and the publish itself. A publish fails without or with
(`NotAcknowledged`) the message having been sent. `bootMark` is the last message
built before the last reboot.

### FirmwareTimers

`now` is `millis()` in `0 .. Word - 1`. Each piece of `loop()` is an action that
takes the duration `d` of its modem dialogue. `entered` is the one reading
`maintainConnectivity` works with, although it blocks in between. `Init` is the end
of `setup()`, which lasts up to `MaxSetup` and has called `maintainConnectivity`
once; the loop begins with its first `Listen`. The properties
speak about `sincePoll` and `sinceFailure`, real time that does not wrap.

### IntervalControl

One device. `req[r]` follows a request through `updateInterval`; `ackMap` is the
entry of the device; `commands` and `acks` are what is under way (the firmware's
queue included); `running` and `nvs` are the firmware's intervals. `applied`
collects what the firmware has acknowledged. The network loses and repeats,
saves fail after zero or one of the two writes, both sides restart. A request at
`publish` waits for the broker's PUBACK (`mqtt.service.ts:75-84`), without a
timeout. Other requests of `devices.service` that save a whole device row they
read before (lines 143, 226, 241, 276, 292), and may undo an interval saved
meanwhile, are not in the module.

### DeviceAssignment

`devices` and `vehicles` are the tables, with the columns that tell who serves
whom; `op[s]` is a request of `DevicesService` or `VehiclesService` with the rows
it has read (`dev`, `veh`) and the query it comes to next (`pc`); `pkt[k]` is a
packet between reading its vehicle and saving it, which it does twice, in
`processTelemetry` and in `updateFromTelemetry`. `Storable` is what the database
accepts of a device row. The transactions of `update` and `assign` are one step
each, which is exact as long as no other request writes the rows of one
meanwhile. A row that is saved after it was removed is inserted again, as the
repository does. `calm` remembers that no request has ended halfway and no packet
has undone one; only `TablesAgree` depends on it. A vehicle that changes its device
is without one in between (`vehicles.service.ts:161-165` unassigns, then assigns),
which `Matching` allows. A save of intervals is a
`Rename` that keeps the uid. Names and their copies, routes, IMEIs and edits of a
vehicle that do not touch its device are left out.

### Geocoder and GeofenceTracking

`GeofenceTracking` extends `Geocoder`. One vehicle; `slot[s]` is a packet inside
`ingest` and the await it has reached (`lookup`, `address`: the geocoder; `load`,
`loaded`: the query of fences; `previous`: the row before; `exit`, `enter`: the
notifications; `save`, `vehicle`). Packets of `mqtt.service` are not awaited, so
slots interleave at every await, share `lastKnown` and `geofenceCache`, and a
failed query ends one anywhere (`Fail`). `loop[d]` is a run of `processQueue`;
there is a second place for one so that starting two loops would show. `loading`
and `read` are ages: of the query under way, and of the fences a packet works
with. Positions are points of a line, a cell of the geocoder's cache is a place,
and other vehicles look up places too (`Elsewhere`). Ages, timers and the pause
between requests advance together in `Tick`. The vehicle row is saved as a step
(`SaveVehicle`) without contents: `updateFromTelemetry` and `vehicles.update` save
its `geofenceId` from stale reads too, so no property speaks of it. `disturbed` remembers that packets
overlapped, came out of order or failed; only `NotesTellTrack` depends on it.

### CollegeLifecycle and TenantScope

`op[r]` is a request with the rows it has read and the query it comes to next.
A transaction reads committed rows, so other requests write between its
queries; what it writes takes effect at its commit. `tokens[u]` is what the
token of a user says, which may be outdated. A row saved after its deletion is
inserted again. `calm` remembers that requests came one at a time with current
tokens and selections (for `UpdateLeavesOneAdmin`); `clashed` collects, for `Owned`,
the colleges a request named with an outdated token or selection, and those with a
deletion that another request for the same college overlapped (`Overlaps`). What
can go wrong in a clashed college is in section 4. A check on names,
addresses or passwords that fails is a request that ends without a change
(`Fail`). Rows of vehicles, devices, routes and geofences are one bit per college.

### StopEvents

`telemetry` is the table, for one device; its rows have a timestamp and an order
of creation. `Deduped`, `Before`, `StopStarts`, `NextOn`, `EndTime`, `Stops` and
`Listed` are the common table expressions of the query, in its order. Its names
(`StopsInit`, `Insert`, `assigned`, ...) leave those of `GeofenceTracking` free, so
that one proof module can extend both. The reference, `OffAt`, looks at the latest row up to a time and knows nothing of
stops.

### NotificationFeed

`calls[q]` is a request of the page: sent (`get`, `patch`), served, on its way back
(`answered`), applied when it arrives. `markAsRead` and `markAllAsRead` are two
requests in a row. An answer is the newest `PageSize` (50 in the code) of what the
token and the college asked for let see, in the order of timestamps; a
notification's number is its place in that order, and `Create` takes any free one,
because timestamps are those of packets. `View` is what the effect of
`RealtimeBridge` depends on; the effects run (`Effects`) before the user acts again,
but after answers that come first. `Load` is `loadNotifications`, which
`NotificationsPage` calls whenever the store is not loaded. The answer is filtered
with the selection of the moment it arrives. The page shows rows of a paged list
of its own, which is not modelled: `MarkAsRead` takes any notification the user
may read, and changes the store only if the answer and the list have it.
`LoseSocket` is the socket's reconnection, which delivers nothing that was sent
meanwhile. `missed` remembers that since the effects ran an event or answer was
lost, overtaken, or meant for another view, or `markAllAsRead` counted an unread one
as read (section 4).

## 3. Runs

| Run | Bounds | Result |
|---|---|---|
| `handler_memory` | one slot, memory, 4 speeds, times 0..3, 3 rows, 1 late packet, 1 failure, 1 loss | without faults: trips split at the timeout, events in their trip and disjoint; with them: `TripLog` implemented, starts and top speeds kept |
| `handler_redis_faults` | one slot, Redis, 4 speeds, times 0..3, 3 rows, 1 late packet, 1 failure, 1 loss | overspeed and idling tracked |
| `handler_concurrent` | two slots, memory, 3 speeds, times 0..1, 2 rows, 1 late packet | types and ids, idling active only with a row |
| `handler_reconnect_storm` | two slots, memory | **violated**: an idling period recorded twice |
| `queue_delivery` | capacity 3, 6 messages, 1 reboot, 7 sends | order, retention, `StoreAndForward` implemented, drained |
| `timers_punctual` | word 32, poll 2 or 4, maintenance 3, reconnect 5, operations up to 2, setup up to 6 | punctual sampling, bounded retry before the wrap |
| `control_requests` | one request at a time, 2x2 intervals, 2 targets, 2 faults | record agrees, was applied; requests answered once the broker took them |
| `assignment` | one request at a time, one packet, 2 devices, 2 vehicles, 3 uids, 4 requests besides creations, 1 failure | keys, status, tables agree, `Matching` implemented |
| `tracking` | two packets, places 0, 1, 3 on a line, 2 fences, threshold 2, queue 1, cache age 1, 1 edit, 2 timestamps | crossings backed, those of the rows when undisturbed; fences recent, addresses near, waiters served |
| `colleges` | 2 requests at a time, 4 in all, 2 colleges, 3 users | orphans only in colleges that clashed, one admin after an undisturbed update |
| `stops` | 4 rows, times 0..5, 2 vehicles, debounce 2, cap 3 | stops are the off times; listed stops last |
| `feed` | 2 users, 2 colleges, page of 1, 2 notifications, 2 requests at a time, 3 in all, 1 toast | list in scope; list and count of the newest page catch up |

Bounds. Three rows and four instants are a trip, its interruption at and below
the timeout (2), a second trip and an event of each threshold (2); the speeds
are those the code's comparisons tell apart: standing, crawling (Redis run) or
within the limit, and two over it. One late packet is enough to put a row's end
back and to make a difference negative. A capacity of three lets the ring wrap twice and
evict; six messages fill it, overflow it and follow a reboot. One request at a
time is what `RecordAgrees` speaks of; its late and repeated ACKs meet the next
request of the same slot. Two devices and two vehicles are the least that can be
swapped; the third uid is the one to rename to, or that no device has; four
requests assign both devices, move one, and rename, release or remove. Two packets are
what overlaps in `ingest`; a queue of one is full with the second key, and a cache
age of one makes an entry stale between them. Two requests of colleges and users
meet in every pair of services; four are a deletion asked for, approved and raced
by two others. Four rows are a stop, its end, a duplicate and a late one. A
page of one is full with the first notification and pushed off by the second,
which may be the older; three requests of the page are a mark between two
refreshes. The same run has passed with a page of 2 and 2 or 3 notifications
(2 requests for 3). Counters of failures, losses, reboots and faults bound
the environment, not the code; the proofs below do without all of these bounds.

Deadlock is checked in every run but `colleges`, `stops` and `feed`, which stop when
the bound on their requests, rows and time is reached. Where `AtBound` is defined
it is the only place a run may end.

Fairness. `FirmwareQueue!FairSpec`: the loop keeps running, and an attempt to
connect or send whose session is up succeeds unless the link goes down, which
is an action of its own. `IntervalControl!FairSpec`: the polling timer fires, the
database answers or fails, the clock goes on; strong fairness of `Tick` because
infinitely many requests could otherwise start and end within one unit of time.
Nothing is assumed of device, broker or network: a publish may wait for its PUBACK
for ever, and `RequestAnswered` therefore starts where it has returned.

## 4. Disagreements with the documents

One has a run:

* **Idling doubled** (`telemetry.handler.ts:402`, run `handler_reconnect_storm`):
  test, `await`, set; `docs/development/10-performance-rules.md:50` asks event
  creation to tolerate reconnect storms.

The following were found with the same models and are not checked again:

* **Overspeed lost** (`telemetry.handler.ts:334`): with the memory store the flag
  is set before the awaited create; a failure leaves it without an id, and neither
  the branch for speeding nor the end applies any more
  (`docs/architecture/09-event-processing.md:20`). `OverspeedTracked` holds with
  the Redis store.
* **Retry after the wrap** (`main.cpp:859`, `862`): absolute deadlines, compared,
  so that a retry may wait for the next turn of `millis()`
  (`docs/contracts/06-firmware-contracts.md:93`). The polling interval beside it
  (`220`) subtracts, and is proved right.
* **ACK overwritten** (`device-ack.service.ts:60`): one slot per device, looked at
  every 500 ms; the matching ACK of one request is replaced by that of another
  (`docs/reference/backend/03-api-reference.md:208`).
* **Unsaved intervals** (`main.cpp:1227`): assigned before they are saved, kept
  although `1231` logs that the update is ignored.
* The queue holds 20 messages (`main.cpp:34`) where
  `docs/contracts/03-messaging-spec.md:164` asks for 500.
* Idling ends above 5 km/h (`telemetry.handler.ts:438`) where
  `docs/architecture/09-event-processing.md:35` says when motion resumes.
* `colleges.service.ts:296` says each college must have exactly one admin: a super
  admin may remove, move or demote it through `users.service`, or move in a
  second; the next `colleges.update` repairs it.
* `markAllAsRead` sets the unread count to 0 although its list may hold a newer
  unread notification (`notificationStore.ts:104`), until the next refresh.
* Somebody who is no super admin may see, until the effects' refresh is answered,
  an answer to the user before on the same browser; `ScopedList` is about super
  admins, whose answers are filtered on arrival.
* A user created, moved or given data while its college is being deleted outlives
  the college: the counts, look-ups and the delete of `colleges.remove` and
  `users.remove` are separate queries (`Owned` excludes such colleges).
* A publish waits for the broker without a timeout (`mqtt.service.ts:75`), so a
  request can stay open beyond the 10 seconds of its ACK.
* A late packet moves the end of a trip or event back, and may open a trip that
  starts before the one before it has ended (`telemetry.service.ts:251`).
* A deleted user or college is inserted again by a request that read it before
  (`users.service.ts:187`, `colleges.service.ts:316`).
* Two packets that overlap at a fence both tell the crossing
  (`telemetry.service.ts:134`); `NotesTellTrack` is about packets that do not.

## 5. Proofs

Each proof module shows `Init => Inv`, one lemma per action for
`Inv /\ [Next]_vars => Inv'`, and the theorems from `Inv`.

| Theorem | Says | Inductive invariant |
|---|---|---|
| `TelemetryHandler_proofs!TypeCorrect` | `Spec => []TypeOK` | `TypeInv`: an invocation keeps its object alive, continuations stay within the rows that exist (`ContinuesWithin`), and rows only grow so that ids stay valid |
| `TelemetryHandler_proofs!TripsStayDisjoint`, `ImplementsTripLog` | every step is a step of `TripLog` or a stutter; trips never overlap while no packet is late | `TripInv`: the object in use names no trip or the newest, every other object none, and until a packet is late no trip ends after the latest packet |
| `TelemetryHandler_proofs!IdlingNamesItsRow` | for any invocations, store and faults | every object that is idle names a row, wherever an invocation is suspended |
| `TelemetryHandler_proofs!OverspeedIsTracked`, `IdlingIsTracked` | one packet at a time over Redis, late or not | `RedisInv`: the stored state, which no invocation works on, says overspeed or idling exactly when it names a row (of the idling period's start); each continuation keeps that (`RedisStep`), an update is awaited with the values of the packet in hand, and past it the row holds the packet (`Tracked`, `IdleTracked`) |
| `TelemetryHandler_proofs!PeaksAreKept` | no row's start changes, no top speed is lowered, with late packets and any faults | `GrowInv`: the row of an overspeed holds no higher maximum than the object, which is what the next update writes |
| `TelemetryHandler_proofs!PeriodsRecordedOnce`, `EventsBelongToTheirTrip`, `TripsSplitAtTimeout` | events are disjoint, start in their trip, and trips are split at the timeout | `EventInv`: every idling row ends by the start the object remembers for a period not yet recorded, a remembered start lies in the trip remembered with it, and the events named are the latest; `SplitInv`: while a close is pending its time is that of the first packet of the off period, and a trip is only given up when that is the timeout ago |
| `FirmwareQueue_proofs!TypeCorrect`, `SentStaysInOrder`, `NewestStaysRetained`, `ImplementsContract` | for any capacity; the last: every step is one of `StoreAndForward`, of none or one message | the queued numbers are consecutive up to the newest built, nothing sent exceeds the oldest queued, nothing below it is unsent except by eviction |
| `FirmwareTimers_proofs!SamplingStaysPunctual`, `RetryStaysBounded` | for any word, intervals and durations the assumptions allow | `PollInv`: the modular difference equals real time and is bounded by what the rest of the loop can block; `RetryInv`: the deadline is the failure plus the interval while nothing has wrapped |
| `DeviceAssignment_proofs!TypeCorrect` | unique uids, the foreign key and the status of assigned devices, for any number of overlapping requests | `TypeInv`: every row a request carries to a save is well-formed, and no save removes a row |
| `DeviceAssignment_proofs!StatusStaysRight`, `ImplementsMatching`, `OneDeviceServesAVehicle`, `TablesTellOneStory` | the assignment is a matching, the status and the other table tell it | `AllLoaded`: what the request has read is still in the table, and the devices it has yet to release are all that its vehicle has |
| `Telemetry_proofs!CrossingsAreBacked`, `FencesAreRecent`, `AddressesNear`, `WaitersAreServed`, `TypeCorrect` | for any number of packets, places, fences and waiters | `Backed`: the entry of a fence that is to be left, or saved, has been told, also while packets overlap; what was read is never older than the age of its entry, or of the query that will become it; `AddressOf`: the last known address is that of its own place; `LoopRuns`, `Held`: a loop runs while the flag is set, without it the queue is empty, and every key in flight is queued or in the hands of a loop |
| `Telemetry_proofs!NotesTellTheTrack` | notifications are the crossings of the track, for packets in order without failure | `TellInv`: rows are numbered as saved and their times grow with the numbers; one packet is in hand, later than all rows, and compared with the latest; the notifications are those of the rows, then those the packet in hand has told (`Behind`) |
| `Telemetry_proofs!StopsCoverTheOffTime`, `ListedStopsStay` | for any rows in any order of arrival | `StopsInv`: rows have distinct numbers and are not from the future; the theorems are about the query: a stop starts after all earlier rows that are on, and between two starts there is a row that is on |
| `CollegeLifecycle_proofs!TypeCorrect`, `NothingOrphaned` | for any number of overlapping requests, colleges and users | a college with a deletion and another request under way is in `clashed` (`Apart`); for one that is not, what a request has read is still in the tables when it writes (`Ready`), and a step for one college leaves the others alone (`Untouched`) |
| `NotificationFeed_proofs!ListStaysInScope`, `ListCatchesUp` | for any page size, users, colleges, notifications and overlapping requests | `CallInv`: an answer holds only what its view may see, and of two answers for one view the one with the later number holds what the other does, as far as it is still on the page; `CatchUpInv`: unless something was missed, no answer that can still be taken drops what the store lists and the page has (`Grows`), what the store lacks of the page will be brought by a request or announced by an event (`Coming`), and nothing listed has a page of newer ones before it (`Short`), so that in the end list and page are the same. What is on the page of a view stays until newer ones push it off, and never comes back |
| `CollegeLifecycle_proofs!OneAdminAfterUpdate` | for an update that nothing disturbs | the admins the one request under way has found are still those of its college (`Chosen`) |
| `IntervalControl_proofs!TypeCorrect`, `RecordStaysApplied` | the row holds only what the device has acknowledged, for any number of requests and faults | `KnownInv`: row, ACKs under way, stored ACK and the ACK a request saves are all among `applied` and the default |
| `IntervalControl_proofs!RecordStaysTrue` | the row is what the device does, for requests that wait for the one before | `AgreeInv`: commands and ACKs under way are about the row's intervals, then about those asked for; an ACK of the latter, under way or stored, means that the device has taken them and no older command is left |

Hypotheses. Of `TelemetryHandler_proofs`, `TypeCorrect` and `IdlingNamesItsRow`
assume nothing; `OverspeedIsTracked` and `IdlingIsTracked` a single slot (`Alone`)
and the Redis store, the others a single slot and the memory store (`OneAtATime`). The single slot is needed because two invocations may both start a
trip, or an event (section 4). The memory store is needed because in Redis mode a
persist that fails leaves a state that names an older trip, and the next packet
extends it across its successor; the Redis store because of **overspeed lost**.
The last four theorems of `DeviceAssignment_proofs` assume that at most one request
is in progress (`OneAtATime`, of that module): two assignments of two devices to
one vehicle that overlap can each save their own. `RecordStaysTrue` assumes that a
request is made when the one before has been answered (`[]OneAtATime`, a property
of the behaviour): the ACK of one of two requests can end the other. All other
theorems assume only the `ASSUME`s of their modules.

`OneAdminAfterUpdate` and `NothingOrphaned` carry their hypotheses, `calm` and
`clashed`, in the property, `NotesTellTheTrack` and `ListCatchesUp` theirs
(`disturbed`, `missed`), and the three about events and the split of trips theirs
(`Faultless`: no failure, no loss, no late packet). All numbers of `Geocoder` and `GeofenceTracking` are parameters of the
proofs, which use of distances only that they are natural numbers, symmetric, and
zero from a place to itself.

`NotesTellTrack` compares the notifications with a concatenation (`FlattenSeq`). The
proof carries the sums of the rows in the invariant (`Spells`) and shows at the
end that they are what `FlattenSeq` computes, because a least place where two sums
differ cannot exist (`FlattenIs`); no induction scheme is needed.

Only model-checked: `DrainsWhenLinkStays` and `RequestAnswered` (liveness under
fairness is out of the prover's reach), and with them that the fairness stated is
enough. Every invariant and action property of the passing runs is a theorem.

## 6. Limits of the models

One vehicle and one device: the code shares nothing between vehicles that these
properties read. The `updateTelemetryInterval` of `devices.service.ts:157` has no
caller and is no action. A publish without a broker connection answers 503 at
once and changes nothing. `IntervalControl` has no other
writer of the device row, `GeofenceTracking` no contents of the vehicle row (section
2). The startup SMS is a blocking operation; its own
retry deadline has the same form as the reconnect deadline. JSON, AT command and
GPS parsing are outside the models except for what they decide.

`GeofenceTracking`: one vehicle of one college; the backend does not restart (its
caches would be empty, its packets gone). The distance of positions on a line
replaces that on the globe. `CollegeLifecycle`: whoever is disabled or has a wrong
password makes no request; `profile.updateProfile` with a name always ends in a
refusal, because `users.update` refuses to manage oneself. `NotificationFeed`: the
paged list and the search of `NotificationsPage`, the filters of `findAll`, the
restored session after a reload and the logout after a 401 (`apiClient.ts:66`) are left out.

Not modelled. Vehicle status is a function of one row and the clock. Routes are
rows of one table whose status nothing else reads. TCP and UDP ingestion cut a
stream into lines and parse JSON without an await in between; what follows is the
modelled handler. The gateway broadcasts and keeps no state, history only reads.
The pages and components of the frontend, most of its code, render what stores and
services hold. The simulator stands for a device. The Temporal worker is a sample;
migrations and configuration run before the system does.

## 7. Plan

1. `DeviceAssignment`, the rest: the reads and writes inside a transaction as steps
   of their own, for requests that overlap; the status of a route
   (`vehicles.service.ts:259-282`, `routes.service.ts:63-103`).
2. The framing of TCP ingestion, as a pure function of the chunks of a stream.
3. Composition of `FirmwareQueue` with `TelemetryHandler`: what repeated and
   evicted messages do to trips.
4. `IntervalControl` with the other writers of the device row, and
   `GeofenceTracking` with those of the vehicle row: what an overwritten interval or
   fence leaves true.
5. Proofs: which theorems about trips and events survive a second invocation that
   only updates rows (a hypothesis weaker than one slot); what is left of
   `EventsStartInTrip` and `EventsDisjoint` after a late packet; the step facts under
   the two liveness properties (what each fair action brings nearer), which leave to
   TLC only that they add up.
