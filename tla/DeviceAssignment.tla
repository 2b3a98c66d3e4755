-------------------------- MODULE DeviceAssignment --------------------------
(***************************************************************************)
(* Which device serves which vehicle.  The assignment is stored twice: a   *)
(* row of devices names its vehicle (assignedVehicleId), a row of vehicles *)
(* names its device (deviceId, a text without a foreign key).  Telemetry   *)
(* follows the first, the user interface shows the second.                 *)
(*                                                                         *)
(* Operators create, rename, assign, unassign and remove through           *)
(* DevicesService and VehiclesService; packets rewrite vehicle rows at the *)
(* same time.  Every awaited query is a step of its own.  A row is read    *)
(* whole and saved whole, and the repository inserts a saved row that has  *)
(* been removed in between.  The two transactions of DevicesService are    *)
(* one step each.                                                          *)
(*                                                                         *)
(* One college; names, IMEIs (a device is known by its identity), routes   *)
(* and motion columns are left out.                                        *)
(***************************************************************************)
EXTENDS Naturals, FiniteSets

CONSTANTS
  Devices,      \* identities of rows of devices
  Vehicles,     \* identities of rows of vehicles
  Uids,         \* values of the column deviceId of both tables
  None,         \* NULL
  Operators,    \* requests that may be in progress at once
  Packets,      \* telemetry packets that may be in progress at once
  MaxRequests,  \* bound: requests that change or remove rows
  MaxFaults     \* bound: calls that fail

ASSUME NoneIsNoValue == None \notin Devices \cup Vehicles \cup Uids
ASSUME BoundsAreNumbers == MaxRequests \in Nat /\ MaxFaults \in Nat

VARIABLES
  devices,   \* table devices
  vehicles,  \* table vehicles
  op,        \* what every request is doing
  pkt,       \* what every packet is doing
  requests,  \* requests so far
  faults,    \* failed calls so far
  calm       \* history: no request has ended halfway, and no packet has
             \* undone what a request did

tables == <<devices, vehicles>>
vars == <<tables, op, pkt, requests, faults, calm>>

----------------------------------------------------------------------------
(* Rows and requests. *)

RowStates == {"new", "row", "gone"}
DeviceRow == [state : RowStates, uid : Uids \cup {None},
              vehicle : Vehicles \cup {None}, assigned : BOOLEAN]
VehicleRow == [state : RowStates, device : Uids \cup {None}]

NoDevice(st) == [state |-> st, uid |-> None, vehicle |-> None, assigned |-> FALSE]
NoVehicle(st) == [state |-> st, device |-> None]

HasDevice(d) == devices[d].state = "row"
HasVehicle(v) == vehicles[v].state = "row"

(* The rows of a device and of a vehicle as they are saved. *)
Assigned(uid, v) ==
  [state |-> "row", uid |-> uid, vehicle |-> v, assigned |-> TRUE]
Unassigned(uid) ==
  [state |-> "row", uid |-> uid, vehicle |-> None, assigned |-> FALSE]
Naming(uid) == [state |-> "row", device |-> uid]

(* What the database accepts: the unique index and the foreign key. *)
UidFree(d, uid) ==
  \A e \in Devices \ {d} : HasDevice(e) => devices[e].uid # uid

(* Mutant: the column deviceId of devices without its unique index. *)
StorableWithoutIndex(d, r) == r.vehicle # None => HasVehicle(r.vehicle)

Storable(d, r) == UidFree(d, r.uid) /\ (r.vehicle # None => HasVehicle(r.vehicle))

(* A request: where it is, the device and vehicle it works on, the uid it  *)
(* was given, the rows it has read, the devices it has yet to release.     *)
PCs == {"idle", "rename", "removeDevice", "release", "findNamed", "unname",
        "saveVehicle", "list", "clear", "removeVehicle",
        "findDevice", "findVehicle", "commit"}

Request == [pc : PCs, d : Devices \cup {None}, v : Vehicles \cup {None},
            uid : Uids \cup {None}, dev : DeviceRow, veh : VehicleRow,
            todo : SUBSET (Devices \X Uids), removing : BOOLEAN]

Packet == [pc : {"idle", "read", "save"}, v : Vehicles \cup {None},
           veh : VehicleRow]

Idle == [pc |-> "idle", d |-> None, v |-> None, uid |-> None,
         dev |-> NoDevice("new"), veh |-> NoVehicle("new"), todo |-> {},
         removing |-> FALSE]
NoPacket == [pc |-> "idle", v |-> None, veh |-> NoVehicle("new")]

Busy(s) == op[s].pc # "idle"
Ends(s) == op' = [op EXCEPT ![s] = Idle]

(* A request that changes rows arrives, and makes its first query. *)
Asked(s, r) ==
  /\ ~Busy(s)
  /\ requests < MaxRequests
  /\ requests' = requests + 1
  /\ op' = [op EXCEPT ![s] = r]
  /\ UNCHANGED <<tables, pkt, faults, calm>>

----------------------------------------------------------------------------
(* Devices. *)

(* create: the look-ups of uid and IMEI and the unique index agree. *)
CreateDevice(d, uid) ==
  /\ devices[d].state = "new"
  /\ UidFree(d, uid)
  /\ devices' = [devices EXCEPT ![d] = Unassigned(uid)]
  /\ UNCHANGED <<vehicles, op, pkt, requests, faults, calm>>

(* update, with another uid or the one it has; the saves of intervals read *)
(* and save the row like an update that keeps the uid.                     *)
Rename(s, d, uid) ==
  /\ HasDevice(d) /\ UidFree(d, uid)
  /\ Asked(s, [Idle EXCEPT !.pc = "rename", !.d = d, !.dev = devices[d],
                           !.uid = uid])

(* Mutant: the vehicle goes on naming the old uid. *)
RenameDeviceOnly(s) ==
  LET r == [op[s].dev EXCEPT !.uid = op[s].uid]
  IN /\ op[s].pc = "rename"
     /\ Storable(op[s].d, r)
     /\ devices' = [devices EXCEPT ![op[s].d] = r]
     /\ Ends(s)
     /\ UNCHANGED <<vehicles, pkt, requests, faults, calm>>

RenameCommits(s) ==
  LET r == [op[s].dev EXCEPT !.uid = op[s].uid]
  IN /\ op[s].pc = "rename"
     /\ Storable(op[s].d, r)
     /\ devices' = [devices EXCEPT ![op[s].d] = r]
     /\ vehicles' = [v \in Vehicles |->
                       IF v = r.vehicle /\ HasVehicle(v) /\ r.uid # op[s].dev.uid
                       THEN Naming(r.uid) ELSE vehicles[v]]
     /\ Ends(s)
     /\ UNCHANGED <<pkt, requests, faults, calm>>

RemoveDevice(s, d) ==
  /\ HasDevice(d) /\ ~devices[d].assigned
  /\ Asked(s, [Idle EXCEPT !.pc = "removeDevice", !.d = d])

DeleteDevice(s) ==
  /\ op[s].pc = "removeDevice"
  /\ devices' = [devices EXCEPT ![op[s].d] = NoDevice("gone")]
  /\ Ends(s)
  /\ UNCHANGED <<vehicles, pkt, requests, faults, calm>>

----------------------------------------------------------------------------
(* unassign: the device is saved, then the vehicle is found and saved. *)

Unassign(s, d) ==
  /\ HasDevice(d)
  /\ Asked(s, [Idle EXCEPT !.pc = "release", !.d = d, !.dev = devices[d]])

ReleaseDevice(s) ==
  LET o == op[s]
  IN /\ o.pc = "release"
     /\ Storable(o.d, Unassigned(o.dev.uid))
     /\ devices' = [devices EXCEPT ![o.d] = Unassigned(o.dev.uid)]
     /\ IF o.dev.vehicle = None
        THEN Ends(s)
        ELSE op' = [op EXCEPT ![s] = [o EXCEPT !.pc = "findNamed",
                                                !.v = o.dev.vehicle]]
     /\ UNCHANGED <<vehicles, pkt, requests, faults, calm>>

FindNamed(s) ==
  LET v == op[s].v
  IN /\ op[s].pc = "findNamed"
     /\ IF HasVehicle(v) /\ vehicles[v].device = op[s].dev.uid
        THEN op' = [op EXCEPT ![s] = [@ EXCEPT !.pc = "unname"]]
        ELSE Ends(s)
     /\ UNCHANGED <<tables, pkt, requests, faults, calm>>

Unname(s) ==
  /\ op[s].pc = "unname"
  /\ vehicles' = [vehicles EXCEPT ![op[s].v] = Naming(None)]
  /\ Ends(s)
  /\ UNCHANGED <<devices, pkt, requests, faults, calm>>

----------------------------------------------------------------------------
(* Vehicles. *)

(* create: with a device, which is then assigned. *)
CreateVehicle(s, v, uid) ==
  /\ ~Busy(s)
  /\ vehicles[v].state = "new"
  /\ vehicles' = [vehicles EXCEPT ![v] = Naming(uid)]
  /\ op' = IF uid = None THEN op
           ELSE [op EXCEPT ![s] = [Idle EXCEPT !.pc = "findDevice", !.v = v,
                                               !.uid = uid]]
  /\ UNCHANGED <<devices, pkt, requests, faults, calm>>

(* update, when the payload has a deviceId. *)
UpdateVehicle(s, v, uid) ==
  /\ HasVehicle(v)
  /\ Asked(s, [Idle EXCEPT !.pc = "saveVehicle", !.v = v, !.uid = uid,
                           !.veh = vehicles[v]])

SaveVehicle(s) ==
  LET o == op[s]
  IN /\ o.pc = "saveVehicle"
     /\ vehicles' = [vehicles EXCEPT ![o.v] = Naming(o.uid)]
     /\ op' = [op EXCEPT ![s] =
                  [o EXCEPT !.pc = IF o.uid = None \/ o.veh.device # o.uid
                                   THEN "list" ELSE "findDevice"]]
     /\ UNCHANGED <<devices, pkt, requests, faults, calm>>

(* Mutant: the vehicle is removed with its devices still on it. *)
RemoveVehicleAtOnce(s, v) ==
  /\ HasVehicle(v)
  /\ Asked(s, [Idle EXCEPT !.pc = "removeVehicle", !.v = v, !.removing = TRUE])

(* remove: its devices are released first. *)
RemoveVehicle(s, v) ==
  /\ HasVehicle(v)
  /\ Asked(s, [Idle EXCEPT !.pc = "list", !.v = v, !.removing = TRUE])

(* unassignByVehicleId: the devices are found, then saved one by one. *)
AfterList(o, todo) ==
  IF todo # {} THEN [o EXCEPT !.pc = "clear", !.todo = todo]
  ELSE IF o.removing THEN [o EXCEPT !.pc = "removeVehicle", !.todo = {}]
  ELSE IF o.uid # None THEN [o EXCEPT !.pc = "findDevice", !.todo = {}]
  ELSE Idle

Continues(s, todo) == op' = [op EXCEPT ![s] = AfterList(op[s], todo)]

List(s) ==
  /\ op[s].pc = "list"
  /\ Continues(s, {<<d, devices[d].uid>> :
                     d \in {e \in Devices : /\ HasDevice(e)
                                            /\ devices[e].vehicle = op[s].v
                                            /\ devices[e].uid # op[s].uid}})
  /\ UNCHANGED <<tables, pkt, requests, faults, calm>>

ClearOne(s, x) ==
  /\ op[s].pc = "clear" /\ x \in op[s].todo
  /\ Storable(x[1], Unassigned(x[2]))
  /\ devices' = [devices EXCEPT ![x[1]] = Unassigned(x[2])]
  /\ Continues(s, op[s].todo \ {x})
  /\ UNCHANGED <<vehicles, pkt, requests, faults, calm>>

(* The foreign key of devices is set to NULL, the status is not touched. *)
DeleteVehicle(s) ==
  /\ op[s].pc = "removeVehicle"
  /\ vehicles' = [vehicles EXCEPT ![op[s].v] = NoVehicle("gone")]
  /\ devices' = [d \in Devices |-> IF devices[d].vehicle = op[s].v
                                   THEN [devices[d] EXCEPT !.vehicle = None]
                                   ELSE devices[d]]
  /\ Ends(s)
  /\ UNCHANGED <<pkt, requests, faults, calm>>

----------------------------------------------------------------------------
(* assign: device and vehicle are found, then a transaction. *)

Assign(s, d, v) ==
  /\ HasDevice(d)
  /\ Asked(s, [Idle EXCEPT !.pc = "findVehicle", !.d = d, !.v = v,
                           !.dev = devices[d]])

(* The device that a created or updated vehicle already names. *)
FindDevice(s) ==
  /\ op[s].pc = "findDevice"
  /\ \E d \in Devices :
       /\ HasDevice(d) /\ devices[d].uid = op[s].uid
       /\ op' = [op EXCEPT ![s] = [@ EXCEPT !.pc = "findVehicle", !.d = d,
                                            !.dev = devices[d]]]
  /\ UNCHANGED <<tables, pkt, requests, faults, calm>>

NoSuchDevice(s) ==
  /\ op[s].pc = "findDevice"
  /\ \A d \in Devices : ~(HasDevice(d) /\ devices[d].uid = op[s].uid)
  /\ Ends(s)
  /\ calm' = FALSE
  /\ UNCHANGED <<tables, pkt, requests, faults>>

FindVehicle(s) ==
  /\ op[s].pc = "findVehicle"
  /\ IF HasVehicle(op[s].v)
     THEN op' = [op EXCEPT ![s] = [@ EXCEPT !.pc = "commit"]]
     ELSE Ends(s)
  /\ UNCHANGED <<tables, pkt, requests, faults, calm>>

(* Mutant: the vehicle keeps the device it had. *)
AssignKeepsOthers(o) == [devices EXCEPT ![o.d] = Assigned(o.dev.uid, o.v)]

(* The devices after the transaction: others of the vehicle are released. *)
DevicesAfterAssign(o) ==
  [e \in Devices |->
     IF e = o.d THEN Assigned(o.dev.uid, o.v)
     ELSE IF devices[e].vehicle = o.v THEN Unassigned(devices[e].uid)
     ELSE devices[e]]

(* The vehicles: the one the device served stops naming it. *)
VehiclesAfterAssign(o) ==
  [w \in Vehicles |->
     IF w = o.v THEN Naming(o.dev.uid)
     ELSE IF w = o.dev.vehicle /\ HasVehicle(w) /\ vehicles[w].device = o.dev.uid
     THEN Naming(None)
     ELSE vehicles[w]]

AssignCommits(s) ==
  /\ op[s].pc = "commit"
  /\ Storable(op[s].d, Assigned(op[s].dev.uid, op[s].v))
  /\ devices' = DevicesAfterAssign(op[s])
  /\ vehicles' = VehiclesAfterAssign(op[s])
  /\ Ends(s)
  /\ UNCHANGED <<pkt, requests, faults, calm>>

----------------------------------------------------------------------------
(* What may go wrong, and packets. *)

(* The rows of devices a request may save next. *)
Saves(o) ==
  CASE o.pc = "rename"  -> {<<o.d, [o.dev EXCEPT !.uid = o.uid]>>}
    [] o.pc = "release" -> {<<o.d, Unassigned(o.dev.uid)>>}
    [] o.pc = "clear"   -> {<<x[1], Unassigned(x[2])>> : x \in o.todo}
    [] o.pc = "commit"  -> {<<o.d, Assigned(o.dev.uid, o.v)>>}
    [] OTHER            -> {}

(* The database refuses one of them. *)
Refused(s) ==
  /\ \E x \in Saves(op[s]) : ~Storable(x[1], x[2])
  /\ Ends(s)
  /\ calm' = FALSE
  /\ UNCHANGED <<tables, pkt, requests, faults>>

(* A query fails, or the backend stops: the request ends where it is. *)
Fails(s) ==
  /\ Busy(s)
  /\ faults < MaxFaults
  /\ faults' = faults + 1
  /\ Ends(s)
  /\ calm' = FALSE
  /\ UNCHANGED <<tables, pkt, requests>>

(* A packet of a device that is assigned: its vehicle is read.  A packet   *)
(* does this twice, in processTelemetry and in updateFromTelemetry.        *)
Receive(k, d) ==
  /\ pkt[k].pc = "idle"
  /\ HasDevice(d) /\ devices[d].vehicle # None
  /\ pkt' = [pkt EXCEPT ![k] = [NoPacket EXCEPT !.pc = "read",
                                                !.v = devices[d].vehicle]]
  /\ UNCHANGED <<tables, op, requests, faults, calm>>

ReadVehicle(k) ==
  /\ pkt[k].pc = "read"
  /\ pkt' = [pkt EXCEPT ![k] = IF HasVehicle(pkt[k].v)
                               THEN [@ EXCEPT !.pc = "save",
                                              !.veh = vehicles[pkt[k].v]]
                               ELSE NoPacket]
  /\ UNCHANGED <<tables, op, requests, faults, calm>>

(* The vehicle is saved with the columns it had: an edit in between is     *)
(* undone, a vehicle removed in between is back.                           *)
UpdateFromTelemetry(k) ==
  LET v == pkt[k].v
  IN /\ pkt[k].pc = "save"
     /\ vehicles' = [vehicles EXCEPT ![v] = pkt[k].veh]
     /\ calm' = (calm /\ vehicles[v] = pkt[k].veh)
     /\ pkt' = [pkt EXCEPT ![k] = NoPacket]
     /\ UNCHANGED <<devices, op, requests, faults>>

----------------------------------------------------------------------------

Init ==
  /\ devices = [d \in Devices |-> NoDevice("new")]
  /\ vehicles = [v \in Vehicles |-> NoVehicle("new")]
  /\ op = [s \in Operators |-> Idle]
  /\ pkt = [k \in Packets |-> NoPacket]
  /\ requests = 0 /\ faults = 0 /\ calm = TRUE

DeviceStep(s) ==
  \/ \E d \in Devices, uid \in Uids : Rename(s, d, uid)
  \/ \E d \in Devices : RemoveDevice(s, d) \/ Unassign(s, d)
  \/ RenameCommits(s) \/ DeleteDevice(s)
  \/ ReleaseDevice(s) \/ FindNamed(s) \/ Unname(s)

VehicleStep(s) ==
  \/ \E v \in Vehicles, uid \in Uids \cup {None} :
       CreateVehicle(s, v, uid) \/ UpdateVehicle(s, v, uid)
  \/ \E v \in Vehicles : RemoveVehicle(s, v)
  \/ SaveVehicle(s) \/ List(s) \/ DeleteVehicle(s)
  \/ \E x \in Devices \X Uids : ClearOne(s, x)

AssignStep(s) ==
  \/ \E d \in Devices, v \in Vehicles : Assign(s, d, v)
  \/ FindDevice(s) \/ NoSuchDevice(s) \/ FindVehicle(s) \/ AssignCommits(s)

PacketStep(k) ==
  (\E d \in Devices : Receive(k, d)) \/ ReadVehicle(k) \/ UpdateFromTelemetry(k)

(* Nothing more to do within the bounds. *)
AtBound ==
  /\ requests = MaxRequests
  /\ \A s \in Operators : ~Busy(s)
  /\ UNCHANGED vars

Next ==
  \/ \E d \in Devices, uid \in Uids : CreateDevice(d, uid)
  \/ \E s \in Operators : DeviceStep(s) \/ VehicleStep(s) \/ AssignStep(s)
                          \/ Refused(s) \/ Fails(s)
  \/ \E k \in Packets : PacketStep(k)
  \/ AtBound

Spec == Init /\ [][Next]_vars

----------------------------------------------------------------------------
(* Properties. *)

(* Parts of TypeOK. *)
UniqueUids ==
  \A d, e \in Devices :
    d # e /\ HasDevice(d) /\ HasDevice(e) => devices[d].uid # devices[e].uid

ForeignKey ==
  \A d \in Devices :
    devices[d].vehicle # None =>
      HasDevice(d) /\ HasVehicle(devices[d].vehicle) /\ devices[d].assigned

(* Types, the unique index, the foreign key, and that a device with a      *)
(* vehicle has the status "assigned", whatever requests overlap.           *)
TypeOK ==
  /\ devices \in [Devices -> DeviceRow]
  /\ vehicles \in [Vehicles -> VehicleRow]
  /\ op \in [Operators -> Request]
  /\ pkt \in [Packets -> Packet]
  /\ requests \in 0 .. MaxRequests /\ faults \in 0 .. MaxFaults
  /\ calm \in BOOLEAN
  /\ UniqueUids /\ ForeignKey

(* Requests handled one at a time implement a matching, although a request *)
(* saves several rows, may end between any two of them, and packets save   *)
(* old vehicle rows in between: no vehicle gets a second device, not even  *)
(* between two steps of a request that changes it (the device it had is    *)
(* released by then, so that it may have none on the way).                 *)
Pairing == INSTANCE Matching WITH serves <- [d \in Devices |-> devices[d].vehicle]
MatchingSpec == Pairing!Spec

(* The status tells whether a device may be removed: "assigned" exactly if *)
(* it has a vehicle.  Removing the vehicle releases its devices first, so  *)
(* that the foreign key never leaves one that can no longer be removed.    *)
StatusAgrees ==
  \A d \in Devices : devices[d].assigned <=> devices[d].vehicle # None

(* Both tables tell the same story between requests, unless one has ended  *)
(* halfway or a packet has undone it: renamed devices, moved devices and   *)
(* removed vehicles included, every vehicle names the device it has.       *)
TablesAgree ==
  calm /\ (\A s \in Operators : ~Busy(s)) =>
    /\ \A d \in Devices, v \in Vehicles :
         HasDevice(d) /\ HasVehicle(v) =>
           (devices[d].vehicle = v <=> vehicles[v].device = devices[d].uid)
    /\ \A v \in Vehicles :
         vehicles[v].device # None =>
           \E d \in Devices : HasDevice(d) /\ devices[d].uid = vehicles[v].device
=============================================================================
