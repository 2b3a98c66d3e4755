----------------------- MODULE DeviceAssignment_proofs -----------------------
(***************************************************************************)
(* Proofs about DeviceAssignment.  TypeOK holds for any number of requests *)
(* and packets that overlap: whatever a request has read, it saves device  *)
(* rows that the database accepts (RowSaved).  The rest is about requests  *)
(* handled one at a time (OneAtATime): the row a request has read is still *)
(* the row it saves over (Loaded), which makes its steps those of a        *)
(* matching and keeps the status right; and what a request has yet to do   *)
(* says where the two tables differ until it is done (AgreeInv).           *)
(***************************************************************************)
EXTENDS DeviceAssignment, TLAPS

(* Rows of devices and of vehicles as they may stand in the tables. *)
Stored(r) ==
  /\ r.uid \in Uids
  /\ r.vehicle # None => r.assigned

RowsOK ==
  /\ devices \in [Devices -> DeviceRow]
  /\ vehicles \in [Vehicles -> VehicleRow]
  /\ \A d \in Devices : HasDevice(d) => devices[d].uid \in Uids
  /\ UniqueUids
  /\ ForeignKey

(* What a request carries when it has come to one of its queries. *)
WithDevice == {"rename", "removeDevice", "release", "findVehicle", "commit"}
WithRow == {"rename", "release", "findVehicle", "commit"}
WithVehicle == {"findNamed", "unname", "saveVehicle", "list", "clear",
                "removeVehicle", "findDevice", "findVehicle", "commit"}

Formed(o) ==
  /\ o \in Request
  /\ o.pc \in WithDevice => o.d \in Devices
  /\ o.pc \in WithVehicle => o.v \in Vehicles
  /\ o.pc \in WithRow => o.dev.state = "row" /\ Stored(o.dev)
  /\ o.pc = "rename" => o.uid \in Uids

FormedPacket(p) ==
  /\ p \in Packet
  /\ p.pc # "idle" => p.v \in Vehicles
  /\ p.pc = "save" => p.veh.state = "row"

RequestsOK == op \in [Operators -> Request] /\ \A s \in Operators : Formed(op[s])
PacketsOK == pkt \in [Packets -> Packet] /\ \A k \in Packets : FormedPacket(pkt[k])
BoundsOK == /\ requests \in 0 .. MaxRequests /\ faults \in 0 .. MaxFaults
            /\ calm \in BOOLEAN

TypeInv == RowsOK /\ RequestsOK /\ PacketsOK /\ BoundsOK

----------------------------------------------------------------------------
(* Rows. *)

LEMMA RowsTyped ==
  /\ \A uid \in Uids : Unassigned(uid) \in DeviceRow
  /\ \A uid \in Uids, v \in Vehicles : Assigned(uid, v) \in DeviceRow
  /\ \A uid \in Uids \cup {None} : Naming(uid) \in VehicleRow
  /\ \A st \in RowStates : NoDevice(st) \in DeviceRow /\ NoVehicle(st) \in VehicleRow
BY DEF Unassigned, Assigned, Naming, NoDevice, NoVehicle, DeviceRow, VehicleRow, RowStates

(* Table devices after row d was saved as r, which the database accepts,   *)
(* and other rows kept their uid and at most lost their vehicle.           *)
LEMMA RowSaved ==
  ASSUME RowsOK, NEW d \in Devices, NEW r \in DeviceRow,
         r.state = "row", Stored(r), Storable(d, r),
         devices' \in [Devices -> DeviceRow], vehicles' \in [Vehicles -> VehicleRow],
         devices'[d] = r,
         \A e \in Devices \ {d} :
           /\ devices'[e].state = devices[e].state
           /\ devices'[e].uid = devices[e].uid
           /\ \/ devices'[e].vehicle = None
              \/ devices'[e] = devices[e],
         \A v \in Vehicles : HasVehicle(v) => HasVehicle(v)'
  PROVE  RowsOK'
<1>1. \A e \in Devices : HasDevice(e)' => devices'[e].uid \in Uids
  BY DEF RowsOK, HasDevice, Stored
<1>2. \A e \in Devices \ {d} : HasDevice(e) => devices[e].uid # r.uid
  BY DEF Storable, UidFree
<1>3. UniqueUids'
  <2> SUFFICES ASSUME NEW e \in Devices, NEW f \in Devices, e # f,
                      HasDevice(e)', HasDevice(f)'
               PROVE  devices'[e].uid # devices'[f].uid
    BY DEF UniqueUids
  <2>1. CASE e = d
    BY <1>2, <2>1 DEF HasDevice
  <2>2. CASE f = d
    BY <1>2, <2>2 DEF HasDevice
  <2>3. CASE e # d /\ f # d
    BY <2>3 DEF RowsOK, UniqueUids, HasDevice
  <2> QED
    BY <2>1, <2>2, <2>3
<1>4. ForeignKey'
  <2> SUFFICES ASSUME NEW e \in Devices, devices'[e].vehicle # None
               PROVE  /\ HasDevice(e)' /\ HasVehicle(devices[e].vehicle)'
                      /\ devices'[e].assigned
    BY DEF ForeignKey
  <2>1. CASE e = d
    <3>1. r.vehicle \in Vehicles /\ HasVehicle(r.vehicle) /\ r.assigned
      BY <2>1 DEF Storable, Stored, DeviceRow
    <3> QED
      BY <2>1, <3>1 DEF HasDevice, HasVehicle
  <2>2. CASE e # d
    <3>1. devices'[e] = devices[e]
      BY <2>2
    <3>2. HasDevice(e) /\ HasVehicle(devices[e].vehicle) /\ devices[e].assigned
      BY <3>1 DEF RowsOK, ForeignKey
    <3>3. devices[e].vehicle \in Vehicles
      BY <3>1 DEF RowsOK, DeviceRow
    <3> QED
      BY <3>1, <3>2, <3>3 DEF HasDevice, HasVehicle
  <2> QED
    BY <2>1, <2>2
<1> QED
  BY <1>1, <1>3, <1>4 DEF RowsOK

(* Only vehicle rows are written, and none is removed. *)
LEMMA VehiclesSaved ==
  ASSUME RowsOK, UNCHANGED devices, vehicles' \in [Vehicles -> VehicleRow],
         \A v \in Vehicles : HasVehicle(v) => HasVehicle(v)'
  PROVE  RowsOK'
<1>1. UniqueUids' /\ \A d \in Devices : HasDevice(d)' => devices'[d].uid \in Uids
  BY DEF RowsOK, UniqueUids, HasDevice
<1>2. \A d \in Devices : devices[d].vehicle \in Vehicles \cup {None}
  BY DEF RowsOK, DeviceRow
<1>3. ForeignKey'
  BY <1>2 DEF RowsOK, ForeignKey, HasDevice, HasVehicle
<1> QED
  BY <1>1, <1>3 DEF RowsOK

(* Devices are removed, or lose their vehicle; vehicles at most lose the   *)
(* row that no device points to any more.                                  *)
LEMMA RowsRemoved ==
  ASSUME RowsOK,
         devices' \in [Devices -> DeviceRow], vehicles' \in [Vehicles -> VehicleRow],
         \A e \in Devices :
           \/ devices'[e] = devices[e]
           \/ devices'[e].vehicle = None /\ devices'[e].state = "gone"
           \/ /\ devices'[e].vehicle = None
              /\ devices'[e].state = devices[e].state
              /\ devices'[e].uid = devices[e].uid,
         \A v \in Vehicles :
           \/ HasVehicle(v) => HasVehicle(v)'
           \/ \A e \in Devices : devices'[e].vehicle # v
  PROVE  RowsOK'
<1>1. \A e \in Devices : HasDevice(e)' => HasDevice(e) /\ devices'[e].uid = devices[e].uid
  BY DEF HasDevice
<1>2. UniqueUids' /\ \A d \in Devices : HasDevice(d)' => devices'[d].uid \in Uids
  BY <1>1 DEF RowsOK, UniqueUids
<1>3. ForeignKey'
  <2> SUFFICES ASSUME NEW e \in Devices, devices'[e].vehicle # None
               PROVE  /\ HasDevice(e)' /\ HasVehicle(devices[e].vehicle)'
                      /\ devices'[e].assigned
    BY DEF ForeignKey
  <2>1. devices'[e] = devices[e]
    OBVIOUS
  <2>2. devices[e].vehicle \in Vehicles
    BY <2>1 DEF RowsOK, DeviceRow
  <2>3. HasDevice(e) /\ HasVehicle(devices[e].vehicle) /\ devices[e].assigned
    BY <2>1 DEF RowsOK, ForeignKey
  <2> QED
    BY <2>1, <2>2, <2>3 DEF HasDevice, HasVehicle
<1> QED
  BY <1>2, <1>3 DEF RowsOK

----------------------------------------------------------------------------
(* Requests and packets. *)

LEMMA IdleFormed == Formed(Idle) /\ FormedPacket(NoPacket)
<1>1. Idle \in Request
  BY RowsTyped DEF Idle, Request, PCs, RowStates
<1>2. NoPacket \in Packet
  BY RowsTyped DEF NoPacket, Packet, RowStates
<1> QED
  BY <1>1, <1>2 DEF Formed, FormedPacket, Idle, NoPacket, WithDevice, WithRow, WithVehicle

LEMMA RequestGoesOn ==
  ASSUME RequestsOK, NEW s \in Operators, NEW o, Formed(o),
         op' = [op EXCEPT ![s] = o]
  PROVE  RequestsOK'
<1>1. o \in Request
  BY DEF Formed
<1>2. op' \in [Operators -> Request]
  BY <1>1 DEF RequestsOK
<1>3. \A t \in Operators : Formed(op'[t])
  BY DEF RequestsOK
<1> QED
  BY <1>2, <1>3 DEF RequestsOK

LEMMA RequestEnds ==
  ASSUME RequestsOK, NEW s \in Operators, Ends(s)
  PROVE  RequestsOK'
BY IdleFormed, RequestGoesOn DEF Ends

LEMMA RequestsStay == RequestsOK /\ UNCHANGED op => RequestsOK'
BY DEF RequestsOK

LEMMA PacketGoesOn ==
  ASSUME PacketsOK, NEW k \in Packets, NEW p, FormedPacket(p),
         pkt' = [pkt EXCEPT ![k] = p]
  PROVE  PacketsOK'
<1>1. p \in Packet
  BY DEF FormedPacket
<1>2. pkt' \in [Packets -> Packet]
  BY <1>1 DEF PacketsOK
<1>3. \A j \in Packets : FormedPacket(pkt'[j])
  BY DEF PacketsOK
<1> QED
  BY <1>2, <1>3 DEF PacketsOK

LEMMA PacketsStay == PacketsOK /\ UNCHANGED pkt => PacketsOK'
BY DEF PacketsOK

LEMMA RowsStay == RowsOK /\ UNCHANGED tables => RowsOK'
BY DEF RowsOK, tables, HasDevice, HasVehicle, UniqueUids, ForeignKey

LEMMA BoundsStay == BoundsOK /\ UNCHANGED <<requests, faults>> /\ calm' \in BOOLEAN => BoundsOK'
BY DEF BoundsOK

(* A request arrives and has made its first query. *)
LEMMA AskedTyped ==
  ASSUME TypeInv, NEW s \in Operators, NEW o, Formed(o), Asked(s, o)
  PROVE  TypeInv'
<1>1. RowsOK' /\ PacketsOK'
  BY RowsStay, PacketsStay DEF TypeInv, Asked
<1>2. RequestsOK'
  BY RequestGoesOn DEF TypeInv, Asked
<1>3. BoundsOK'
  BY BoundsAreNumbers DEF TypeInv, Asked, BoundsOK
<1> QED
  BY <1>1, <1>2, <1>3 DEF TypeInv

(* A row of devices that was read. *)
LEMMA RowRead ==
  ASSUME RowsOK, NEW d \in Devices, HasDevice(d)
  PROVE  /\ devices[d] \in DeviceRow
         /\ devices[d].state = "row"
         /\ Stored(devices[d])
BY DEF RowsOK, HasDevice, Stored, ForeignKey

----------------------------------------------------------------------------
(* Every action preserves TypeInv. *)

LEMMA CreateDeviceTyped ==
  ASSUME TypeInv, NEW d \in Devices, NEW uid \in Uids, CreateDevice(d, uid)
  PROVE  TypeInv'
<1>1. Unassigned(uid) \in DeviceRow /\ Unassigned(uid).state = "row"
      /\ Stored(Unassigned(uid)) /\ Storable(d, Unassigned(uid))
  BY RowsTyped DEF CreateDevice, Unassigned, Stored, Storable
<1>2. devices \in [Devices -> DeviceRow] /\ vehicles \in [Vehicles -> VehicleRow]
  BY DEF TypeInv, RowsOK
<1>3. devices' = [devices EXCEPT ![d] = Unassigned(uid)] /\ vehicles' = vehicles
  BY DEF CreateDevice
<1>4. \A v \in Vehicles : HasVehicle(v) => HasVehicle(v)'
  BY <1>3 DEF HasVehicle
<1>5. RowsOK'
  BY <1>1, <1>2, <1>3, <1>4, RowSaved DEF TypeInv
<1>6. RequestsOK' /\ PacketsOK' /\ BoundsOK'
  BY RequestsStay, PacketsStay, BoundsStay DEF TypeInv, CreateDevice, BoundsOK
<1> QED
  BY <1>5, <1>6 DEF TypeInv

LEMMA RenameTyped ==
  ASSUME TypeInv, NEW s \in Operators, NEW d \in Devices, NEW uid \in Uids,
         Rename(s, d, uid)
  PROVE  TypeInv'
<1> DEFINE o == [Idle EXCEPT !.pc = "rename", !.d = d, !.dev = devices[d], !.uid = uid]
<1>1. devices[d] \in DeviceRow /\ devices[d].state = "row" /\ Stored(devices[d])
  BY RowRead DEF TypeInv, Rename
<1>2. Idle \in Request
  BY IdleFormed DEF Formed
<1>3. o \in Request
  BY <1>1, <1>2 DEF Request, PCs
<1>4. o.pc = "rename" /\ o.d = d /\ o.uid = uid /\ o.dev = devices[d]
  BY DEF Idle
<1>5. Formed(o)
  BY <1>1, <1>3, <1>4 DEF Formed, WithDevice, WithRow, WithVehicle
<1> QED
  BY <1>5, AskedTyped DEF Rename

LEMMA RenameCommitsTyped ==
  ASSUME TypeInv, NEW s \in Operators, RenameCommits(s)
  PROVE  TypeInv'
<1> DEFINE d == op[s].d
           r == [op[s].dev EXCEPT !.uid = op[s].uid]
<1>1. /\ d \in Devices /\ op[s].uid \in Uids /\ op[s].dev \in DeviceRow
      /\ op[s].dev.state = "row" /\ Stored(op[s].dev)
  <2>1. Formed(op[s]) /\ op[s].pc = "rename"
    BY DEF TypeInv, RequestsOK, RenameCommits
  <2>2. op[s] \in Request
    BY <2>1 DEF Formed
  <2>3. op[s].dev \in DeviceRow
    BY <2>2 DEF Request
  <2> QED
    BY <2>1, <2>3 DEF Formed, WithDevice, WithRow
<1>2. /\ r \in DeviceRow /\ r.state = "row" /\ r.uid = op[s].uid
      /\ r.vehicle = op[s].dev.vehicle /\ r.assigned = op[s].dev.assigned
  BY <1>1 DEF DeviceRow
<1>3. Stored(r) /\ Storable(d, r)
  BY <1>1, <1>2 DEF Stored, RenameCommits
<1>4. devices \in [Devices -> DeviceRow] /\ vehicles \in [Vehicles -> VehicleRow]
  BY DEF TypeInv, RowsOK
<1>5. /\ devices' = [devices EXCEPT ![d] = r]
      /\ vehicles' = [v \in Vehicles |->
                        IF v = r.vehicle /\ HasVehicle(v) /\ r.uid # op[s].dev.uid
                        THEN Naming(r.uid) ELSE vehicles[v]]
  BY DEF RenameCommits
<1>6. Naming(r.uid) \in VehicleRow /\ Naming(r.uid).state = "row"
  BY <1>1, <1>2, RowsTyped DEF Naming
<1>7. vehicles' \in [Vehicles -> VehicleRow]
  BY <1>4, <1>5, <1>6
<1>8. \A v \in Vehicles : HasVehicle(v) => HasVehicle(v)'
  BY <1>5, <1>6 DEF HasVehicle
<1>9. RowsOK'
  BY <1>1, <1>2, <1>3, <1>4, <1>5, <1>7, <1>8, RowSaved DEF TypeInv
<1>10. RequestsOK' /\ PacketsOK' /\ BoundsOK'
  BY RequestEnds, PacketsStay, BoundsStay DEF TypeInv, RenameCommits, BoundsOK
<1> QED
  BY <1>9, <1>10 DEF TypeInv

LEMMA RemoveDeviceTyped ==
  ASSUME TypeInv, NEW s \in Operators, NEW d \in Devices, RemoveDevice(s, d)
  PROVE  TypeInv'
<1> DEFINE o == [Idle EXCEPT !.pc = "removeDevice", !.d = d]
<1>1. Idle \in Request
  BY IdleFormed DEF Formed
<1>2. o \in Request
  BY <1>1 DEF Request, PCs
<1>3. o.pc = "removeDevice" /\ o.d = d
  BY DEF Idle
<1>4. Formed(o)
  BY <1>2, <1>3 DEF Formed, WithDevice, WithRow, WithVehicle
<1> QED
  BY <1>4, AskedTyped DEF RemoveDevice

LEMMA DeleteDeviceTyped ==
  ASSUME TypeInv, NEW s \in Operators, DeleteDevice(s)
  PROVE  TypeInv'
<1> DEFINE d == op[s].d
<1>1. d \in Devices
  BY DEF TypeInv, RequestsOK, DeleteDevice, Formed, WithDevice
<1>2. /\ NoDevice("gone") \in DeviceRow
      /\ NoDevice("gone").vehicle = None /\ NoDevice("gone").state = "gone"
  BY RowsTyped DEF RowStates, NoDevice
<1>3. devices' = [devices EXCEPT ![d] = NoDevice("gone")] /\ vehicles' = vehicles
  BY DEF DeleteDevice
<1>4. devices \in [Devices -> DeviceRow] /\ vehicles \in [Vehicles -> VehicleRow]
  BY DEF TypeInv, RowsOK
<1>5. \A v \in Vehicles : HasVehicle(v) => HasVehicle(v)'
  BY <1>3 DEF HasVehicle
<1>6. RowsOK'
  BY <1>1, <1>2, <1>3, <1>4, <1>5, RowsRemoved DEF TypeInv
<1>7. RequestsOK' /\ PacketsOK' /\ BoundsOK'
  BY RequestEnds, PacketsStay, BoundsStay DEF TypeInv, DeleteDevice, BoundsOK
<1> QED
  BY <1>6, <1>7 DEF TypeInv

LEMMA UnassignTyped ==
  ASSUME TypeInv, NEW s \in Operators, NEW d \in Devices, Unassign(s, d)
  PROVE  TypeInv'
<1> DEFINE o == [Idle EXCEPT !.pc = "release", !.d = d, !.dev = devices[d]]
<1>1. devices[d] \in DeviceRow /\ devices[d].state = "row" /\ Stored(devices[d])
  BY RowRead DEF TypeInv, Unassign
<1>2. Idle \in Request
  BY IdleFormed DEF Formed
<1>3. o \in Request
  BY <1>1, <1>2 DEF Request, PCs
<1>4. o.pc = "release" /\ o.d = d /\ o.dev = devices[d]
  BY DEF Idle
<1>5. Formed(o)
  BY <1>1, <1>3, <1>4 DEF Formed, WithDevice, WithRow, WithVehicle
<1> QED
  BY <1>5, AskedTyped DEF Unassign

(* A device is released: its row is saved without a vehicle. *)
LEMMA ReleasedRows ==
  ASSUME RowsOK, NEW d \in Devices, NEW uid \in Uids, Storable(d, Unassigned(uid)),
         devices' = [devices EXCEPT ![d] = Unassigned(uid)], UNCHANGED vehicles
  PROVE  RowsOK'
<1>1. Unassigned(uid) \in DeviceRow /\ Unassigned(uid).state = "row"
      /\ Stored(Unassigned(uid))
  BY RowsTyped DEF Unassigned, Stored
<1>2. devices \in [Devices -> DeviceRow] /\ vehicles \in [Vehicles -> VehicleRow]
  BY DEF RowsOK
<1>3. \A v \in Vehicles : HasVehicle(v) => HasVehicle(v)'
  BY DEF HasVehicle
<1> QED
  BY <1>1, <1>2, <1>3, RowSaved

LEMMA ReleaseDeviceTyped ==
  ASSUME TypeInv, NEW s \in Operators, ReleaseDevice(s)
  PROVE  TypeInv'
<1> DEFINE o == op[s]
           n == [o EXCEPT !.pc = "findNamed", !.v = o.dev.vehicle]
<1>1. o \in Request /\ Formed(o) /\ o.pc = "release"
  BY DEF TypeInv, RequestsOK, ReleaseDevice, Formed
<1>2. o.d \in Devices /\ o.dev.uid \in Uids /\ o.dev \in DeviceRow
  BY <1>1 DEF Formed, WithDevice, WithRow, Stored, Request
<1>3. RowsOK'
  BY <1>2, ReleasedRows DEF TypeInv, ReleaseDevice
<1>4. RequestsOK'
  <2>1. CASE o.dev.vehicle = None
    BY <2>1, RequestEnds DEF TypeInv, ReleaseDevice
  <2>2. CASE o.dev.vehicle # None
    <3>1. o.dev.vehicle \in Vehicles
      BY <1>2, <2>2 DEF DeviceRow
    <3>2. n \in Request
      BY <1>1, <3>1 DEF Request, PCs
    <3>3. n.pc = "findNamed" /\ n.v \in Vehicles
      BY <1>1, <3>1 DEF Request
    <3>4. Formed(n)
      BY <3>2, <3>3 DEF Formed, WithDevice, WithRow, WithVehicle
    <3>5. op' = [op EXCEPT ![s] = n]
      BY <2>2 DEF ReleaseDevice
    <3> QED
      BY <3>4, <3>5, RequestGoesOn DEF TypeInv
  <2> QED
    BY <2>1, <2>2
<1>5. PacketsOK' /\ BoundsOK'
  BY PacketsStay, BoundsStay DEF TypeInv, ReleaseDevice, BoundsOK
<1> QED
  BY <1>3, <1>4, <1>5 DEF TypeInv

LEMMA FindNamedTyped ==
  ASSUME TypeInv, NEW s \in Operators, FindNamed(s)
  PROVE  TypeInv'
<1> DEFINE n == [op[s] EXCEPT !.pc = "unname"]
<1>1. op[s] \in Request /\ op[s].v \in Vehicles
  BY DEF TypeInv, RequestsOK, FindNamed, Formed, WithVehicle
<1>2. n \in Request
  BY <1>1 DEF Request, PCs
<1>3. n.pc = "unname" /\ n.v = op[s].v
  BY <1>1 DEF Request
<1>4. Formed(n)
  BY <1>1, <1>2, <1>3 DEF Formed, WithDevice, WithRow, WithVehicle
<1>5. op' = [op EXCEPT ![s] = n] \/ Ends(s)
  BY DEF FindNamed
<1>6. RequestsOK'
  BY <1>4, <1>5, RequestGoesOn, RequestEnds DEF TypeInv
<1>7. RowsOK' /\ PacketsOK' /\ BoundsOK'
  BY RowsStay, PacketsStay, BoundsStay DEF TypeInv, FindNamed, BoundsOK
<1> QED
  BY <1>6, <1>7 DEF TypeInv

(* The row of one vehicle is saved. *)
LEMMA VehicleSavedRows ==
  ASSUME RowsOK, NEW v \in Vehicles, NEW r \in VehicleRow, r.state = "row",
         vehicles' = [vehicles EXCEPT ![v] = r], UNCHANGED devices
  PROVE  RowsOK'
<1>1. vehicles' \in [Vehicles -> VehicleRow]
  BY DEF RowsOK
<1>2. \A w \in Vehicles : HasVehicle(w) => HasVehicle(w)'
  BY DEF HasVehicle, RowsOK
<1> QED
  BY <1>1, <1>2, VehiclesSaved

LEMMA UnnameTyped ==
  ASSUME TypeInv, NEW s \in Operators, Unname(s)
  PROVE  TypeInv'
<1>1. op[s].v \in Vehicles
  BY DEF TypeInv, RequestsOK, Unname, Formed, WithVehicle
<1>2. Naming(None) \in VehicleRow /\ Naming(None).state = "row"
  BY RowsTyped DEF Naming
<1>3. RowsOK'
  BY <1>1, <1>2, VehicleSavedRows DEF TypeInv, Unname
<1>4. RequestsOK' /\ PacketsOK' /\ BoundsOK'
  BY RequestEnds, PacketsStay, BoundsStay DEF TypeInv, Unname, BoundsOK
<1> QED
  BY <1>3, <1>4 DEF TypeInv

LEMMA CreateVehicleTyped ==
  ASSUME TypeInv, NEW s \in Operators, NEW v \in Vehicles, NEW uid \in Uids \cup {None},
         CreateVehicle(s, v, uid)
  PROVE  TypeInv'
<1> DEFINE o == [Idle EXCEPT !.pc = "findDevice", !.v = v, !.uid = uid]
<1>1. Naming(uid) \in VehicleRow /\ Naming(uid).state = "row"
  BY RowsTyped DEF Naming
<1>2. RowsOK'
  BY <1>1, VehicleSavedRows DEF TypeInv, CreateVehicle
<1>3. Idle \in Request
  BY IdleFormed DEF Formed
<1>4. o \in Request
  BY <1>3 DEF Request, PCs
<1>5. o.pc = "findDevice" /\ o.v = v
  BY DEF Idle
<1>6. Formed(o)
  BY <1>4, <1>5 DEF Formed, WithDevice, WithRow, WithVehicle
<1>7. op' = [op EXCEPT ![s] = o] \/ UNCHANGED op
  BY DEF CreateVehicle
<1>8. RequestsOK'
  BY <1>6, <1>7, RequestGoesOn, RequestsStay DEF TypeInv
<1>9. PacketsOK' /\ BoundsOK'
  BY PacketsStay, BoundsStay DEF TypeInv, CreateVehicle, BoundsOK
<1> QED
  BY <1>2, <1>8, <1>9 DEF TypeInv

LEMMA UpdateVehicleTyped ==
  ASSUME TypeInv, NEW s \in Operators, NEW v \in Vehicles, NEW uid \in Uids \cup {None},
         UpdateVehicle(s, v, uid)
  PROVE  TypeInv'
<1> DEFINE o == [Idle EXCEPT !.pc = "saveVehicle", !.v = v, !.uid = uid, !.veh = vehicles[v]]
<1>1. Idle \in Request /\ vehicles[v] \in VehicleRow
  BY IdleFormed DEF Formed, TypeInv, RowsOK
<1>2. o \in Request
  BY <1>1 DEF Request, PCs
<1>3. o.pc = "saveVehicle" /\ o.v = v
  BY DEF Idle
<1>4. Formed(o)
  BY <1>2, <1>3 DEF Formed, WithDevice, WithRow, WithVehicle
<1> QED
  BY <1>4, AskedTyped DEF UpdateVehicle

LEMMA SaveVehicleTyped ==
  ASSUME TypeInv, NEW s \in Operators, SaveVehicle(s)
  PROVE  TypeInv'
<1> DEFINE o == op[s]
           next == IF o.uid = None \/ o.veh.device # o.uid THEN "list" ELSE "findDevice"
           n == [o EXCEPT !.pc = next]
<1>1. o \in Request /\ o.v \in Vehicles /\ o.uid \in Uids \cup {None}
  BY DEF TypeInv, RequestsOK, SaveVehicle, Formed, WithVehicle, Request
<1>2. Naming(o.uid) \in VehicleRow /\ Naming(o.uid).state = "row"
  BY <1>1, RowsTyped DEF Naming
<1>3. RowsOK'
  BY <1>1, <1>2, VehicleSavedRows DEF TypeInv, SaveVehicle
<1>4. next \in {"list", "findDevice"}
  OBVIOUS
<1>5. op' = [op EXCEPT ![s] = n]
  BY DEF SaveVehicle
<1> HIDE DEF next
<1>6. n \in Request
  BY <1>1, <1>4 DEF Request, PCs
<1>7. n.pc = next /\ n.v = o.v
  BY <1>1 DEF Request
<1>8. Formed(n)
  BY <1>1, <1>4, <1>6, <1>7 DEF Formed, WithDevice, WithRow, WithVehicle
<1>9. RequestsOK'
  BY <1>5, <1>8, RequestGoesOn DEF TypeInv
<1>10. PacketsOK' /\ BoundsOK'
  BY PacketsStay, BoundsStay DEF TypeInv, SaveVehicle, BoundsOK
<1> QED
  BY <1>3, <1>9, <1>10 DEF TypeInv

LEMMA RemoveVehicleTyped ==
  ASSUME TypeInv, NEW s \in Operators, NEW v \in Vehicles, RemoveVehicle(s, v)
  PROVE  TypeInv'
<1> DEFINE o == [Idle EXCEPT !.pc = "list", !.v = v, !.removing = TRUE]
<1>1. Idle \in Request
  BY IdleFormed DEF Formed
<1>2. o \in Request
  BY <1>1 DEF Request, PCs
<1>3. o.pc = "list" /\ o.v = v
  BY DEF Idle
<1>4. Formed(o)
  BY <1>2, <1>3 DEF Formed, WithDevice, WithRow, WithVehicle
<1> QED
  BY <1>4, AskedTyped DEF RemoveVehicle

(* After the devices of a vehicle were found, and after each was released. *)
LEMMA AfterListFormed ==
  ASSUME NEW o, Formed(o), o.pc \in {"list", "clear"},
         NEW todo \in SUBSET (Devices \X Uids)
  PROVE  Formed(AfterList(o, todo))
<1> DEFINE n(p, t) == [o EXCEPT !.pc = p, !.todo = t]
<1>1. o \in Request /\ o.v \in Vehicles
  BY DEF Formed, WithVehicle
<1>2. ASSUME NEW p \in {"clear", "removeVehicle", "findDevice"},
             NEW t \in SUBSET (Devices \X Uids)
      PROVE  Formed(n(p, t))
  <2>1. n(p, t) \in Request
    BY <1>1 DEF Request, PCs
  <2>2. n(p, t).pc = p /\ n(p, t).v = o.v
    BY <1>1 DEF Request
  <2> QED
    BY <1>1, <2>1, <2>2 DEF Formed, WithDevice, WithRow, WithVehicle
<1>3. {} \in SUBSET (Devices \X Uids)
  OBVIOUS
<1>4. \/ AfterList(o, todo) = n("clear", todo)
      \/ AfterList(o, todo) = n("removeVehicle", {})
      \/ AfterList(o, todo) = n("findDevice", {})
      \/ AfterList(o, todo) = Idle
  BY DEF AfterList
<1> HIDE DEF n
<1> QED
  BY <1>2, <1>3, <1>4, IdleFormed

LEMMA ListTyped ==
  ASSUME TypeInv, NEW s \in Operators, List(s)
  PROVE  TypeInv'
<1> DEFINE S == {e \in Devices : /\ HasDevice(e)
                                 /\ devices[e].vehicle = op[s].v
                                 /\ devices[e].uid # op[s].uid}
           todo == {<<d, devices[d].uid>> : d \in S}
<1>1. \A d \in S : devices[d].uid \in Uids
  BY DEF TypeInv, RowsOK
<1>2. todo \in SUBSET (Devices \X Uids)
  BY <1>1
<1>3. Formed(op[s]) /\ op[s].pc = "list"
  BY DEF TypeInv, RequestsOK, List
<1>4. op' = [op EXCEPT ![s] = AfterList(op[s], todo)]
  BY DEF List, Continues
<1> HIDE DEF todo
<1>5. RequestsOK'
  BY <1>2, <1>3, <1>4, AfterListFormed, RequestGoesOn DEF TypeInv
<1>6. RowsOK' /\ PacketsOK' /\ BoundsOK'
  BY RowsStay, PacketsStay, BoundsStay DEF TypeInv, List, BoundsOK
<1> QED
  BY <1>5, <1>6 DEF TypeInv

LEMMA ClearOneTyped ==
  ASSUME TypeInv, NEW s \in Operators, NEW x \in Devices \X Uids, ClearOne(s, x)
  PROVE  TypeInv'
<1>1. Formed(op[s]) /\ op[s].pc = "clear"
  BY DEF TypeInv, RequestsOK, ClearOne
<1>2. op[s].todo \ {x} \in SUBSET (Devices \X Uids)
  BY <1>1 DEF Formed, Request
<1>3. x[1] \in Devices /\ x[2] \in Uids
  OBVIOUS
<1>4. RowsOK'
  BY <1>3, ReleasedRows DEF TypeInv, ClearOne
<1>5. RequestsOK'
  BY <1>1, <1>2, AfterListFormed, RequestGoesOn DEF TypeInv, ClearOne, Continues
<1>6. PacketsOK' /\ BoundsOK'
  BY PacketsStay, BoundsStay DEF TypeInv, ClearOne, BoundsOK
<1> QED
  BY <1>4, <1>5, <1>6 DEF TypeInv

LEMMA DeleteVehicleTyped ==
  ASSUME TypeInv, NEW s \in Operators, DeleteVehicle(s)
  PROVE  TypeInv'
<1> DEFINE v == op[s].v
           off(d) == [devices[d] EXCEPT !.vehicle = None]
<1>1. v \in Vehicles
  BY DEF TypeInv, RequestsOK, DeleteVehicle, Formed, WithVehicle
<1>2. devices \in [Devices -> DeviceRow] /\ vehicles \in [Vehicles -> VehicleRow]
  BY DEF TypeInv, RowsOK
<1>3. /\ vehicles' = [vehicles EXCEPT ![v] = NoVehicle("gone")]
      /\ devices' = [d \in Devices |-> IF devices[d].vehicle = v THEN off(d)
                                                                 ELSE devices[d]]
  BY DEF DeleteVehicle
<1>4. \A d \in Devices :
        /\ off(d) \in DeviceRow /\ off(d).vehicle = None
        /\ off(d).state = devices[d].state /\ off(d).uid = devices[d].uid
  BY <1>2 DEF DeviceRow
<1>5. NoVehicle("gone") \in VehicleRow
  BY RowsTyped DEF RowStates
<1>6. vehicles' \in [Vehicles -> VehicleRow]
  BY <1>2, <1>3, <1>5
<1> HIDE DEF off
<1>7. devices' \in [Devices -> DeviceRow]
  BY <1>2, <1>3, <1>4
<1>8. \A e \in Devices :
        \/ devices'[e] = devices[e]
        \/ /\ devices'[e].vehicle = None
           /\ devices'[e].state = devices[e].state
           /\ devices'[e].uid = devices[e].uid
  BY <1>3, <1>4
<1>9. \A e \in Devices : devices'[e].vehicle # v
  BY <1>1, <1>3, <1>4, NoneIsNoValue
<1>10. \A w \in Vehicles \ {v} : HasVehicle(w) => HasVehicle(w)'
  BY <1>2, <1>3 DEF HasVehicle
<1>11. RowsOK'
  BY <1>6, <1>7, <1>8, <1>9, <1>10, RowsRemoved DEF TypeInv
<1>12. RequestsOK' /\ PacketsOK' /\ BoundsOK'
  BY RequestEnds, PacketsStay, BoundsStay DEF TypeInv, DeleteVehicle, BoundsOK
<1> QED
  BY <1>11, <1>12 DEF TypeInv

LEMMA AssignTyped ==
  ASSUME TypeInv, NEW s \in Operators, NEW d \in Devices, NEW v \in Vehicles,
         Assign(s, d, v)
  PROVE  TypeInv'
<1> DEFINE o == [Idle EXCEPT !.pc = "findVehicle", !.d = d, !.v = v, !.dev = devices[d]]
<1>1. devices[d] \in DeviceRow /\ devices[d].state = "row" /\ Stored(devices[d])
  BY RowRead DEF TypeInv, Assign
<1>2. Idle \in Request
  BY IdleFormed DEF Formed
<1>3. o \in Request
  BY <1>1, <1>2 DEF Request, PCs
<1>4. o.pc = "findVehicle" /\ o.d = d /\ o.v = v /\ o.dev = devices[d]
  BY DEF Idle
<1>5. Formed(o)
  BY <1>1, <1>3, <1>4 DEF Formed, WithDevice, WithRow, WithVehicle
<1> QED
  BY <1>5, AskedTyped DEF Assign

LEMMA FindDeviceTyped ==
  ASSUME TypeInv, NEW s \in Operators, FindDevice(s)
  PROVE  TypeInv'
<1>1. op[s] \in Request /\ op[s].v \in Vehicles
  BY DEF TypeInv, RequestsOK, FindDevice, Formed, WithVehicle
<1>2. PICK d \in Devices :
        /\ HasDevice(d)
        /\ op' = [op EXCEPT ![s] = [op[s] EXCEPT !.pc = "findVehicle", !.d = d,
                                                 !.dev = devices[d]]]
  BY DEF FindDevice, TypeInv, RequestsOK
<1> DEFINE n == [op[s] EXCEPT !.pc = "findVehicle", !.d = d, !.dev = devices[d]]
<1>3. devices[d] \in DeviceRow /\ devices[d].state = "row" /\ Stored(devices[d])
  BY <1>2, RowRead DEF TypeInv
<1>4. n \in Request
  BY <1>1, <1>3 DEF Request, PCs
<1>5. n.pc = "findVehicle" /\ n.d = d /\ n.v = op[s].v /\ n.dev = devices[d]
  BY <1>1 DEF Request
<1>6. Formed(n)
  BY <1>1, <1>3, <1>4, <1>5 DEF Formed, WithDevice, WithRow, WithVehicle
<1>7. RequestsOK'
  BY <1>2, <1>6, RequestGoesOn DEF TypeInv
<1>8. RowsOK' /\ PacketsOK' /\ BoundsOK'
  BY RowsStay, PacketsStay, BoundsStay DEF TypeInv, FindDevice, BoundsOK
<1> QED
  BY <1>7, <1>8 DEF TypeInv

LEMMA FindVehicleTyped ==
  ASSUME TypeInv, NEW s \in Operators, FindVehicle(s)
  PROVE  TypeInv'
<1> DEFINE n == [op[s] EXCEPT !.pc = "commit"]
<1>1. Formed(op[s]) /\ op[s].pc = "findVehicle" /\ op[s] \in Request
  BY DEF TypeInv, RequestsOK, FindVehicle, Formed
<1>2. n \in Request
  BY <1>1 DEF Request, PCs
<1>3. n.pc = "commit" /\ n.v = op[s].v /\ n.d = op[s].d /\ n.dev = op[s].dev
  BY <1>1 DEF Request
<1>4. Formed(n)
  BY <1>1, <1>2, <1>3 DEF Formed, WithDevice, WithRow, WithVehicle
<1>5. op' = [op EXCEPT ![s] = n] \/ Ends(s)
  BY DEF FindVehicle
<1>6. RequestsOK'
  BY <1>4, <1>5, RequestGoesOn, RequestEnds DEF TypeInv
<1>7. RowsOK' /\ PacketsOK' /\ BoundsOK'
  BY RowsStay, PacketsStay, BoundsStay DEF TypeInv, FindVehicle, BoundsOK
<1> QED
  BY <1>6, <1>7 DEF TypeInv

LEMMA AssignCommitsTyped ==
  ASSUME TypeInv, NEW s \in Operators, AssignCommits(s)
  PROVE  TypeInv'
<1> DEFINE o == op[s]
           r == Assigned(o.dev.uid, o.v)
<1>1. Formed(o) /\ o.pc = "commit"
  BY DEF TypeInv, RequestsOK, AssignCommits
<1>2. o.d \in Devices /\ o.v \in Vehicles /\ o.dev.uid \in Uids
  BY <1>1 DEF Formed, WithDevice, WithRow, WithVehicle, Stored
<1>3. r \in DeviceRow /\ r.state = "row" /\ Stored(r) /\ Storable(o.d, r)
  BY <1>2, RowsTyped DEF Assigned, Stored, AssignCommits
<1>4. devices \in [Devices -> DeviceRow] /\ vehicles \in [Vehicles -> VehicleRow]
  BY DEF TypeInv, RowsOK
<1>5. devices' = DevicesAfterAssign(o) /\ vehicles' = VehiclesAfterAssign(o)
  BY DEF AssignCommits
<1>6. ASSUME NEW e \in Devices, e # o.d
      PROVE  /\ devices'[e] \in DeviceRow
             /\ devices'[e].state = devices[e].state
             /\ devices'[e].uid = devices[e].uid
             /\ devices'[e].vehicle = None \/ devices'[e] = devices[e]
  <2>1. CASE devices[e].vehicle = o.v
    <3>1. HasDevice(e) /\ devices[e].uid \in Uids
      BY <1>2, <2>1, NoneIsNoValue DEF TypeInv, RowsOK, ForeignKey
    <3>2. devices'[e] = Unassigned(devices[e].uid)
      BY <1>5, <1>6, <2>1 DEF DevicesAfterAssign
    <3> QED
      BY <3>1, <3>2, RowsTyped DEF Unassigned, HasDevice
  <2>2. CASE devices[e].vehicle # o.v
    BY <1>4, <1>5, <1>6, <2>2 DEF DevicesAfterAssign
  <2> QED
    BY <2>1, <2>2
<1>7. devices'[o.d] = r
  BY <1>2, <1>5 DEF DevicesAfterAssign
<1>8. devices' \in [Devices -> DeviceRow]
  <2>1. \A e \in Devices : devices'[e] \in DeviceRow
    BY <1>3, <1>6, <1>7
  <2>2. devices' = [e \in Devices |-> devices'[e]]
    BY <1>5 DEF DevicesAfterAssign
  <2> QED
    BY <2>1, <2>2
<1>9. /\ Naming(o.dev.uid) \in VehicleRow /\ Naming(None) \in VehicleRow
      /\ Naming(o.dev.uid).state = "row" /\ Naming(None).state = "row"
  BY <1>2, RowsTyped DEF Naming
<1>10. vehicles' \in [Vehicles -> VehicleRow]
  BY <1>4, <1>5, <1>9 DEF VehiclesAfterAssign
<1>11. \A v \in Vehicles : HasVehicle(v) => HasVehicle(v)'
  BY <1>5, <1>9 DEF VehiclesAfterAssign, HasVehicle
<1> HIDE DEF r
<1>12. RowsOK'
  BY <1>2, <1>3, <1>6, <1>7, <1>8, <1>10, <1>11, RowSaved DEF TypeInv
<1>13. RequestsOK' /\ PacketsOK' /\ BoundsOK'
  BY RequestEnds, PacketsStay, BoundsStay DEF TypeInv, AssignCommits, BoundsOK
<1> QED
  BY <1>12, <1>13 DEF TypeInv

LEMMA RequestStopsTyped ==
  ASSUME TypeInv, NEW s \in Operators, NoSuchDevice(s) \/ Refused(s) \/ Fails(s)
  PROVE  TypeInv'
<1>1. Ends(s) /\ UNCHANGED <<tables, pkt, requests>> /\ calm' \in BOOLEAN
  BY DEF NoSuchDevice, Refused, Fails
<1>2. faults' \in 0 .. MaxFaults
  BY BoundsAreNumbers DEF TypeInv, BoundsOK, NoSuchDevice, Refused, Fails
<1>3. RowsOK' /\ PacketsOK' /\ RequestsOK'
  BY <1>1, RowsStay, PacketsStay, RequestEnds DEF TypeInv
<1>4. BoundsOK'
  BY <1>1, <1>2 DEF TypeInv, BoundsOK
<1> QED
  BY <1>3, <1>4 DEF TypeInv

LEMMA ReceiveTyped ==
  ASSUME TypeInv, NEW k \in Packets, NEW d \in Devices, Receive(k, d)
  PROVE  TypeInv'
<1> DEFINE p == [NoPacket EXCEPT !.pc = "read", !.v = devices[d].vehicle]
<1>1. devices[d].vehicle \in Vehicles
  BY DEF Receive, TypeInv, RowsOK, DeviceRow
<1>2. NoPacket \in Packet
  BY IdleFormed DEF FormedPacket
<1>3. p \in Packet
  BY <1>1, <1>2 DEF Packet
<1>4. p.pc = "read" /\ p.v = devices[d].vehicle
  BY DEF NoPacket
<1>5. FormedPacket(p)
  BY <1>1, <1>3, <1>4 DEF FormedPacket
<1>6. PacketsOK'
  BY <1>5, PacketGoesOn DEF TypeInv, Receive
<1>7. RowsOK' /\ RequestsOK' /\ BoundsOK'
  BY RowsStay, RequestsStay, BoundsStay DEF TypeInv, Receive, BoundsOK
<1> QED
  BY <1>6, <1>7 DEF TypeInv

LEMMA ReadVehicleTyped ==
  ASSUME TypeInv, NEW k \in Packets, ReadVehicle(k)
  PROVE  TypeInv'
<1> DEFINE p == [pkt[k] EXCEPT !.pc = "save", !.veh = vehicles[pkt[k].v]]
<1>1. pkt[k] \in Packet /\ pkt[k].v \in Vehicles
  BY DEF TypeInv, PacketsOK, ReadVehicle, FormedPacket
<1>2. vehicles[pkt[k].v] \in VehicleRow
  BY <1>1 DEF TypeInv, RowsOK
<1>3. p \in Packet
  BY <1>1, <1>2 DEF Packet
<1>4. p.pc = "save" /\ p.v = pkt[k].v /\ p.veh = vehicles[pkt[k].v]
  BY <1>1 DEF Packet
<1>5. HasVehicle(pkt[k].v) => FormedPacket(p)
  BY <1>1, <1>3, <1>4 DEF FormedPacket, HasVehicle
<1>6. pkt' = [pkt EXCEPT ![k] = IF HasVehicle(pkt[k].v) THEN p ELSE NoPacket]
  BY DEF ReadVehicle, TypeInv, PacketsOK
<1> HIDE DEF p
<1>7. PacketsOK'
  <2>1. CASE HasVehicle(pkt[k].v)
    BY <1>5, <1>6, <2>1, PacketGoesOn DEF TypeInv
  <2>2. CASE ~HasVehicle(pkt[k].v)
    BY <1>6, <2>2, PacketGoesOn, IdleFormed DEF TypeInv
  <2> QED
    BY <2>1, <2>2
<1>8. RowsOK' /\ RequestsOK' /\ BoundsOK'
  BY RowsStay, RequestsStay, BoundsStay DEF TypeInv, ReadVehicle, BoundsOK
<1> QED
  BY <1>7, <1>8 DEF TypeInv

LEMMA UpdateFromTelemetryTyped ==
  ASSUME TypeInv, NEW k \in Packets, UpdateFromTelemetry(k)
  PROVE  TypeInv'
<1>1. /\ pkt[k].v \in Vehicles /\ pkt[k].veh \in VehicleRow
      /\ pkt[k].veh.state = "row"
  BY DEF TypeInv, PacketsOK, UpdateFromTelemetry, FormedPacket, Packet
<1>2. RowsOK'
  BY <1>1, VehicleSavedRows DEF TypeInv, UpdateFromTelemetry
<1>3. PacketsOK'
  BY IdleFormed, PacketGoesOn DEF TypeInv, UpdateFromTelemetry
<1>4. calm' \in BOOLEAN
  BY DEF TypeInv, BoundsOK, UpdateFromTelemetry
<1>5. RequestsOK' /\ BoundsOK'
  BY <1>4, RequestsStay, BoundsStay DEF TypeInv, UpdateFromTelemetry
<1> QED
  BY <1>2, <1>3, <1>5 DEF TypeInv

LEMMA InitTyped == Init => TypeInv
<1> SUFFICES ASSUME Init PROVE TypeInv
  OBVIOUS
<1>1. /\ NoDevice("new") \in DeviceRow /\ NoVehicle("new") \in VehicleRow
      /\ NoDevice("new").vehicle = None /\ NoDevice("new").state = "new"
  BY RowsTyped DEF RowStates, NoDevice
<1>2. RowsOK
  BY <1>1 DEF Init, RowsOK, UniqueUids, ForeignKey, HasDevice
<1>3. Idle \in Request /\ NoPacket \in Packet
  BY IdleFormed DEF Formed, FormedPacket
<1>4. RequestsOK /\ PacketsOK
  BY <1>3, IdleFormed DEF Init, RequestsOK, PacketsOK
<1>5. BoundsOK
  BY BoundsAreNumbers DEF Init, BoundsOK
<1> QED
  BY <1>2, <1>4, <1>5 DEF TypeInv

LEMMA StepTyped == TypeInv /\ [Next]_vars => TypeInv'
<1> SUFFICES ASSUME TypeInv, [Next]_vars PROVE TypeInv'
  OBVIOUS
<1>1. CASE UNCHANGED vars
  BY <1>1, RowsStay, RequestsStay, PacketsStay, BoundsStay DEF TypeInv, vars, BoundsOK
<1>2. CASE \E d \in Devices, uid \in Uids : CreateDevice(d, uid)
  BY <1>2, CreateDeviceTyped
<1>3. ASSUME NEW s \in Operators, DeviceStep(s) PROVE TypeInv'
  BY <1>3, RenameTyped, RenameCommitsTyped, RemoveDeviceTyped, DeleteDeviceTyped,
     UnassignTyped, ReleaseDeviceTyped, FindNamedTyped, UnnameTyped DEF DeviceStep
<1>4. ASSUME NEW s \in Operators, VehicleStep(s) PROVE TypeInv'
  BY <1>4, CreateVehicleTyped, UpdateVehicleTyped, SaveVehicleTyped,
     RemoveVehicleTyped, ListTyped, ClearOneTyped, DeleteVehicleTyped DEF VehicleStep
<1>5. ASSUME NEW s \in Operators, AssignStep(s) \/ Refused(s) \/ Fails(s) PROVE TypeInv'
  BY <1>5, AssignTyped, FindDeviceTyped, FindVehicleTyped, AssignCommitsTyped,
     RequestStopsTyped DEF AssignStep
<1>6. ASSUME NEW k \in Packets, PacketStep(k) PROVE TypeInv'
  BY <1>6, ReceiveTyped, ReadVehicleTyped, UpdateFromTelemetryTyped DEF PacketStep
<1> QED
  BY <1>1, <1>2, <1>3, <1>4, <1>5, <1>6 DEF Next, AtBound

(* The rows of both tables keep their types, the unique index and the      *)
(* foreign key, and a device with a vehicle has the status "assigned",     *)
(* however many requests and packets overlap (devices.service.ts and       *)
(* vehicles.service.ts save rows they read before).                        *)
THEOREM TypeCorrect == Spec => []TypeOK
<1>1. TypeInv => TypeOK
  BY DEF TypeInv, RowsOK, RequestsOK, PacketsOK, BoundsOK, TypeOK
<1> QED
  BY <1>1, InitTyped, StepTyped, PTL DEF Spec

----------------------------------------------------------------------------
(* Requests handled one at a time. *)

OneAtATime == \A s, t \in Operators : s = t

(* What a request has read of the rows devs still holds. *)
Loaded(o, devs) ==
  /\ o.pc = "rename" => devs[o.d].state = "row" /\ o.dev = devs[o.d]
  /\ o.pc = "removeDevice" => devs[o.d].vehicle = None
  /\ o.removing => o.pc \in {"list", "clear", "removeVehicle"} /\ o.uid = None
  /\ o.pc = "clear" /\ o.removing =>
       \A e \in Devices : devs[e].vehicle = o.v => \E uid \in Uids : <<e, uid>> \in o.todo
  /\ o.pc = "removeVehicle" => \A e \in Devices : devs[e].vehicle # o.v

AllLoaded == \A s \in Operators : Loaded(op[s], devices)

Serves == [d \in Devices |-> devices[d].vehicle]

MatchInv == TypeInv /\ StatusAgrees /\ AllLoaded

(* What every step has to show. *)
Matched == StatusAgrees' /\ AllLoaded' /\ (Pairing!Next \/ UNCHANGED Serves)

LEMMA IdleLoaded == ASSUME NEW devs PROVE Loaded(Idle, devs)
BY DEF Loaded, Idle

LEMMA LoadedGoesOn ==
  ASSUME OneAtATime, RequestsOK, NEW s \in Operators, NEW o,
         op' = [op EXCEPT ![s] = o], Loaded(o, devices')
  PROVE  AllLoaded'
<1>1. \A t \in Operators : op'[t] = o
  BY DEF OneAtATime, RequestsOK
<1> QED
  BY <1>1 DEF AllLoaded

(* Steps that leave the devices alone. *)
LEMMA RequestMatched ==
  ASSUME OneAtATime, MatchInv, NEW s \in Operators, NEW o, UNCHANGED devices,
         op' = [op EXCEPT ![s] = o], Loaded(o, devices)
  PROVE  Matched
<1>1. AllLoaded'
  BY LoadedGoesOn DEF MatchInv, TypeInv
<1>2. StatusAgrees' /\ UNCHANGED Serves
  BY DEF MatchInv, StatusAgrees, Serves
<1> QED
  BY <1>1, <1>2 DEF Matched

LEMMA OthersMatched ==
  ASSUME MatchInv, UNCHANGED <<devices, op>>
  PROVE  Matched
BY DEF MatchInv, StatusAgrees, Serves, AllLoaded, Matched

LEMMA StopMatched ==
  ASSUME OneAtATime, MatchInv, NEW s \in Operators, Ends(s), UNCHANGED devices
  PROVE  Matched
BY RequestMatched, IdleLoaded DEF Ends

(* A request has arrived: what it has read is current. *)
LEMMA ArrivalMatched ==
  ASSUME OneAtATime, MatchInv, NEW s \in Operators, NEW o, Asked(s, o), Loaded(o, devices)
  PROVE  Matched
BY RequestMatched DEF Asked, tables

LEMMA DeviceRequestsMatched ==
  ASSUME OneAtATime, MatchInv, NEW s \in Operators, NEW d \in Devices,
         \/ \E uid \in Uids : Rename(s, d, uid)
         \/ RemoveDevice(s, d)
         \/ Unassign(s, d)
         \/ \E v \in Vehicles : Assign(s, d, v)
  PROVE  Matched
<1>1. ASSUME NEW uid \in Uids, Rename(s, d, uid) PROVE Matched
  <2> DEFINE o == [Idle EXCEPT !.pc = "rename", !.d = d, !.dev = devices[d], !.uid = uid]
  <2>1. o.pc = "rename" /\ o.d = d /\ o.dev = devices[d] /\ o.removing = FALSE
    BY DEF Idle
  <2>2. Loaded(o, devices)
    BY <1>1, <2>1 DEF Loaded, Rename, HasDevice
  <2> QED
    BY <1>1, <2>2, ArrivalMatched DEF Rename
<1>2. ASSUME RemoveDevice(s, d) PROVE Matched
  <2> DEFINE o == [Idle EXCEPT !.pc = "removeDevice", !.d = d]
  <2>1. o.pc = "removeDevice" /\ o.d = d /\ o.removing = FALSE
    BY DEF Idle
  <2>2. devices[d].vehicle = None
    BY <1>2 DEF RemoveDevice, MatchInv, StatusAgrees
  <2>3. Loaded(o, devices)
    BY <2>1, <2>2 DEF Loaded
  <2> QED
    BY <1>2, <2>3, ArrivalMatched DEF RemoveDevice
<1>3. ASSUME Unassign(s, d) PROVE Matched
  <2> DEFINE o == [Idle EXCEPT !.pc = "release", !.d = d, !.dev = devices[d]]
  <2>1. o.pc = "release" /\ o.removing = FALSE
    BY DEF Idle
  <2>2. Loaded(o, devices)
    BY <2>1 DEF Loaded
  <2> QED
    BY <1>3, <2>2, ArrivalMatched DEF Unassign
<1>4. ASSUME NEW v \in Vehicles, Assign(s, d, v) PROVE Matched
  <2> DEFINE o == [Idle EXCEPT !.pc = "findVehicle", !.d = d, !.v = v, !.dev = devices[d]]
  <2>1. o.pc = "findVehicle" /\ o.removing = FALSE
    BY DEF Idle
  <2>2. Loaded(o, devices)
    BY <2>1 DEF Loaded
  <2> QED
    BY <1>4, <2>2, ArrivalMatched DEF Assign
<1> QED
  BY <1>1, <1>2, <1>3, <1>4

LEMMA VehicleRequestsMatched ==
  ASSUME OneAtATime, MatchInv, NEW s \in Operators, NEW v \in Vehicles,
         \/ \E uid \in Uids \cup {None} : CreateVehicle(s, v, uid) \/ UpdateVehicle(s, v, uid)
         \/ RemoveVehicle(s, v)
  PROVE  Matched
<1>1. ASSUME NEW uid \in Uids \cup {None}, CreateVehicle(s, v, uid) PROVE Matched
  <2> DEFINE o == [Idle EXCEPT !.pc = "findDevice", !.v = v, !.uid = uid]
  <2>1. o.pc = "findDevice" /\ o.removing = FALSE
    BY DEF Idle
  <2>2. Loaded(o, devices)
    BY <2>1 DEF Loaded
  <2>3. UNCHANGED devices /\ (op' = [op EXCEPT ![s] = o] \/ UNCHANGED op)
    BY <1>1 DEF CreateVehicle
  <2> QED
    BY <2>2, <2>3, RequestMatched, OthersMatched
<1>2. ASSUME NEW uid \in Uids \cup {None}, UpdateVehicle(s, v, uid) PROVE Matched
  <2> DEFINE o == [Idle EXCEPT !.pc = "saveVehicle", !.v = v, !.uid = uid,
                               !.veh = vehicles[v]]
  <2>1. o.pc = "saveVehicle" /\ o.removing = FALSE
    BY DEF Idle
  <2>2. Loaded(o, devices)
    BY <2>1 DEF Loaded
  <2> QED
    BY <1>2, <2>2, ArrivalMatched DEF UpdateVehicle
<1>3. ASSUME RemoveVehicle(s, v) PROVE Matched
  <2> DEFINE o == [Idle EXCEPT !.pc = "list", !.v = v, !.removing = TRUE]
  <2>1. o.pc = "list" /\ o.uid = None
    BY DEF Idle
  <2>2. Loaded(o, devices)
    BY <2>1 DEF Loaded
  <2> QED
    BY <1>3, <2>2, ArrivalMatched DEF RemoveVehicle
<1> QED
  BY <1>1, <1>2, <1>3

(* The queries in the middle of a request. *)
LEMMA QueriesMatched ==
  ASSUME OneAtATime, MatchInv, NEW s \in Operators,
         \/ FindNamed(s) \/ SaveVehicle(s) \/ FindDevice(s) \/ FindVehicle(s)
  PROVE  Matched
<1> DEFINE n(p) == [op[s] EXCEPT !.pc = p]
<1>1. op[s] \in Request /\ Loaded(op[s], devices)
  BY DEF MatchInv, TypeInv, RequestsOK, AllLoaded
<1>2. ~op[s].removing
  BY <1>1 DEF Loaded, FindNamed, SaveVehicle, FindDevice, FindVehicle
<1>3. ASSUME NEW p \in {"unname", "list", "findDevice", "commit"}
      PROVE  Loaded(n(p), devices)
  <2>1. n(p).pc = p /\ n(p).removing = op[s].removing
    BY <1>1 DEF Request
  <2> QED
    BY <1>2, <2>1 DEF Loaded
<1>4. CASE FindNamed(s)
  <2>1. UNCHANGED devices /\ (op' = [op EXCEPT ![s] = n("unname")] \/ Ends(s))
    BY <1>4 DEF FindNamed, tables
  <2> QED
    BY <1>3, <2>1, RequestMatched, StopMatched
<1>5. CASE SaveVehicle(s)
  <2>1. UNCHANGED devices /\ (\/ op' = [op EXCEPT ![s] = n("list")]
                              \/ op' = [op EXCEPT ![s] = n("findDevice")])
    BY <1>5 DEF SaveVehicle
  <2> QED
    BY <1>3, <2>1, RequestMatched
<1>6. CASE FindDevice(s)
  <2>1. PICK d \in Devices :
          op' = [op EXCEPT ![s] = [op[s] EXCEPT !.pc = "findVehicle", !.d = d,
                                                !.dev = devices[d]]]
    BY <1>6 DEF FindDevice, MatchInv, TypeInv, RequestsOK
  <2> DEFINE m == [op[s] EXCEPT !.pc = "findVehicle", !.d = d, !.dev = devices[d]]
  <2>2. m.pc = "findVehicle" /\ m.removing = op[s].removing
    BY <1>1 DEF Request
  <2>3. Loaded(m, devices)
    BY <1>2, <2>2 DEF Loaded
  <2>4. UNCHANGED devices
    BY <1>6 DEF FindDevice, tables
  <2> QED
    BY <2>1, <2>3, <2>4, RequestMatched
<1>7. CASE FindVehicle(s)
  <2>1. UNCHANGED devices /\ (op' = [op EXCEPT ![s] = n("commit")] \/ Ends(s))
    BY <1>7 DEF FindVehicle, tables
  <2> QED
    BY <1>3, <2>1, RequestMatched, StopMatched
<1> QED
  BY <1>4, <1>5, <1>6, <1>7

(* The devices left to release are all there are, when a vehicle goes. *)
LEMMA AfterListLoaded ==
  ASSUME NEW o, o \in Request, o.pc \in {"list", "clear"}, NEW todo, NEW devs,
         o.removing => o.uid = None,
         o.removing => \A e \in Devices : devs[e].vehicle = o.v =>
                         \E uid \in Uids : <<e, uid>> \in todo
  PROVE  Loaded(AfterList(o, todo), devs)
<1> DEFINE n(p, t) == [o EXCEPT !.pc = p, !.todo = t]
<1>1. ASSUME NEW p, NEW t
      PROVE  /\ n(p, t).pc = p /\ n(p, t).todo = t /\ n(p, t).v = o.v
             /\ n(p, t).uid = o.uid /\ n(p, t).removing = o.removing
  BY DEF Request
<1>2. \/ todo # {} /\ AfterList(o, todo) = n("clear", todo)
      \/ todo = {} /\ o.removing /\ AfterList(o, todo) = n("removeVehicle", {})
      \/ ~o.removing /\ AfterList(o, todo) = n("findDevice", {})
      \/ AfterList(o, todo) = Idle
  BY DEF AfterList
<1> HIDE DEF n
<1>3. Loaded(n("clear", todo), devs)
  BY <1>1 DEF Loaded
<1>4. ASSUME todo = {}, o.removing PROVE Loaded(n("removeVehicle", {}), devs)
  <2>1. \A e \in Devices : devs[e].vehicle # o.v
    BY <1>4
  <2> DEFINE m == n("removeVehicle", {})
  <2>2. m.pc = "removeVehicle" /\ m.v = o.v /\ m.uid = o.uid
    BY <1>1
  <2>3. m.uid = None /\ \A e \in Devices : devs[e].vehicle # m.v
    BY <1>4, <2>1, <2>2
  <2> HIDE DEF m
  <2>4. m.pc # "rename" /\ m.pc # "removeDevice" /\ m.pc # "clear"
    BY <2>2
  <2>5. m.pc \in {"list", "clear", "removeVehicle"}
    BY <2>2
  <2>6. Loaded(m, devs)
    BY <2>3, <2>4, <2>5, Zenon DEF Loaded
  <2> QED
    BY <2>6 DEF m
<1>5. ~o.removing => Loaded(n("findDevice", {}), devs)
  BY <1>1 DEF Loaded
<1> QED
  BY <1>2, <1>3, <1>4, <1>5, IdleLoaded

LEMMA ListMatched ==
  ASSUME OneAtATime, MatchInv, NEW s \in Operators, List(s)
  PROVE  Matched
<1> DEFINE S == {e \in Devices : /\ HasDevice(e)
                                 /\ devices[e].vehicle = op[s].v
                                 /\ devices[e].uid # op[s].uid}
           todo == {<<d, devices[d].uid>> : d \in S}
<1>1. op[s] \in Request /\ op[s].pc = "list" /\ op[s].v \in Vehicles
      /\ Loaded(op[s], devices)
  BY DEF MatchInv, TypeInv, RequestsOK, Formed, WithVehicle, AllLoaded, List
<1>2. op[s].removing => op[s].uid = None
  BY <1>1 DEF Loaded
<1>3. ASSUME op[s].removing, NEW e \in Devices, devices[e].vehicle = op[s].v
      PROVE  \E uid \in Uids : <<e, uid>> \in todo
  <2>1. HasDevice(e)
    BY <1>1, <1>3, NoneIsNoValue DEF MatchInv, TypeInv, RowsOK, ForeignKey
  <2>2. devices[e].uid \in Uids
    BY <2>1 DEF MatchInv, TypeInv, RowsOK
  <2>3. e \in S
    BY <1>2, <1>3, <2>1, <2>2, NoneIsNoValue
  <2> QED
    BY <2>2, <2>3
<1>4. op' = [op EXCEPT ![s] = AfterList(op[s], todo)] /\ UNCHANGED devices
  BY DEF List, Continues, tables
<1> HIDE DEF todo
<1>5. Loaded(AfterList(op[s], todo), devices)
  BY <1>1, <1>2, <1>3, AfterListLoaded
<1> QED
  BY <1>4, <1>5, RequestMatched

----------------------------------------------------------------------------
(* Steps that write devices. *)

(* No device changes its vehicle. *)
LEMMA SameServes ==
  ASSUME \A e \in Devices : devices'[e].vehicle = devices[e].vehicle
  PROVE  UNCHANGED Serves
BY DEF Serves

LEMMA ReleaseMatches ==
  ASSUME RowsOK, NEW d \in Devices, NEW r, r.vehicle = None,
         devices' = [devices EXCEPT ![d] = r]
  PROVE  Pairing!Next
<1>1. /\ devices'[d].vehicle = None
      /\ \A e \in Devices \ {d} : devices'[e].vehicle = devices[e].vehicle
  BY DEF RowsOK
<1>2. Serves' = [Serves EXCEPT ![d] = None]
  BY <1>1 DEF Serves
<1>3. Pairing!Release(d)
  BY <1>2 DEF Pairing!Release, Serves
<1> QED
  BY <1>3 DEF Pairing!Next

LEMMA AssignMatches ==
  ASSUME NEW d \in Devices, NEW v \in Vehicles,
         \A e \in Devices :
           devices'[e].vehicle = IF e = d THEN v
                                 ELSE IF devices[e].vehicle = v THEN None
                                 ELSE devices[e].vehicle
  PROVE  Pairing!Next
<1>1. Pairing!Assign(d, v)
  BY DEF Pairing!Assign
<1>2. \E w \in Vehicles : Pairing!Assign(d, w)
  BY <1>1
<1> QED
  BY <1>2 DEF Pairing!Next

LEMMA CreateDeviceMatched ==
  ASSUME MatchInv, NEW d \in Devices, NEW uid \in Uids, CreateDevice(d, uid)
  PROVE  Matched
<1>1. /\ devices' = [devices EXCEPT ![d] = Unassigned(uid)] /\ UNCHANGED op
      /\ devices \in [Devices -> DeviceRow] /\ devices[d].state = "new"
  BY DEF CreateDevice, MatchInv, TypeInv, RowsOK
<1>2. devices'[d] = Unassigned(uid) /\ \A e \in Devices \ {d} : devices'[e] = devices[e]
  BY <1>1
<1>3. Unassigned(uid).vehicle = None /\ Unassigned(uid).assigned = FALSE
  BY DEF Unassigned
<1>4. devices[d].vehicle = None
  BY <1>1 DEF MatchInv, TypeInv, RowsOK, ForeignKey, HasDevice
<1>5. UNCHANGED Serves
  BY <1>2, <1>3, <1>4, SameServes
<1>6. StatusAgrees'
  BY <1>2, <1>3 DEF MatchInv, StatusAgrees
<1>7. ASSUME NEW t \in Operators PROVE Loaded(op[t], devices')
  <2>1. Loaded(op[t], devices) /\ Formed(op[t])
    BY DEF MatchInv, TypeInv, AllLoaded, RequestsOK
  <2>2. op[t].pc \in {"rename", "removeDevice"} => op[t].d \in Devices
    BY <2>1 DEF Formed, WithDevice
  <2>3. \A e \in Devices : devices'[e].vehicle = devices[e].vehicle
    BY <1>2, <1>3, <1>4
  <2> QED
    BY <1>1, <1>2, <2>1, <2>2, <2>3 DEF Loaded
<1> QED
  BY <1>1, <1>5, <1>6, <1>7 DEF Matched, AllLoaded

LEMMA RenameCommitsMatched ==
  ASSUME OneAtATime, MatchInv, NEW s \in Operators, RenameCommits(s)
  PROVE  Matched
<1> DEFINE d == op[s].d
           r == [op[s].dev EXCEPT !.uid = op[s].uid]
<1>1. d \in Devices /\ op[s].dev = devices[d] /\ devices \in [Devices -> DeviceRow]
  BY DEF MatchInv, TypeInv, RowsOK, RequestsOK, AllLoaded, Formed, WithDevice, Loaded,
     RenameCommits
<1>2. r.vehicle = devices[d].vehicle /\ r.assigned = devices[d].assigned
  BY <1>1 DEF DeviceRow
<1>3. devices' = [devices EXCEPT ![d] = r] /\ Ends(s)
  BY DEF RenameCommits
<1> HIDE DEF r
<1>4. \A e \in Devices : /\ devices'[e].vehicle = devices[e].vehicle
                         /\ devices'[e].assigned = devices[e].assigned
  BY <1>1, <1>2, <1>3
<1>5. StatusAgrees' /\ UNCHANGED Serves
  BY <1>4, SameServes DEF MatchInv, StatusAgrees
<1>6. AllLoaded'
  BY <1>3, LoadedGoesOn, IdleLoaded DEF Ends, MatchInv, TypeInv
<1> QED
  BY <1>5, <1>6 DEF Matched

LEMMA DeleteDeviceMatched ==
  ASSUME OneAtATime, MatchInv, NEW s \in Operators, DeleteDevice(s)
  PROVE  Matched
<1> DEFINE d == op[s].d
<1>1. d \in Devices /\ devices[d].vehicle = None /\ devices \in [Devices -> DeviceRow]
  BY DEF MatchInv, TypeInv, RowsOK, RequestsOK, AllLoaded, Formed, WithDevice, Loaded,
     DeleteDevice
<1>2. devices' = [devices EXCEPT ![d] = NoDevice("gone")] /\ Ends(s)
  BY DEF DeleteDevice
<1>3. NoDevice("gone").vehicle = None /\ NoDevice("gone").assigned = FALSE
  BY DEF NoDevice
<1>4. \A e \in Devices : devices'[e].vehicle = devices[e].vehicle
  BY <1>1, <1>2, <1>3
<1>5. StatusAgrees'
  BY <1>1, <1>2, <1>3 DEF MatchInv, StatusAgrees
<1>6. AllLoaded'
  BY <1>2, LoadedGoesOn, IdleLoaded DEF Ends, MatchInv, TypeInv
<1> QED
  BY <1>4, <1>5, <1>6, SameServes DEF Matched

LEMMA UnassignedStatus ==
  ASSUME MatchInv, NEW d \in Devices, NEW uid,
         devices' = [devices EXCEPT ![d] = Unassigned(uid)]
  PROVE  StatusAgrees' /\ Pairing!Next
<1>1. Unassigned(uid).vehicle = None /\ Unassigned(uid).assigned = FALSE
  BY DEF Unassigned
<1>2. devices \in [Devices -> DeviceRow]
  BY DEF MatchInv, TypeInv, RowsOK
<1>3. StatusAgrees'
  BY <1>1, <1>2 DEF MatchInv, StatusAgrees
<1>4. Pairing!Next
  BY <1>1, ReleaseMatches DEF MatchInv, TypeInv
<1> QED
  BY <1>3, <1>4

LEMMA ReleaseDeviceMatched ==
  ASSUME OneAtATime, MatchInv, NEW s \in Operators, ReleaseDevice(s)
  PROVE  Matched
<1> DEFINE n == [op[s] EXCEPT !.pc = "findNamed", !.v = op[s].dev.vehicle]
<1>1. /\ op[s] \in Request /\ op[s].d \in Devices /\ op[s].pc = "release"
      /\ Loaded(op[s], devices)
  BY DEF MatchInv, TypeInv, RequestsOK, AllLoaded, Formed, WithDevice, ReleaseDevice
<1>2. StatusAgrees' /\ Pairing!Next
  BY <1>1, UnassignedStatus DEF ReleaseDevice
<1>3. n.pc = "findNamed" /\ n.removing = op[s].removing
  BY <1>1 DEF Request
<1>4. ~op[s].removing
  BY <1>1 DEF Loaded
<1>5. Loaded(n, devices')
  BY <1>3, <1>4 DEF Loaded
<1>6. op' = [op EXCEPT ![s] = n] \/ op' = [op EXCEPT ![s] = Idle]
  BY DEF ReleaseDevice, Ends
<1>7. AllLoaded'
  BY <1>5, <1>6, LoadedGoesOn, IdleLoaded DEF MatchInv, TypeInv
<1> QED
  BY <1>2, <1>7 DEF Matched

LEMMA ClearOneMatched ==
  ASSUME OneAtATime, MatchInv, NEW s \in Operators, NEW x \in Devices \X Uids,
         ClearOne(s, x)
  PROVE  Matched
<1> DEFINE o == op[s]
           todo == o.todo \ {x}
<1>1. /\ o \in Request /\ o.pc = "clear" /\ o.v \in Vehicles /\ Loaded(o, devices)
      /\ devices \in [Devices -> DeviceRow]
  BY DEF MatchInv, TypeInv, RowsOK, RequestsOK, AllLoaded, Formed, WithVehicle, ClearOne
<1>2. x[1] \in Devices /\ x[2] \in Uids /\ x = <<x[1], x[2]>>
  OBVIOUS
<1>3. devices' = [devices EXCEPT ![x[1]] = Unassigned(x[2])]
  BY DEF ClearOne
<1>4. StatusAgrees' /\ Pairing!Next
  BY <1>2, <1>3, UnassignedStatus
<1>5. ASSUME o.removing, NEW e \in Devices, devices'[e].vehicle = o.v
      PROVE  \E uid \in Uids : <<e, uid>> \in todo
  <2>1. e # x[1]
    BY <1>1, <1>2, <1>3, <1>5, NoneIsNoValue DEF Unassigned
  <2>2. devices[e].vehicle = o.v
    BY <1>1, <1>3, <1>5, <2>1
  <2>3. PICK uid \in Uids : <<e, uid>> \in o.todo
    BY <1>1, <1>5, <2>2 DEF Loaded
  <2>4. <<e, uid>> # x
    BY <1>2, <2>1
  <2> QED
    BY <2>3, <2>4
<1>6. o.removing => o.uid = None
  BY <1>1 DEF Loaded
<1>7. op' = [op EXCEPT ![s] = AfterList(o, todo)]
  BY DEF ClearOne, Continues
<1> HIDE DEF todo
<1>8. Loaded(AfterList(o, todo), devices')
  BY <1>1, <1>5, <1>6, AfterListLoaded
<1>9. AllLoaded'
  BY <1>7, <1>8, LoadedGoesOn DEF MatchInv, TypeInv
<1> QED
  BY <1>4, <1>9 DEF Matched

LEMMA DeleteVehicleMatched ==
  ASSUME OneAtATime, MatchInv, NEW s \in Operators, DeleteVehicle(s)
  PROVE  Matched
<1>1. \A e \in Devices : devices[e].vehicle # op[s].v
  BY DEF MatchInv, AllLoaded, Loaded, DeleteVehicle
<1>2. \A e \in Devices : devices'[e] = devices[e]
  BY <1>1 DEF DeleteVehicle
<1>3. StatusAgrees' /\ UNCHANGED Serves
  BY <1>2, SameServes DEF MatchInv, StatusAgrees
<1>4. AllLoaded'
  BY LoadedGoesOn, IdleLoaded DEF DeleteVehicle, Ends, MatchInv, TypeInv
<1> QED
  BY <1>3, <1>4 DEF Matched

LEMMA AssignCommitsMatched ==
  ASSUME OneAtATime, MatchInv, NEW s \in Operators, AssignCommits(s)
  PROVE  Matched
<1> DEFINE o == op[s]
<1>1. o.d \in Devices /\ o.v \in Vehicles /\ devices \in [Devices -> DeviceRow]
  BY DEF MatchInv, TypeInv, RowsOK, RequestsOK, Formed, WithDevice, WithVehicle,
     AssignCommits
<1>2. devices' = DevicesAfterAssign(o) /\ Ends(s)
  BY DEF AssignCommits
<1>3. \A e \in Devices :
        devices'[e] = IF e = o.d THEN Assigned(o.dev.uid, o.v)
                      ELSE IF devices[e].vehicle = o.v THEN Unassigned(devices[e].uid)
                      ELSE devices[e]
  BY <1>2 DEF DevicesAfterAssign
<1>4. /\ Assigned(o.dev.uid, o.v).vehicle = o.v /\ Assigned(o.dev.uid, o.v).assigned
      /\ \A uid : Unassigned(uid).vehicle = None /\ ~Unassigned(uid).assigned
  BY DEF Assigned, Unassigned
<1>5. StatusAgrees'
  BY <1>1, <1>3, <1>4, NoneIsNoValue DEF MatchInv, StatusAgrees
<1>6. \A e \in Devices :
        devices'[e].vehicle = IF e = o.d THEN o.v
                              ELSE IF devices[e].vehicle = o.v THEN None
                              ELSE devices[e].vehicle
  BY <1>3, <1>4
<1>8. Pairing!Next
  BY <1>1, <1>6, AssignMatches
<1>9. AllLoaded'
  BY <1>2, LoadedGoesOn, IdleLoaded DEF Ends, MatchInv, TypeInv
<1> QED
  BY <1>5, <1>8, <1>9 DEF Matched

LEMMA InitMatched == Init => MatchInv /\ Pairing!Init
<1> SUFFICES ASSUME Init PROVE StatusAgrees /\ AllLoaded /\ Pairing!Init
  BY InitTyped DEF MatchInv
<1>1. NoDevice("new").vehicle = None /\ NoDevice("new").assigned = FALSE
  BY DEF NoDevice
<1>2. StatusAgrees
  BY <1>1 DEF Init, StatusAgrees
<1>3. AllLoaded
  BY IdleLoaded DEF Init, AllLoaded
<1>4. Pairing!Init
  BY <1>1 DEF Init, Pairing!Init
<1> QED
  BY <1>2, <1>3, <1>4

LEMMA StepMatched ==
  ASSUME OneAtATime, MatchInv, [Next]_vars
  PROVE  Matched
<1>1. CASE UNCHANGED vars
  BY <1>1, OthersMatched DEF vars, tables
<1>2. CASE \E d \in Devices, uid \in Uids : CreateDevice(d, uid)
  BY <1>2, CreateDeviceMatched
<1>3. ASSUME NEW s \in Operators, DeviceStep(s) PROVE Matched
  <2>1. CASE Unname(s)
    BY <2>1, StopMatched DEF Unname
  <2> QED
    BY <1>3, <2>1, DeviceRequestsMatched, RenameCommitsMatched, DeleteDeviceMatched,
       ReleaseDeviceMatched, QueriesMatched DEF DeviceStep
<1>4. ASSUME NEW s \in Operators, VehicleStep(s) PROVE Matched
  BY <1>4, VehicleRequestsMatched, QueriesMatched, ListMatched, ClearOneMatched,
     DeleteVehicleMatched DEF VehicleStep
<1>5. ASSUME NEW s \in Operators, AssignStep(s) \/ Refused(s) \/ Fails(s) PROVE Matched
  <2>1. CASE NoSuchDevice(s) \/ Refused(s) \/ Fails(s)
    BY <2>1, StopMatched DEF NoSuchDevice, Refused, Fails, tables
  <2> QED
    BY <1>5, <2>1, DeviceRequestsMatched, QueriesMatched, AssignCommitsMatched
       DEF AssignStep
<1>6. ASSUME NEW k \in Packets, PacketStep(k) PROVE Matched
  <2>1. UNCHANGED <<devices, op>>
    BY <1>6 DEF PacketStep, Receive, ReadVehicle, UpdateFromTelemetry, tables
  <2> QED
    BY <2>1, OthersMatched
<1> QED
  BY <1>1, <1>2, <1>3, <1>4, <1>5, <1>6 DEF Next, AtBound

LEMMA MatchInvStays == OneAtATime /\ MatchInv /\ [Next]_vars => MatchInv'
BY StepTyped, StepMatched DEF MatchInv, Matched

(* When requests are handled one at a time, a device is "assigned", and    *)
(* may not be removed, exactly while it has a vehicle                      *)
(* (devices.service.ts:177-183), however requests fail in between.         *)
THEOREM StatusStaysRight == ASSUME OneAtATime PROVE Spec => []StatusAgrees
<1>1. Init => MatchInv
  BY InitMatched
<1>2. MatchInv /\ [Next]_vars => MatchInv'
  BY MatchInvStays
<1>3. MatchInv => StatusAgrees
  BY DEF MatchInv
<1> QED
  BY <1>1, <1>2, <1>3, PTL DEF Spec

(* When requests are handled one at a time, the assignment is a matching:  *)
(* every step assigns one device, releases one, or changes no vehicle of   *)
(* a device.                                                               *)
THEOREM ImplementsMatching == ASSUME OneAtATime PROVE Spec => MatchingSpec
<1>1. Init => MatchInv /\ Pairing!Init
  BY InitMatched
<1>2. MatchInv /\ [Next]_vars => MatchInv'
  BY MatchInvStays
<1>3. MatchInv /\ [Next]_vars => [Pairing!Next]_[d \in Devices |-> devices[d].vehicle]
  BY StepMatched DEF Matched, Serves
<1> QED
  BY <1>1, <1>2, <1>3, PTL DEF Spec, MatchingSpec, Pairing!Spec

(* A vehicle is never served by two devices, while requests are handled    *)
(* one at a time (devices.service.ts:210-226).                             *)
THEOREM OneDeviceServesAVehicle ==
  ASSUME OneAtATime PROVE Spec => []Pairing!OneDevicePerVehicle
<1>1. Init => MatchInv /\ Pairing!Init
  BY InitMatched
<1>2. MatchInv /\ [Next]_vars => MatchInv'
  BY MatchInvStays
<1>3. MatchInv /\ [Next]_vars => Pairing!Next \/ UNCHANGED Serves
  BY StepMatched DEF Matched
<1>4. Pairing!Init => Pairing!OneDevicePerVehicle
  BY DEF Pairing!Init, Pairing!OneDevicePerVehicle
<1>5. ASSUME Pairing!OneDevicePerVehicle, NEW d \in Devices,
             Pairing!Release(d) \/ \E v \in Vehicles : Pairing!Assign(d, v)
      PROVE  Pairing!OneDevicePerVehicle'
  <2> DEFINE of(e) == devices[e].vehicle
  <2>1. \A e, f \in Devices : e # f /\ of(e) = of(f) => of(e) = None
    BY <1>5 DEF Pairing!OneDevicePerVehicle
  <2>2. SUFFICES \A e, f \in Devices : e # f /\ of(e)' = of(f)' => of(e)' = None
    BY DEF Pairing!OneDevicePerVehicle
  <2>3. CASE Pairing!Release(d)
    <3>1. \A e \in Devices : of(e)' = IF e = d THEN None ELSE of(e)
      <4>1. Serves' = [Serves EXCEPT ![d] = None]
        BY <2>3 DEF Pairing!Release, Serves
      <4> QED
        BY <4>1 DEF Serves
    <3> HIDE DEF of
    <3> QED
      BY <2>1, <3>1
  <2>4. ASSUME NEW v \in Vehicles, Pairing!Assign(d, v)
        PROVE  \A e, f \in Devices : e # f /\ of(e)' = of(f)' => of(e)' = None
    <3>1. \A e \in Devices :
            of(e)' = IF e = d THEN v ELSE IF of(e) = v THEN None ELSE of(e)
      <4>1. Serves' = [e \in Devices |-> IF e = d THEN v
                                         ELSE IF Serves[e] = v THEN None ELSE Serves[e]]
        BY <2>4 DEF Pairing!Assign, Serves
      <4> QED
        BY <4>1 DEF Serves
    <3> HIDE DEF of
    <3> QED
      BY <2>1, <3>1
  <2> HIDE DEF of
  <2> QED
    BY <1>5, <2>3, <2>4
<1>6. Pairing!OneDevicePerVehicle /\ (Pairing!Next \/ UNCHANGED Serves)
        => Pairing!OneDevicePerVehicle'
  BY <1>5 DEF Pairing!Next, Pairing!OneDevicePerVehicle, Serves
<1> QED
  BY <1>1, <1>2, <1>3, <1>4, <1>6, PTL DEF Spec

----------------------------------------------------------------------------
(* Both tables tell the same story.  Every vehicle agrees with the table   *)
(* devices, except the one the request in progress works on; what the      *)
(* request has read, and the devices it has left to release, say what is   *)
(* missing until that vehicle agrees, too.                                 *)

AgreesOn(v, devs, vehs) ==
  /\ \A d \in Devices :
       devs[d].state = "row" /\ vehs[v].state = "row" =>
         (devs[d].vehicle = v <=> vehs[v].device = devs[d].uid)
  /\ vehs[v].device # None =>
       \E d \in Devices : devs[d].state = "row" /\ devs[d].uid = vehs[v].device

Working == {"findNamed", "unname", "list", "clear", "removeVehicle",
            "findDevice", "findVehicle", "commit"}
WorksOn(o, v) == o.pc \in Working /\ o.v = v

(* The devices that are left to release, of those of the vehicle. *)
Listed(o, todo, devs) ==
  /\ \A x \in todo : /\ devs[x[1]].state = "row" /\ devs[x[1]].uid = x[2]
                     /\ devs[x[1]].vehicle = o.v
  /\ \A d \in Devices :
       devs[d].vehicle = o.v /\ devs[d].uid # o.uid => <<d, devs[d].uid>> \in todo

Ready(o, devs, vehs) ==
  /\ o.pc \in WithRow => devs[o.d].state = "row" /\ o.dev = devs[o.d]
  /\ o.pc \in {"findNamed", "unname"} =>
       /\ vehs[o.v].state = "row" /\ vehs[o.v].device = o.dev.uid
       /\ \A e \in Devices : devs[e].vehicle # o.v
  /\ o.pc \in {"list", "clear"} /\ ~o.removing => vehs[o.v].device = o.uid
  /\ o.pc = "clear" => Listed(o, o.todo, devs)

Consistent(o, devs, vehs) ==
  /\ \A v \in Vehicles : AgreesOn(v, devs, vehs) \/ WorksOn(o, v)
  /\ \A v \in Vehicles : vehs[v].state # "row" => vehs[v].device = None
  /\ Ready(o, devs, vehs)

(* The request in progress, if there is one. *)
Doing(o) == \/ \E s \in Operators : o = op[s]
            \/ Operators = {} /\ o = Idle

AgreeInv == calm => \A o : Doing(o) => Consistent(o, devices, vehicles)

(* What TypeInv says of a table of devices, in the form used below. *)
Sound(devs, vehs) ==
  /\ \A d \in Devices : devs[d].state = "row" => devs[d].uid # None
  /\ \A d, e \in Devices :
       devs[d].state = "row" /\ devs[e].state = "row" /\ devs[d].uid = devs[e].uid
         => d = e
  /\ \A d \in Devices :
       devs[d].vehicle # None =>
         /\ devs[d].state = "row" /\ devs[d].vehicle \in Vehicles
         /\ vehs[devs[d].vehicle].state = "row"

LEMMA RowsSound == ASSUME TypeInv PROVE Sound(devices, vehicles)
<1>1. \A d \in Devices : devices[d].state = "row" => devices[d].uid # None
  BY NoneIsNoValue DEF TypeInv, RowsOK, HasDevice
<1>2. \A d, e \in Devices :
        /\ devices[d].state = "row" /\ devices[e].state = "row"
        /\ devices[d].uid = devices[e].uid
        => d = e
  BY DEF TypeInv, RowsOK, HasDevice, UniqueUids
<1>3. ASSUME NEW d \in Devices, devices[d].vehicle # None
      PROVE  /\ devices[d].state = "row" /\ devices[d].vehicle \in Vehicles
             /\ vehicles[devices[d].vehicle].state = "row"
  <2>1. devices[d] \in DeviceRow
    BY DEF TypeInv, RowsOK
  <2>2. devices[d].vehicle \in Vehicles
    BY <1>3, <2>1 DEF DeviceRow
  <2> QED
    BY <1>3, <2>2 DEF TypeInv, RowsOK, HasDevice, HasVehicle, ForeignKey
<1> QED
  BY <1>1, <1>2, <1>3 DEF Sound

(* What a step of a request starts from. *)
LEMMA StepFrom ==
  ASSUME MatchInv, AgreeInv, calm, NEW s \in Operators
  PROVE  /\ Consistent(op[s], devices, vehicles)
         /\ Sound(devices, vehicles)
         /\ Formed(op[s]) /\ op[s] \in Request /\ Loaded(op[s], devices)
         /\ devices \in [Devices -> DeviceRow]
         /\ vehicles \in [Vehicles -> VehicleRow]
         /\ op \in [Operators -> Request]
<1>1. Consistent(op[s], devices, vehicles)
  BY DEF AgreeInv, Doing
<1> QED
  BY <1>1, RowsSound
  DEF MatchInv, TypeInv, RowsOK, RequestsOK, AllLoaded

(* What it has to show. *)
LEMMA StepTo ==
  ASSUME OneAtATime, MatchInv, NEW s \in Operators, NEW o,
         op' = [op EXCEPT ![s] = o], Consistent(o, devices', vehicles')
  PROVE  AgreeInv'
<1>1. \A t \in Operators : op'[t] = o
  BY DEF OneAtATime, MatchInv, TypeInv, RequestsOK
<1>2. \A x : Doing(x)' => x = o
  BY <1>1 DEF Doing
<1> QED
  BY <1>2 DEF AgreeInv

LEMMA IdleConsistent ==
  ASSUME NEW devs, NEW vehs,
         \A v \in Vehicles : AgreesOn(v, devs, vehs),
         \A v \in Vehicles : vehs[v].state # "row" => vehs[v].device = None
  PROVE  Consistent(Idle, devs, vehs)
<1>1. Idle.pc = "idle"
  BY DEF Idle
<1> QED
  BY <1>1 DEF Consistent, Ready, WithRow

(* A request that is at none of the places of Working has a sound table.   *)
LEMMA NothingBroken ==
  ASSUME NEW o, NEW devs, NEW vehs, Consistent(o, devs, vehs), o.pc \notin Working
  PROVE  \A v \in Vehicles : AgreesOn(v, devs, vehs)
BY DEF Consistent, WorksOn

(* The row of a vehicle decides, and the rows of devices, without status.  *)
LEMMA AgreesAlike ==
  ASSUME NEW v, NEW devs, NEW vehs, NEW devs2, NEW vehs2,
         AgreesOn(v, devs, vehs), vehs2[v] = vehs[v],
         \A d \in Devices :
           /\ devs2[d].state = devs[d].state /\ devs2[d].uid = devs[d].uid
           /\ devs2[d].vehicle = v <=> devs[d].vehicle = v
  PROVE  AgreesOn(v, devs2, vehs2)
BY DEF AgreesOn

----------------------------------------------------------------------------
(* Requests arrive. *)

LEMMA ArrivalAgrees ==
  ASSUME OneAtATime, MatchInv, AgreeInv, calm, NEW s \in Operators, NEW o,
         Asked(s, o), Ready(o, devices, vehicles)
  PROVE  AgreeInv'
<1>1. op' = [op EXCEPT ![s] = o] /\ UNCHANGED <<devices, vehicles>>
      /\ op[s].pc = "idle"
  BY DEF Asked, Busy, tables
<1>2. Consistent(op[s], devices, vehicles)
  BY StepFrom
<1>3. \A v \in Vehicles : AgreesOn(v, devices, vehicles)
  BY <1>1, <1>2, NothingBroken DEF Working
<1>4. Consistent(o, devices, vehicles)
  BY <1>2, <1>3 DEF Consistent
<1> QED
  BY <1>1, <1>4, StepTo

LEMMA ArrivalsAgree ==
  ASSUME OneAtATime, MatchInv, AgreeInv, calm, NEW s \in Operators,
         \/ \E d \in Devices, uid \in Uids : Rename(s, d, uid)
         \/ \E d \in Devices : RemoveDevice(s, d) \/ Unassign(s, d)
         \/ \E d \in Devices, v \in Vehicles : Assign(s, d, v)
         \/ \E v \in Vehicles, uid \in Uids \cup {None} : UpdateVehicle(s, v, uid)
         \/ \E v \in Vehicles : RemoveVehicle(s, v)
  PROVE  AgreeInv'
<1>1. ASSUME NEW d \in Devices, NEW uid \in Uids, Rename(s, d, uid)
      PROVE  AgreeInv'
  <2> DEFINE o == [Idle EXCEPT !.pc = "rename", !.d = d, !.dev = devices[d],
                               !.uid = uid]
  <2>1. o.pc = "rename" /\ o.d = d /\ o.dev = devices[d]
    BY DEF Idle
  <2>2. Asked(s, o) /\ devices[d].state = "row"
    BY <1>1 DEF Rename, HasDevice
  <2> HIDE DEF o
  <2>3. Ready(o, devices, vehicles)
    BY <2>1, <2>2 DEF Ready
  <2> QED
    BY <2>2, <2>3, ArrivalAgrees
<1>2. ASSUME NEW d \in Devices, RemoveDevice(s, d)
      PROVE  AgreeInv'
  <2> DEFINE o == [Idle EXCEPT !.pc = "removeDevice", !.d = d]
  <2>1. o.pc = "removeDevice"
    BY DEF Idle
  <2>2. Asked(s, o)
    BY <1>2 DEF RemoveDevice
  <2> HIDE DEF o
  <2>3. Ready(o, devices, vehicles)
    BY <2>1 DEF Ready, WithRow
  <2> QED
    BY <2>2, <2>3, ArrivalAgrees
<1>3. ASSUME NEW d \in Devices, Unassign(s, d)
      PROVE  AgreeInv'
  <2> DEFINE o == [Idle EXCEPT !.pc = "release", !.d = d, !.dev = devices[d]]
  <2>1. o.pc = "release" /\ o.d = d /\ o.dev = devices[d]
    BY DEF Idle
  <2>2. Asked(s, o) /\ devices[d].state = "row"
    BY <1>3 DEF Unassign, HasDevice
  <2> HIDE DEF o
  <2>3. Ready(o, devices, vehicles)
    BY <2>1, <2>2 DEF Ready
  <2> QED
    BY <2>2, <2>3, ArrivalAgrees
<1>4. ASSUME NEW d \in Devices, NEW v \in Vehicles, Assign(s, d, v)
      PROVE  AgreeInv'
  <2> DEFINE o == [Idle EXCEPT !.pc = "findVehicle", !.d = d, !.v = v,
                               !.dev = devices[d]]
  <2>1. o.pc = "findVehicle" /\ o.d = d /\ o.dev = devices[d]
    BY DEF Idle
  <2>2. Asked(s, o) /\ devices[d].state = "row"
    BY <1>4 DEF Assign, HasDevice
  <2> HIDE DEF o
  <2>3. Ready(o, devices, vehicles)
    BY <2>1, <2>2 DEF Ready
  <2> QED
    BY <2>2, <2>3, ArrivalAgrees
<1>5. ASSUME NEW v \in Vehicles, NEW uid \in Uids \cup {None}, UpdateVehicle(s, v, uid)
      PROVE  AgreeInv'
  <2> DEFINE o == [Idle EXCEPT !.pc = "saveVehicle", !.v = v, !.uid = uid,
                               !.veh = vehicles[v]]
  <2>1. o.pc = "saveVehicle"
    BY DEF Idle
  <2>2. Asked(s, o)
    BY <1>5 DEF UpdateVehicle
  <2> HIDE DEF o
  <2>3. Ready(o, devices, vehicles)
    BY <2>1 DEF Ready, WithRow
  <2> QED
    BY <2>2, <2>3, ArrivalAgrees
<1>6. ASSUME NEW v \in Vehicles, RemoveVehicle(s, v)
      PROVE  AgreeInv'
  <2> DEFINE o == [Idle EXCEPT !.pc = "list", !.v = v, !.removing = TRUE]
  <2>1. o.pc = "list" /\ o.removing = TRUE
    BY DEF Idle
  <2>2. Asked(s, o)
    BY <1>6 DEF RemoveVehicle
  <2> HIDE DEF o
  <2>3. Ready(o, devices, vehicles)
    BY <2>1 DEF Ready, WithRow
  <2> QED
    BY <2>2, <2>3, ArrivalAgrees
<1> QED
  BY <1>1, <1>2, <1>3, <1>4, <1>5, <1>6

LEMMA CreateVehicleAgrees ==
  ASSUME OneAtATime, MatchInv, AgreeInv, calm, NEW s \in Operators,
         NEW v \in Vehicles, NEW uid \in Uids \cup {None}, CreateVehicle(s, v, uid)
  PROVE  AgreeInv'
<1>1. /\ Consistent(op[s], devices, vehicles) /\ Sound(devices, vehicles)
      /\ vehicles \in [Vehicles -> VehicleRow] /\ op \in [Operators -> Request]
  BY StepFrom
<1>2. /\ op[s].pc = "idle" /\ vehicles[v].state = "new"
      /\ vehicles' = [vehicles EXCEPT ![v] = Naming(uid)] /\ UNCHANGED devices
  BY DEF CreateVehicle, Busy
<1>3. /\ vehicles'[v].state = "row" /\ vehicles'[v].device = uid
      /\ \A w \in Vehicles \ {v} : vehicles'[w] = vehicles[w]
  BY <1>1, <1>2 DEF Naming
<1>4. \A w \in Vehicles : AgreesOn(w, devices, vehicles)
  BY <1>1, <1>2, NothingBroken DEF Working
<1>5. \A w \in Vehicles \ {v} : AgreesOn(w, devices', vehicles')
  BY <1>2, <1>3, <1>4, AgreesAlike
<1>6. \A w \in Vehicles : vehicles'[w].state # "row" => vehicles'[w].device = None
  BY <1>1, <1>3 DEF Consistent
<1>7. CASE uid = None
  <2>1. \A d \in Devices : devices[d].vehicle # v
    BY <1>1, <1>2, NoneIsNoValue DEF Sound
  <2>2. AgreesOn(v, devices', vehicles')
    BY <1>1, <1>2, <1>3, <1>7, <2>1 DEF AgreesOn, Sound
  <2>3. Consistent(op[s], devices', vehicles')
    <3>1. Ready(op[s], devices', vehicles')
      BY <1>2 DEF Ready, WithRow
    <3> QED
      BY <1>5, <1>6, <2>2, <3>1 DEF Consistent
  <2>4. op' = [op EXCEPT ![s] = op[s]]
    BY <1>1, <1>7 DEF CreateVehicle
  <2> QED
    BY <2>3, <2>4, StepTo
<1>8. CASE uid # None
  <2> DEFINE o == [Idle EXCEPT !.pc = "findDevice", !.v = v, !.uid = uid]
  <2>1. o.pc = "findDevice" /\ o.v = v
    BY DEF Idle
  <2>2. op' = [op EXCEPT ![s] = o]
    BY <1>8 DEF CreateVehicle
  <2> HIDE DEF o
  <2>3. Ready(o, devices', vehicles')
    BY <2>1 DEF Ready, WithRow
  <2>4. Consistent(o, devices', vehicles')
    BY <1>5, <1>6, <2>1, <2>3 DEF Consistent, WorksOn, Working
  <2> QED
    BY <2>2, <2>4, StepTo
<1> QED
  BY <1>7, <1>8

----------------------------------------------------------------------------
(* Steps of a request that write no row, or only the one of its vehicle.   *)

LEMMA SaveVehicleAgrees ==
  ASSUME OneAtATime, MatchInv, AgreeInv, calm, NEW s \in Operators, SaveVehicle(s)
  PROVE  AgreeInv'
<1> DEFINE o == op[s]
           next == IF o.uid = None \/ o.veh.device # o.uid THEN "list" ELSE "findDevice"
           n == [o EXCEPT !.pc = next]
<1>1. /\ Consistent(o, devices, vehicles) /\ o \in Request /\ Formed(o)
      /\ vehicles \in [Vehicles -> VehicleRow]
  BY StepFrom
<1>2. /\ o.pc = "saveVehicle"
      /\ vehicles' = [vehicles EXCEPT ![o.v] = Naming(o.uid)]
      /\ op' = [op EXCEPT ![s] = n] /\ UNCHANGED devices
  BY DEF SaveVehicle
<1>3. o.v \in Vehicles
  BY <1>1, <1>2 DEF Formed, WithVehicle
<1>4. next \in {"list", "findDevice"}
  OBVIOUS
<1> HIDE DEF next
<1>5. n.pc = next /\ n.v = o.v /\ n.uid = o.uid
  BY <1>1 DEF Request
<1>6. /\ vehicles'[o.v].state = "row" /\ vehicles'[o.v].device = o.uid
      /\ \A w \in Vehicles \ {o.v} : vehicles'[w] = vehicles[w]
  BY <1>1, <1>2, <1>3 DEF Naming
<1>7. \A w \in Vehicles \ {o.v} : AgreesOn(w, devices', vehicles')
  <2>1. \A w \in Vehicles : AgreesOn(w, devices, vehicles)
    BY <1>1, <1>2, NothingBroken DEF Working
  <2> QED
    BY <1>2, <1>6, <2>1, AgreesAlike
<1>8. \A w \in Vehicles : vehicles'[w].state # "row" => vehicles'[w].device = None
  BY <1>1, <1>6 DEF Consistent
<1> HIDE DEF o, n
<1>9. Ready(n, devices', vehicles')
  BY <1>4, <1>5, <1>6 DEF Ready, WithRow
<1>10. Consistent(n, devices', vehicles')
  BY <1>4, <1>5, <1>7, <1>8, <1>9 DEF Consistent, WorksOn, Working
<1> QED
  BY <1>2, <1>10, StepTo

(* After the devices of a vehicle were found, and after each was released. *)
LEMMA AfterListConsistent ==
  ASSUME NEW o \in Request, o.v \in Vehicles, NEW todo, NEW devs, NEW vehs,
         \A w \in Vehicles \ {o.v} : AgreesOn(w, devs, vehs),
         \A w \in Vehicles : vehs[w].state # "row" => vehs[w].device = None,
         ~o.removing => vehs[o.v].device = o.uid,
         Listed(o, todo, devs),
         Sound(devs, vehs)
  PROVE  Consistent(AfterList(o, todo), devs, vehs)
<1> DEFINE n(p, t) == [o EXCEPT !.pc = p, !.todo = t]
<1>1. ASSUME NEW p, NEW t
      PROVE  /\ n(p, t).pc = p /\ n(p, t).todo = t /\ n(p, t).v = o.v
             /\ n(p, t).uid = o.uid /\ n(p, t).removing = o.removing
  BY DEF Request
<1>2. \/ AfterList(o, todo) = n("clear", todo)
      \/ AfterList(o, todo) = n("removeVehicle", {})
      \/ AfterList(o, todo) = n("findDevice", {})
      \/ todo = {} /\ ~o.removing /\ o.uid = None /\ AfterList(o, todo) = Idle
  BY DEF AfterList
<1> HIDE DEF n
<1>3. Consistent(n("clear", todo), devs, vehs)
  <2> DEFINE m == n("clear", todo)
  <2>1. /\ m.pc = "clear" /\ m.todo = todo /\ m.v = o.v /\ m.uid = o.uid
        /\ m.removing = o.removing
    BY <1>1
  <2> HIDE DEF m
  <2>2. Listed(m, m.todo, devs)
    BY <2>1 DEF Listed
  <2>3. Ready(m, devs, vehs)
    BY <2>1, <2>2 DEF Ready, WithRow
  <2>4. Consistent(m, devs, vehs)
    BY <2>1, <2>3 DEF Consistent, WorksOn, Working
  <2> QED
    BY <2>4 DEF m
<1>4. ASSUME NEW p \in {"removeVehicle", "findDevice"}
      PROVE  Consistent(n(p, {}), devs, vehs)
  <2> DEFINE m == n(p, {})
  <2>1. m.pc = p /\ m.v = o.v
    BY <1>1
  <2> HIDE DEF m
  <2>2. Ready(m, devs, vehs)
    BY <1>4, <2>1 DEF Ready, WithRow
  <2>3. Consistent(m, devs, vehs)
    BY <1>4, <2>1, <2>2 DEF Consistent, WorksOn, Working
  <2> QED
    BY <2>3 DEF m
<1>5. ASSUME todo = {}, ~o.removing, o.uid = None
      PROVE  Consistent(Idle, devs, vehs)
  <2>1. \A d \in Devices : devs[d].vehicle # o.v
    <3> SUFFICES ASSUME NEW d \in Devices, devs[d].vehicle = o.v
                 PROVE  FALSE
      OBVIOUS
    <3>1. devs[d].state = "row" /\ devs[d].uid # None
      BY NoneIsNoValue DEF Sound
    <3>2. <<d, devs[d].uid>> \in todo
      BY <1>5, <3>1 DEF Listed
    <3> QED
      BY <1>5, <3>2
  <2>2. AgreesOn(o.v, devs, vehs)
    BY <1>5, <2>1 DEF AgreesOn, Sound
  <2> QED
    BY <2>2, IdleConsistent
<1> QED
  BY <1>2, <1>3, <1>4, <1>5

LEMMA ListAgrees ==
  ASSUME OneAtATime, MatchInv, AgreeInv, calm, NEW s \in Operators, List(s)
  PROVE  AgreeInv'
<1> DEFINE o == op[s]
           S == {e \in Devices : /\ HasDevice(e)
                                 /\ devices[e].vehicle = o.v
                                 /\ devices[e].uid # o.uid}
           todo == {<<d, devices[d].uid>> : d \in S}
<1>1. /\ Consistent(o, devices, vehicles) /\ o \in Request /\ Formed(o)
      /\ Sound(devices, vehicles)
  BY StepFrom
<1>2. /\ o.pc = "list" /\ UNCHANGED <<devices, vehicles>>
      /\ op' = [op EXCEPT ![s] = AfterList(o, todo)]
  BY DEF List, Continues, tables
<1>3. o.v \in Vehicles
  BY <1>1, <1>2 DEF Formed, WithVehicle
<1>4. Listed(o, todo, devices)
  <2>1. ASSUME NEW x \in todo
        PROVE  /\ devices[x[1]].state = "row" /\ devices[x[1]].uid = x[2]
               /\ devices[x[1]].vehicle = o.v
    <3>1. PICK d \in S : x = <<d, devices[d].uid>>
      OBVIOUS
    <3> QED
      BY <3>1 DEF HasDevice
  <2>2. ASSUME NEW d \in Devices, devices[d].vehicle = o.v, devices[d].uid # o.uid
        PROVE  <<d, devices[d].uid>> \in todo
    <3>1. devices[d].state = "row"
      BY <1>1, <1>3, <2>2, NoneIsNoValue DEF Sound
    <3> QED
      BY <2>2, <3>1 DEF HasDevice
  <2> QED
    BY <2>1, <2>2 DEF Listed
<1> HIDE DEF todo
<1>5. /\ \A w \in Vehicles \ {o.v} : AgreesOn(w, devices, vehicles)
      /\ ~o.removing => vehicles[o.v].device = o.uid
      /\ \A w \in Vehicles : vehicles[w].state # "row" => vehicles[w].device = None
  BY <1>1, <1>2 DEF Consistent, WorksOn, Ready
<1>6. Consistent(AfterList(o, todo), devices, vehicles)
  BY <1>1, <1>3, <1>4, <1>5, AfterListConsistent
<1> QED
  BY <1>2, <1>6, StepTo

LEMMA FindNamedAgrees ==
  ASSUME OneAtATime, MatchInv, AgreeInv, calm, NEW s \in Operators, FindNamed(s)
  PROVE  AgreeInv'
<1> DEFINE o == op[s]
           n == [o EXCEPT !.pc = "unname"]
<1>1. Consistent(o, devices, vehicles) /\ o \in Request /\ op \in [Operators -> Request]
  BY StepFrom
<1>2. o.pc = "findNamed" /\ UNCHANGED <<devices, vehicles>>
  BY DEF FindNamed, tables
<1>3. /\ vehicles[o.v].state = "row" /\ vehicles[o.v].device = o.dev.uid
      /\ \A e \in Devices : devices[e].vehicle # o.v
  BY <1>1, <1>2 DEF Consistent, Ready
<1>4. op' = [op EXCEPT ![s] = n]
  BY <1>1, <1>3 DEF FindNamed, HasVehicle
<1>5. n.pc = "unname" /\ n.v = o.v /\ n.dev = o.dev
  BY <1>1 DEF Request
<1> HIDE DEF o, n
<1>6. Ready(n, devices, vehicles)
  BY <1>3, <1>5 DEF Ready, WithRow
<1>7. Consistent(n, devices, vehicles)
  BY <1>1, <1>2, <1>5, <1>6 DEF Consistent, WorksOn, Working
<1> QED
  BY <1>2, <1>4, <1>7, StepTo

LEMMA UnnameAgrees ==
  ASSUME OneAtATime, MatchInv, AgreeInv, calm, NEW s \in Operators, Unname(s)
  PROVE  AgreeInv'
<1> DEFINE o == op[s]
<1>1. /\ Consistent(o, devices, vehicles) /\ Formed(o) /\ Sound(devices, vehicles)
      /\ vehicles \in [Vehicles -> VehicleRow]
  BY StepFrom
<1>2. /\ o.pc = "unname" /\ UNCHANGED devices
      /\ vehicles' = [vehicles EXCEPT ![o.v] = Naming(None)]
      /\ op' = [op EXCEPT ![s] = Idle]
  BY DEF Unname, Ends
<1>3. o.v \in Vehicles
  BY <1>1, <1>2 DEF Formed, WithVehicle
<1>4. /\ vehicles'[o.v].state = "row" /\ vehicles'[o.v].device = None
      /\ \A w \in Vehicles \ {o.v} : vehicles'[w] = vehicles[w]
  BY <1>1, <1>2, <1>3 DEF Naming
<1>5. \A w \in Vehicles \ {o.v} : AgreesOn(w, devices', vehicles')
  <2>1. \A w \in Vehicles \ {o.v} : AgreesOn(w, devices, vehicles)
    BY <1>1 DEF Consistent, WorksOn
  <2> QED
    BY <1>2, <1>4, <2>1, AgreesAlike
<1>6. AgreesOn(o.v, devices', vehicles')
  <2>1. \A e \in Devices : devices[e].vehicle # o.v
    BY <1>1, <1>2 DEF Consistent, Ready
  <2> QED
    BY <1>1, <1>2, <1>4, <2>1 DEF AgreesOn, Sound
<1>7. \A w \in Vehicles : vehicles'[w].state # "row" => vehicles'[w].device = None
  BY <1>1, <1>4 DEF Consistent
<1>8. Consistent(Idle, devices', vehicles')
  BY <1>5, <1>6, <1>7, IdleConsistent
<1> QED
  BY <1>2, <1>8, StepTo

LEMMA FindDeviceAgrees ==
  ASSUME OneAtATime, MatchInv, AgreeInv, calm, NEW s \in Operators, FindDevice(s)
  PROVE  AgreeInv'
<1> DEFINE o == op[s]
<1>1. Consistent(o, devices, vehicles) /\ o \in Request /\ op \in [Operators -> Request]
  BY StepFrom
<1>2. PICK d \in Devices :
        /\ devices[d].state = "row"
        /\ op' = [op EXCEPT ![s] = [o EXCEPT !.pc = "findVehicle", !.d = d,
                                             !.dev = devices[d]]]
  BY <1>1 DEF FindDevice, HasDevice
<1>3. o.pc = "findDevice" /\ UNCHANGED <<devices, vehicles>>
  BY DEF FindDevice, tables
<1> DEFINE n == [o EXCEPT !.pc = "findVehicle", !.d = d, !.dev = devices[d]]
<1>4. n.pc = "findVehicle" /\ n.v = o.v /\ n.d = d /\ n.dev = devices[d]
  BY <1>1 DEF Request
<1>5. op' = [op EXCEPT ![s] = n]
  BY <1>2
<1> HIDE DEF o, n
<1>6. Ready(n, devices, vehicles)
  BY <1>2, <1>4 DEF Ready
<1>7. Consistent(n, devices, vehicles)
  BY <1>1, <1>3, <1>4, <1>6 DEF Consistent, WorksOn, Working
<1> QED
  BY <1>3, <1>5, <1>7, StepTo

LEMMA FindVehicleAgrees ==
  ASSUME OneAtATime, MatchInv, AgreeInv, calm, NEW s \in Operators, FindVehicle(s)
  PROVE  AgreeInv'
<1> DEFINE o == op[s]
           n == [o EXCEPT !.pc = "commit"]
<1>1. /\ Consistent(o, devices, vehicles) /\ o \in Request /\ Formed(o)
      /\ op \in [Operators -> Request]
      /\ o.pc = "findVehicle" /\ UNCHANGED <<devices, vehicles>>
  BY StepFrom DEF FindVehicle, tables
<1>2. o.v \in Vehicles
  BY <1>1 DEF Formed, WithVehicle
<1>3. CASE HasVehicle(o.v)
  <2>1. op' = [op EXCEPT ![s] = n]
    BY <1>1, <1>3 DEF FindVehicle
  <2>2. n.pc = "commit" /\ n.v = o.v /\ n.d = o.d /\ n.dev = o.dev
    BY <1>1 DEF Request
  <2> HIDE DEF o, n
  <2>3. Ready(n, devices, vehicles)
    BY <1>1, <2>2 DEF Ready, WithRow, Consistent
  <2>4. Consistent(n, devices, vehicles)
    BY <1>1, <2>2, <2>3 DEF Consistent, WorksOn, Working
  <2> QED
    BY <1>1, <2>1, <2>4, StepTo
<1>4. CASE ~HasVehicle(o.v)
  <2>1. op' = [op EXCEPT ![s] = Idle]
    BY <1>4 DEF FindVehicle, Ends
  <2> HIDE DEF o
  <2>2. AgreesOn(o.v, devices, vehicles)
    BY <1>1, <1>2, <1>4 DEF HasVehicle, Consistent, AgreesOn
  <2>3. Consistent(Idle, devices, vehicles)
    BY <1>1, <2>2, IdleConsistent DEF Consistent, WorksOn
  <2> QED
    BY <1>1, <2>1, <2>3, StepTo
<1> QED
  BY <1>3, <1>4

LEMMA DeleteVehicleAgrees ==
  ASSUME OneAtATime, MatchInv, AgreeInv, calm, NEW s \in Operators, DeleteVehicle(s)
  PROVE  AgreeInv'
<1> DEFINE o == op[s]
<1>1. /\ Consistent(o, devices, vehicles) /\ Formed(o) /\ Loaded(o, devices)
      /\ vehicles \in [Vehicles -> VehicleRow] /\ devices \in [Devices -> DeviceRow]
  BY StepFrom
<1>2. /\ o.pc = "removeVehicle"
      /\ vehicles' = [vehicles EXCEPT ![o.v] = NoVehicle("gone")]
      /\ op' = [op EXCEPT ![s] = Idle]
  BY DEF DeleteVehicle, Ends
<1>3. o.v \in Vehicles /\ \A e \in Devices : devices[e].vehicle # o.v
  BY <1>1, <1>2 DEF Formed, WithVehicle, Loaded
<1>4. \A e \in Devices : devices'[e] = devices[e]
  BY <1>3 DEF DeleteVehicle
<1>5. /\ vehicles'[o.v].state = "gone" /\ vehicles'[o.v].device = None
      /\ \A w \in Vehicles \ {o.v} : vehicles'[w] = vehicles[w]
  BY <1>1, <1>2, <1>3 DEF NoVehicle
<1>6. \A w \in Vehicles \ {o.v} : AgreesOn(w, devices', vehicles')
  <2>1. \A w \in Vehicles \ {o.v} : AgreesOn(w, devices, vehicles)
    BY <1>1 DEF Consistent, WorksOn
  <2> QED
    BY <1>4, <1>5, <2>1, AgreesAlike
<1>7. AgreesOn(o.v, devices', vehicles')
  BY <1>5 DEF AgreesOn
<1>8. \A w \in Vehicles : vehicles'[w].state # "row" => vehicles'[w].device = None
  BY <1>1, <1>5 DEF Consistent
<1>9. Consistent(Idle, devices', vehicles')
  BY <1>6, <1>7, <1>8, IdleConsistent
<1> QED
  BY <1>2, <1>9, StepTo

----------------------------------------------------------------------------
(* Steps that write rows of devices. *)

(* The row of one device loses its vehicle, and keeps its uid.             *)
LEMMA ReleasedRow ==
  ASSUME MatchInv, NEW d \in Devices, devices[d].state = "row",
         devices' = [devices EXCEPT ![d] = Unassigned(devices[d].uid)],
         UNCHANGED vehicles
  PROVE  /\ devices'[d].state = "row" /\ devices'[d].uid = devices[d].uid
         /\ devices'[d].vehicle = None
         /\ \A e \in Devices \ {d} : devices'[e] = devices[e]
         /\ Sound(devices', vehicles')
         /\ \A w \in Vehicles :
              w # devices[d].vehicle /\ AgreesOn(w, devices, vehicles)
                => AgreesOn(w, devices', vehicles')
<1>1. devices \in [Devices -> DeviceRow] /\ Sound(devices, vehicles)
  BY RowsSound DEF MatchInv, TypeInv, RowsOK
<1>2. /\ devices'[d].state = "row" /\ devices'[d].uid = devices[d].uid
      /\ devices'[d].vehicle = None
      /\ \A e \in Devices \ {d} : devices'[e] = devices[e]
  BY <1>1 DEF Unassigned
<1>3. \A e \in Devices :
        /\ devices'[e].state = devices[e].state /\ devices'[e].uid = devices[e].uid
        /\ devices'[e].vehicle # None => devices'[e].vehicle = devices[e].vehicle
  BY <1>2
<1>4. Sound(devices', vehicles')
  BY <1>1, <1>3 DEF Sound
<1>5. ASSUME NEW w \in Vehicles, w # devices[d].vehicle, AgreesOn(w, devices, vehicles)
      PROVE  AgreesOn(w, devices', vehicles')
  <2>1. w # None
    BY NoneIsNoValue
  <2>2. \A e \in Devices : devices'[e].vehicle = w <=> devices[e].vehicle = w
    BY <1>2, <1>5, <2>1
  <2>3. vehicles'[w] = vehicles[w]
    OBVIOUS
  <2>4. \A e \in Devices :
          /\ devices'[e].state = devices[e].state /\ devices'[e].uid = devices[e].uid
          /\ devices'[e].vehicle = w <=> devices[e].vehicle = w
    BY <1>3, <2>2
  <2> QED
    BY <1>5, <2>3, <2>4 DEF AgreesOn
<1> QED
  BY <1>2, <1>4, <1>5

LEMMA ReleaseDeviceAgrees ==
  ASSUME OneAtATime, MatchInv, AgreeInv, calm, NEW s \in Operators, ReleaseDevice(s)
  PROVE  AgreeInv'
<1> DEFINE o == op[s]
           v == o.dev.vehicle
           n == [o EXCEPT !.pc = "findNamed", !.v = v]
<1>1. /\ Consistent(o, devices, vehicles) /\ Sound(devices, vehicles)
      /\ o \in Request /\ Formed(o) /\ op \in [Operators -> Request]
      /\ o.pc = "release" /\ UNCHANGED vehicles
  BY StepFrom DEF ReleaseDevice
<1>2. o.d \in Devices /\ devices[o.d].state = "row" /\ o.dev = devices[o.d]
  BY <1>1 DEF Formed, WithDevice, WithRow, Consistent, Ready
<1>3. devices' = [devices EXCEPT ![o.d] = Unassigned(devices[o.d].uid)]
  BY <1>2 DEF ReleaseDevice
<1>4. /\ devices'[o.d].state = "row" /\ devices'[o.d].uid = devices[o.d].uid
      /\ devices'[o.d].vehicle = None
      /\ \A e \in Devices \ {o.d} : devices'[e] = devices[e]
  BY <1>1, <1>2, <1>3, ReleasedRow
<1>5. \A w \in Vehicles : AgreesOn(w, devices, vehicles)
  BY <1>1, NothingBroken DEF Working
<1>6. \A w \in Vehicles : w # v => AgreesOn(w, devices', vehicles')
  BY <1>1, <1>2, <1>3, <1>5, ReleasedRow
<1>7. \A w \in Vehicles : vehicles'[w].state # "row" => vehicles'[w].device = None
  BY <1>1 DEF Consistent
<1>8. CASE v = None
  <2>1. op' = [op EXCEPT ![s] = Idle]
    BY <1>8 DEF ReleaseDevice, Ends
  <2>2. \A w \in Vehicles : AgreesOn(w, devices', vehicles')
    BY <1>6, <1>8, NoneIsNoValue
  <2>3. Consistent(Idle, devices', vehicles')
    BY <1>7, <2>2, IdleConsistent
  <2> QED
    BY <2>1, <2>3, StepTo
<1>9. CASE v # None
  <2>1. op' = [op EXCEPT ![s] = n]
    BY <1>9 DEF ReleaseDevice
  <2>2. n.pc = "findNamed" /\ n.v = v /\ n.dev = o.dev
    BY <1>1 DEF Request
  <2>3. v \in Vehicles /\ vehicles[v].state = "row"
    BY <1>1, <1>2, <1>9 DEF Sound
  <2>4. vehicles[v].device = o.dev.uid
    BY <1>2, <1>5, <2>3 DEF AgreesOn
  <2>5. \A e \in Devices \ {o.d} : devices[e].vehicle # v
    <3> SUFFICES ASSUME NEW e \in Devices \ {o.d}, devices[e].vehicle = v PROVE FALSE
      OBVIOUS
    <3>1. devices[e].state = "row"
      BY <1>1, <1>9 DEF Sound
    <3>2. vehicles[v].device = devices[e].uid
      BY <1>5, <2>3, <3>1 DEF AgreesOn
    <3> QED
      BY <1>1, <1>2, <2>4, <3>1, <3>2 DEF Sound
  <2>6. \A e \in Devices : devices'[e].vehicle # v
    BY <1>4, <1>9, <2>5
  <2> HIDE DEF n
  <2>7. Ready(n, devices', vehicles')
    BY <1>1, <2>2, <2>3, <2>4, <2>6 DEF Ready, WithRow
  <2>8. Consistent(n, devices', vehicles')
    BY <1>6, <1>7, <2>2, <2>7 DEF Consistent, WorksOn, Working
  <2> QED
    BY <2>1, <2>8, StepTo
<1> QED
  BY <1>8, <1>9

LEMMA ClearOneAgrees ==
  ASSUME OneAtATime, MatchInv, AgreeInv, calm, NEW s \in Operators,
         NEW x \in Devices \X Uids, ClearOne(s, x)
  PROVE  AgreeInv'
<1> DEFINE o == op[s]
           todo == o.todo \ {x}
<1>1. /\ Consistent(o, devices, vehicles) /\ o \in Request /\ Formed(o)
      /\ o.pc = "clear" /\ x \in o.todo /\ UNCHANGED vehicles
  BY StepFrom DEF ClearOne
<1>2. /\ Listed(o, o.todo, devices)
      /\ ~o.removing => vehicles[o.v].device = o.uid
      /\ \A w \in Vehicles : vehicles[w].state # "row" => vehicles[w].device = None
      /\ \A w \in Vehicles \ {o.v} : AgreesOn(w, devices, vehicles)
  BY <1>1 DEF Consistent, Ready, WorksOn
<1>3. o.v \in Vehicles /\ x[1] \in Devices /\ x = <<x[1], x[2]>>
  BY <1>1 DEF Formed, WithVehicle
<1>4. /\ devices[x[1]].state = "row" /\ devices[x[1]].uid = x[2]
      /\ devices[x[1]].vehicle = o.v
  BY <1>1, <1>2 DEF Listed
<1>5. devices' = [devices EXCEPT ![x[1]] = Unassigned(devices[x[1]].uid)]
  BY <1>4 DEF ClearOne
<1>6. /\ devices'[x[1]].uid = x[2] /\ devices'[x[1]].vehicle = None
      /\ \A e \in Devices \ {x[1]} : devices'[e] = devices[e]
      /\ Sound(devices', vehicles')
  BY <1>1, <1>3, <1>4, <1>5, ReleasedRow
<1>7. \A w \in Vehicles \ {o.v} : AgreesOn(w, devices', vehicles')
  BY <1>1, <1>2, <1>3, <1>4, <1>5, ReleasedRow
<1>8. Listed(o, todo, devices')
  <2>1. ASSUME NEW y \in todo
        PROVE  /\ devices'[y[1]].state = "row" /\ devices'[y[1]].uid = y[2]
               /\ devices'[y[1]].vehicle = o.v
    <3>1. /\ devices[y[1]].state = "row" /\ devices[y[1]].uid = y[2]
          /\ devices[y[1]].vehicle = o.v
      BY <1>2 DEF Listed
    <3>2. y \in Devices \X Uids
      BY <1>1 DEF Request
    <3>3. y[1] \in Devices /\ y = <<y[1], y[2]>>
      BY <3>2
    <3>4. y[1] # x[1]
      BY <1>3, <1>4, <3>1, <3>3
    <3> QED
      BY <1>6, <3>1, <3>3, <3>4
  <2>2. ASSUME NEW e \in Devices, devices'[e].vehicle = o.v, devices'[e].uid # o.uid
        PROVE  <<e, devices'[e].uid>> \in todo
    <3>1. e # x[1]
      BY <1>3, <1>6, <2>2, NoneIsNoValue
    <3>2. devices'[e] = devices[e]
      BY <1>6, <3>1
    <3>3. <<e, devices[e].uid>> \in o.todo
      BY <1>2, <2>2, <3>2 DEF Listed
    <3>4. <<e, devices[e].uid>> # x
      BY <1>3, <3>1
    <3> QED
      BY <3>2, <3>3, <3>4
  <2> QED
    BY <2>1, <2>2 DEF Listed
<1>9. op' = [op EXCEPT ![s] = AfterList(o, todo)]
  BY DEF ClearOne, Continues
<1> HIDE DEF o, todo
<1>10. Consistent(AfterList(o, todo), devices', vehicles')
  BY <1>1, <1>2, <1>3, <1>6, <1>7, <1>8, AfterListConsistent
<1> QED
  BY <1>9, <1>10, StepTo

LEMMA RenameCommitsAgrees ==
  ASSUME OneAtATime, MatchInv, AgreeInv, calm, NEW s \in Operators, RenameCommits(s)
  PROVE  AgreeInv'
<1> DEFINE o == op[s]
           d == o.d
           r == [o.dev EXCEPT !.uid = o.uid]
           v == r.vehicle
<1>1. /\ Consistent(o, devices, vehicles) /\ Sound(devices, vehicles)
      /\ o \in Request /\ Formed(o) /\ op' = [op EXCEPT ![s] = Idle]
      /\ vehicles \in [Vehicles -> VehicleRow] /\ devices \in [Devices -> DeviceRow]
      /\ o.pc = "rename"
  BY StepFrom DEF RenameCommits, Ends
<1>2. /\ d \in Devices /\ devices[d].state = "row" /\ o.dev = devices[d]
      /\ o.uid \in Uids
  BY <1>1 DEF Formed, WithDevice, WithRow, Consistent, Ready
<1>3. r.state = "row" /\ r.uid = o.uid /\ r.vehicle = devices[d].vehicle
  BY <1>1, <1>2 DEF DeviceRow
<1>4. \A e \in Devices \ {d} : devices[e].state = "row" => devices[e].uid # r.uid
  BY DEF RenameCommits, Storable, UidFree, HasDevice
<1>5. /\ devices'[d] = r
      /\ \A e \in Devices \ {d} : devices'[e] = devices[e]
  BY <1>1, <1>2 DEF RenameCommits
<1>6. \A w \in Vehicles :
        vehicles'[w] = IF w = v /\ HasVehicle(w) /\ r.uid # devices[d].uid
                       THEN Naming(r.uid) ELSE vehicles[w]
  BY <1>2 DEF RenameCommits
<1>7. \A w \in Vehicles : AgreesOn(w, devices, vehicles)
  BY <1>1, NothingBroken DEF Working
<1>8. /\ Naming(r.uid).state = "row" /\ Naming(r.uid).device = r.uid
      /\ r.uid # None
  BY <1>2, <1>3, NoneIsNoValue DEF Naming
<1> HIDE DEF r, d
<1>9. \A w \in Vehicles : vehicles'[w].state # "row" => vehicles'[w].device = None
  BY <1>1, <1>6, <1>8 DEF Consistent
<1>10. ASSUME v \in Vehicles PROVE AgreesOn(v, devices', vehicles')
  <2>1. vehicles[v].state = "row" /\ vehicles[v].device = devices[d].uid
    BY <1>1, <1>2, <1>3, <1>7, <1>10, NoneIsNoValue DEF AgreesOn, Sound
  <2>2. vehicles'[v].device = r.uid
    BY <1>6, <1>8, <1>10, <2>1 DEF HasVehicle
  <2>3. \A e \in Devices \ {d} : devices[e].state = "row" => devices[e].vehicle # v
    BY <1>1, <1>2, <1>7, <1>10, <2>1 DEF AgreesOn, Sound
  <2> QED
    BY <1>2, <1>3, <1>4, <1>5, <2>2, <2>3 DEF AgreesOn
<1>11. ASSUME NEW w \in Vehicles, w # v PROVE AgreesOn(w, devices', vehicles')
  <2>1. vehicles'[w] = vehicles[w]
    BY <1>6, <1>11
  <2>2. AgreesOn(w, devices, vehicles)
    BY <1>7
  <2>3. vehicles[w].state = "row" => vehicles[w].device # devices[d].uid
    BY <1>2, <1>3, <1>11, <2>2 DEF AgreesOn
  <2>4. vehicles[w].state = "row" => vehicles[w].device # r.uid
    BY <1>2, <1>4, <1>8, <2>2, <2>3 DEF AgreesOn
  <2>5. vehicles[w].device # None => vehicles[w].state = "row"
    BY <1>1 DEF Consistent
  <2>6. \A e \in Devices :
          devices'[e].state = "row" /\ vehicles'[w].state = "row" =>
            (devices'[e].vehicle = w <=> vehicles'[w].device = devices'[e].uid)
    <3>1. CASE vehicles[w].state = "row"
      BY <1>3, <1>5, <1>11, <2>1, <2>2, <2>4, <3>1 DEF AgreesOn
    <3> QED
      BY <2>1, <3>1
  <2>7. vehicles'[w].device # None =>
          \E e \in Devices : devices'[e].state = "row" /\ devices'[e].uid = vehicles'[w].device
    BY <1>5, <2>1, <2>2, <2>3, <2>5 DEF AgreesOn
  <2> QED
    BY <2>6, <2>7 DEF AgreesOn
<1>12. Consistent(Idle, devices', vehicles')
  BY <1>9, <1>10, <1>11, IdleConsistent
<1> QED
  BY <1>1, <1>12, StepTo

LEMMA DeleteDeviceAgrees ==
  ASSUME OneAtATime, MatchInv, AgreeInv, calm, NEW s \in Operators, DeleteDevice(s)
  PROVE  AgreeInv'
<1> DEFINE o == op[s]
           d == o.d
<1>1. /\ Consistent(o, devices, vehicles) /\ Formed(o) /\ Loaded(o, devices)
      /\ devices \in [Devices -> DeviceRow] /\ UNCHANGED vehicles
      /\ op' = [op EXCEPT ![s] = Idle] /\ o.pc = "removeDevice"
      /\ devices' = [devices EXCEPT ![d] = NoDevice("gone")]
  BY StepFrom DEF DeleteDevice, Ends
<1>2. d \in Devices /\ devices[d].vehicle = None
  BY <1>1 DEF Formed, WithDevice, Loaded
<1>3. /\ devices'[d].state = "gone"
      /\ \A e \in Devices \ {d} : devices'[e] = devices[e]
  BY <1>1, <1>2 DEF NoDevice
<1> HIDE DEF d
<1>4. ASSUME NEW w \in Vehicles PROVE AgreesOn(w, devices', vehicles')
  <2>1. AgreesOn(w, devices, vehicles) /\ w # None
    BY <1>1, NothingBroken, NoneIsNoValue DEF Working
  <2>2. vehicles[w].device # None => vehicles[w].state = "row"
    BY <1>1 DEF Consistent
  <2>3. vehicles[w].state = "row" /\ devices[d].state = "row"
          => vehicles[w].device # devices[d].uid
    BY <1>2, <2>1 DEF AgreesOn
  <2>4. vehicles'[w].device # None =>
          \E e \in Devices : devices'[e].state = "row" /\ devices'[e].uid = vehicles'[w].device
    BY <1>1, <1>3, <2>1, <2>2, <2>3 DEF AgreesOn
  <2> QED
    BY <1>1, <1>3, <2>1, <2>4 DEF AgreesOn
<1>5. \A w \in Vehicles : vehicles'[w].state # "row" => vehicles'[w].device = None
  BY <1>1 DEF Consistent
<1>6. Consistent(Idle, devices', vehicles')
  BY <1>4, <1>5, IdleConsistent
<1> QED
  BY <1>1, <1>6, StepTo

LEMMA AssignCommitsAgrees ==
  ASSUME OneAtATime, MatchInv, AgreeInv, calm, NEW s \in Operators, AssignCommits(s)
  PROVE  AgreeInv'
<1> DEFINE o == op[s]
           d == o.d
           v == o.v
           old == devices[d].vehicle
           u == devices[d].uid
<1>1. /\ Consistent(o, devices, vehicles) /\ Sound(devices, vehicles)
      /\ Formed(o) /\ op' = [op EXCEPT ![s] = Idle] /\ o.pc = "commit"
      /\ vehicles \in [Vehicles -> VehicleRow] /\ devices \in [Devices -> DeviceRow]
  BY StepFrom DEF AssignCommits, Ends
<1>2. /\ d \in Devices /\ v \in Vehicles /\ v # None
      /\ devices[d].state = "row" /\ o.dev = devices[d] /\ u # None
  BY <1>1, NoneIsNoValue
  DEF Formed, WithDevice, WithVehicle, WithRow, Consistent, Ready, Sound
<1>3. \A e \in Devices :
        devices'[e] = IF e = d THEN Assigned(u, v)
                      ELSE IF devices[e].vehicle = v THEN Unassigned(devices[e].uid)
                      ELSE devices[e]
  BY <1>2 DEF AssignCommits, DevicesAfterAssign
<1>4. \A w \in Vehicles :
        vehicles'[w] = IF w = v THEN Naming(u)
                       ELSE IF w = old /\ HasVehicle(w) /\ vehicles[w].device = u
                       THEN Naming(None) ELSE vehicles[w]
  BY <1>2 DEF AssignCommits, VehiclesAfterAssign
<1>5. \A e \in Devices :
        /\ devices'[e].state = devices[e].state /\ devices'[e].uid = devices[e].uid
        /\ devices'[e].vehicle = IF e = d THEN v
                                 ELSE IF devices[e].vehicle = v THEN None
                                 ELSE devices[e].vehicle
  <2>1. /\ Assigned(u, v).state = "row" /\ Assigned(u, v).uid = u
        /\ Assigned(u, v).vehicle = v
    BY DEF Assigned
  <2>2. \A n : /\ Unassigned(n).state = "row" /\ Unassigned(n).uid = n
               /\ Unassigned(n).vehicle = None
    BY DEF Unassigned
  <2>3. \A e \in Devices : devices[e].vehicle = v => devices[e].state = "row"
    BY <1>1, <1>2 DEF Sound
  <2> QED
    BY <1>2, <1>3, <2>1, <2>2, <2>3
<1>6. \A w \in Vehicles \ {v} : AgreesOn(w, devices, vehicles)
  BY <1>1 DEF Consistent, WorksOn
<1>7. \A n \in Uids \cup {None} : Naming(n).state = "row" /\ Naming(n).device = n
  BY DEF Naming
<1>8. u \in Uids
  BY <1>1, <1>2 DEF DeviceRow
<1>9. \A w \in Vehicles : vehicles'[w].state # "row" => vehicles'[w].device = None
  BY <1>1, <1>4, <1>7, <1>8 DEF Consistent
<1> HIDE DEF o, d, v, old, u
<1>10. AgreesOn(v, devices', vehicles')
  <2>1. vehicles'[v].device = u
    BY <1>2, <1>4, <1>7, <1>8
  <2>2. \A e \in Devices \ {d} : devices[e].state = "row" => devices[e].uid # u
    BY <1>1, <1>2 DEF Sound, u
  <2>3. \A e \in Devices \ {d} : devices'[e].vehicle # v
    BY <1>2, <1>5
  <2> QED
    BY <1>2, <1>5, <2>1, <2>2, <2>3 DEF AgreesOn, u
<1>11. ASSUME NEW w \in Vehicles, w # v PROVE AgreesOn(w, devices', vehicles')
  <2>1. AgreesOn(w, devices, vehicles) /\ w # None
    BY <1>6, <1>11, NoneIsNoValue
  <2>2. CASE w = old
    <3>1. vehicles[w].state = "row"
      BY <1>1, <1>2, <2>1, <2>2 DEF Sound, old
    <3>2. vehicles[w].device = u
      BY <1>2, <2>1, <2>2, <3>1 DEF AgreesOn, old, u
    <3>3. vehicles'[w].device = None
      BY <1>4, <1>7, <1>11, <2>2, <3>1, <3>2 DEF HasVehicle
    <3>4. \A e \in Devices : devices[e].state = "row" => devices[e].uid # None
      BY <1>1 DEF Sound
    <3>5. \A e \in Devices \ {d} : devices[e].state = "row" => devices[e].vehicle # w
      BY <1>1, <1>2, <2>1, <3>1, <3>2 DEF AgreesOn, Sound, u
    <3>6. \A e \in Devices : devices[e].state = "row" => devices'[e].vehicle # w
      BY <1>5, <1>11, <2>1, <3>5
    <3> QED
      BY <1>5, <3>3, <3>4, <3>6 DEF AgreesOn
  <2>3. CASE w # old
    <3>1. vehicles'[w] = vehicles[w]
      BY <1>4, <1>11, <2>3
    <3>2. \A e \in Devices : devices'[e].vehicle = w <=> devices[e].vehicle = w
      BY <1>2, <1>5, <1>11, <2>1, <2>3 DEF old
    <3> QED
      BY <1>5, <2>1, <3>1, <3>2, AgreesAlike
  <2> QED
    BY <2>2, <2>3
<1>12. Consistent(Idle, devices', vehicles')
  BY <1>9, <1>10, <1>11, IdleConsistent
<1> QED
  BY <1>1, <1>12, StepTo DEF o

(* A device is created, while a request is in progress or not.             *)
LEMMA CreateDeviceAgrees ==
  ASSUME MatchInv, AgreeInv, calm, NEW d \in Devices, NEW uid \in Uids,
         CreateDevice(d, uid)
  PROVE  AgreeInv'
<1>1. /\ devices \in [Devices -> DeviceRow] /\ Sound(devices, vehicles)
      /\ devices[d].state = "new" /\ UNCHANGED <<vehicles, op>>
      /\ devices' = [devices EXCEPT ![d] = Unassigned(uid)]
      /\ uid # None
  BY RowsSound, NoneIsNoValue DEF CreateDevice, MatchInv, TypeInv, RowsOK
<1>2. /\ devices'[d].state = "row" /\ devices'[d].uid = uid
      /\ devices'[d].vehicle = None
      /\ \A e \in Devices \ {d} : devices'[e] = devices[e]
  BY <1>1 DEF Unassigned
<1>3. devices[d].vehicle = None
  BY <1>1 DEF Sound
<1>4. \A e \in Devices \ {d} : devices[e].state = "row" => devices[e].uid # uid
  BY DEF CreateDevice, UidFree, HasDevice
<1>5. ASSUME NEW o, Doing(o) PROVE Consistent(o, devices', vehicles')
  <2>1. Consistent(o, devices, vehicles)
    BY <1>5 DEF AgreeInv
  <2>2. Formed(o)
    BY <1>5, IdleFormed DEF Doing, MatchInv, TypeInv, RequestsOK
  <2>3. ASSUME NEW w \in Vehicles, AgreesOn(w, devices, vehicles)
        PROVE  AgreesOn(w, devices', vehicles')
    <3>1. w # None
      BY NoneIsNoValue
    <3>2. vehicles[w].device # uid
      BY <1>1, <1>4, <2>3 DEF AgreesOn
    <3>3. vehicles'[w].device # None =>
            \E e \in Devices : /\ devices'[e].state = "row"
                               /\ devices'[e].uid = vehicles'[w].device
      BY <1>1, <1>2, <2>3 DEF AgreesOn
    <3> QED
      BY <1>1, <1>2, <2>3, <3>1, <3>2, <3>3 DEF AgreesOn
  <2>4. \A e \in Devices : devices'[e].vehicle = devices[e].vehicle
    BY <1>2, <1>3
  <2>5. ASSUME o.v \in Vehicles, Listed(o, o.todo, devices), o \in Request
        PROVE  Listed(o, o.todo, devices')
    <3>1. \A x \in o.todo : x[1] \in Devices
      BY <2>5 DEF Request
    <3>2. \A x \in o.todo : /\ devices'[x[1]].state = "row" /\ devices'[x[1]].uid = x[2]
                            /\ devices'[x[1]].vehicle = o.v
      BY <1>1, <1>2, <2>5, <3>1 DEF Listed
    <3>3. \A e \in Devices :
            devices'[e].vehicle = o.v /\ devices'[e].uid # o.uid
              => <<e, devices'[e].uid>> \in o.todo
      BY <1>2, <2>5, NoneIsNoValue DEF Listed
    <3> QED
      BY <3>2, <3>3 DEF Listed
  <2>6. Ready(o, devices', vehicles')
    <3>1. Ready(o, devices, vehicles)
      BY <2>1 DEF Consistent
    <3>2. o.pc \in WithRow => devices'[o.d].state = "row" /\ o.dev = devices'[o.d]
      <4>1. o.pc \in WithRow => o.d \in Devices /\ devices[o.d].state = "row"
        BY <2>2, <3>1 DEF Formed, WithRow, WithDevice, Ready
      <4> QED
        BY <1>1, <1>2, <3>1, <4>1 DEF Ready
    <3>3. o.pc = "clear" => Listed(o, o.todo, devices')
      BY <2>2, <2>5, <3>1 DEF Ready, Formed, WithVehicle
    <3> QED
      BY <1>1, <2>4, <3>1, <3>2, <3>3 DEF Ready
  <2> QED
    BY <1>1, <2>1, <2>3, <2>6 DEF Consistent
<1>6. \A o : Doing(o)' => Doing(o)
  BY <1>1 DEF Doing
<1> QED
  BY <1>5, <1>6 DEF AgreeInv

(* calm is never regained, and a packet that keeps it has changed nothing. *)
LEMMA StepAgrees ==
  ASSUME OneAtATime, MatchInv, AgreeInv, [Next]_vars
  PROVE  AgreeInv'
<1> SUFFICES ASSUME calm' PROVE AgreeInv'
  BY DEF AgreeInv
<1>1. CASE UNCHANGED vars
  BY <1>1 DEF AgreeInv, Doing, vars, tables
<1>2. ASSUME NEW d \in Devices, NEW uid \in Uids, CreateDevice(d, uid) PROVE AgreeInv'
  <2>1. calm
    BY <1>2 DEF CreateDevice
  <2> QED
    BY <1>2, <2>1, CreateDeviceAgrees
<1>3. ASSUME NEW s \in Operators, DeviceStep(s) PROVE AgreeInv'
  <2>1. calm
    BY <1>3 DEF DeviceStep, Rename, RenameCommits, RemoveDevice, DeleteDevice, Unassign,
       ReleaseDevice, FindNamed, Unname, Asked
  <2> QED
    BY <1>3, <2>1, ArrivalsAgree, RenameCommitsAgrees, DeleteDeviceAgrees,
       ReleaseDeviceAgrees, FindNamedAgrees, UnnameAgrees DEF DeviceStep
<1>4. ASSUME NEW s \in Operators, VehicleStep(s) PROVE AgreeInv'
  <2>1. calm
    BY <1>4 DEF VehicleStep, CreateVehicle, UpdateVehicle, RemoveVehicle, SaveVehicle,
       List, DeleteVehicle, ClearOne, Asked
  <2> QED
    BY <1>4, <2>1, CreateVehicleAgrees, ArrivalsAgree, SaveVehicleAgrees, ListAgrees,
       DeleteVehicleAgrees, ClearOneAgrees DEF VehicleStep
<1>5. ASSUME NEW s \in Operators, AssignStep(s) PROVE AgreeInv'
  <2>1. calm /\ ~NoSuchDevice(s)
    BY <1>5 DEF AssignStep, Assign, FindDevice, NoSuchDevice, FindVehicle, AssignCommits,
       Asked
  <2> QED
    BY <1>5, <2>1, ArrivalsAgree, FindDeviceAgrees, FindVehicleAgrees,
       AssignCommitsAgrees DEF AssignStep
<1>6. ASSUME NEW s \in Operators, Refused(s) \/ Fails(s) PROVE FALSE
  BY <1>6 DEF Refused, Fails
<1>7. ASSUME NEW k \in Packets, PacketStep(k) PROVE AgreeInv'
  <2>1. calm /\ UNCHANGED <<devices, vehicles, op>>
    <3>1. CASE UpdateFromTelemetry(k)
      <4>1. calm /\ vehicles[pkt[k].v] = pkt[k].veh
        BY <3>1 DEF UpdateFromTelemetry
      <4>2. vehicles \in [Vehicles -> VehicleRow]
        BY DEF MatchInv, TypeInv, RowsOK
      <4>3. vehicles' = vehicles
        BY <3>1, <4>1, <4>2 DEF UpdateFromTelemetry
      <4> QED
        BY <3>1, <4>1, <4>3 DEF UpdateFromTelemetry
    <3> QED
      BY <1>7, <3>1 DEF PacketStep, Receive, ReadVehicle, tables
  <2> QED
    BY <2>1 DEF AgreeInv, Doing
<1> QED
  BY <1>1, <1>2, <1>3, <1>4, <1>5, <1>6, <1>7 DEF Next, AtBound

LEMMA InitAgrees == Init => AgreeInv
<1> SUFFICES ASSUME Init, NEW o, Doing(o) PROVE Consistent(o, devices, vehicles)
  BY DEF AgreeInv
<1>1. o = Idle
  BY DEF Doing, Init
<1>2. /\ NoDevice("new").state = "new"
      /\ NoVehicle("new").state = "new" /\ NoVehicle("new").device = None
  BY DEF NoDevice, NoVehicle
<1>3. /\ \A d \in Devices : devices[d].state = "new"
      /\ \A v \in Vehicles : vehicles[v].state = "new" /\ vehicles[v].device = None
  BY <1>2 DEF Init
<1>4. \A v \in Vehicles : AgreesOn(v, devices, vehicles)
  BY <1>3 DEF AgreesOn
<1> QED
  BY <1>1, <1>3, <1>4, IdleConsistent

LEMMA AgreementShown == ASSUME AgreeInv PROVE TablesAgree
<1> SUFFICES ASSUME calm, \A s \in Operators : ~Busy(s),
                    NEW v \in Vehicles
             PROVE  AgreesOn(v, devices, vehicles)
  BY DEF TablesAgree, AgreesOn, HasDevice, HasVehicle
<1>1. PICK o : Doing(o) /\ o.pc = "idle"
  <2>1. CASE Operators = {}
    <3>1. Doing(Idle) /\ Idle.pc = "idle"
      BY <2>1 DEF Doing, Idle
    <3> QED
      BY <3>1
  <2>2. ASSUME NEW s \in Operators PROVE Doing(op[s]) /\ op[s].pc = "idle"
    BY DEF Doing, Busy
  <2> QED
    BY <2>1, <2>2
<1>2. Consistent(o, devices, vehicles)
  BY <1>1 DEF AgreeInv
<1> QED
  BY <1>1, <1>2, NothingBroken DEF Working

(* When requests are handled one at a time, both tables tell the same      *)
(* story between requests (devices.service.ts:142-155, 201-280,            *)
(* vehicles.service.ts:101-167, 193-203), unless one has ended halfway or  *)
(* a packet has undone one.                                                *)
THEOREM TablesTellOneStory == ASSUME OneAtATime PROVE Spec => []TablesAgree
<1>1. Init => MatchInv /\ AgreeInv
  BY InitMatched, InitAgrees
<1>2. MatchInv /\ AgreeInv /\ [Next]_vars => MatchInv' /\ AgreeInv'
  BY MatchInvStays, StepAgrees
<1>3. AgreeInv => TablesAgree
  BY AgreementShown
<1> QED
  BY <1>1, <1>2, <1>3, PTL DEF Spec
=============================================================================
