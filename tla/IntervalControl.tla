-------------------------- MODULE IntervalControl --------------------------
(***************************************************************************)
(* Two-way device control: POST /devices/:imei/interval in the backend,    *)
(* the config_update command and its ACK over MQTT, and the firmware that  *)
(* applies the intervals, for ONE device.                                  *)
(*                                                                         *)
(* A request publishes the command, then polls the one ACK record kept per *)
(* device until it matches or the wait is over, and stores the intervals   *)
(* of the ACK in the device's row.  The firmware changes its running       *)
(* intervals, saves them to NVS and acknowledges.                          *)
(*                                                                         *)
(* Commands and ACKs may be lost (the modem's input buffer is cleared      *)
(* before a publish, a full queue evicts) or arrive twice (QoS 1 to the    *)
(* broker, resends of the device's queue); both channels keep the order.   *)
(* Time is what the backend's clock shows, in units longer than the poll   *)
(* interval of waitForAck.                                                 *)
(*                                                                         *)
(* Abstracted: access control, the JSON texts, the legacy form with one    *)
(* interval (the pair with equal members).                                 *)
(***************************************************************************)
EXTENDS Integers, Sequences

CONSTANTS
  Requests,     \* requests that may be open at once
  Intervals,    \* interval values the firmware accepts
  Targets,      \* the pairs operators ask for
  Default,      \* the pair of a new device, on both sides
  WaitTimeout,  \* waitTimeoutMs
  MaxTime,      \* bound: no request starts from this time on
  MaxChannel,   \* bound: messages under way in one direction
  MaxFaults     \* bound: losses, duplicates, failures and restarts

Pairs == [on : Intervals, off : Intervals]

ASSUME ControlAssumption ==
  /\ Intervals \subseteq Nat \ {0}     \* 1000 .. 60000
  /\ Targets \subseteq Pairs /\ Default \in Pairs
  /\ WaitTimeout \in Nat \ {0} /\ MaxTime \in Nat
  /\ MaxChannel \in Nat \ {0} /\ MaxFaults \in Nat

VARIABLES
  now,       \* the clock of the backend
  req,       \* what every request is doing
  ackMap,    \* DeviceAckService.ackMap for the device, NoAck if empty
  row,       \* the intervals in the device's row
  commands,  \* commands under way to the firmware
  acks,      \* ACKs under way to the backend
  running,   \* ignitionOn/OffPollIntervalMs in the firmware's memory
  nvs,       \* the same in non-volatile storage
  applied,   \* history: every pair the firmware has acknowledged
  allGood,   \* history: every request so far has ended in success
  faults     \* losses, duplicates, failures and restarts so far

backend == <<req, ackMap, row>>
channels == <<commands, acks>>
device == <<running, nvs>>
history == <<applied, allGood>>
vars == <<now, backend, channels, device, history, faults>>

NoAck == [cfg |-> Default, time |-> -1]
Bad == [on |-> 0, off |-> 0]    \* a payload out of range

(* done covers the answers success, timeout and error. *)
NoRequest == [pc |-> "done", cfg |-> Default, sentAt |-> 0, timeoutAt |-> 0]

Open(r) == req[r].pc # "done"
Ends(r) == req' = [req EXCEPT ![r].pc = "done"]

Fault == faults < MaxFaults /\ faults' = faults + 1

----------------------------------------------------------------------------
(* Backend. *)

(* updateInterval up to the publish.  Without a connection to the broker   *)
(* it ends in an error here, without effect: not modelled.                 *)
Start(r, c) ==
  /\ ~Open(r)
  /\ now < MaxTime
  /\ Len(commands) < MaxChannel
  /\ req' = [req EXCEPT ![r] = [pc |-> "publish", cfg |-> c, sentAt |-> now,
                                timeoutAt |-> 0]]
  /\ commands' = Append(commands, c)
  /\ UNCHANGED <<now, ackMap, row, acks, device, history, faults>>

(* The broker has confirmed: waitForAck begins. *)
PublishReturns(r) ==
  /\ req[r].pc = "publish"
  /\ req' = [req EXCEPT ![r].pc = "wait", ![r].timeoutAt = now + WaitTimeout]
  /\ UNCHANGED <<now, ackMap, row, channels, device, history, faults>>

(* 503: the command may nevertheless have left. *)
PublishFails(r) ==
  /\ req[r].pc = "publish"
  /\ Fault
  /\ Ends(r)
  /\ allGood' = FALSE
  /\ UNCHANGED <<now, ackMap, row, channels, device, applied>>

(* Mutant: any ACK since the command was sent will do. *)
MatchesAny(r) == ackMap # NoAck /\ ackMap.time >= req[r].sentAt

Matches(r) ==
  /\ ackMap # NoAck
  /\ ackMap.time >= req[r].sentAt
  /\ ackMap.cfg = req[r].cfg

(* One look at the ACK record that finds what it waits for.  The request   *)
(* goes on with the intervals of the ACK.                                  *)
PollAck(r) ==
  /\ req[r].pc = "wait"
  /\ now <= req[r].timeoutAt
  /\ Matches(r)
  /\ req' = [req EXCEPT ![r].pc = "save", ![r].cfg = ackMap.cfg]
  /\ UNCHANGED <<now, ackMap, row, channels, device, history, faults>>

(* Mutant: the wait only ends while the device is silent. *)
TimeOutWhileSilent(r) ==
  /\ req[r].pc = "wait"
  /\ now > req[r].timeoutAt
  /\ ackMap = NoAck
  /\ Ends(r)
  /\ allGood' = FALSE
  /\ UNCHANGED <<now, ackMap, row, channels, device, applied, faults>>

TimeOut(r) ==
  /\ req[r].pc = "wait"
  /\ now > req[r].timeoutAt
  /\ Ends(r)
  /\ allGood' = FALSE
  /\ UNCHANGED <<now, ackMap, row, channels, device, applied, faults>>

(* updateIgnitionIntervals *)
Save(r) ==
  /\ req[r].pc = "save"
  /\ row' = req[r].cfg
  /\ Ends(r)
  /\ UNCHANGED <<now, ackMap, channels, device, history, faults>>

SaveFails(r) ==
  /\ req[r].pc = "save"
  /\ Fault
  /\ Ends(r)
  /\ allGood' = FALSE
  /\ UNCHANGED <<now, ackMap, row, channels, device, applied>>

(* handleAck: the newest ACK replaces the one before, also one that a       *)
(* request has not yet seen.                                               *)
HandleAck ==
  /\ acks # <<>>
  /\ ackMap' = [cfg |-> Head(acks), time |-> now]
  /\ acks' = Tail(acks)
  /\ UNCHANGED <<now, req, row, commands, device, history, faults>>

BackendRestart ==
  /\ Fault
  /\ ackMap' = NoAck
  /\ req' = [r \in Requests |-> [req[r] EXCEPT !.pc = "done"]]
  /\ allGood' = (allGood /\ \A r \in Requests : ~Open(r))
  /\ UNCHANGED <<now, row, channels, device, applied>>

----------------------------------------------------------------------------
(* Firmware. *)

Received == Head(commands)

(* Mutant: the range of the intervals is not checked. *)
UncheckedUpdate ==
  /\ commands # <<>>
  /\ Len(acks) < MaxChannel
  /\ commands' = Tail(commands)
  /\ running' = Received
  /\ nvs' = Received
  /\ applied' = applied \cup {Received}
  /\ acks' = Append(acks, Received)
  /\ UNCHANGED <<now, backend, allGood, faults>>

(* handleCommand: a valid config_update. *)
ApplyUpdate ==
  /\ commands # <<>> /\ Received \in Pairs
  /\ Len(acks) < MaxChannel
  /\ commands' = Tail(commands)
  /\ running' = Received
  /\ nvs' = Received
  /\ applied' = applied \cup {Received}
  /\ acks' = Append(acks, Received)
  /\ UNCHANGED <<now, backend, allGood, faults>>

(* What NVS holds when not both of the two writes were made. *)
PartlySaved(c) == {nvs, [nvs EXCEPT !.on = c.on], [nvs EXCEPT !.off = c.off]}

(* Mutant: the ACK is sent although the intervals could not be saved. *)
AcknowledgeUnsaved ==
  /\ commands # <<>> /\ Received \in Pairs
  /\ Len(acks) < MaxChannel
  /\ Fault
  /\ commands' = Tail(commands)
  /\ running' = Received
  /\ nvs' \in PartlySaved(Received)
  /\ acks' = Append(acks, Received)
  /\ UNCHANGED <<now, backend, history>>

(* saveIntervalsToNvs fails: the running intervals have changed already.   *)
SaveToNvsFails ==
  /\ commands # <<>> /\ Received \in Pairs
  /\ Fault
  /\ commands' = Tail(commands)
  /\ running' = Received
  /\ nvs' \in PartlySaved(Received)
  /\ UNCHANGED <<now, backend, acks, history>>

IgnoreCommand ==
  /\ commands # <<>> /\ Received \notin Pairs
  /\ commands' = Tail(commands)
  /\ UNCHANGED <<now, backend, acks, device, history, faults>>

(* The device restarts, perhaps between the two writes to NVS: what it had *)
(* queued is gone, the intervals are loaded from NVS.                      *)
DeviceRestart ==
  /\ Fault
  /\ \/ UNCHANGED <<nvs, commands>>
     \/ /\ commands # <<>> /\ Received \in Pairs
        /\ commands' = Tail(commands)
        /\ nvs' \in PartlySaved(Received) \cup {Received}
  /\ running' = nvs'
  /\ acks' \in {acks, <<>>}
  /\ UNCHANGED <<now, backend, history>>

----------------------------------------------------------------------------
(* The network and the clock. *)

Lost ==
  /\ Fault
  /\ \/ commands # <<>> /\ commands' = Tail(commands) /\ UNCHANGED acks
     \/ acks # <<>> /\ acks' = Tail(acks) /\ UNCHANGED commands
  /\ UNCHANGED <<now, backend, device, history>>

Twice(q) == <<Head(q)>> \o q

Duplicated ==
  /\ Fault
  /\ \/ /\ commands # <<>> /\ Len(commands) < MaxChannel
        /\ commands' = Twice(commands) /\ UNCHANGED acks
     \/ /\ acks # <<>> /\ Len(acks) < MaxChannel
        /\ acks' = Twice(acks) /\ UNCHANGED commands
  /\ UNCHANGED <<now, backend, device, history>>

(* Something unusable is published on the command topic. *)
StrayCommand ==
  /\ Fault
  /\ Len(commands) < MaxChannel
  /\ commands' = Append(commands, Bad)
  /\ UNCHANGED <<now, backend, acks, device, history>>

(* The poll interval is shorter than the clock's unit: a request that may  *)
(* find its ACK, or whose wait is over, looks before time goes on.         *)
Tick ==
  /\ now < MaxTime \/ \E r \in Requests : req[r].pc = "wait"
  /\ \A r \in Requests : req[r].pc = "wait" => now <= req[r].timeoutAt
  /\ \A r \in Requests :
       ~(req[r].pc = "wait" /\ Matches(r))
  /\ now' = now + 1
  /\ UNCHANGED <<backend, channels, device, history, faults>>

AtBound ==
  /\ now >= MaxTime
  /\ \A r \in Requests : ~Open(r)
  /\ UNCHANGED vars

Init ==
  /\ now = 0
  /\ req = [r \in Requests |-> NoRequest]
  /\ ackMap = NoAck /\ row = Default
  /\ commands = <<>> /\ acks = <<>>
  /\ running = Default /\ nvs = Default
  /\ applied = {} /\ allGood = TRUE
  /\ faults = 0

RequestStep(r) ==
  \/ PublishReturns(r) \/ PublishFails(r)
  \/ PollAck(r) \/ TimeOut(r)
  \/ Save(r) \/ SaveFails(r)

Next ==
  \/ \E r \in Requests : (\E c \in Targets : Start(r, c)) \/ RequestStep(r)
  \/ HandleAck \/ BackendRestart
  \/ ApplyUpdate \/ SaveToNvsFails \/ IgnoreCommand \/ DeviceRestart
  \/ Lost \/ Duplicated \/ StrayCommand
  \/ Tick \/ AtBound

Spec == Init /\ [][Next]_vars

(* The polling timer fires and the database answers or fails; the clock    *)
(* goes on, however many requests are started and answered within one unit *)
(* of it.  Nothing is assumed of the device, the broker or the network: in *)
(* particular a publish waits for the broker's acknowledgement without a   *)
(* timeout (mqtt.service.ts:75), and may wait for ever.                    *)
FairSpec ==
  /\ Spec
  /\ SF_vars(Tick)
  /\ \A r \in Requests : /\ WF_vars(PollAck(r) \/ TimeOut(r))
                         /\ WF_vars(Save(r) \/ SaveFails(r))

----------------------------------------------------------------------------
(* Properties. *)

TypeOK ==
  /\ now \in Nat
  /\ req \in [Requests -> [pc : {"publish", "wait", "save", "done"},
                           cfg : Pairs, sentAt : Nat,
                           timeoutAt : Nat]]
  /\ ackMap \in [cfg : Pairs, time : Nat \cup {-1}]
  /\ row \in Pairs
  /\ commands \in Seq(Pairs \cup {Bad}) /\ acks \in Seq(Pairs)
  /\ running \in Pairs /\ nvs \in Pairs
  /\ \A r \in Requests : Open(r) => req[r].sentAt <= now
  /\ ackMap.time <= now
  /\ applied \subseteq Pairs /\ allGood \in BOOLEAN
  /\ faults \in 0 .. MaxFaults

(* The row never shows intervals that the device has not run and saved:    *)
(* not after a failed save, a lost, late or repeated message, a restart.   *)
RecordWasApplied == row \in applied \cup {Default}

(* An operator who sets intervals one request at a time and always gets    *)
(* "success" can rely on the row: it is what the device runs and what it   *)
(* will run after a restart.  Late and repeated ACKs of one request must   *)
(* not end a later one.                                                    *)
RecordAgrees ==
  allGood /\ (\A r \in Requests : ~Open(r)) => row = running /\ row = nvs

(* Once the broker has taken the command, the request is answered, whether *)
(* or not the device ever answers, and however late.                       *)
RequestAnswered ==
  \A r \in Requests : req[r].pc \in {"wait", "save"} ~> ~Open(r)
=============================================================================
