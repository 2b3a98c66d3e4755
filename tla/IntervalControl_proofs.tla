------------------------ MODULE IntervalControl_proofs ------------------------
(***************************************************************************)
(* Proofs about IntervalControl, for any number of requests, any intervals *)
(* and any number of losses, duplicates, failures and restarts.            *)
(*                                                                         *)
(*  - TypeCorrect: TypeOK.                                                 *)
(*  - RecordStaysApplied: RecordWasApplied.  Its invariant follows a pair  *)
(*    of intervals on its way: only pairs the device has acknowledged are  *)
(*    under way, in the ACK record, and about to be saved.                 *)
(*  - RecordStaysTrue: RecordAgrees, while no request starts before the    *)
(*    one before has been answered.  Its invariant, AgreeInv, is about the *)
(*    order of the two channels.                                           *)
(***************************************************************************)
EXTENDS IntervalControl, SequenceTheorems, TLAPS

(* What the row may show. *)
Known == applied \cup {Default}

KnownInv ==
  /\ row \in Known
  /\ acks \in Seq(Known)
  /\ ackMap.cfg \in Known
  /\ \A r \in Requests : req[r].pc = "save" => req[r].cfg \in Known

Inv == TypeOK /\ KnownInv

Request == [pc : {"publish", "wait", "save", "done"}, cfg : Pairs,
            sentAt : Nat, timeoutAt : Nat]

----------------------------------------------------------------------------
(* Sequences. *)

LEMMA SeqGrows ==
  ASSUME NEW S, NEW T, S \subseteq T, NEW q \in Seq(S)
  PROVE  q \in Seq(T)
<1>1. q \in [1 .. Len(q) -> S] /\ Len(q) \in Nat
  BY LenProperties
<1>2. q \in [1 .. Len(q) -> T]
  BY <1>1
<1> QED
  BY <1>1, <1>2, SeqDef

LEMMA TailInSeq ==
  ASSUME NEW S, NEW q \in Seq(S), q # <<>>
  PROVE  Head(q) \in S /\ Tail(q) \in Seq(S)
  BY HeadTailProperties

LEMMA TwiceInSeq ==
  ASSUME NEW S, NEW q \in Seq(S), q # <<>>
  PROVE  Twice(q) \in Seq(S)
<1>1. Head(q) \in S
  BY TailInSeq
<1>2. <<Head(q)>> \in Seq(S)
  BY <1>1
<1> QED
  BY <1>2, ConcatProperties DEF Twice

LEMMA AppendInSeq ==
  ASSUME NEW S, NEW q \in Seq(S), NEW x \in S
  PROVE  Append(q, x) \in Seq(S)
  BY AppendProperties

(* The pairs NVS can hold are pairs. *)
LEMMA PartlySavedType ==
  ASSUME NEW c \in Pairs, nvs \in Pairs
  PROVE  PartlySaved(c) \subseteq Pairs
  BY DEF PartlySaved, Pairs

(* KnownInv is kept when only the known pairs and the ACKs under way grow. *)
LEMMA KeepsKnown ==
  ASSUME KnownInv, UNCHANGED <<row, ackMap, req>>, Known \subseteq Known',
         acks' \in Seq(Known')
  PROVE  KnownInv'
  BY DEF KnownInv

----------------------------------------------------------------------------

LEMMA InvInit == Init => Inv
<1> SUFFICES ASSUME Init PROVE Inv
  OBVIOUS
<1>1. NoRequest \in Request /\ NoAck \in [cfg : Pairs, time : Nat \cup {-1}]
  BY ControlAssumption DEF NoRequest, NoAck, Request
<1>2. req \in [Requests -> Request] /\ \A r \in Requests : req[r].pc = "done"
  BY <1>1 DEF Init, NoRequest
<1>3. TypeOK
  BY <1>1, <1>2, ControlAssumption DEF Init, TypeOK, Request, Open, NoAck
<1>4. KnownInv
  BY <1>2 DEF Init, KnownInv, Known, NoAck
<1> QED
  BY <1>3, <1>4 DEF Inv

(* The steps of a request. *)

LEMMA InvStart ==
  ASSUME Inv, NEW r \in Requests, NEW c \in Targets, Start(r, c)
  PROVE  Inv'
<1> DEFINE new == [pc |-> "publish", cfg |-> c, sentAt |-> now,
                   timeoutAt |-> 0]
<1>1. c \in Pairs
  BY ControlAssumption
<1>2. req' = [req EXCEPT ![r] = new] /\ commands' = Append(commands, c)
      /\ UNCHANGED <<now, ackMap, row, acks, running, nvs, applied, allGood,
                     faults>>
  BY DEF Start, device, history
<1>3. new \in Request /\ req \in [Requests -> Request] /\ now \in Nat
  BY <1>1 DEF Inv, TypeOK, Request
<1>4. req' \in [Requests -> Request]
  BY <1>2, <1>3
<1>5. \A s \in Requests : req'[s] = IF s = r THEN new ELSE req[s]
  BY <1>2, <1>3
<1>6. commands' \in Seq(Pairs \cup {Bad})
  BY <1>1, <1>2, AppendInSeq DEF Inv, TypeOK
<1>7. \A s \in Requests : Open(s)' => req'[s].sentAt <= now'
  BY <1>2, <1>3, <1>5 DEF Inv, TypeOK, Open
<1>8. TypeOK'
  BY <1>2, <1>4, <1>6, <1>7 DEF Inv, TypeOK, Request
<1>9. KnownInv'
  BY <1>2, <1>5 DEF Inv, KnownInv, Known
<1> QED
  BY <1>8, <1>9 DEF Inv

(* A request goes on; only PollAck takes it to "save", with the pair of    *)
(* the ACK record.                                                         *)
LEMMA RequestKeeps ==
  ASSUME Inv, NEW r \in Requests, NEW new \in Request, Open(r),
         new.sentAt = req[r].sentAt,
         new.pc = "save" => new.cfg \in Known,
         req' = [req EXCEPT ![r] = new],
         UNCHANGED <<now, ackMap, commands, acks, running, nvs, applied>>,
         row' \in Pairs \cap Known, allGood' \in BOOLEAN,
         faults' \in 0 .. MaxFaults
  PROVE  Inv'
<1>1. req \in [Requests -> Request]
  BY DEF Inv, TypeOK, Request
<1>2. req' \in [Requests -> Request]
  BY <1>1
<1>3. \A s \in Requests : req'[s] = IF s = r THEN new ELSE req[s]
  BY <1>1
<1>4. \A s \in Requests : Open(s)' => req'[s].sentAt <= now'
  BY <1>3 DEF Inv, TypeOK, Open
<1>5. TypeOK'
  BY <1>2, <1>4 DEF Inv, TypeOK, Request
<1>6. KnownInv'
  BY <1>3 DEF Inv, KnownInv, Known
<1> QED
  BY <1>5, <1>6 DEF Inv

LEMMA FaultType ==
  ASSUME TypeOK, Fault
  PROVE  faults' \in 0 .. MaxFaults
  BY ControlAssumption DEF TypeOK, Fault

LEMMA InvRequestStep ==
  ASSUME Inv, NEW r \in Requests, RequestStep(r)
  PROVE  Inv'
<1>1. /\ req \in [Requests -> Request] /\ req[r] \in Request
      /\ ackMap \in [cfg : Pairs, time : Nat \cup {-1}]
      /\ row \in Pairs \cap Known /\ ackMap.cfg \in Known
      /\ now \in Nat /\ allGood \in BOOLEAN /\ faults \in 0 .. MaxFaults
      /\ req[r].pc = "save" => req[r].cfg \in Known
  BY DEF Inv, TypeOK, KnownInv, Request
<1> DEFINE waiting == [req[r] EXCEPT !.pc = "wait",
                                     !.timeoutAt = now + WaitTimeout]
           saving == [req[r] EXCEPT !.pc = "save", !.cfg = ackMap.cfg]
           done == [req[r] EXCEPT !.pc = "done"]
<1>2. /\ waiting \in Request /\ waiting.sentAt = req[r].sentAt
      /\ waiting.pc = "wait"
      /\ saving \in Request /\ saving.sentAt = req[r].sentAt
      /\ saving.cfg = ackMap.cfg
      /\ done \in Request /\ done.sentAt = req[r].sentAt /\ done.pc = "done"
  <2>1. now + WaitTimeout \in Nat
    BY <1>1, ControlAssumption
  <2>2. /\ waiting \in Request /\ waiting.sentAt = req[r].sentAt
        /\ waiting.pc = "wait"
    BY <1>1, <2>1 DEF Request
  <2>3. ackMap.cfg \in Pairs
    BY <1>1
  <2>4. /\ saving \in Request /\ saving.sentAt = req[r].sentAt
        /\ saving.cfg = ackMap.cfg
    BY <1>1, <2>3 DEF Request
  <2>5. done \in Request /\ done.sentAt = req[r].sentAt /\ done.pc = "done"
    BY <1>1 DEF Request
  <2> QED
    BY <2>2, <2>4, <2>5
<1>3. CASE PublishReturns(r)
  <2>1. /\ req' = [req EXCEPT ![r] = waiting] /\ Open(r)
        /\ UNCHANGED <<now, ackMap, commands, acks, running, nvs, applied>>
        /\ UNCHANGED <<row, allGood, faults>>
    BY <1>1, <1>3 DEF PublishReturns, Open, channels, device, history
  <2> QED
    BY <1>1, <1>2, <2>1, RequestKeeps
<1>4. CASE PublishFails(r) \/ SaveFails(r)
  <2>1. /\ req' = [req EXCEPT ![r] = done] /\ Open(r) /\ Fault
        /\ UNCHANGED <<now, ackMap, commands, acks, running, nvs, applied>>
        /\ UNCHANGED row /\ allGood' \in BOOLEAN
    BY <1>1, <1>4 DEF PublishFails, SaveFails, Ends, Open, channels, device
  <2>2. faults' \in 0 .. MaxFaults
    BY <2>1, FaultType DEF Inv
  <2> QED
    BY <1>1, <1>2, <2>1, <2>2, RequestKeeps
<1>5. CASE PollAck(r)
  <2>1. /\ req' = [req EXCEPT ![r] = saving] /\ Open(r)
        /\ UNCHANGED <<now, ackMap, commands, acks, running, nvs, applied>>
        /\ UNCHANGED <<row, allGood, faults>>
    BY <1>1, <1>5 DEF PollAck, Open, channels, device, history
  <2> QED
    BY <1>1, <1>2, <2>1, RequestKeeps
<1>6. CASE TimeOut(r)
  <2>1. /\ req' = [req EXCEPT ![r] = done] /\ Open(r)
        /\ UNCHANGED <<now, ackMap, commands, acks, running, nvs, applied>>
        /\ UNCHANGED <<row, faults>> /\ allGood' \in BOOLEAN
    BY <1>1, <1>6 DEF TimeOut, Ends, Open, channels, device
  <2> QED
    BY <1>1, <1>2, <2>1, RequestKeeps
<1>7. CASE Save(r)
  <2>1. /\ req' = [req EXCEPT ![r] = done] /\ Open(r)
        /\ UNCHANGED <<now, ackMap, commands, acks, running, nvs, applied>>
        /\ UNCHANGED <<allGood, faults>>
        /\ row' = req[r].cfg /\ req[r].pc = "save"
    BY <1>1, <1>7 DEF Save, Ends, Open, channels, device, history
  <2>2. row' \in Pairs \cap Known
    BY <1>1, <2>1 DEF Request
  <2> QED
    BY <1>1, <1>2, <2>1, <2>2, RequestKeeps
<1> QED
  BY <1>3, <1>4, <1>5, <1>6, <1>7 DEF RequestStep

LEMMA InvHandleAck ==
  ASSUME Inv, HandleAck
  PROVE  Inv'
<1>1. /\ now \in Nat
      /\ acks \in Seq(Pairs) /\ acks \in Seq(Known) /\ acks # <<>>
  BY DEF Inv, TypeOK, KnownInv, HandleAck
<1>2. /\ ackMap' = [cfg |-> Head(acks), time |-> now] /\ acks' = Tail(acks)
      /\ UNCHANGED <<now, req, row, commands, running, nvs, applied, allGood,
                     faults>>
  BY DEF HandleAck, device, history
<1>3. /\ Head(acks) \in Pairs /\ Head(acks) \in Known
      /\ acks' \in Seq(Pairs) /\ acks' \in Seq(Known)
  BY <1>1, <1>2, TailInSeq
<1>4. ackMap' \in [cfg : Pairs, time : Nat \cup {-1}]
      /\ ackMap'.time <= now' /\ ackMap'.cfg = Head(acks)
  BY <1>1, <1>2, <1>3
<1>5. TypeOK'
  BY <1>2, <1>3, <1>4 DEF Inv, TypeOK, Open
<1>6. KnownInv'
  BY <1>2, <1>3, <1>4 DEF Inv, KnownInv, Known
<1> QED
  BY <1>5, <1>6 DEF Inv

LEMMA InvBackendRestart ==
  ASSUME Inv, BackendRestart
  PROVE  Inv'
<1> DEFINE new(r) == [req[r] EXCEPT !.pc = "done"]
<1>1. req \in [Requests -> Request] /\ now \in Nat
  BY DEF Inv, TypeOK, Request
<1>2. /\ ackMap' = NoAck
      /\ req' = [r \in Requests |-> new(r)]
      /\ UNCHANGED <<now, row, commands, acks, running, nvs, applied>>
      /\ Fault
  BY DEF BackendRestart, channels, device
<1>3. allGood' \in BOOLEAN
  BY Zenon DEF BackendRestart
<1>4. \A r \in Requests : new(r) \in Request /\ new(r).pc = "done"
  BY <1>1 DEF Request
<1>5. req' \in [Requests -> Request] /\ \A r \in Requests : req'[r].pc = "done"
  BY <1>2, <1>4
<1>6. NoAck \in [cfg : Pairs, time : Nat \cup {-1}] /\ NoAck.time <= now
      /\ NoAck.cfg \in Known
  BY <1>1, ControlAssumption DEF NoAck, Known
<1>7. faults' \in 0 .. MaxFaults
  BY <1>2, FaultType DEF Inv
<1>8. TypeOK'
  BY <1>2, <1>3, <1>5, <1>6, <1>7 DEF Inv, TypeOK, Request, Open
<1>9. KnownInv'
  BY <1>2, <1>5, <1>6 DEF Inv, KnownInv, Known
<1> QED
  BY <1>8, <1>9 DEF Inv

----------------------------------------------------------------------------
(* The device, the network and the clock leave the backend alone. *)

LEMMA OutsideKeeps ==
  ASSUME Inv, UNCHANGED <<req, ackMap, row>>,
         now' \in Nat, now <= now',
         commands' \in Seq(Pairs \cup {Bad}),
         acks' \in Seq(Pairs), acks' \in Seq(Known'),
         running' \in Pairs, nvs' \in Pairs,
         applied' \subseteq Pairs, applied \subseteq applied',
         UNCHANGED allGood, faults' \in 0 .. MaxFaults
  PROVE  Inv'
<1>1. ASSUME NEW r \in Requests, Open(r)'
      PROVE  req'[r].sentAt <= now'
  <2>1. req[r] \in Request /\ now \in Nat
    BY DEF Inv, TypeOK, Request
  <2>2. req[r].sentAt \in Nat
    BY <2>1 DEF Request
  <2>3. req[r].sentAt <= now
    BY <1>1, Zenon DEF Inv, TypeOK, Open
  <2> QED
    BY <2>1, <2>2, <2>3
<1>2. ackMap'.time <= now'
  BY DEF Inv, TypeOK
<1>3. TypeOK'
  <2>1. /\ req' \in [Requests -> Request] /\ row' \in Pairs
        /\ ackMap' \in [cfg : Pairs, time : Nat \cup {-1}]
    BY DEF Inv, TypeOK, Request
  <2>2. allGood' \in BOOLEAN
    BY DEF Inv, TypeOK
  <2> QED
    BY <1>1, <1>2, <2>1, <2>2 DEF TypeOK, Request
<1>4. KnownInv'
  BY KeepsKnown DEF Inv, Known
<1> QED
  BY <1>3, <1>4 DEF Inv

LEMMA InvApplyUpdate ==
  ASSUME Inv, ApplyUpdate
  PROVE  Inv'
<1>1. /\ commands # <<>> /\ Received \in Pairs
      /\ commands' = Tail(commands) /\ running' = Received /\ nvs' = Received
      /\ applied' = applied \cup {Received}
      /\ acks' = Append(acks, Received)
      /\ UNCHANGED <<now, req, ackMap, row, allGood, faults>>
  BY DEF ApplyUpdate, backend
<1>2. commands' \in Seq(Pairs \cup {Bad})
  BY <1>1, TailInSeq DEF Inv, TypeOK
<1>3. acks' \in Seq(Pairs)
  BY <1>1, AppendInSeq DEF Inv, TypeOK
<1>4. acks \in Seq(Known')
  <2>1. Known \subseteq Known'
    BY <1>1 DEF Known
  <2> QED
    BY <2>1, SeqGrows DEF Inv, KnownInv
<1>5. Received \in Known'
  BY <1>1 DEF Known
<1>6. acks' \in Seq(Known')
  BY <1>1, <1>4, <1>5, AppendInSeq
<1>7. now \in Nat /\ applied \subseteq Pairs /\ faults \in 0 .. MaxFaults
  BY DEF Inv, TypeOK
<1> QED
  BY <1>1, <1>2, <1>3, <1>6, <1>7, OutsideKeeps

LEMMA InvSaveToNvsFails ==
  ASSUME Inv, SaveToNvsFails
  PROVE  Inv'
<1>1. /\ commands # <<>> /\ Received \in Pairs /\ Fault
      /\ commands' = Tail(commands) /\ running' = Received
      /\ nvs' \in PartlySaved(Received)
      /\ UNCHANGED <<now, req, ackMap, row, acks, applied, allGood>>
  BY DEF SaveToNvsFails, backend, history
<1>2. /\ now \in Nat /\ applied \subseteq Pairs /\ nvs \in Pairs
      /\ commands \in Seq(Pairs \cup {Bad})
      /\ acks \in Seq(Pairs) /\ acks \in Seq(Known)
  BY DEF Inv, TypeOK, KnownInv
<1>3. commands' \in Seq(Pairs \cup {Bad})
  BY <1>1, <1>2, TailInSeq
<1>4. nvs' \in Pairs
  BY <1>1, <1>2, PartlySavedType
<1>5. faults' \in 0 .. MaxFaults
  BY <1>1, FaultType DEF Inv
<1>6. Known' = Known
  BY <1>1 DEF Known
<1> QED
  BY <1>1, <1>2, <1>3, <1>4, <1>5, <1>6, OutsideKeeps

LEMMA InvIgnoreCommand ==
  ASSUME Inv, IgnoreCommand
  PROVE  Inv'
<1>1. /\ commands # <<>> /\ commands' = Tail(commands)
      /\ UNCHANGED <<now, req, ackMap, row, acks, running, nvs, applied,
                     allGood, faults>>
  BY DEF IgnoreCommand, backend, device, history
<1>2. /\ now \in Nat /\ applied \subseteq Pairs
      /\ nvs \in Pairs /\ running \in Pairs
      /\ commands \in Seq(Pairs \cup {Bad})
      /\ acks \in Seq(Pairs) /\ acks \in Seq(Known)
      /\ faults \in 0 .. MaxFaults
  BY DEF Inv, TypeOK, KnownInv
<1>3. commands' \in Seq(Pairs \cup {Bad})
  BY <1>1, <1>2, TailInSeq
<1>4. Known' = Known
  BY <1>1 DEF Known
<1> QED
  BY <1>1, <1>2, <1>3, <1>4, OutsideKeeps

LEMMA InvDeviceRestart ==
  ASSUME Inv, DeviceRestart
  PROVE  Inv'
<1>1. /\ Fault /\ running' = nvs' /\ acks' \in {acks, <<>>}
      /\ UNCHANGED <<now, req, ackMap, row, applied, allGood>>
      /\ \/ UNCHANGED <<nvs, commands>>
         \/ /\ commands # <<>> /\ Received \in Pairs
            /\ commands' = Tail(commands)
            /\ nvs' \in PartlySaved(Received) \cup {Received}
  BY DEF DeviceRestart, backend, history
<1>2. /\ now \in Nat /\ applied \subseteq Pairs /\ nvs \in Pairs
      /\ commands \in Seq(Pairs \cup {Bad})
      /\ acks \in Seq(Pairs) /\ acks \in Seq(Known)
  BY DEF Inv, TypeOK, KnownInv
<1>3. commands' \in Seq(Pairs \cup {Bad})
  BY <1>1, <1>2, TailInSeq
<1>4. nvs' \in Pairs
  BY <1>1, <1>2, PartlySavedType
<1>5. Known' = Known
  BY <1>1 DEF Known
<1>6. <<>> \in Seq(Pairs) /\ <<>> \in Seq(Known)
  OBVIOUS
<1>7. acks' \in Seq(Pairs) /\ acks' \in Seq(Known')
  BY <1>1, <1>2, <1>5, <1>6
<1>8. faults' \in 0 .. MaxFaults
  BY <1>1, FaultType DEF Inv
<1> QED
  BY <1>1, <1>2, <1>3, <1>4, <1>7, <1>8, OutsideKeeps

(* Lost, Duplicated, StrayCommand *)
LEMMA InvNetwork ==
  ASSUME Inv, Lost \/ Duplicated \/ StrayCommand
  PROVE  Inv'
<1>1. /\ now \in Nat /\ applied \subseteq Pairs
      /\ nvs \in Pairs /\ running \in Pairs
      /\ commands \in Seq(Pairs \cup {Bad})
      /\ acks \in Seq(Pairs) /\ acks \in Seq(Known)
  BY DEF Inv, TypeOK, KnownInv
<1>2. /\ Fault
      /\ UNCHANGED <<now, req, ackMap, row, running, nvs, applied, allGood>>
  BY DEF Lost, Duplicated, StrayCommand, backend, device, history
<1>3. Known' = Known
  BY <1>2 DEF Known
<1>4. commands' \in Seq(Pairs \cup {Bad})
  <2>1. CASE Lost
    BY <1>1, <2>1, TailInSeq DEF Lost
  <2>2. CASE Duplicated
    BY <1>1, <2>2, TwiceInSeq DEF Duplicated
  <2>3. CASE StrayCommand
    BY <1>1, <2>3, AppendInSeq DEF StrayCommand
  <2> QED
    BY <2>1, <2>2, <2>3
<1>5. acks' \in Seq(Pairs) /\ acks' \in Seq(Known')
  <2>1. CASE Lost
    BY <1>1, <1>3, <2>1, TailInSeq DEF Lost
  <2>2. CASE Duplicated
    BY <1>1, <1>3, <2>2, TwiceInSeq DEF Duplicated
  <2>3. CASE StrayCommand
    BY <1>1, <1>3, <2>3 DEF StrayCommand
  <2> QED
    BY <2>1, <2>2, <2>3
<1>6. faults' \in 0 .. MaxFaults
  BY <1>2, FaultType DEF Inv
<1> QED
  BY <1>1, <1>2, <1>4, <1>5, <1>6, OutsideKeeps

LEMMA InvTick ==
  ASSUME Inv, Tick
  PROVE  Inv'
<1>1. /\ now' = now + 1
      /\ UNCHANGED <<req, ackMap, row, commands, acks, running, nvs, applied,
                     allGood, faults>>
  BY DEF Tick, backend, channels, device, history
<1>2. /\ now \in Nat /\ applied \subseteq Pairs
      /\ nvs \in Pairs /\ running \in Pairs
      /\ commands \in Seq(Pairs \cup {Bad})
      /\ acks \in Seq(Pairs) /\ acks \in Seq(Known)
      /\ faults \in 0 .. MaxFaults
  BY DEF Inv, TypeOK, KnownInv
<1>3. Known' = Known /\ now' \in Nat /\ now <= now'
  BY <1>1, <1>2 DEF Known
<1> QED
  BY <1>1, <1>2, <1>3, OutsideKeeps

LEMMA InvStutter ==
  ASSUME Inv, UNCHANGED vars
  PROVE  Inv'
  BY DEF Inv, TypeOK, KnownInv, Known, Open, vars, backend, channels, device,
         history

LEMMA InvNext == Inv /\ [Next]_vars => Inv'
<1> SUFFICES ASSUME Inv, [Next]_vars PROVE Inv'
  OBVIOUS
<1>1. ASSUME NEW r \in Requests, NEW c \in Targets, Start(r, c) PROVE Inv'
  BY <1>1, InvStart
<1>2. ASSUME NEW r \in Requests, RequestStep(r) PROVE Inv'
  BY <1>2, InvRequestStep
<1>3. CASE HandleAck
  BY <1>3, InvHandleAck
<1>4. CASE BackendRestart
  BY <1>4, InvBackendRestart
<1>5. CASE ApplyUpdate
  BY <1>5, InvApplyUpdate
<1>6. CASE SaveToNvsFails
  BY <1>6, InvSaveToNvsFails
<1>7. CASE IgnoreCommand
  BY <1>7, InvIgnoreCommand
<1>8. CASE DeviceRestart
  BY <1>8, InvDeviceRestart
<1>9. CASE Lost \/ Duplicated \/ StrayCommand
  BY <1>9, InvNetwork
<1>10. CASE Tick
  BY <1>10, InvTick
<1>11. CASE AtBound \/ UNCHANGED vars
  BY <1>11, InvStutter DEF AtBound
<1> QED
  BY <1>1, <1>2, <1>3, <1>4, <1>5, <1>6, <1>7, <1>8, <1>9, <1>10, <1>11
  DEF Next

----------------------------------------------------------------------------
(* Results. *)

(* The intervals in force, saved, recorded and under way are always pairs  *)
(* the firmware accepts, and no ACK record is from the future.             *)
THEOREM TypeCorrect == Spec => []TypeOK
<1>1. Inv => TypeOK
  BY DEF Inv
<1> QED
  BY <1>1, InvInit, InvNext, PTL DEF Spec

(* The device's row never shows intervals that the device has not run,     *)
(* saved and acknowledged, however requests overlap, messages are lost,    *)
(* repeated or late, saves fail and either side restarts.                  *)
THEOREM RecordStaysApplied == Spec => []RecordWasApplied
<1>1. Inv => RecordWasApplied
  BY DEF Inv, KnownInv, Known, RecordWasApplied
<1> QED
  BY <1>1, InvInit, InvNext, PTL DEF Spec

----------------------------------------------------------------------------
(* RecordAgrees, for operators who wait for the answer before they ask     *)
(* again.  Both channels keep the order, so while a request for c is open  *)
(* each of them carries messages about the pair in the row, then messages  *)
(* about c; an ACK for c proves that the device has taken c and that no    *)
(* older command is left.                                                  *)

OneAtATime == \A r, s \in Requests : Open(r) /\ Open(s) => r = s

AllNew(q, c) == \A i \in 1 .. Len(q) : q[i] \in {c, Bad}

NewAfterOld(q, v, c) ==
  /\ \A i \in 1 .. Len(q) : q[i] \in {v, c, Bad}
  /\ \A i, j \in 1 .. Len(q) : i < j /\ q[i] = c => q[j] \in {c, Bad}

Untouched == running = row /\ nvs = row
Settled(c) == running = c /\ nvs = c /\ AllNew(commands, c)

(* The ACK record, if there is one, speaks of another pair than the row. *)
Told == ackMap # NoAck /\ ackMap.cfg # row

(* Where the system can be while c is asked for (or is the row). *)
Agreement(c) ==
  /\ NewAfterOld(commands, row, c)
  /\ NewAfterOld(acks, row, c)
  /\ ackMap # NoAck => ackMap.cfg \in {row, c}
  /\ Untouched \/ AllNew(commands, c)
  /\ c = row => Untouched
  /\ (~Told /\ AllNew(acks, row)) \/ Settled(c)
  /\ Told => AllNew(acks, c)

Wanted(c) ==
  \/ \E r \in Requests : Open(r) /\ req[r].cfg = c
  \/ c = row /\ \A r \in Requests : ~Open(r)

AgreeInv ==
  allGood =>
    /\ \A c \in Pairs : Wanted(c) => Agreement(c)
    /\ \A r \in Requests :
         req[r].pc = "save" => ackMap # NoAck /\ ackMap.cfg = req[r].cfg

----------------------------------------------------------------------------
(* Channels. *)

LEMMA BadIsNoPair == Bad \notin Pairs
<1> SUFFICES ASSUME Bad \in Pairs PROVE FALSE
  OBVIOUS
<1>1. Bad.on \in Intervals
  BY DEF Pairs
<1> QED
  BY <1>1, ControlAssumption DEF Bad

LEMMA TailShape ==
  ASSUME NEW S, NEW q \in Seq(S), q # <<>>
  PROVE  /\ Len(q) \in Nat \ {0} /\ Len(Tail(q)) = Len(q) - 1
         /\ Head(q) = q[1]
         /\ \A i \in 1 .. Len(q) - 1 : Tail(q)[i] = q[i + 1]
<1>1. Len(q) \in Nat /\ Len(q) # 0
  BY EmptySeq, LenProperties
<1> QED
  BY <1>1, HeadTailProperties

LEMMA TwiceShape ==
  ASSUME NEW S, NEW q \in Seq(S), q # <<>>
  PROVE  /\ Len(q) \in Nat \ {0} /\ Len(Twice(q)) = Len(q) + 1
         /\ Twice(q)[1] = q[1]
         /\ \A i \in 2 .. Len(q) + 1 : Twice(q)[i] = q[i - 1]
<1>1. Head(q) = q[1] /\ Len(q) \in Nat \ {0} /\ q[1] \in S
  BY TailShape, TailInSeq
<1> DEFINE p == <<q[1]>>
<1>2. p \in Seq(S) /\ Len(p) = 1 /\ p[1] = q[1]
  BY <1>1
<1>3. Twice(q) = p \o q
  BY <1>1 DEF Twice
<1> HIDE DEF p
<1>4. /\ Len(p \o q) = Len(p) + Len(q)
      /\ \A i \in 1 .. Len(p) + Len(q) :
           (p \o q)[i] = IF i <= Len(p) THEN p[i] ELSE q[i - Len(p)]
  BY <1>2, ConcatProperties
<1> QED
  BY <1>1, <1>2, <1>3, <1>4

LEMMA AllNewTail ==
  ASSUME NEW S, NEW q \in Seq(S), q # <<>>, NEW c, AllNew(q, c)
  PROVE  AllNew(Tail(q), c) /\ Head(q) \in {c, Bad}
<1> DEFINE t == Tail(q)
<1>1. /\ Len(q) \in Nat \ {0} /\ Len(t) = Len(q) - 1 /\ Head(q) = q[1]
      /\ \A i \in 1 .. Len(q) - 1 : t[i] = q[i + 1]
  BY TailShape
<1> HIDE DEF t
<1>2. AllNew(t, c) /\ Head(q) \in {c, Bad}
  BY <1>1 DEF AllNew
<1> QED
  BY <1>2 DEF t

LEMMA AllNewTwice ==
  ASSUME NEW S, NEW q \in Seq(S), q # <<>>, NEW c, AllNew(q, c)
  PROVE  AllNew(Twice(q), c)
<1> DEFINE t == Twice(q)
<1>1. /\ Len(q) \in Nat \ {0} /\ Len(t) = Len(q) + 1 /\ t[1] = q[1]
      /\ \A i \in 2 .. Len(q) + 1 : t[i] = q[i - 1]
  BY TwiceShape
<1> HIDE DEF t
<1>2. ASSUME NEW i \in 1 .. Len(t)
      PROVE  t[i] \in {c, Bad}
  <2>1. CASE i = 1
    BY <1>1, <2>1 DEF AllNew
  <2>2. CASE i # 1
    <3>1. i \in 2 .. Len(q) + 1 /\ i - 1 \in 1 .. Len(q)
      BY <1>1, <2>2
    <3> QED
      BY <1>1, <3>1 DEF AllNew
  <2> QED
    BY <2>1, <2>2
<1> QED
  BY <1>2 DEF AllNew, t

LEMMA AllNewAppend ==
  ASSUME NEW S, NEW q \in Seq(S), NEW c, AllNew(q, c), NEW x \in {c, Bad},
         x \in S
  PROVE  AllNew(Append(q, x), c)
<1> DEFINE t == Append(q, x)
<1>1. /\ Len(q) \in Nat /\ Len(t) = Len(q) + 1 /\ t[Len(q) + 1] = x
      /\ \A i \in 1 .. Len(q) : t[i] = q[i]
  BY AppendProperties, LenProperties
<1> HIDE DEF t
<1>2. AllNew(t, c)
  BY <1>1 DEF AllNew
<1> QED
  BY <1>2 DEF t

LEMMA NewAfterOldTail ==
  ASSUME NEW S, NEW q \in Seq(S), q # <<>>, NEW v, NEW c, NewAfterOld(q, v, c)
  PROVE  /\ NewAfterOld(Tail(q), v, c)
         /\ Head(q) \in {v, c, Bad}
         /\ Head(q) = c => AllNew(Tail(q), c)
<1> DEFINE t == Tail(q)
<1>1. /\ Len(q) \in Nat \ {0} /\ Len(t) = Len(q) - 1 /\ Head(q) = q[1]
      /\ \A i \in 1 .. Len(q) - 1 : t[i] = q[i + 1]
  BY TailShape
<1> HIDE DEF t
<1>2. \A i \in 1 .. Len(t) : t[i] = q[i + 1] /\ i + 1 \in 1 .. Len(q)
  BY <1>1
<1>3. \A i \in 1 .. Len(t) : t[i] \in {v, c, Bad}
  BY <1>2 DEF NewAfterOld
<1>4. ASSUME NEW i \in 1 .. Len(t), NEW j \in 1 .. Len(t), i < j, t[i] = c
      PROVE  t[j] \in {c, Bad}
  <2>1. /\ i + 1 \in 1 .. Len(q) /\ j + 1 \in 1 .. Len(q) /\ i + 1 < j + 1
        /\ q[i + 1] = c /\ t[j] = q[j + 1]
    BY <1>2, <1>4
  <2> QED
    BY <2>1 DEF NewAfterOld
<1>5. NewAfterOld(t, v, c)
  BY <1>3, <1>4 DEF NewAfterOld
<1>6. Head(q) \in {v, c, Bad}
  BY <1>1 DEF NewAfterOld
<1>7. ASSUME Head(q) = c
      PROVE  AllNew(t, c)
  <2> SUFFICES ASSUME NEW i \in 1 .. Len(t)
               PROVE  t[i] \in {c, Bad}
    BY DEF AllNew
  <2>1. /\ 1 \in 1 .. Len(q) /\ i + 1 \in 1 .. Len(q) /\ 1 < i + 1
        /\ q[1] = c /\ t[i] = q[i + 1]
    BY <1>1, <1>2, <1>7
  <2> QED
    BY <2>1 DEF NewAfterOld
<1> QED
  BY <1>5, <1>6, <1>7 DEF t

LEMMA NewAfterOldTwice ==
  ASSUME NEW S, NEW q \in Seq(S), q # <<>>, NEW v, NEW c, NewAfterOld(q, v, c)
  PROVE  NewAfterOld(Twice(q), v, c)
<1> DEFINE t == Twice(q)
           from(i) == IF i = 1 THEN 1 ELSE i - 1
<1>1. /\ Len(q) \in Nat \ {0} /\ Len(t) = Len(q) + 1 /\ t[1] = q[1]
      /\ \A i \in 2 .. Len(q) + 1 : t[i] = q[i - 1]
  BY TwiceShape
<1> HIDE DEF t
<1>2. ASSUME NEW i \in 1 .. Len(t)
      PROVE  t[i] = q[from(i)] /\ from(i) \in 1 .. Len(q)
  <2>1. CASE i = 1
    BY <1>1, <2>1
  <2>2. CASE i # 1
    <3>1. i \in 2 .. Len(q) + 1
      BY <1>1, <2>2
    <3> QED
      BY <1>1, <2>2, <3>1
  <2> QED
    BY <2>1, <2>2
<1>3. \A i \in 1 .. Len(t) : t[i] \in {v, c, Bad}
  <2> HIDE DEF from
  <2> QED
    BY <1>2 DEF NewAfterOld
<1>4. ASSUME NEW i \in 1 .. Len(t), NEW j \in 1 .. Len(t), i < j, t[i] = c
      PROVE  t[j] \in {c, Bad}
  <2>1. /\ from(i) \in 1 .. Len(q) /\ from(j) \in 1 .. Len(q)
        /\ q[from(i)] = c /\ t[j] = q[from(j)]
    BY <1>2, <1>4
  <2>2. from(i) = from(j) \/ from(i) < from(j)
    BY <1>1, <1>4
  <2> HIDE DEF from
  <2> QED
    BY <2>1, <2>2 DEF NewAfterOld
<1> QED
  BY <1>3, <1>4 DEF NewAfterOld, t

LEMMA NewAfterOldAppend ==
  ASSUME NEW S, NEW q \in Seq(S), NEW v, NEW c, NewAfterOld(q, v, c),
         NEW x \in {c, Bad}, x \in S
  PROVE  NewAfterOld(Append(q, x), v, c)
<1> DEFINE t == Append(q, x)
<1>1. /\ Len(q) \in Nat /\ Len(t) = Len(q) + 1 /\ t[Len(q) + 1] = x
      /\ \A i \in 1 .. Len(q) : t[i] = q[i]
  BY AppendProperties, LenProperties
<1> HIDE DEF t
<1>2. \A i \in 1 .. Len(t) : t[i] \in {v, c, Bad}
  BY <1>1 DEF NewAfterOld
<1>3. ASSUME NEW i \in 1 .. Len(t), NEW j \in 1 .. Len(t), i < j, t[i] = c
      PROVE  t[j] \in {c, Bad}
  <2>1. i \in 1 .. Len(q) /\ q[i] = c
    BY <1>1, <1>3
  <2>2. CASE j = Len(q) + 1
    BY <1>1, <2>2
  <2>3. CASE j \in 1 .. Len(q)
    BY <1>1, <1>3, <2>1, <2>3 DEF NewAfterOld
  <2> QED
    BY <1>1, <2>2, <2>3
<1> QED
  BY <1>2, <1>3 DEF NewAfterOld, t

LEMMA OnlyNew ==
  ASSUME NEW q, NEW v, NEW c, AllNew(q, c)
  PROVE  NewAfterOld(q, v, c)
  BY DEF AllNew, NewAfterOld

LEMMA OnlyOld ==
  ASSUME NEW q, NEW v, NEW c \in Pairs, AllNew(q, v)
  PROVE  NewAfterOld(q, v, c)
  BY BadIsNoPair DEF AllNew, NewAfterOld

LEMMA SameIsAllNew ==
  ASSUME NEW q, NEW c, NewAfterOld(q, c, c)
  PROVE  AllNew(q, c)
  BY DEF AllNew, NewAfterOld

LEMMA EmptyShape ==
  ASSUME NEW c, NEW v
  PROVE  AllNew(<<>>, c) /\ NewAfterOld(<<>>, v, c)
  BY DEF AllNew, NewAfterOld

(* Saving a pair over itself, however far the save gets, changes nothing. *)
LEMMA PartlySavedSame ==
  ASSUME nvs \in Pairs
  PROVE  PartlySaved(nvs) = {nvs}
  BY DEF PartlySaved, Pairs

----------------------------------------------------------------------------
(* The device and the network. *)

LEMMA Types ==
  ASSUME Inv
  PROVE  /\ commands \in Seq(Pairs \cup {Bad}) /\ acks \in Seq(Pairs)
         /\ row \in Pairs /\ running \in Pairs /\ nvs \in Pairs
         /\ now \in Nat /\ req \in [Requests -> Request]
  BY DEF Inv, TypeOK, Request

LEMMA ChannelsKeep ==
  ASSUME NEW c, Agreement(c), UNCHANGED <<row, ackMap, running, nvs>>,
         NewAfterOld(commands', row, c),
         AllNew(commands, c) => AllNew(commands', c),
         NewAfterOld(acks', row, c),
         AllNew(acks, c) => AllNew(acks', c),
         AllNew(acks, row) => AllNew(acks', row)
  PROVE  Agreement(c)'
  BY DEF Agreement, Untouched, Settled, Told, NewAfterOld, AllNew

LEMMA AgreeApply ==
  ASSUME Inv, NEW c \in Pairs, Agreement(c), ApplyUpdate
  PROVE  Agreement(c)'
<1> DEFINE x == Received
<1>1. /\ commands # <<>> /\ x \in Pairs
      /\ commands' = Tail(commands) /\ running' = x /\ nvs' = x
      /\ acks' = Append(acks, x) /\ row' = row /\ ackMap' = ackMap
  BY DEF ApplyUpdate, backend
<1>2. /\ NewAfterOld(commands', row, c) /\ x \in {row, c, Bad}
      /\ x = c => AllNew(commands', c)
      /\ AllNew(commands, c) => x \in {c, Bad}
  BY <1>1, Types, NewAfterOldTail, AllNewTail DEF Agreement, Received
<1>3. x # Bad
  BY <1>1, BadIsNoPair
<1>4. Told' <=> Told
  BY <1>1 DEF Told
<1> HIDE DEF x
<1>5. CASE x = c
  <2>1. NewAfterOld(acks', row, c)
    BY <1>1, <1>5, Types, NewAfterOldAppend DEF Agreement
  <2>2. Told => AllNew(acks', c)
    BY <1>1, <1>5, Types, AllNewAppend DEF Agreement
  <2>3. Settled(c)' /\ AllNew(commands', c) /\ (c = row => Untouched')
    BY <1>1, <1>2, <1>5 DEF Settled, Untouched, AllNew
  <2> QED
    BY <1>1, <1>2, <1>4, <2>1, <2>2, <2>3
    DEF Agreement, NewAfterOld, AllNew
<1>6. CASE x # c
  <2>1. x = row /\ row # c /\ ~AllNew(commands, c)
    BY <1>2, <1>3, <1>6
  <2>2. Untouched /\ ~Told /\ AllNew(acks, row)
    BY <2>1 DEF Agreement, Settled
  <2>3. AllNew(acks', row)
    BY <1>1, <2>1, <2>2, Types, AllNewAppend
  <2>4. NewAfterOld(acks', row, c)
    BY <2>3, OnlyOld
  <2>5. Untouched'
    BY <1>1, <2>1 DEF Untouched
  <2> QED
    BY <1>1, <1>2, <1>4, <2>1, <2>2, <2>3, <2>4, <2>5
    DEF Agreement, NewAfterOld, AllNew
<1> QED
  BY <1>5, <1>6

(* SaveToNvsFails, and a restart with a command in hand: the command is    *)
(* gone, NVS holds any part of it and no ACK was sent.                     *)
LEMMA AgreeUnacknowledged ==
  ASSUME Inv, NEW c \in Pairs, Agreement(c),
         commands # <<>>, Received \in Pairs, commands' = Tail(commands),
         \/ running' = Received /\ nvs' \in PartlySaved(Received)
         \/ running' = nvs' /\ nvs' \in PartlySaved(Received) \cup {Received},
         UNCHANGED <<row, ackMap>>,
         acks' \in {acks, <<>>}
  PROVE  Agreement(c)'
<1> DEFINE x == Received
<1>1. /\ NewAfterOld(commands', row, c) /\ x \in {row, c, Bad}
      /\ x = c => AllNew(commands', c)
      /\ AllNew(commands, c) => x \in {c, Bad} /\ AllNew(commands', c)
  BY Types, NewAfterOldTail, AllNewTail DEF Agreement, Received
<1>2. x # Bad
  BY BadIsNoPair
<1>3. x = nvs => running' = x /\ nvs' = x
  BY Types, PartlySavedSame
<1>4. Told' <=> Told
  BY DEF Told
<1>5. /\ NewAfterOld(acks', row, c)
      /\ AllNew(acks, c) => AllNew(acks', c)
      /\ AllNew(acks, row) => AllNew(acks', row)
  BY EmptyShape DEF Agreement
<1> HIDE DEF x
<1>6. CASE x = c
  <2>1. c = row => Untouched'
    BY <1>3, <1>6 DEF Agreement, Untouched
  <2>2. Settled(c) => Settled(c)'
    BY <1>1, <1>3, <1>6 DEF Settled, AllNew
  <2> QED
    BY <1>1, <1>4, <1>5, <1>6, <2>1, <2>2 DEF Agreement, NewAfterOld, AllNew
<1>7. CASE x # c
  <2>1. x = row /\ row # c /\ ~AllNew(commands, c)
    BY <1>1, <1>2, <1>7
  <2>2. Untouched /\ ~Told /\ AllNew(acks, row)
    BY <2>1 DEF Agreement, Settled
  <2>3. Untouched'
    BY <1>3, <2>1, <2>2 DEF Untouched
  <2> QED
    BY <1>1, <1>4, <1>5, <2>1, <2>2, <2>3 DEF Agreement, NewAfterOld, AllNew
<1> QED
  BY <1>6, <1>7

LEMMA AgreeQuietRestart ==
  ASSUME NEW c \in Pairs, Agreement(c),
         UNCHANGED <<row, ackMap, nvs, commands>>, running' = nvs',
         acks' \in {acks, <<>>}
  PROVE  Agreement(c)'
<1>1. /\ NewAfterOld(acks', row, c)
      /\ AllNew(acks, c) => AllNew(acks', c)
      /\ AllNew(acks, row) => AllNew(acks', row)
  BY EmptyShape DEF Agreement
<1>2. /\ Untouched => Untouched'
      /\ Settled(c) => Settled(c)'
      /\ Told' <=> Told
  BY DEF Untouched, Settled, Told, AllNew
<1> QED
  BY <1>1, <1>2 DEF Agreement, NewAfterOld, AllNew

LEMMA AgreeNetwork ==
  ASSUME Inv, NEW c \in Pairs, Agreement(c),
         IgnoreCommand \/ Lost \/ Duplicated \/ StrayCommand
  PROVE  Agreement(c)'
<1>1. UNCHANGED <<row, ackMap, running, nvs>>
  BY DEF IgnoreCommand, Lost, Duplicated, StrayCommand, backend, device
<1>2. \/ commands' = commands
      \/ commands # <<>> /\ commands' \in {Tail(commands), Twice(commands)}
      \/ commands' = Append(commands, Bad)
  BY DEF IgnoreCommand, Lost, Duplicated, StrayCommand
<1>3. \/ acks' = acks
      \/ acks # <<>> /\ acks' \in {Tail(acks), Twice(acks)}
  BY DEF IgnoreCommand, Lost, Duplicated, StrayCommand
<1>4. /\ NewAfterOld(commands', row, c)
      /\ AllNew(commands, c) => AllNew(commands', c)
  <2>1. CASE commands' = commands
    BY <2>1 DEF Agreement
  <2>2. CASE commands # <<>> /\ commands' \in {Tail(commands), Twice(commands)}
    BY <2>2, Types, NewAfterOldTail, AllNewTail, NewAfterOldTwice, AllNewTwice
    DEF Agreement
  <2>3. CASE commands' = Append(commands, Bad)
    BY <2>3, Types, NewAfterOldAppend, AllNewAppend DEF Agreement
  <2> QED
    BY <1>2, <2>1, <2>2, <2>3
<1>5. /\ NewAfterOld(acks', row, c)
      /\ AllNew(acks, c) => AllNew(acks', c)
      /\ AllNew(acks, row) => AllNew(acks', row)
  <2>1. CASE acks' = acks
    BY <2>1 DEF Agreement
  <2>2. CASE acks # <<>> /\ acks' \in {Tail(acks), Twice(acks)}
    BY <2>2, Types, NewAfterOldTail, AllNewTail, NewAfterOldTwice, AllNewTwice
    DEF Agreement
  <2> QED
    BY <1>3, <2>1, <2>2
<1> QED
  BY <1>1, <1>4, <1>5, ChannelsKeep

LEMMA AgreeOutside ==
  ASSUME Inv, AgreeInv,
         \/ ApplyUpdate \/ SaveToNvsFails \/ IgnoreCommand \/ DeviceRestart
         \/ Lost \/ Duplicated \/ StrayCommand \/ Tick \/ UNCHANGED vars
  PROVE  AgreeInv'
<1>1. UNCHANGED <<req, row, ackMap, allGood>>
  BY DEF ApplyUpdate, SaveToNvsFails, IgnoreCommand, DeviceRestart, Lost,
         Duplicated, StrayCommand, Tick, vars, backend, history
<1>2. ASSUME NEW c \in Pairs, Agreement(c)
      PROVE  Agreement(c)'
  <2>1. CASE ApplyUpdate
    BY <1>2, <2>1, AgreeApply
  <2>2. CASE SaveToNvsFails
    <3>1. /\ commands # <<>> /\ Received \in Pairs
          /\ commands' = Tail(commands) /\ running' = Received
          /\ nvs' \in PartlySaved(Received) /\ acks' = acks
      BY <2>2 DEF SaveToNvsFails
    <3> QED
      BY <1>1, <1>2, <3>1, AgreeUnacknowledged
  <2>3. CASE DeviceRestart
    <3>1. /\ running' = nvs' /\ acks' \in {acks, <<>>}
          /\ \/ UNCHANGED <<nvs, commands>>
             \/ /\ commands # <<>> /\ Received \in Pairs
                /\ commands' = Tail(commands)
                /\ nvs' \in PartlySaved(Received) \cup {Received}
      BY <2>3 DEF DeviceRestart
    <3>2. CASE UNCHANGED <<nvs, commands>>
      BY <1>1, <1>2, <3>1, <3>2, AgreeQuietRestart
    <3>3. CASE /\ commands # <<>> /\ Received \in Pairs
               /\ commands' = Tail(commands)
               /\ nvs' \in PartlySaved(Received) \cup {Received}
      BY <1>1, <1>2, <3>1, <3>3, AgreeUnacknowledged
    <3> QED
      BY <3>1, <3>2, <3>3
  <2>4. CASE IgnoreCommand \/ Lost \/ Duplicated \/ StrayCommand
    BY <1>2, <2>4, AgreeNetwork
  <2>5. CASE Tick \/ UNCHANGED vars
    <3>1. UNCHANGED <<row, ackMap, running, nvs, commands, acks>>
      BY <2>5 DEF Tick, vars, backend, channels, device
    <3> QED
      BY <1>2, <3>1 DEF Agreement, Untouched, Settled, Told, NewAfterOld, AllNew
  <2> QED
    BY <2>1, <2>2, <2>3, <2>4, <2>5
<1>3. \A c : Wanted(c)' <=> Wanted(c)
  BY <1>1 DEF Wanted, Open
<1>4. ASSUME allGood
      PROVE  AgreeInv'
  <2>1. \A c \in Pairs : Wanted(c)' => Agreement(c)'
    BY <1>2, <1>3, <1>4 DEF AgreeInv
  <2>2. \A r \in Requests :
          req'[r].pc = "save" => ackMap' # NoAck /\ ackMap'.cfg = req'[r].cfg
    BY <1>1, <1>4 DEF AgreeInv
  <2> QED
    BY <2>1, <2>2 DEF AgreeInv
<1> QED
  BY <1>1, <1>4 DEF AgreeInv

----------------------------------------------------------------------------
(* The backend. *)

LEMMA NothingOpen ==
  ASSUME Inv, AgreeInv, allGood, \A r \in Requests : ~Open(r)
  PROVE  Agreement(row)
  BY Types DEF AgreeInv, Wanted

LEMMA AgreeStart ==
  ASSUME Inv, AgreeInv, OneAtATime', NEW r \in Requests, NEW c \in Targets,
         Start(r, c)
  PROVE  AgreeInv'
<1> DEFINE new == [pc |-> "publish", cfg |-> c, sentAt |-> now,
                   timeoutAt |-> 0]
<1>1. /\ ~Open(r) /\ commands' = Append(commands, c)
      /\ req' = [req EXCEPT ![r] = new]
      /\ UNCHANGED <<row, ackMap, acks, running, nvs, allGood>>
  BY DEF Start, device, history
<1>2. c \in Pairs /\ req \in [Requests -> Request]
  BY Types, ControlAssumption
<1>3. /\ new.pc = "publish" /\ new.cfg = c
      /\ \A s \in Requests : req'[s] = IF s = r THEN new ELSE req[s]
  BY <1>1, <1>2
<1> HIDE DEF new
<1>4. Open(r)' /\ \A s \in Requests : s # r => (Open(s)' <=> Open(s))
  BY <1>3 DEF Open
<1>5. \A s \in Requests : ~Open(s)
  BY <1>1, <1>4 DEF OneAtATime
<1> SUFFICES ASSUME allGood
             PROVE  AgreeInv'
  BY <1>1 DEF AgreeInv
<1>6. Agreement(row)
  BY <1>5, NothingOpen
<1>7. /\ AllNew(commands, row) /\ AllNew(acks, row)
      /\ ~Told /\ Untouched
  BY <1>6, SameIsAllNew DEF Agreement, Told
<1>8. NewAfterOld(commands', row, c)
  <2>1. NewAfterOld(commands, row, c)
    BY <1>2, <1>7, OnlyOld
  <2> QED
    BY <1>1, <1>2, <2>1, Types, NewAfterOldAppend
<1>9. NewAfterOld(acks, row, c)
  BY <1>2, <1>7, OnlyOld
<1>10. Untouched' /\ ~Told'
  BY <1>1, <1>7 DEF Untouched, Told
<1>11. Agreement(c)'
  BY <1>1, <1>7, <1>8, <1>9, <1>10
  DEF Agreement, NewAfterOld, AllNew, Told
<1>12. \A d : Wanted(d)' => d = c
  BY <1>3, <1>4, <1>5 DEF Wanted
<1>13. \A s \in Requests : req'[s].pc # "save"
  BY <1>3, <1>5 DEF Open
<1> QED
  BY <1>11, <1>12, <1>13 DEF AgreeInv

LEMMA AgreeRequestStep ==
  ASSUME Inv, AgreeInv, OneAtATime, NEW r \in Requests, RequestStep(r)
  PROVE  AgreeInv'
<1> SUFFICES ASSUME allGood, allGood'
             PROVE  AgreeInv'
  <2>1. ~allGood => ~allGood'
    BY DEF RequestStep, PublishReturns, PublishFails, PollAck, TimeOut, Save,
           SaveFails, history
  <2> QED
    BY <2>1 DEF AgreeInv
<1>1. req \in [Requests -> Request] /\ req[r] \in Request
  BY Types
<1>c. PICK c : c = req[r].cfg
  OBVIOUS
<1>2. /\ Open(r) /\ c \in Pairs
      /\ UNCHANGED <<ackMap, commands, acks, running, nvs>>
  BY <1>c, <1>1 DEF RequestStep, PublishReturns, PublishFails, PollAck, TimeOut,
                   Save, SaveFails, channels, device, Open, Request
<1>3. Agreement(c)
  BY <1>c, <1>2 DEF AgreeInv, Wanted
<1>4. \A s \in Requests : s # r => ~Open(s)
  BY <1>2 DEF OneAtATime
<1>5. CASE PublishReturns(r) \/ PollAck(r)
  <2> DEFINE new == req'[r]
  <2>1. /\ row' = row
        /\ new.pc \in {"wait", "save"} /\ new.cfg = c
        /\ \A s \in Requests : s # r => req'[s] = req[s]
        /\ new.pc = "save" => ackMap # NoAck /\ ackMap.cfg = c
    <3>1. CASE PublishReturns(r)
      <4> DEFINE mid == [req[r] EXCEPT !.pc = "wait"]
                 fin == [mid EXCEPT !.timeoutAt = now + WaitTimeout]
      <4>1. row' = row /\ req' = [req EXCEPT ![r] = fin]
        BY <1>1, <3>1 DEF PublishReturns
      <4>2. fin.pc = "wait" /\ fin.cfg = c
        BY <1>c, <1>1 DEF Request
      <4> HIDE DEF fin
      <4> QED
        BY <1>1, <4>1, <4>2
    <3>2. CASE PollAck(r)
      <4> DEFINE mid == [req[r] EXCEPT !.pc = "save"]
                 fin == [mid EXCEPT !.cfg = ackMap.cfg]
      <4>1. /\ row' = row /\ req' = [req EXCEPT ![r] = fin]
            /\ ackMap # NoAck /\ ackMap.cfg = c
        BY <1>c, <1>1, <3>2 DEF PollAck, Matches
      <4>2. fin.pc = "save" /\ fin.cfg = c
        BY <1>1, <4>1 DEF Request
      <4> HIDE DEF fin
      <4> QED
        BY <1>1, <4>1, <4>2
    <3> QED
      BY <1>5, <3>1, <3>2
  <2> HIDE DEF new
  <2>2. Agreement(c)'
    BY <1>2, <1>3, <2>1
    DEF Agreement, Untouched, Settled, Told, NewAfterOld, AllNew
  <2>3. Open(r)' /\ \A s \in Requests : s # r => ~Open(s)'
    BY <1>4, <2>1 DEF Open, new
  <2>4. \A d : Wanted(d)' => d = c
    BY <2>1, <2>3 DEF Wanted, new
  <2>5. ASSUME NEW s \in Requests, req'[s].pc = "save"
        PROVE  ackMap' # NoAck /\ ackMap'.cfg = req'[s].cfg
    <3>1. s = r
      BY <2>3, <2>5 DEF Open
    <3> QED
      BY <1>2, <2>1, <2>5, <3>1 DEF new
  <2> QED
    BY <2>2, <2>4, <2>5 DEF AgreeInv
<1>6. CASE Save(r)
  <2>1. /\ row' = c /\ req[r].pc = "save"
        /\ req' = [req EXCEPT ![r].pc = "done"]
    BY <1>c, <1>6 DEF Save, Ends
  <2>2. ackMap # NoAck /\ ackMap.cfg = c
    BY <1>c, <2>1 DEF AgreeInv
  <2>3. \A s \in Requests : ~Open(s)'
    <3>1. req'[r].pc = "done" /\ \A s \in Requests : s # r => req'[s] = req[s]
      BY <1>1, <2>1 DEF Request
    <3> QED
      BY <1>4, <3>1 DEF Open
  <2>4. /\ AllNew(commands, c) /\ AllNew(acks, c)
        /\ running = c /\ nvs = c
    <3>1. CASE c = row
      BY <1>3, <3>1, SameIsAllNew DEF Agreement, Untouched
    <3>2. CASE c # row
      BY <1>3, <2>2, <3>2 DEF Agreement, Told, Settled
    <3> QED
      BY <3>1, <3>2
  <2>5. NewAfterOld(commands, c, c) /\ NewAfterOld(acks, c, c)
    BY <2>4, OnlyNew
  <2>6. Agreement(c)'
    BY <1>2, <2>1, <2>2, <2>4, <2>5
    DEF Agreement, Untouched, Settled, Told, NewAfterOld, AllNew
  <2>7. \A d : Wanted(d)' => d = c
    BY <2>1, <2>3 DEF Wanted
  <2>8. \A s \in Requests : req'[s].pc # "save"
    BY <2>3 DEF Open
  <2> QED
    BY <2>6, <2>7, <2>8 DEF AgreeInv
<1>7. CASE PublishFails(r) \/ TimeOut(r) \/ SaveFails(r)
  BY <1>7 DEF PublishFails, TimeOut, SaveFails
<1> QED
  BY <1>5, <1>6, <1>7 DEF RequestStep

LEMMA AgreeHandleAck ==
  ASSUME Inv, AgreeInv, HandleAck
  PROVE  AgreeInv'
<1> DEFINE h == Head(acks)
<1>1. /\ acks # <<>> /\ acks' = Tail(acks)
      /\ ackMap' = [cfg |-> h, time |-> now]
      /\ UNCHANGED <<req, row, commands, running, nvs, allGood>>
  BY DEF HandleAck, device, history
<1>2. h \in Pairs /\ h # Bad /\ now \in Nat
  BY <1>1, Types, TailInSeq, BadIsNoPair
<1>3. ackMap' # NoAck /\ ackMap'.cfg = h
  BY <1>1, <1>2 DEF NoAck
<1>4. ASSUME NEW c \in Pairs, Agreement(c)
      PROVE  Agreement(c)' /\ h \in {row, c} /\ (Told => h = c)
  <2>1. /\ NewAfterOld(acks', row, c) /\ h \in {row, c, Bad}
        /\ h = c => AllNew(acks', c)
    BY <1>1, <1>4, Types, NewAfterOldTail DEF Agreement
  <2>2. /\ AllNew(acks, c) => AllNew(acks', c) /\ h \in {c, Bad}
        /\ AllNew(acks, row) => AllNew(acks', row) /\ h \in {row, Bad}
    BY <1>1, Types, AllNewTail
  <2>3. h \in {row, c} /\ (Told => h = c)
    BY <1>2, <1>4, <2>1, <2>2 DEF Agreement
  <2>4. Told' <=> h # row
    BY <1>1, <1>3 DEF Told
  <2> HIDE DEF h
  <2>5. (~Told' /\ AllNew(acks', row)) \/ Settled(c)'
    <3>1. Settled(c) => Settled(c)'
      BY <1>1 DEF Settled, AllNew
    <3>2. AllNew(acks, row) => ~Told' /\ AllNew(acks', row)
      BY <1>2, <2>2, <2>4
    <3> QED
      BY <1>4, <3>1, <3>2 DEF Agreement
  <2>6. Told' => AllNew(acks', c)
    BY <2>1, <2>3, <2>4
  <2>7. Untouched' <=> Untouched
    BY <1>1 DEF Untouched
  <2> QED
    BY <1>1, <1>3, <1>4, <2>1, <2>3, <2>5, <2>6, <2>7
    DEF Agreement, NewAfterOld, AllNew
<1> HIDE DEF h
<1>5. \A c : Wanted(c)' <=> Wanted(c)
  BY <1>1 DEF Wanted, Open
<1> SUFFICES ASSUME allGood
             PROVE  AgreeInv'
  BY <1>1 DEF AgreeInv
<1>6. \A c \in Pairs : Wanted(c)' => Agreement(c)'
  BY <1>4, <1>5 DEF AgreeInv
<1>7. ASSUME NEW r \in Requests, req'[r].pc = "save"
      PROVE  ackMap'.cfg = req'[r].cfg
  <2> DEFINE c == req[r].cfg
  <2>1. req[r].pc = "save" /\ c \in Pairs /\ Open(r)
    BY <1>1, <1>7, Types DEF Request, Open
  <2>2. ackMap # NoAck /\ ackMap.cfg = c
    BY <2>1 DEF AgreeInv
  <2>3. Agreement(c)
    BY <2>1 DEF AgreeInv, Wanted
  <2> HIDE DEF c
  <2>4. h \in {row, c} /\ (Told => h = c)
    BY <1>4, <2>1, <2>3
  <2>5. h = c
    BY <2>2, <2>4 DEF Told
  <2> QED
    BY <1>1, <1>3, <2>5 DEF c
<1> QED
  BY <1>3, <1>6, <1>7 DEF AgreeInv

LEMMA AgreeBackendRestart ==
  ASSUME Inv, AgreeInv, BackendRestart
  PROVE  AgreeInv'
<1>1. /\ ackMap' = NoAck
      /\ req' = [r \in Requests |-> [req[r] EXCEPT !.pc = "done"]]
      /\ UNCHANGED <<row, commands, acks, running, nvs>>
      /\ allGood' = (allGood /\ \A r \in Requests : ~Open(r))
  BY DEF BackendRestart, channels, device
<1>2. CASE ~allGood'
  BY <1>2 DEF AgreeInv
<1>3. CASE allGood'
  <2>1. Agreement(row)
    BY <1>1, <1>3, NothingOpen
  <2>2. AllNew(acks, row)
    BY <2>1, SameIsAllNew DEF Agreement
  <2>3. Agreement(row)'
    BY <1>1, <2>1, <2>2
    DEF Agreement, Untouched, Settled, Told, NewAfterOld, AllNew
  <2>4. \A r \in Requests : req'[r].pc = "done"
    BY <1>1, Types DEF Request
  <2>5. \A c : Wanted(c)' => c = row'
    BY <2>4 DEF Wanted, Open
  <2> QED
    BY <1>1, <2>3, <2>4, <2>5 DEF AgreeInv
<1> QED
  BY <1>2, <1>3

LEMMA AgreeNext ==
  ASSUME Inv, AgreeInv, OneAtATime, OneAtATime', [Next]_vars
  PROVE  AgreeInv'
<1>1. ASSUME NEW r \in Requests, NEW c \in Targets, Start(r, c) PROVE AgreeInv'
  BY <1>1, AgreeStart
<1>2. ASSUME NEW r \in Requests, RequestStep(r) PROVE AgreeInv'
  BY <1>2, AgreeRequestStep
<1>3. CASE HandleAck
  BY <1>3, AgreeHandleAck
<1>4. CASE BackendRestart
  BY <1>4, AgreeBackendRestart
<1>5. CASE \/ ApplyUpdate \/ SaveToNvsFails \/ IgnoreCommand \/ DeviceRestart
           \/ Lost \/ Duplicated \/ StrayCommand \/ Tick \/ AtBound
           \/ UNCHANGED vars
  BY <1>5, AgreeOutside DEF AtBound
<1> QED
  BY <1>1, <1>2, <1>3, <1>4, <1>5 DEF Next

LEMMA AgreeInit ==
  ASSUME Init
  PROVE  AgreeInv
<1>1. \A r \in Requests : req[r].pc = "done"
  BY DEF Init, NoRequest
<1>2. \A c : Wanted(c) => c = row
  BY <1>1 DEF Wanted, Open
<1>3. commands = <<>> /\ acks = <<>> /\ Untouched /\ ackMap = NoAck
  BY DEF Init, Untouched
<1>4. Agreement(row)
  BY <1>3, EmptyShape DEF Agreement, Told
<1> QED
  BY <1>1, <1>2, <1>4 DEF AgreeInv

(* Operators who wait for the answer before they ask again, and have       *)
(* always been told "success", can rely on the row: it is what the device  *)
(* runs and has saved, whatever was lost, repeated, late or restarted.     *)
THEOREM RecordStaysTrue == Spec /\ []OneAtATime => []RecordAgrees
<1>1. Init => AgreeInv
  BY AgreeInit
<1>2. Inv /\ AgreeInv /\ OneAtATime /\ OneAtATime' /\ [Next]_vars => AgreeInv'
  BY AgreeNext
<1>3. Inv /\ AgreeInv => RecordAgrees
  BY NothingOpen DEF RecordAgrees, Agreement, Untouched
<1> QED
  BY <1>1, <1>2, <1>3, InvInit, InvNext, PTL DEF Spec
=============================================================================
