--------------------------- MODULE FirmwareQueue ---------------------------
(***************************************************************************)
(* The store-and-forward queue of the firmware (main.cpp): a ring of       *)
(* telemetryQueue slots with queueHead and queueCount, filled by           *)
(* publishMessage when the broker cannot be reached and emptied by         *)
(* flushQueuedMessages.                                                    *)
(*                                                                         *)
(* The firmware is one loop, but every modem command takes seconds during  *)
(* which the network may change: one action is the code up to and with one *)
(* publishRawMessage.  "Sent" means that the modem accepted the message:   *)
(* telemetry is published with QoS 0, the broker confirms nothing.         *)
(*                                                                         *)
(* Abstracted: topics and payloads (a message is its number in the order   *)
(* of production, 0 is the empty string of a free slot), the reconnect     *)
(* back-off (ReconnectBackoff) and the identity message of a connect.      *)
(***************************************************************************)
EXTENDS Integers, Sequences

CONSTANTS
  Capacity,       \* telemetry_queue_capacity
  MaxProduced,    \* bound: messages built
  MaxReboots,     \* bound: power cycles
  MaxSent         \* bound: an unacknowledged message is not sent beyond it

ASSUME QueueAssumption ==
  /\ Capacity \in Nat \ {0}
  /\ MaxProduced \in Nat /\ MaxReboots \in Nat /\ MaxSent \in Nat

VARIABLES
  slots, head, count, \* telemetryQueue, queueHead, queueCount
  connected,          \* mqttConnected: what the firmware believes
  pc,                 \* where the firmware is, see PCs
  hand,               \* the message publishMessage was called with, or 0
  produced,           \* messages built so far
  sent,               \* messages the modem accepted, in order
  link, session,      \* the network; the MQTT session of modem and broker
  bootMark, reboots   \* history: produced at the last boot; boots so far

queue == <<slots, head, count>>
network == <<link, session>>
history == <<bootMark, reboots>>
vars == <<queue, connected, pc, hand, produced, sent, network, history>>

(* loop(): between two calls; flush: flushQueuedMessages called from loop; *)
(* flushFirst: the flush inside publishMessage; publish: the last publish  *)
(* of publishMessage.                                                      *)
PCs == {"loop", "flush", "flushFirst", "publish"}

Index == 0 .. Capacity - 1

----------------------------------------------------------------------------
(* The ring. *)

QueueFull == count = Capacity
QueueEmpty == count = 0
Peek == slots[head]

(* Mutant: the newest message makes room. *)
EnqueueDropsNewest(m) ==
  /\ slots' = [slots EXCEPT ![IF QueueFull THEN (head + count - 1) % Capacity
                              ELSE (head + count) % Capacity] = m]
  /\ head' = head
  /\ count' = IF QueueFull THEN count ELSE count + 1

(* enqueueMessage: a full queue first pops its oldest message. *)
Enqueue(m) ==
  IF QueueFull
  THEN LET first == (head + 1) % Capacity
       IN /\ slots' = [[slots EXCEPT ![head] = 0]
                         EXCEPT ![(first + count - 1) % Capacity] = m]
          /\ head' = first
          /\ count' = count
  ELSE /\ slots' = [slots EXCEPT ![(head + count) % Capacity] = m]
       /\ head' = head
       /\ count' = count + 1

(* Mutant: the head runs past the last slot. *)
PopWithoutWrap ==
  /\ slots' = [slots EXCEPT ![head] = 0]
  /\ head' = head + 1
  /\ count' = count - 1

(* popQueuedMessage *)
Pop ==
  /\ slots' = [slots EXCEPT ![head] = 0]
  /\ head' = (head + 1) % Capacity
  /\ count' = count - 1

----------------------------------------------------------------------------
(* publishRawMessage(m): with a live session the modem accepts m and the   *)
(* firmware reads the acknowledgement; with a broken one the session is    *)
(* closed, and the modem may have accepted m before it broke.              *)

Accepted(m) ==
  /\ session
  /\ sent' = Append(sent, m)
  /\ UNCHANGED <<connected, session>>

(* Mutant: the failed publish leaves the firmware connected. *)
NotAcknowledgedStaysConnected(m) ==
  /\ ~session
  /\ \/ sent' = sent
     \/ Len(sent) < MaxSent /\ sent' = Append(sent, m)
  /\ UNCHANGED <<connected, session>>

NotAcknowledged(m) ==
  /\ ~session
  /\ \/ sent' = sent
     \/ Len(sent) < MaxSent /\ sent' = Append(sent, m)
  /\ connected' = FALSE
  /\ UNCHANGED session

(* connectMQTT succeeds if the network is there. *)
Connect ==
  /\ link
  /\ connected' = TRUE
  /\ session' = TRUE

(* ensureMqttConnected fails while the back-off runs, or because the *)
(* connection cannot be made; an attempt ends the session there was. *)
CannotConnect ==
  /\ ~connected
  /\ session' \in {session, FALSE}
  /\ UNCHANGED connected

----------------------------------------------------------------------------
(* The loop. *)

(* "+QMTSTAT:" in the modem's output. *)
NoticeDrop ==
  /\ pc = "loop" /\ connected /\ ~session
  /\ connected' = FALSE
  /\ UNCHANGED <<queue, pc, hand, produced, sent, network, history>>

(* maintainConnectivity, once the back-off is over. *)
Reconnect ==
  /\ pc = "loop" /\ ~connected
  /\ Connect
  /\ UNCHANGED <<queue, pc, hand, produced, sent, link, history>>

StartFlush ==
  /\ pc = "loop" /\ connected /\ ~QueueEmpty
  /\ pc' = "flush"
  /\ UNCHANGED <<queue, connected, hand, produced, sent, network, history>>

(* Mutant: with a connection the message overtakes the queue. *)
BuildPublishNow ==
  /\ pc = "loop"
  /\ produced < MaxProduced
  /\ produced' = produced + 1
  /\ hand' = produced + 1
  /\ \/ connected /\ UNCHANGED <<connected, session>>
     \/ ~connected /\ Connect
  /\ pc' = "publish"
  /\ UNCHANGED <<queue, sent, link, history>>

(* A sample is due (or an ACK): publishMessage, up to its first publish.   *)
BuildPublish ==
  /\ pc = "loop"
  /\ produced < MaxProduced
  /\ produced' = produced + 1
  /\ hand' = produced + 1
  /\ \/ connected /\ UNCHANGED <<connected, session>>
     \/ ~connected /\ Connect
  /\ pc' = IF QueueEmpty THEN "publish" ELSE "flushFirst"
  /\ UNCHANGED <<queue, sent, link, history>>

BuildQueue ==
  /\ pc = "loop"
  /\ produced < MaxProduced
  /\ produced' = produced + 1
  /\ CannotConnect
  /\ Enqueue(produced + 1)
  /\ UNCHANGED <<pc, hand, sent, link, history>>

(* One iteration of the loop of flushQueuedMessages. *)
FlushSends ==
  /\ pc \in {"flush", "flushFirst"}
  /\ Accepted(Peek)
  /\ Pop
  /\ pc' = CASE count > 1 -> pc
             [] count = 1 /\ pc = "flush" -> "loop"
             [] count = 1 /\ pc = "flushFirst" -> "publish"
  /\ UNCHANGED <<hand, produced, link, history>>

FlushStops ==
  /\ pc \in {"flush", "flushFirst"}
  /\ NotAcknowledged(Peek)
  /\ pc' = "loop"
  /\ hand' = 0
  /\ IF pc = "flushFirst" THEN Enqueue(hand) ELSE UNCHANGED queue
  /\ UNCHANGED <<produced, link, history>>

PublishSends ==
  /\ pc = "publish"
  /\ Accepted(hand)
  /\ pc' = "loop"
  /\ hand' = 0
  /\ UNCHANGED <<queue, produced, link, history>>

PublishFails ==
  /\ pc = "publish"
  /\ NotAcknowledged(hand)
  /\ Enqueue(hand)
  /\ pc' = "loop"
  /\ hand' = 0
  /\ UNCHANGED <<produced, link, history>>

(* The world. *)

LinkDown ==
  /\ link
  /\ link' = FALSE /\ session' = FALSE
  /\ UNCHANGED <<queue, connected, pc, hand, produced, sent, history>>

LinkUp ==
  /\ ~link
  /\ link' = TRUE
  /\ UNCHANGED <<queue, connected, pc, hand, produced, sent, session, history>>

Reboot ==
  /\ reboots < MaxReboots
  /\ reboots' = reboots + 1
  /\ bootMark' = produced
  /\ slots' = [i \in Index |-> 0] /\ head' = 0 /\ count' = 0
  /\ connected' = FALSE /\ session' = FALSE
  /\ pc' = "loop" /\ hand' = 0
  /\ UNCHANGED <<produced, sent, link>>

Init ==
  /\ slots = [i \in Index |-> 0] /\ head = 0 /\ count = 0
  /\ connected = FALSE /\ session = FALSE
  /\ link \in BOOLEAN
  /\ pc = "loop" /\ hand = 0
  /\ produced = 0 /\ sent = <<>>
  /\ bootMark = 0 /\ reboots = 0

Publishing == FlushSends \/ FlushStops \/ PublishSends \/ PublishFails

Next ==
  \/ NoticeDrop \/ Reconnect \/ StartFlush
  \/ BuildPublish \/ BuildQueue
  \/ Publishing
  \/ LinkDown \/ LinkUp \/ Reboot

Spec == Init /\ [][Next]_vars

(* loop() keeps running: it reconnects when the back-off is over, flushes  *)
(* when it is connected, and every modem command ends by its timeout.      *)
FairSpec ==
  Spec /\ WF_vars(Reconnect) /\ WF_vars(StartFlush) /\ WF_vars(Publishing)

----------------------------------------------------------------------------
(* Properties. *)

TypeOK ==
  /\ slots \in [Index -> Nat] /\ head \in Index /\ count \in 0 .. Capacity
  /\ connected \in BOOLEAN /\ link \in BOOLEAN /\ session \in BOOLEAN
  /\ pc \in PCs
  /\ hand \in Nat /\ produced \in Nat
  /\ sent \in Seq(Nat)
  /\ bootMark \in Nat /\ reboots \in Nat

(* What waits, oldest first: the ring, then the message in hand. *)
Ring == [i \in 1 .. count |-> slots[(head + i - 1) % Capacity]]
Waiting == IF hand = 0 THEN Ring ELSE Append(Ring, hand)

(* The ring with its head and count is the bounded queue of the contract,  *)
(* through wrap-around, eviction, interrupted flushes and power cycles.    *)
Buffer == INSTANCE StoreAndForward WITH built <- produced, waiting <- Waiting
StoreAndForwardSpec == Buffer!Spec

(* Contract: keep message ordering.  Messages leave the device in the      *)
(* order of their timestamps; one may leave twice, but never after a newer *)
(* one has left.                                                           *)
SentInOrder ==
  \A i, j \in 1 .. Len(sent) : i < j => sent[i] <= sent[j]

(* Contract: evict the oldest, never the newest.  Every one of the last    *)
(* Capacity messages built since the boot has been sent, waits in the ring *)
(* or is being published, wherever a flush was interrupted.                *)
Retained(m) ==
  \/ \E i \in 1 .. Len(sent) : sent[i] = m
  \/ \E i \in 0 .. count - 1 : slots[(head + i) % Capacity] = m
  \/ hand = m

NewestRetained ==
  \A m \in bootMark + 1 .. produced : m > produced - Capacity => Retained(m)

(* Contract: flush in order after a reconnect.  Once the network stays     *)
(* up, the queue is drained.                                               *)
DrainsWhenLinkStays == <>[]link => <>[](QueueEmpty /\ hand = 0)
=============================================================================
