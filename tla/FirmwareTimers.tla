--------------------------- MODULE FirmwareTimers ---------------------------
(***************************************************************************)
(* The schedule of the firmware's loop (main.cpp): when it polls the GPS,  *)
(* when it maintains the LTE bearer and when it tries to reach the broker, *)
(* measured with millis(), a 32-bit counter that wraps around.             *)
(*                                                                         *)
(* Two timers compare a difference of two readings (polling, maintenance); *)
(* the reconnect timer compares the reading with a deadline.               *)
(*                                                                         *)
(* One action is a piece of the loop with at most one blocking modem       *)
(* operation; it takes up to MaxBlock.  Abstracted: what the modem         *)
(* answers (an outcome), what the queue holds (FirmwareQueue), and when    *)
(* the start-up SMS is due (it may be sent in every pass with LTE).  At    *)
(* most one command is answered per pass; one that arrives with the answer *)
(* to a GPS poll counts as read by the next pass.                          *)
(***************************************************************************)
EXTENDS Integers

CONSTANTS
  Word,                 \* values of millis(): 2^32
  MaintenanceInterval,  \* connectivity_maintenance_interval_ms
  ReconnectInterval,    \* mqtt_reconnect_interval_ms
  PollIntervals,        \* ignitionOn/OffPollIntervalMs
  MaxBlock,             \* bound: the longest blocking operation
  MaxSetup              \* bound: the longest setup()

ASSUME TimersAssumption ==
  /\ Word \in Nat \ {0}
  /\ MaintenanceInterval \in Nat \ {0}
  /\ ReconnectInterval \in 1 .. Word - 1
  /\ MaxBlock \in Nat \ {0}
  /\ PollIntervals \subseteq Nat /\ PollIntervals # {}
  /\ MaxSetup \in Nat
  /\ \A i \in PollIntervals \cup {MaxSetup} : i + 8 * MaxBlock < Word

VARIABLES
  now,              \* millis()
  entered,          \* the reading maintainConnectivity works with
  lastPoll,         \* lastTelemetryPollAtMs
  lastMaintenance,  \* lastConnectivityMaintenanceAtMs
  nextReconnect,    \* nextMqttReconnectAtMs
  connected,        \* mqttConnected
  lteReady,         \* lteReady
  pc,               \* the next piece of the loop
  sincePoll,        \* history: real time since lastPoll was set, or since
                    \* the start
  sampled,          \* history: lastPoll has been set since the start
  sinceFailure,     \* history: real time since the last failed attempt to
                    \* connect, up to ReconnectInterval; NoFailure if none
  wrapped           \* history: millis() wrapped since that failure

clock == <<now, sincePoll, sampled, sinceFailure, wrapped>>
vars == <<now, entered, lastPoll, lastMaintenance, nextReconnect, connected, lteReady,
          pc, sincePoll, sampled, sinceFailure, wrapped>>

NoFailure == -1
Durations == 0 .. MaxBlock

----------------------------------------------------------------------------
(* Unsigned arithmetic. *)

(* t + d *)
Plus(t, d) == (t + d) % Word

(* Mutant: the difference of two readings as a signed number. *)
ElapsedSigned(t) == now - t

(* millis() - t *)
Elapsed(t) == (now - t) % Word

(* Mutant: the deadline itself is not yet due. *)
ReachedStrictly(reading, t) == reading > t

(* now >= t, where now is a reading of millis() *)
Reached(reading, t) == reading >= t

Sooner(a, b) == IF a < b THEN a ELSE b

(* A blocking operation of length d; fails says that it was a failed       *)
(* attempt to connect, after which the real time is counted from zero.     *)
Blocks(d, fails) ==
  /\ now' = Plus(now, d)
  /\ sincePoll' = sincePoll + d
  /\ sinceFailure' =
       IF fails THEN 0
       ELSE IF sinceFailure = NoFailure THEN NoFailure
            ELSE Sooner(sinceFailure + d, ReconnectInterval)
  /\ UNCHANGED sampled
  /\ wrapped' = (~fails /\ (wrapped \/ now + d >= Word))

(* connectMQTT with its caller's bookkeeping.  It may find the bearer gone *)
(* and fail to set it up again.                                            *)
ConnectSucceeds(d) ==
  /\ nextReconnect' = 0
  /\ lteReady' \in {lteReady, TRUE}
  /\ now' = Plus(now, d)
  /\ sincePoll' = sincePoll + d
  /\ sinceFailure' = NoFailure
  /\ wrapped' = FALSE
  /\ UNCHANGED sampled

ConnectFails(d) ==
  /\ Blocks(d, TRUE)
  /\ nextReconnect' = Plus(now', ReconnectInterval)
  /\ lteReady' \in BOOLEAN
  /\ connected' = FALSE

----------------------------------------------------------------------------
(* loop(): the modem's output is read; it may report the session's end. *)
Listen(d) ==
  /\ pc = "listen"
  /\ Blocks(d, FALSE)
  /\ connected' \in {connected, FALSE}
  /\ pc' \in {"maintain", "answer"}
  /\ UNCHANGED <<entered, lastPoll, lastMaintenance, nextReconnect, lteReady>>

MaintenanceDue == Elapsed(lastMaintenance) >= MaintenanceInterval

(* maintainConnectivity, first part.  It reads the clock once: what takes  *)
(* long here is not seen by the second part.                               *)
SetUpLte(d) ==
  /\ pc = "maintain"
  /\ MaintenanceDue /\ ~lteReady
  /\ entered' = now
  /\ lastMaintenance' = now
  /\ lteReady' \in BOOLEAN
  /\ nextReconnect' = IF lteReady' THEN 0 ELSE nextReconnect
  /\ Blocks(d, FALSE)
  /\ pc' = "sms"
  /\ UNCHANGED <<lastPoll, connected>>

NoSetUp ==
  /\ pc = "maintain"
  /\ lteReady \/ ~MaintenanceDue
  /\ entered' = now
  /\ lastMaintenance' = IF MaintenanceDue THEN now ELSE lastMaintenance
  /\ pc' = "sms"
  /\ UNCHANGED <<clock, lastPoll, nextReconnect, connected, lteReady>>

(* maintainConnectivity, second part: sendStartupSMS, or nothing to send. *)
SendStartupSms(d) ==
  /\ pc = "sms" /\ (lteReady \/ d = 0)
  /\ Blocks(d, FALSE)
  /\ pc' = "reconnect"
  /\ UNCHANGED <<entered, lastPoll, lastMaintenance, nextReconnect, connected,
                 lteReady>>

(* maintainConnectivity, third part. *)
ScheduledReconnect(d) ==
  /\ pc = "reconnect"
  /\ lteReady /\ ~connected /\ Reached(entered, nextReconnect)
  /\ \/ ConnectSucceeds(d) /\ connected' = TRUE
     \/ ConnectFails(d)
  /\ pc' = "flush"
  /\ UNCHANGED <<entered, lastPoll, lastMaintenance>>

NoReconnect ==
  /\ pc = "reconnect"
  /\ ~lteReady \/ connected \/ ~Reached(entered, nextReconnect)
  /\ pc' = "flush"
  /\ UNCHANGED <<clock, entered, lastPoll, lastMaintenance, nextReconnect,
                 connected, lteReady>>

(* flushQueuedMessages, with a connection and something to flush. *)
Flush(d) ==
  /\ pc = "flush" /\ (connected \/ d = 0)
  /\ Blocks(d, FALSE)
  /\ connected' \in {connected, FALSE}
  /\ pc' = "poll"
  /\ UNCHANGED <<entered, lastPoll, lastMaintenance, nextReconnect, lteReady>>

(* The interval in force follows the ignition and config_update commands. *)
NotYetDue(interval) ==
  /\ pc = "poll"
  /\ Elapsed(lastPoll) < interval
  /\ pc' = "listen"
  /\ UNCHANGED <<clock, entered, lastPoll, lastMaintenance, nextReconnect,
                 connected, lteReady>>

(* A sample is due: the GPS is polled, and a usable answer published. *)
Poll(interval, d) ==
  /\ pc = "poll"
  /\ Elapsed(lastPoll) >= interval
  /\ lastPoll' = now
  /\ now' = Plus(now, d)
  /\ sincePoll' = d
  /\ sampled' = TRUE
  /\ sinceFailure' = IF sinceFailure = NoFailure THEN NoFailure
                     ELSE Sooner(sinceFailure + d, ReconnectInterval)
  /\ wrapped' = (wrapped \/ now + d >= Word)
  /\ pc' \in {"publish", "listen"}
  /\ UNCHANGED <<entered, lastMaintenance, nextReconnect, connected, lteReady>>

(* publishMessage, of a sample or of the ACK of a command.  Its            *)
(* ensureMqttConnected does not ask for LTE; after it has connected, the   *)
(* publish itself may lose the connection again.                           *)
AfterPublish == IF pc = "publish" THEN "listen" ELSE "maintain"

PublishConnects(d) ==
  /\ pc \in {"publish", "answer"}
  /\ ~connected /\ Reached(now, nextReconnect)
  /\ \/ ConnectSucceeds(d) /\ connected' \in BOOLEAN
     \/ ConnectFails(d)
  /\ pc' = AfterPublish
  /\ UNCHANGED <<entered, lastPoll, lastMaintenance>>

PublishDirectly(d) ==
  /\ pc \in {"publish", "answer"}
  /\ connected \/ ~Reached(now, nextReconnect)
  /\ Blocks(d, FALSE)
  /\ connected' \in {connected, FALSE}
  /\ pc' = AfterPublish
  /\ UNCHANGED <<entered, lastPoll, lastMaintenance, nextReconnect, lteReady>>

(* setup() has started the modem and has ended with maintainConnectivity,  *)
(* which tried to connect last, if there was LTE.                          *)
Init ==
  /\ now \in 0 .. MaxSetup /\ entered \in 0 .. now
  /\ lastMaintenance = IF entered >= MaintenanceInterval THEN entered ELSE 0
  /\ \/ /\ connected = TRUE /\ lteReady = TRUE
        /\ nextReconnect = 0 /\ sinceFailure = NoFailure
     \/ /\ connected = FALSE /\ lteReady = FALSE
        /\ nextReconnect = 0 /\ sinceFailure = NoFailure
     \/ /\ connected = FALSE /\ lteReady \in BOOLEAN
        /\ nextReconnect = Plus(now, ReconnectInterval) /\ sinceFailure = 0
  /\ lastPoll = 0 /\ sincePoll = now /\ sampled = FALSE /\ wrapped = FALSE
  /\ pc = "listen"

Next ==
  \/ NoSetUp \/ NoReconnect
  \/ \E i \in PollIntervals : NotYetDue(i)
  \/ \E d \in Durations :
       \/ Listen(d) \/ SetUpLte(d) \/ SendStartupSms(d)
       \/ ScheduledReconnect(d) \/ Flush(d)
       \/ \E i \in PollIntervals : Poll(i, d)
       \/ PublishConnects(d) \/ PublishDirectly(d)

Spec == Init /\ [][Next]_vars

----------------------------------------------------------------------------
(* Properties. *)

TypeOK ==
  /\ now \in 0 .. Word - 1 /\ entered \in 0 .. Word - 1
  /\ lastPoll \in 0 .. Word - 1 /\ lastMaintenance \in 0 .. Word - 1
  /\ nextReconnect \in 0 .. Word - 1
  /\ connected \in BOOLEAN /\ lteReady \in BOOLEAN /\ wrapped \in BOOLEAN
  /\ pc \in {"listen", "answer", "maintain", "sms", "reconnect", "flush",
             "poll", "publish"}
  /\ sincePoll \in Nat /\ sampled \in BOOLEAN
  /\ sinceFailure \in 0 .. ReconnectInterval \cup {NoFailure}

(* Sampling keeps its interval across the wrap-around of millis(): at each *)
(* decision to poll the timer shows the real time since the last poll, so  *)
(* no sample is early, and none is later than the interval (the first one: *)
(* than that or setup()) and one iteration of the loop with all its        *)
(* blocking operations.                                                    *)
Waited == PollIntervals \cup (IF sampled THEN {} ELSE {MaxSetup})

SamplingPunctual ==
  pc = "poll" =>
    /\ Elapsed(lastPoll) = sincePoll
    /\ \E i \in Waited : sincePoll <= i + 8 * MaxBlock

RetryDue == pc = "maintain" /\ ~connected /\ sinceFailure = ReconnectInterval

(* The documented bounded back-off: once the interval has passed since the *)
(* last failed attempt, the next pass through maintainConnectivity (with   *)
(* LTE) tries to connect again, provided that millis() has not wrapped     *)
(* between failure and retry.                                              *)
RetryBoundedBeforeWrap == RetryDue /\ ~wrapped => Reached(now, nextReconnect)
=============================================================================
