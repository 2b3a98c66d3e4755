------------------------ MODULE FirmwareTimers_proofs ------------------------
(***************************************************************************)
(* Proofs about FirmwareTimers, for every word size and every interval.    *)
(*                                                                         *)
(*  - SamplingStaysPunctual: SamplingPunctual.  The subtraction of two     *)
(*    readings shows the real time as long as that is less than a word;    *)
(*    PollInv bounds it by what a pass through the loop may add.           *)
(*  - RetryStaysBounded: RetryBoundedBeforeWrap.  RetryInv compares the    *)
(*    deadline with the time that is left of the back-off.                 *)
(***************************************************************************)
EXTENDS FirmwareTimers, TLAPS

Readings == 0 .. Word - 1
Places == {"listen", "answer", "maintain", "sms", "reconnect", "flush", "poll",
           "publish"}

(* What the pieces of the loop since the poll may have added to an         *)
(* interval.                                                               *)
Slack(p) == CASE p = "publish"   -> MaxBlock
              [] p = "listen"    -> 2 * MaxBlock
              [] p = "answer"    -> 3 * MaxBlock
              [] p = "maintain"  -> 4 * MaxBlock
              [] p = "sms"       -> 5 * MaxBlock
              [] p = "reconnect" -> 6 * MaxBlock
              [] p = "flush"     -> 7 * MaxBlock
              [] p = "poll"      -> 8 * MaxBlock

PollInv ==
  /\ Elapsed(lastPoll) = sincePoll
  /\ \E i \in Waited : sincePoll <= i + Slack(pc)

(* As long as millis() has not wrapped, the deadline is not further away   *)
(* than the rest of the back-off.                                          *)
RetryInv ==
  ~wrapped /\ sinceFailure # NoFailure =>
    nextReconnect <= now + ReconnectInterval - sinceFailure

Inv == TypeOK /\ PollInv /\ RetryInv

----------------------------------------------------------------------------
(* Arithmetic of the word. *)

LEMMA Modulo ==
  ASSUME NEW N \in Nat \ {0}, NEW x \in 0 .. N - 1
  PROVE  /\ x % N = x
         /\ (x + N) % N = x
         /\ (x - N) % N = x
  OBVIOUS

LEMMA Constants ==
  /\ Word \in Nat \ {0} /\ MaxBlock \in Nat \ {0}
  /\ \A i \in PollIntervals \cup {MaxSetup} :
       i \in Nat /\ i + 8 * MaxBlock < Word
  /\ MaxBlock < Word
  /\ 0 \in Readings
  /\ ReconnectInterval \in Nat \ {0}
<1>1. /\ Word \in Nat \ {0} /\ MaxBlock \in Nat \ {0}
      /\ ReconnectInterval \in Nat \ {0}
  BY TimersAssumption
<1>2. \A i \in PollIntervals \cup {MaxSetup} :
        i \in Nat /\ i + 8 * MaxBlock < Word
  BY TimersAssumption
<1>3. MaxSetup \in Nat /\ MaxSetup + 8 * MaxBlock < Word
  BY <1>2
<1>4. MaxBlock < Word
  BY <1>1, <1>3
<1>5. 0 \in Readings
  BY <1>1 DEF Readings
<1> QED
  BY <1>1, <1>2, <1>4, <1>5

(* What a time since the poll is compared with. *)
LEMMA WaitedType ==
  ASSUME NEW i \in Waited
  PROVE  i \in Nat /\ i + 8 * MaxBlock < Word
  BY Constants DEF Waited

LEMMA PlusIsReading ==
  ASSUME NEW t \in Readings, NEW d \in Nat, d < Word
  PROVE  /\ Plus(t, d) \in Readings
         /\ t + d < Word => Plus(t, d) = t + d
         /\ t + d >= Word => Plus(t, d) = t + d - Word
<1>1. Word \in Nat \ {0}
  BY Constants
<1>2. CASE t + d < Word
  BY <1>1, <1>2, Modulo DEF Plus, Readings
<1>3. CASE t + d >= Word
  <2> DEFINE x == t + d - Word
  <2>1. x \in 0 .. Word - 1 /\ t + d = x + Word
    BY <1>1, <1>3 DEF Readings
  <2>2. (x + Word) % Word = x
    BY <1>1, <2>1, Modulo
  <2> QED
    BY <1>1, <1>3, <2>1, <2>2 DEF Plus, Readings
<1> QED
  BY <1>1, <1>2, <1>3 DEF Readings

(* The difference of two readings, d later. *)
LEMMA ElapsedLater ==
  ASSUME NEW t \in Readings, NEW l \in Readings, NEW d \in Nat,
         ((t - l) % Word) + d < Word
  PROVE  (Plus(t, d) - l) % Word = ((t - l) % Word) + d
<1> DEFINE e == (t - l) % Word
<1>1. Word \in Nat \ {0}
  BY Constants
<1>2. /\ t >= l => e = t - l
      /\ t < l => e = t - l + Word
  <2>1. CASE t >= l
    <3>1. t - l \in 0 .. Word - 1
      BY <1>1, <2>1 DEF Readings
    <3> QED
      BY <1>1, <2>1, <3>1, Modulo DEF Readings
  <2>2. CASE t < l
    <3> DEFINE x == t - l + Word
    <3>1. x \in 0 .. Word - 1 /\ t - l = x - Word
      BY <1>1, <2>2 DEF Readings
    <3>2. (x - Word) % Word = x
      BY <1>1, <3>1, Modulo
    <3> QED
      BY <1>1, <2>2, <3>1, <3>2 DEF Readings
  <2> QED
    BY <2>1, <2>2 DEF Readings
<1>3. e \in 0 .. Word - 1 /\ d < Word
  BY <1>1, <1>2 DEF Readings
<1>4. /\ Plus(t, d) \in Readings
      /\ t + d < Word => Plus(t, d) = t + d
      /\ t + d >= Word => Plus(t, d) = t + d - Word
  BY <1>3, PlusIsReading
<1> DEFINE y == e + d
<1>5. y \in 0 .. Word - 1 /\ (Plus(t, d) - l = y \/ Plus(t, d) - l = y - Word)
  <2>1. y \in 0 .. Word - 1
    BY <1>1, <1>3
  <2>2. t \in Int /\ l \in Int /\ d \in Nat /\ Word \in Nat
    BY <1>1 DEF Readings
  <2> HIDE DEF e
  <2>3. e = t - l \/ e = t - l + Word
    BY <1>2, <2>2
  <2>4. Plus(t, d) = t + d \/ Plus(t, d) = t + d - Word
    BY <1>4, <2>2
  <2>5. CASE e = t - l
    BY <2>1, <2>2, <2>4, <2>5
  <2>6. CASE e = t - l + Word
    <3>1. t < l
      BY <1>1, <1>3, <2>6 DEF Readings
    <3>2. y < Word
      BY <1>1, <2>1
    <3>3. t + d < Word
      BY <2>2, <2>6, <3>1, <3>2, <1>1 DEF Readings
    <3> QED
      BY <1>4, <2>1, <2>2, <2>6, <3>3
  <2> QED
    BY <2>1, <2>3, <2>5, <2>6
<1>6. y % Word = y /\ (y - Word) % Word = y
  BY <1>1, <1>5, Modulo
<1> QED
  BY <1>5, <1>6

----------------------------------------------------------------------------
(* A piece of the loop that takes d. *)

LEMMA SlackType ==
  ASSUME NEW p \in Places
  PROVE  Slack(p) \in Nat /\ Slack(p) <= 8 * MaxBlock
  BY Constants DEF Slack, Places

(* A piece adds to the time since the poll what the next place allows. *)
LEMMA PollAdvances ==
  ASSUME TypeOK, PollInv, NEW d \in Durations,
         now' = Plus(now, d), sincePoll' = sincePoll + d,
         UNCHANGED <<lastPoll, sampled>>,
         pc' \in Places, Slack(pc) + MaxBlock <= Slack(pc')
  PROVE  PollInv' /\ now' \in Readings /\ sincePoll' \in Nat
<1>1. /\ now \in Readings /\ lastPoll \in Readings /\ sincePoll \in Nat
      /\ pc \in Places
  BY DEF TypeOK, Readings, Places
<1>2. d \in Nat /\ d <= MaxBlock
  BY Constants DEF Durations
<1>3. PICK i \in Waited : sincePoll <= i + Slack(pc)
  BY DEF PollInv
<1>4. Slack(pc) \in Nat /\ Slack(pc') \in Nat /\ Slack(pc') <= 8 * MaxBlock
  BY <1>1, SlackType
<1>5. i \in Nat /\ i + 8 * MaxBlock < Word /\ MaxBlock < Word
      /\ Word \in Nat /\ MaxBlock \in Nat
  BY Constants, WaitedType
<1>6. sincePoll + d <= i + Slack(pc') /\ sincePoll + d < Word
  BY <1>1, <1>2, <1>3, <1>4, <1>5
<1>7. (now - lastPoll) % Word = sincePoll
  BY DEF PollInv, Elapsed
<1>8. (Plus(now, d) - lastPoll) % Word = sincePoll + d
  BY <1>1, <1>2, <1>6, <1>7, ElapsedLater
<1>9. now' \in Readings
  BY <1>1, <1>2, <1>5, PlusIsReading
<1>10. Elapsed(lastPoll)' = sincePoll'
  BY <1>8 DEF Elapsed
<1>11. Waited' = Waited
  BY DEF Waited
<1>12. \E j \in Waited' : sincePoll' <= j + Slack(pc')
  BY <1>6, <1>11
<1> QED
  BY <1>1, <1>2, <1>9, <1>10, <1>12 DEF PollInv

LEMMA SoonerType ==
  ASSUME NEW a \in Nat, NEW b \in Nat
  PROVE  /\ Sooner(a, b) \in 0 .. b
         /\ Sooner(a, b) = a \/ (Sooner(a, b) = b /\ a >= b)
  BY DEF Sooner

(* The back-off runs on while a piece takes d. *)
LEMMA RetryAdvances ==
  ASSUME TypeOK, RetryInv, NEW d \in Durations,
         now' = Plus(now, d),
         sinceFailure' = IF sinceFailure = NoFailure THEN NoFailure
                         ELSE Sooner(sinceFailure + d, ReconnectInterval),
         wrapped' = (wrapped \/ now + d >= Word),
         nextReconnect' \in {nextReconnect, 0}
  PROVE  /\ RetryInv'
         /\ sinceFailure' \in 0 .. ReconnectInterval \cup {NoFailure}
         /\ wrapped' \in BOOLEAN
         /\ nextReconnect' \in Readings
<1>1. /\ now \in Readings /\ nextReconnect \in Readings
      /\ sinceFailure \in 0 .. ReconnectInterval \cup {NoFailure}
  BY DEF TypeOK, Readings
<1>2. d \in Nat /\ d <= MaxBlock /\ MaxBlock < Word /\ MaxBlock \in Nat
      /\ Word \in Nat /\ ReconnectInterval \in Nat /\ 0 \in Readings
  BY Constants DEF Durations
<1>3. sinceFailure # NoFailure => sinceFailure \in Nat
  BY <1>1, <1>2
<1>4. sinceFailure # NoFailure =>
        /\ sinceFailure' \in 0 .. ReconnectInterval
        /\ \/ sinceFailure' = sinceFailure + d
           \/ sinceFailure' = ReconnectInterval
              /\ sinceFailure + d >= ReconnectInterval
  BY <1>2, <1>3, SoonerType
<1>5. sinceFailure' \in 0 .. ReconnectInterval \cup {NoFailure}
  BY <1>4
<1>6. wrapped' \in BOOLEAN
  OBVIOUS
<1>7. ASSUME ~wrapped', sinceFailure' # NoFailure
      PROVE  (nextReconnect <= now + ReconnectInterval - sinceFailure)'
  <2>1. ~wrapped /\ ~(now + d >= Word)
    BY <1>7
  <2>2. now' = now + d
    BY <1>1, <1>2, <2>1, PlusIsReading DEF Readings
  <2>3. sinceFailure # NoFailure
    BY <1>7
  <2>4. nextReconnect <= now + ReconnectInterval - sinceFailure
    BY <2>1, <2>3 DEF RetryInv
  <2>5. sinceFailure \in 0 .. ReconnectInterval
    BY <1>1, <2>3
  <2> QED
    BY <1>1, <1>2, <1>4, <2>2, <2>3, <2>4, <2>5 DEF Readings
<1>8. nextReconnect' \in Readings
  BY <1>1, <1>2
<1> QED
  BY <1>5, <1>6, <1>7, <1>8 DEF RetryInv

(* Blocks(d, FALSE) is such a piece. *)
LEMMA BlocksAdvances ==
  ASSUME Inv, NEW d \in Durations, Blocks(d, FALSE), UNCHANGED lastPoll,
         nextReconnect' \in {nextReconnect, 0},
         pc' \in Places, Slack(pc) + MaxBlock <= Slack(pc')
  PROVE  /\ PollInv' /\ RetryInv'
         /\ now' \in Readings /\ sincePoll' \in Nat
         /\ sinceFailure' \in 0 .. ReconnectInterval \cup {NoFailure}
         /\ wrapped' \in BOOLEAN /\ sampled' \in BOOLEAN
         /\ nextReconnect' \in Readings
<1>1. now' = Plus(now, d) /\ sincePoll' = sincePoll + d /\ UNCHANGED sampled
  BY DEF Blocks
<1>2. sinceFailure' = IF sinceFailure = NoFailure THEN NoFailure
                      ELSE Sooner(sinceFailure + d, ReconnectInterval)
  BY DEF Blocks
<1>3. wrapped' = (wrapped \/ now + d >= Word)
  BY Zenon DEF Blocks
<1>4. PollInv' /\ now' \in Readings /\ sincePoll' \in Nat
  BY <1>1, PollAdvances DEF Inv
<1>5. /\ RetryInv'
      /\ sinceFailure' \in 0 .. ReconnectInterval \cup {NoFailure}
      /\ wrapped' \in BOOLEAN
      /\ nextReconnect' \in Readings
  BY <1>1, <1>2, <1>3, RetryAdvances DEF Inv
<1>6. sampled' \in BOOLEAN
  BY <1>1 DEF Inv, TypeOK
<1> QED
  BY <1>4, <1>5, <1>6

(* So is an attempt to connect; it starts the back-off anew or ends it. *)
LEMMA FailureAdvances ==
  ASSUME Inv, NEW d \in Durations, ConnectFails(d), UNCHANGED lastPoll,
         pc' \in Places, Slack(pc) + MaxBlock <= Slack(pc')
  PROVE  /\ PollInv' /\ RetryInv'
         /\ now' \in Readings /\ sincePoll' \in Nat
         /\ sinceFailure' \in 0 .. ReconnectInterval \cup {NoFailure}
         /\ wrapped' \in BOOLEAN /\ sampled' \in BOOLEAN
         /\ nextReconnect' \in Readings
<1>1. now' = Plus(now, d) /\ sincePoll' = sincePoll + d /\ UNCHANGED sampled
  BY DEF ConnectFails, Blocks
<1>2. sinceFailure' = 0 /\ nextReconnect' = Plus(now', ReconnectInterval)
  BY DEF ConnectFails, Blocks
<1>3. wrapped' = (~TRUE /\ (wrapped \/ now + d >= Word))
  BY Zenon DEF ConnectFails, Blocks
<1>4. PollInv' /\ now' \in Readings /\ sincePoll' \in Nat
  BY <1>1, PollAdvances DEF Inv
<1>5. ReconnectInterval \in Nat /\ ReconnectInterval < Word /\ Word \in Nat
  BY TimersAssumption
<1>6. /\ nextReconnect' \in Readings
      /\ nextReconnect' <= now' + ReconnectInterval
  BY <1>2, <1>4, <1>5, PlusIsReading DEF Readings
<1>7. RetryInv'
  BY <1>2, <1>4, <1>5, <1>6 DEF RetryInv, Readings
<1>8. sampled' \in BOOLEAN
  BY <1>1 DEF Inv, TypeOK
<1> QED
  BY <1>8, <1>2, <1>3, <1>4, <1>5, <1>6, <1>7

LEMMA SuccessAdvances ==
  ASSUME Inv, NEW d \in Durations, ConnectSucceeds(d), UNCHANGED lastPoll,
         pc' \in Places, Slack(pc) + MaxBlock <= Slack(pc')
  PROVE  /\ PollInv' /\ RetryInv'
         /\ now' \in Readings /\ sincePoll' \in Nat
         /\ sinceFailure' \in 0 .. ReconnectInterval \cup {NoFailure}
         /\ wrapped' \in BOOLEAN /\ sampled' \in BOOLEAN
         /\ nextReconnect' \in Readings
<1>1. now' = Plus(now, d) /\ sincePoll' = sincePoll + d /\ UNCHANGED sampled
  BY DEF ConnectSucceeds
<1>2. sinceFailure' = NoFailure /\ nextReconnect' = 0 /\ wrapped' = FALSE
  BY DEF ConnectSucceeds
<1>3. PollInv' /\ now' \in Readings /\ sincePoll' \in Nat
  BY <1>1, PollAdvances DEF Inv
<1>4. sampled' \in BOOLEAN
  BY <1>1 DEF Inv, TypeOK
<1> QED
  BY <1>4, <1>2, <1>3, Constants DEF RetryInv

----------------------------------------------------------------------------

LEMMA InvInit == Init => Inv
<1> SUFFICES ASSUME Init PROVE Inv
  OBVIOUS
<1>1. /\ now \in 0 .. MaxSetup /\ entered \in 0 .. now
      /\ lastPoll = 0 /\ sincePoll = now /\ sampled = FALSE /\ pc = "listen"
      /\ lastMaintenance \in {0, entered}
  BY DEF Init
<1>2. MaxSetup \in Nat /\ MaxSetup < Word /\ MaxBlock \in Nat
  BY Constants
<1>3. now \in Readings /\ entered \in Readings /\ 0 \in Readings
  BY <1>1, <1>2, Constants DEF Readings
<1>4. /\ nextReconnect \in Readings
      /\ sinceFailure \in 0 .. ReconnectInterval \cup {NoFailure}
      /\ sinceFailure # NoFailure =>
           nextReconnect <= now + ReconnectInterval - sinceFailure
  <2>1. ReconnectInterval \in Nat /\ ReconnectInterval < Word /\ Word \in Nat
    BY TimersAssumption
  <2>2. CASE nextReconnect = 0 /\ sinceFailure = NoFailure
    BY <1>3, <2>2
  <2>3. CASE nextReconnect = Plus(now, ReconnectInterval) /\ sinceFailure = 0
    BY <1>3, <2>1, <2>3, PlusIsReading DEF Readings
  <2> QED
    BY <2>2, <2>3 DEF Init
<1>5. TypeOK
  <2>1. connected \in BOOLEAN /\ lteReady \in BOOLEAN /\ wrapped \in BOOLEAN
    BY DEF Init
  <2>2. sincePoll \in Nat
    BY <1>1, <1>2
  <2> QED
    BY <1>1, <1>3, <1>4, <2>1, <2>2 DEF TypeOK, Readings
<1>6. Elapsed(lastPoll) = sincePoll
  <2>1. now - 0 = now /\ now % Word = now
    BY <1>3, Constants, Modulo DEF Readings
  <2> QED
    BY <1>1, <2>1 DEF Elapsed
<1>7. \E i \in Waited : sincePoll <= i + Slack(pc)
  <2>1. MaxSetup \in Waited
    BY <1>1 DEF Waited
  <2>2. Slack(pc) \in Nat
    BY <1>1, SlackType DEF Places
  <2> QED
    BY <1>1, <1>2, <2>1, <2>2
<1>8. RetryInv
  BY <1>4 DEF RetryInv
<1> QED
  BY <1>5, <1>6, <1>7, <1>8 DEF Inv, PollInv

(* Pieces that take no time, or only look at the clock. *)
LEMMA InvNoTime ==
  ASSUME Inv, UNCHANGED <<clock, lastPoll, nextReconnect>>,
         pc' \in Places, Slack(pc) <= Slack(pc')
  PROVE  PollInv' /\ RetryInv'
<1>1. UNCHANGED <<now, sincePoll, sampled, sinceFailure, wrapped>>
  BY DEF clock
<1>2. PICK i \in Waited : sincePoll <= i + Slack(pc)
  BY DEF Inv, PollInv
<1>3. /\ i \in Nat /\ sincePoll \in Nat
      /\ Slack(pc) \in Nat /\ Slack(pc') \in Nat
  BY WaitedType, SlackType DEF Inv, TypeOK, Places
<1>4. sincePoll' <= i + Slack(pc)'
  BY <1>1, <1>2, <1>3
<1>5. Elapsed(lastPoll)' = sincePoll'
  BY <1>1 DEF Inv, PollInv, Elapsed
<1>6. Waited' = Waited
  BY <1>1 DEF Waited
<1> QED
  BY <1>1, <1>4, <1>5, <1>6 DEF Inv, PollInv, RetryInv

LEMMA InvListen ==
  ASSUME Inv, NEW d \in Durations, Listen(d)
  PROVE  Inv'
<1>1. Slack(pc) + MaxBlock <= Slack(pc') /\ pc' \in Places
  BY Constants DEF Listen, Slack, Places
<1>2. Blocks(d, FALSE) /\ UNCHANGED <<lastPoll, nextReconnect>>
  BY DEF Listen
<1>3. /\ PollInv' /\ RetryInv'
      /\ now' \in Readings /\ sincePoll' \in Nat
      /\ sinceFailure' \in 0 .. ReconnectInterval \cup {NoFailure}
      /\ wrapped' \in BOOLEAN /\ sampled' \in BOOLEAN
      /\ nextReconnect' \in Readings
  BY <1>1, <1>2, BlocksAdvances
<1> QED
  BY <1>1, <1>3 DEF Inv, TypeOK, Listen, Readings, Places

LEMMA InvSetUpLte ==
  ASSUME Inv, NEW d \in Durations, SetUpLte(d)
  PROVE  Inv'
<1>1. Slack(pc) + MaxBlock <= Slack(pc') /\ pc' \in Places
  BY Constants DEF SetUpLte, Slack, Places
<1>2. /\ Blocks(d, FALSE) /\ UNCHANGED lastPoll
      /\ nextReconnect' \in {nextReconnect, 0}
  BY DEF SetUpLte
<1>3. /\ PollInv' /\ RetryInv'
      /\ now' \in Readings /\ sincePoll' \in Nat
      /\ sinceFailure' \in 0 .. ReconnectInterval \cup {NoFailure}
      /\ wrapped' \in BOOLEAN /\ sampled' \in BOOLEAN
      /\ nextReconnect' \in Readings
  BY <1>1, <1>2, BlocksAdvances
<1> QED
  BY <1>1, <1>3 DEF Inv, TypeOK, SetUpLte, Readings, Places

LEMMA InvNoSetUp ==
  ASSUME Inv, NoSetUp
  PROVE  Inv'
<1>1. Slack(pc) <= Slack(pc') /\ pc' \in Places
  BY Constants DEF NoSetUp, Slack, Places
<1>2. PollInv' /\ RetryInv'
  BY <1>1, InvNoTime DEF NoSetUp
<1> QED
  BY <1>1, <1>2 DEF Inv, TypeOK, NoSetUp, clock, Places

LEMMA InvSendStartupSms ==
  ASSUME Inv, NEW d \in Durations, SendStartupSms(d)
  PROVE  Inv'
<1>1. Slack(pc) + MaxBlock <= Slack(pc') /\ pc' \in Places
  BY Constants DEF SendStartupSms, Slack, Places
<1>2. Blocks(d, FALSE) /\ UNCHANGED <<lastPoll, nextReconnect>>
  BY DEF SendStartupSms
<1>3. /\ PollInv' /\ RetryInv'
      /\ now' \in Readings /\ sincePoll' \in Nat
      /\ sinceFailure' \in 0 .. ReconnectInterval \cup {NoFailure}
      /\ wrapped' \in BOOLEAN /\ sampled' \in BOOLEAN
      /\ nextReconnect' \in Readings
  BY <1>1, <1>2, BlocksAdvances
<1> QED
  BY <1>1, <1>3 DEF Inv, TypeOK, SendStartupSms, Readings, Places

LEMMA InvScheduledReconnect ==
  ASSUME Inv, NEW d \in Durations, ScheduledReconnect(d)
  PROVE  Inv'
<1>1. Slack(pc) + MaxBlock <= Slack(pc') /\ pc' \in Places
  BY Constants DEF ScheduledReconnect, Slack, Places
<1>2. /\ ConnectSucceeds(d) \/ ConnectFails(d)
      /\ UNCHANGED <<entered, lastPoll, lastMaintenance>>
      /\ connected' \in BOOLEAN /\ lteReady' \in BOOLEAN
  BY DEF ScheduledReconnect, ConnectSucceeds, ConnectFails, Inv, TypeOK
<1>3. /\ PollInv' /\ RetryInv'
      /\ now' \in Readings /\ sincePoll' \in Nat
      /\ sinceFailure' \in 0 .. ReconnectInterval \cup {NoFailure}
      /\ wrapped' \in BOOLEAN /\ sampled' \in BOOLEAN
      /\ nextReconnect' \in Readings
  BY <1>1, <1>2, FailureAdvances, SuccessAdvances
<1> QED
  BY <1>1, <1>2, <1>3 DEF Inv, TypeOK, Readings, Places

LEMMA InvNoReconnect ==
  ASSUME Inv, NoReconnect
  PROVE  Inv'
<1>1. Slack(pc) <= Slack(pc') /\ pc' \in Places
  BY Constants DEF NoReconnect, Slack, Places
<1>2. PollInv' /\ RetryInv'
  BY <1>1, InvNoTime DEF NoReconnect
<1> QED
  BY <1>1, <1>2 DEF Inv, TypeOK, NoReconnect, clock, Places

LEMMA InvFlush ==
  ASSUME Inv, NEW d \in Durations, Flush(d)
  PROVE  Inv'
<1>1. Slack(pc) + MaxBlock <= Slack(pc') /\ pc' \in Places
  BY Constants DEF Flush, Slack, Places
<1>2. Blocks(d, FALSE) /\ UNCHANGED <<lastPoll, nextReconnect>>
  BY DEF Flush
<1>3. /\ PollInv' /\ RetryInv'
      /\ now' \in Readings /\ sincePoll' \in Nat
      /\ sinceFailure' \in 0 .. ReconnectInterval \cup {NoFailure}
      /\ wrapped' \in BOOLEAN /\ sampled' \in BOOLEAN
      /\ nextReconnect' \in Readings
  BY <1>1, <1>2, BlocksAdvances
<1> QED
  BY <1>1, <1>3 DEF Inv, TypeOK, Flush, Readings, Places

LEMMA InvNotYetDue ==
  ASSUME Inv, NEW i \in PollIntervals, NotYetDue(i)
  PROVE  Inv'
<1>1. /\ UNCHANGED <<now, sincePoll, sampled, sinceFailure, wrapped>>
      /\ UNCHANGED <<entered, lastPoll, lastMaintenance, nextReconnect,
                     connected, lteReady>>
      /\ pc' = "listen" /\ Elapsed(lastPoll) < i
  BY DEF NotYetDue, clock
<1>2. Elapsed(lastPoll)' = sincePoll' /\ sincePoll < i
  BY <1>1 DEF Inv, PollInv, Elapsed
<1>3. sincePoll' <= i + Slack(pc)'
  BY <1>1, <1>2, Constants DEF Inv, TypeOK, Slack
<1>4. PollInv'
  BY <1>2, <1>3 DEF PollInv, Waited
<1>5. RetryInv'
  BY <1>1 DEF Inv, RetryInv
<1> QED
  BY <1>1, <1>4, <1>5 DEF Inv, TypeOK

(* The poll starts the time anew: the difference of a reading with itself. *)
LEMMA InvPoll ==
  ASSUME Inv, NEW i \in PollIntervals, NEW d \in Durations, Poll(i, d)
  PROVE  Inv'
<1>1. /\ lastPoll' = now /\ now' = Plus(now, d) /\ sincePoll' = d
      /\ sampled' = TRUE
      /\ pc' \in {"publish", "listen"}
      /\ UNCHANGED <<entered, lastMaintenance, nextReconnect, connected,
                     lteReady>>
  BY DEF Poll
<1>2. sinceFailure' = IF sinceFailure = NoFailure THEN NoFailure
                      ELSE Sooner(sinceFailure + d, ReconnectInterval)
  BY DEF Poll
<1>3. wrapped' = (wrapped \/ now + d >= Word)
  BY Zenon DEF Poll
<1>4. /\ RetryInv'
      /\ sinceFailure' \in 0 .. ReconnectInterval \cup {NoFailure}
      /\ wrapped' \in BOOLEAN
      /\ nextReconnect' \in Readings
  BY <1>1, <1>2, <1>3, RetryAdvances DEF Inv
<1>5. now \in Readings /\ d \in Nat /\ d <= MaxBlock /\ MaxBlock < Word
      /\ Word \in Nat \ {0} /\ MaxBlock \in Nat
  BY Constants DEF Inv, TypeOK, Readings, Durations
<1>6. now' \in Readings
  BY <1>1, <1>5, PlusIsReading
<1>7. Elapsed(lastPoll)' = sincePoll'
  <2>1. now - now = 0 /\ 0 % Word = 0
    BY <1>5, Modulo DEF Readings
  <2>2. ((now - now) % Word) + d < Word
    BY <1>5, <2>1
  <2>3. (Plus(now, d) - now) % Word = ((now - now) % Word) + d
    BY <1>5, <2>2, ElapsedLater
  <2> QED
    BY <1>1, <1>5, <2>1, <2>3 DEF Elapsed
<1>8. sincePoll' <= i + Slack(pc)'
  BY <1>1, <1>5, Constants DEF Slack
<1>9. PollInv'
  BY <1>7, <1>8 DEF PollInv, Waited
<1> QED
  BY <1>1, <1>4, <1>5, <1>6, <1>9 DEF Inv, TypeOK, Readings

LEMMA InvPublishConnects ==
  ASSUME Inv, NEW d \in Durations, PublishConnects(d)
  PROVE  Inv'
<1>1. Slack(pc) + MaxBlock <= Slack(pc') /\ pc' \in Places
  BY Constants DEF PublishConnects, AfterPublish, Slack, Places
<1>2. /\ ConnectSucceeds(d) \/ ConnectFails(d)
      /\ UNCHANGED <<entered, lastPoll, lastMaintenance>>
      /\ connected' \in BOOLEAN /\ lteReady' \in BOOLEAN
  BY DEF PublishConnects, ConnectSucceeds, ConnectFails, Inv, TypeOK
<1>3. /\ PollInv' /\ RetryInv'
      /\ now' \in Readings /\ sincePoll' \in Nat
      /\ sinceFailure' \in 0 .. ReconnectInterval \cup {NoFailure}
      /\ wrapped' \in BOOLEAN /\ sampled' \in BOOLEAN
      /\ nextReconnect' \in Readings
  BY <1>1, <1>2, FailureAdvances, SuccessAdvances
<1> QED
  BY <1>1, <1>2, <1>3 DEF Inv, TypeOK, Readings, Places

LEMMA InvPublishDirectly ==
  ASSUME Inv, NEW d \in Durations, PublishDirectly(d)
  PROVE  Inv'
<1>1. Slack(pc) + MaxBlock <= Slack(pc') /\ pc' \in Places
  BY Constants DEF PublishDirectly, AfterPublish, Slack, Places
<1>2. Blocks(d, FALSE) /\ UNCHANGED <<lastPoll, nextReconnect>>
  BY DEF PublishDirectly
<1>3. /\ PollInv' /\ RetryInv'
      /\ now' \in Readings /\ sincePoll' \in Nat
      /\ sinceFailure' \in 0 .. ReconnectInterval \cup {NoFailure}
      /\ wrapped' \in BOOLEAN /\ sampled' \in BOOLEAN
      /\ nextReconnect' \in Readings
  BY <1>1, <1>2, BlocksAdvances
<1> QED
  BY <1>1, <1>3 DEF Inv, TypeOK, PublishDirectly, Readings, Places

LEMMA InvStutter ==
  ASSUME Inv, UNCHANGED vars
  PROVE  Inv'
  BY DEF Inv, TypeOK, PollInv, RetryInv, Elapsed, Waited, vars

LEMMA InvNext == Inv /\ [Next]_vars => Inv'
<1> SUFFICES ASSUME Inv, [Next]_vars PROVE Inv'
  OBVIOUS
<1>1. CASE NoSetUp
  BY <1>1, InvNoSetUp
<1>2. CASE NoReconnect
  BY <1>2, InvNoReconnect
<1>3. ASSUME NEW i \in PollIntervals, NotYetDue(i) PROVE Inv'
  BY <1>3, InvNotYetDue
<1>4. ASSUME NEW d \in Durations, Listen(d) PROVE Inv'
  BY <1>4, InvListen
<1>5. ASSUME NEW d \in Durations, SetUpLte(d) PROVE Inv'
  BY <1>5, InvSetUpLte
<1>6. ASSUME NEW d \in Durations, SendStartupSms(d) PROVE Inv'
  BY <1>6, InvSendStartupSms
<1>7. ASSUME NEW d \in Durations, ScheduledReconnect(d) PROVE Inv'
  BY <1>7, InvScheduledReconnect
<1>8. ASSUME NEW d \in Durations, Flush(d) PROVE Inv'
  BY <1>8, InvFlush
<1>9. ASSUME NEW d \in Durations, NEW i \in PollIntervals, Poll(i, d)
      PROVE  Inv'
  BY <1>9, InvPoll
<1>10. ASSUME NEW d \in Durations, PublishConnects(d) PROVE Inv'
  BY <1>10, InvPublishConnects
<1>11. ASSUME NEW d \in Durations, PublishDirectly(d) PROVE Inv'
  BY <1>11, InvPublishDirectly
<1>12. CASE UNCHANGED vars
  BY <1>12, InvStutter
<1> QED
  BY <1>1, <1>2, <1>3, <1>4, <1>5, <1>6, <1>7, <1>8, <1>9, <1>10, <1>11,
     <1>12 DEF Next

----------------------------------------------------------------------------
(* Results. *)

(* Sampling keeps its interval across every wrap-around of millis(): the   *)
(* timer shows the real time since the last poll whenever it is read, and  *)
(* no poll is later than its interval and one pass through the loop.       *)
THEOREM SamplingStaysPunctual == Spec => []SamplingPunctual
<1>1. Inv => SamplingPunctual
  BY DEF Inv, PollInv, SamplingPunctual, Slack
<1> QED
  BY <1>1, InvInit, InvNext, PTL DEF Spec

(* The back-off of the reconnect is bounded by its interval as long as     *)
(* millis() does not wrap between the failed attempt and the next one.     *)
THEOREM RetryStaysBounded == Spec => []RetryBoundedBeforeWrap
<1>1. Inv => RetryBoundedBeforeWrap
  <2> SUFFICES ASSUME Inv, RetryDue, ~wrapped PROVE nextReconnect <= now
    BY DEF RetryBoundedBeforeWrap, Reached, Inv, TypeOK
  <2>1. sinceFailure = ReconnectInterval /\ ReconnectInterval \in Nat \ {0}
    BY Constants DEF RetryDue
  <2>2. nextReconnect <= now + ReconnectInterval - sinceFailure
    BY <2>1 DEF Inv, RetryInv, NoFailure
  <2> QED
    BY <2>1, <2>2 DEF Inv, TypeOK
<1> QED
  BY <1>1, InvInit, InvNext, PTL DEF Spec
=============================================================================
