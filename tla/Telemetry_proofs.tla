-------------------------- MODULE Telemetry_proofs --------------------------
(***************************************************************************)
(* Proofs about what is written with a packet of telemetry, and what is    *)
(* read from it.  First GeofenceTracking and the Geocoder it uses, for any *)
(* number of packets, places and fences.  An invariant of the geocoder     *)
(* (its loop runs while there is work, LoopRuns, and every key in flight   *)
(* is in its hands, Held) shows that nobody waits in vain; one of each     *)
(* packet (Reached, Backed, Waits) shows what its row and its              *)
(* notifications are worth, whatever packets overlap and whichever fail;   *)
(* a third (TellInv) what they tell together while none does.  Then        *)
(* StopEvents: the stops that a query derives from any table of rows.      *)
(***************************************************************************)
EXTENDS GeofenceTracking, StopEvents, FiniteSetTheorems, SequenceTheorems,
        WellFoundedInduction, TLAPS

(* The geocoder. *)
GeocoderTyped ==
  /\ cache \in [Keys -> Addresses \cup {None}]
  /\ inFlight \subseteq Keys
  /\ queue \in Seq(Keys)
  /\ processingQueue \in BOOLEAN
  /\ loop \in [Drainers -> Loops]
  /\ sinceRequest \in 0 .. RequestInterval

CacheTrue == \A k \in Keys : cache[k] \in {k, Unknown, None}

LoopRuns ==
  /\ processingQueue => \E d \in Drainers : Busy(d)
  /\ ~processingQueue => queue = <<>>
  /\ \A d \in Drainers : Busy(d) => loop[d].key \in Keys

Held ==
  \A k \in inFlight :
    (\E i \in 1 .. Len(queue) : queue[i] = k) \/ \E d \in Drainers : Busy(d) /\ loop[d].key = k

GeocoderInv == GeocoderTyped /\ CacheTrue /\ LoopRuns /\ Held

(* A packet. *)
SlotType ==
  [pc : {"idle", "lookup", "address", "load", "loaded", "previous", "exit",
         "enter", "save", "vehicle"},
   place : Places \cup {None}, ts : 0 .. MaxTime,
   address : Addresses \cup {None}, loading : 0 .. CacheAge,
   data : Seq(Geofence), read : 0 .. CacheAge,
   fence : Fences \cup {None}, previous : Fences \cup {None}]

AddressOf(place, address) ==
  /\ address \in Addresses
  /\ address # Unknown => Distance(place, address) < Threshold

Reached(r) ==
  /\ r \in SlotType
  /\ r.pc # "idle" => r.place \in Places /\ r.ts \in 1 .. MaxTime
  /\ r.pc \notin {"idle", "lookup", "address"} => AddressOf(r.place, r.address)
  /\ r.pc = "loaded" => r.read <= r.loading
  /\ r.pc = "previous" => r.read < CacheAge
  /\ r.pc = "exit" => r.previous # None
  /\ r.pc = "enter" => r.fence # None

(* Notifications ns tell the entry of the fences a packet names. *)
EnteredIn(ns, f, i) == \E j \in 1 .. i : ns[j] = [type |-> "enter", fence |-> f]

Backed(r, ns) ==
  /\ r.pc = "exit" => EnteredIn(ns, r.previous, Len(ns))
  /\ r.pc \in {"save", "vehicle"} /\ r.fence # None => EnteredIn(ns, r.fence, Len(ns))

(* A packet that waits for an address waits for one that is on its way. *)
Waits(r) == r.pc = "address" => cache[r.place] # None \/ r.place \in inFlight

SlotsOK ==
  /\ slot \in [Slots -> SlotType]
  /\ \A s \in Slots : Reached(slot[s]) /\ Backed(slot[s], notes)

Waiting == \A s \in Slots : Waits(slot[s])

FencesKept ==
  /\ geofences \in Seq(Geofence)
  /\ geofenceCache \in [data : Seq(Geofence), age : 0 .. CacheAge, read : 0 .. CacheAge]
                         \cup {None}
  /\ geofenceCache # None => geofenceCache.read <= geofenceCache.age

LastKnownOK ==
  /\ lastKnown \in [place : Places, address : Addresses] \cup {None}
  /\ lastKnown # None => lastKnown.address \in {lastKnown.place, Unknown}

RowsOK ==
  /\ rows \subseteq Row /\ IsFiniteSet(rows)
  /\ \A r \in rows : /\ AddressOf(r.place, r.address)
                     /\ r.fence # None => EnteredIn(notes, r.fence, Len(notes))

NotesOK ==
  /\ notes \in Seq([type : {"exit", "enter"}, fence : Fences])
  /\ \A i \in 1 .. Len(notes) :
       notes[i].type = "exit" => EnteredIn(notes, notes[i].fence, i)

CountsOK ==
  /\ received \in 0 .. MaxPackets
  /\ edits \in 0 .. MaxEdits
  /\ disturbed \in BOOLEAN

Inv ==
  /\ GeocoderInv /\ SlotsOK /\ Waiting /\ FencesKept /\ LastKnownOK
  /\ RowsOK /\ NotesOK /\ CountsOK

-----------------------------------------------------------------------------
(* Least elements. *)

LEMMA LeastNatural ==
  ASSUME NEW S \in SUBSET Nat, S # {}
  PROVE  \E x \in S : \A y \in S : x <= y
<1> DEFINE R == OpToRel(<, Nat)
<1>1. IsWellFoundedOn(R, Nat)
  BY NatLessThanWellFounded
<1>2. \A x, y \in Nat : y < x => <<y, x>> \in R
  BY DEF OpToRel
<1> HIDE DEF R
<1>3. PICK x \in S : \A y \in S : ~(<<y, x>> \in R)
  BY <1>1, WFMin
<1>4. x \in Nat /\ \A y \in S : y \in Nat /\ ~(y < x)
  BY <1>2, <1>3
<1>5. \A y \in S : x <= y
  BY <1>4
<1> QED
  BY <1>5

LEMMA LeastOfSet ==
  ASSUME NEW S \in SUBSET Nat, S # {}
  PROVE  Min(S) \in S /\ \A y \in S : Min(S) <= y
BY LeastNatural DEF Min

-----------------------------------------------------------------------------
(* The steps of the geocoder. *)

LEMMA TakeJobLoop ==
  ASSUME GeocoderTyped, NEW d \in Drainers, NEW k \in Keys, TakeJob(d, k)
  PROVE  /\ loop' \in [Drainers -> Loops]
         /\ sinceRequest' \in 0 .. RequestInterval
         /\ Busy(d)' /\ loop'[d].key = k
         /\ \A e \in Drainers \ {d} : loop'[e] = loop[e]
<1> DEFINE wait == RequestInterval - sinceRequest
           job == [pc |-> IF wait > 0 THEN "waiting" ELSE "asking",
                   key |-> k, wait |-> wait, asked |-> 0]
<1>1. wait \in 0 .. RequestInterval
  BY GeocoderAssumption DEF GeocoderTyped
<1>2. /\ loop' = [loop EXCEPT ![d] = job]
      /\ sinceRequest' = IF wait > 0 THEN sinceRequest ELSE 0
  BY DEF TakeJob
<1> HIDE DEF wait
<1>3. job \in Loops /\ job.key = k /\ job.pc # "asleep"
  BY <1>1, GeocoderAssumption DEF Loops
<1> HIDE DEF job
<1>4. /\ loop' \in [Drainers -> Loops] /\ loop'[d] = job
      /\ \A e \in Drainers \ {d} : loop'[e] = loop[e]
  BY <1>2, <1>3 DEF GeocoderTyped
<1>5. sinceRequest' \in 0 .. RequestInterval
  BY <1>2, GeocoderAssumption DEF GeocoderTyped
<1> QED
  BY <1>3, <1>4, <1>5 DEF Busy

LEMMA EnqueueInv ==
  ASSUME GeocoderInv, NEW k \in Keys, Enqueue(k)
  PROVE  GeocoderInv' /\ cache' = cache /\ inFlight' = inFlight \cup {k}
<1>1. cache' = cache /\ inFlight' = inFlight \cup {k}
  BY DEF Enqueue
<1>2. CASE processingQueue
  <2>1. /\ queue' = Append(queue, k) /\ loop' = loop
        /\ processingQueue' = processingQueue /\ sinceRequest' = sinceRequest
    BY <1>2 DEF Enqueue
  <2>2. /\ queue' \in Seq(Keys) /\ Len(queue') = Len(queue) + 1
        /\ \A i \in 1 .. Len(queue) : queue'[i] = queue[i]
        /\ queue'[Len(queue) + 1] = k /\ Len(queue) \in Nat
    BY <2>1, AppendProperties, LenProperties DEF GeocoderInv, GeocoderTyped
  <2>3. Held'
    <3> SUFFICES ASSUME NEW j \in inFlight'
                 PROVE  \/ \E i \in 1 .. Len(queue') : queue'[i] = j
                        \/ \E d \in Drainers : Busy(d)' /\ loop'[d].key = j
      BY DEF Held
    <3>1. CASE j = k
      BY <2>2, <3>1
    <3>2. CASE j \in inFlight
      <4>1. CASE \E d \in Drainers : Busy(d) /\ loop[d].key = j
        BY <2>1, <4>1 DEF Busy
      <4>2. CASE \E i \in 1 .. Len(queue) : queue[i] = j
        BY <2>2, <4>2
      <4> QED
        BY <3>2, <4>1, <4>2 DEF GeocoderInv, Held
    <3> QED
      BY <1>1, <3>1, <3>2
  <2>4. LoopRuns'
    BY <1>2, <2>1 DEF GeocoderInv, LoopRuns, Busy
  <2>5. GeocoderTyped' /\ CacheTrue'
    BY <1>1, <2>1, <2>2 DEF GeocoderInv, GeocoderTyped, CacheTrue
  <2> QED
    BY <1>1, <2>3, <2>4, <2>5 DEF GeocoderInv
<1>3. CASE ~processingQueue
  <2>1. queue = <<>>
    BY <1>3 DEF GeocoderInv, LoopRuns
  <2>2. Tail(Append(queue, k)) = <<>> /\ Head(Append(queue, k)) = k
    BY <2>1, HeadTailAppend, EmptySeq
  <2>3. PICK d \in Drainers : /\ ~Busy(d) /\ processingQueue' = TRUE
                              /\ queue' = <<>> /\ TakeJob(d, k)
    BY <1>3, <2>2 DEF Enqueue
  <2>4. /\ loop' \in [Drainers -> Loops]
        /\ sinceRequest' \in 0 .. RequestInterval
        /\ Busy(d)' /\ loop'[d].key = k
        /\ \A e \in Drainers \ {d} : loop'[e] = loop[e]
    BY <2>3, TakeJobLoop DEF GeocoderInv
  <2>5. Held'
    <3> SUFFICES ASSUME NEW j \in inFlight'
                 PROVE  \E e \in Drainers : Busy(e)' /\ loop'[e].key = j
      BY DEF Held
    <3>1. CASE j = k
      BY <2>4, <3>1
    <3>2. CASE j \in inFlight
      <4>1. PICK e \in Drainers : Busy(e) /\ loop[e].key = j
        BY <2>1, <3>2, EmptySeq DEF GeocoderInv, Held
      <4> QED
        BY <2>3, <2>4, <4>1 DEF Busy
    <3> QED
      BY <1>1, <3>1, <3>2
  <2>6. LoopRuns'
    BY <2>3, <2>4 DEF GeocoderInv, LoopRuns, Busy
  <2>7. GeocoderTyped' /\ CacheTrue'
    BY <1>1, <2>3, <2>4, EmptySeq DEF GeocoderInv, GeocoderTyped, CacheTrue
  <2> QED
    BY <1>1, <2>5, <2>6, <2>7 DEF GeocoderInv
<1> QED
  BY <1>2, <1>3

LEMMA RequestInv ==
  ASSUME GeocoderInv, NEW d \in Drainers, Request(d)
  PROVE  GeocoderInv' /\ cache' = cache /\ inFlight' = inFlight
<1>1. /\ loop[d].pc = "waiting"
      /\ loop' = [loop EXCEPT ![d].pc = "asking"] /\ sinceRequest' = 0
      /\ cache' = cache /\ inFlight' = inFlight /\ queue' = queue
      /\ processingQueue' = processingQueue
  BY DEF Request
<1>2. /\ loop' \in [Drainers -> Loops]
      /\ \A e \in Drainers : loop'[e].key = loop[e].key /\ (Busy(e)' <=> Busy(e))
  BY <1>1 DEF GeocoderInv, GeocoderTyped, Loops, Busy
<1>3. GeocoderTyped' /\ CacheTrue'
  BY <1>1, <1>2, GeocoderAssumption DEF GeocoderInv, GeocoderTyped, CacheTrue
<1>4. LoopRuns' /\ Held'
  BY <1>1, <1>2 DEF GeocoderInv, LoopRuns, Held
<1> QED
  BY <1>1, <1>3, <1>4 DEF GeocoderInv

(* An answer takes keys out of flight only when they have an address.      *)
LEMMA AnswerInv ==
  ASSUME GeocoderInv, NEW d \in Drainers, Answer(d)
  PROVE  /\ GeocoderInv'
         /\ \A k \in Keys : cache[k] # None => cache'[k] # None
         /\ \A k \in inFlight : k \in inFlight' \/ cache'[k] # None
<1> DEFINE key == loop[d].key
           open == {i \in DOMAIN queue : cache'[queue[i]] = None}
<1>1. /\ key \in Keys /\ Busy(d) /\ queue \in Seq(Keys)
      /\ DOMAIN queue = 1 .. Len(queue) /\ Len(queue) \in Nat
      /\ \A i \in 1 .. Len(queue) : queue[i] \in Keys
  BY LenProperties, ElementOfSeq DEF Answer, Busy, GeocoderInv, GeocoderTyped, LoopRuns
<1>2. PICK address \in {key, Unknown} : cache' = [cache EXCEPT ![key] = address]
  BY DEF Answer
<1> HIDE DEF key
<1>3. /\ cache' \in [Keys -> Addresses \cup {None}] /\ cache'[key] # None /\ CacheTrue'
      /\ \A k \in Keys \ {key} : cache'[k] = cache[k]
  <2>1. address \in Addresses /\ address # None
    BY <1>1, GeocoderAssumption DEF Addresses, Places
  <2> QED
    BY <1>1, <1>2, <2>1 DEF GeocoderInv, GeocoderTyped, CacheTrue
<1>4. \A k \in Keys : cache[k] # None => cache'[k] # None
  BY <1>3
<1>5. CASE open = {}
  <2>1. /\ inFlight' = inFlight \ ({key} \cup ToSet(queue)) /\ queue' = <<>>
        /\ processingQueue' = FALSE /\ loop' = [loop EXCEPT ![d] = Asleep]
        /\ sinceRequest' = sinceRequest
    BY <1>5 DEF Answer, LoopEnds, key
  <2>2. Asleep \in Loops
    BY GeocoderAssumption DEF Asleep, Loops
  <2>3. /\ loop' \in [Drainers -> Loops] /\ ~Busy(d)'
        /\ \A e \in Drainers \ {d} : loop'[e] = loop[e]
    BY <2>1, <2>2 DEF GeocoderInv, GeocoderTyped, Busy, Asleep
  <2>4. GeocoderTyped'
    BY <1>3, <2>1, <2>3, EmptySeq DEF GeocoderInv, GeocoderTyped
  <2>5. LoopRuns'
    BY <2>1, <2>3 DEF GeocoderInv, LoopRuns, Busy
  <2>6. ASSUME NEW k \in inFlight'
        PROVE  \E e \in Drainers : Busy(e)' /\ loop'[e].key = k
    <3>1. k \in inFlight /\ k # key /\ \A i \in 1 .. Len(queue) : queue[i] # k
      BY <1>1, <2>1 DEF ToSet
    <3>2. PICK e \in Drainers : Busy(e) /\ loop[e].key = k
      BY <3>1 DEF GeocoderInv, Held
    <3>3. e # d
      BY <3>1, <3>2 DEF key
    <3> QED
      BY <2>3, <3>2, <3>3 DEF Busy
  <2>7. Held'
    BY <2>6 DEF Held
  <2>8. \A k \in inFlight : k \in inFlight' \/ cache'[k] # None
    BY <1>1, <1>3, <1>5, <2>1 DEF ToSet
  <2> QED
    BY <1>3, <1>4, <2>4, <2>5, <2>7, <2>8 DEF GeocoderInv
<1>6. CASE open # {}
  <2> DEFINE next == Min(open)
  <2>1. open \in SUBSET Nat
    BY <1>1
  <2>2. next \in open /\ \A i \in open : next <= i
    BY <1>6, <2>1, LeastOfSet
  <2>3. /\ inFlight' = inFlight \ ({key} \cup ToSet(SubSeq(queue, 1, next - 1)))
        /\ queue' = SubSeq(queue, next + 1, Len(queue))
        /\ TakeJob(d, queue[next]) /\ processingQueue' = processingQueue
    BY <1>6 DEF Answer, key
  <2>4. next \in 1 .. Len(queue) /\ queue[next] \in Keys
    BY <1>1, <2>2
  <2> HIDE DEF next
  <2>5. ASSUME NEW i \in 1 .. Len(queue), i < next
        PROVE  cache'[queue[i]] # None
    <3>1. i \in Nat /\ next \in Nat /\ ~(next <= i)
      BY <1>1, <2>4, <2>5
    <3>2. i \notin open
      BY <2>2, <3>1
    <3> QED
      BY <1>1, <3>2
  <2> HIDE DEF open
  <2>6. /\ loop' \in [Drainers -> Loops] /\ sinceRequest' \in 0 .. RequestInterval
        /\ Busy(d)' /\ loop'[d].key = queue[next]
        /\ \A e \in Drainers \ {d} : loop'[e] = loop[e]
    BY <2>3, <2>4, TakeJobLoop DEF GeocoderInv
  <2>7. /\ queue' \in Seq(Keys) /\ Len(queue') = Len(queue) - next
        /\ \A i \in 1 .. Len(queue) - next : queue'[i] = queue[next + i]
    <3>1. \A i \in next + 1 .. Len(queue) : queue[i] \in Keys
      BY <1>1, <2>4
    <3>2. next + 1 \in Int /\ Len(queue) \in Int
      BY <1>1, <2>4
    <3>3. /\ SubSeq(queue, next + 1, Len(queue)) \in Seq(Keys)
          /\ Len(SubSeq(queue, next + 1, Len(queue)))
               = IF next + 1 <= Len(queue) THEN Len(queue) - (next + 1) + 1 ELSE 0
          /\ \A i \in 1 .. Len(queue) - (next + 1) + 1 :
               SubSeq(queue, next + 1, Len(queue))[i] = queue[next + 1 + i - 1]
      BY <3>1, <3>2, SubSeqProperties
    <3>4. /\ Len(queue') = Len(queue) - next
          /\ Len(queue) - (next + 1) + 1 = Len(queue) - next
      <4>1. ASSUME NEW n \in Nat, NEW i \in 1 .. n
            PROVE  /\ n - (i + 1) + 1 = n - i
                   /\ (IF i + 1 <= n THEN n - (i + 1) + 1 ELSE 0) = n - i
        OBVIOUS
      <4> QED
        BY <1>1, <2>3, <2>4, <3>3, <4>1
    <3>5. ASSUME NEW i \in 1 .. Len(queue) - next
          PROVE  queue'[i] = queue[next + i]
      <4>1. next + 1 + i - 1 = next + i /\ i \in 1 .. Len(queue) - (next + 1) + 1
        BY <1>1, <2>4, <3>4
      <4>2. queue'[i] = queue[next + 1 + i - 1]
        BY <2>3, <3>3, <4>1
      <4> QED
        BY <4>1, <4>2
    <3> QED
      BY <2>3, <3>3, <3>4, <3>5
  <2>8. /\ SubSeq(queue, 1, next - 1) \in Seq(Keys)
        /\ Len(SubSeq(queue, 1, next - 1)) = next - 1
        /\ \A i \in 1 .. next - 1 : SubSeq(queue, 1, next - 1)[i] = queue[i]
    <3>1. next \in 1 .. Len(queue) /\ Len(queue) \in Nat
      BY <1>1, <2>4
    <3>2. \A i \in 1 .. next - 1 : queue[i] \in Keys
      BY <1>1, <3>1
    <3>3. next - 1 \in Int
      BY <3>1
    <3>4. /\ SubSeq(queue, 1, next - 1) \in Seq(Keys)
          /\ Len(SubSeq(queue, 1, next - 1))
               = IF 1 <= next - 1 THEN next - 1 - 1 + 1 ELSE 0
          /\ \A i \in 1 .. next - 1 - 1 + 1 : SubSeq(queue, 1, next - 1)[i] = queue[1 + i - 1]
      BY <3>2, <3>3, SubSeqProperties
    <3> QED
      BY <3>1, <3>4
  <2>9. \A k \in ToSet(SubSeq(queue, 1, next - 1)) :
          \E i \in 1 .. Len(queue) : i < next /\ queue[i] = k
    BY <1>1, <2>4, <2>8, LenProperties DEF ToSet
  <2>10. ASSUME NEW i \in 1 .. Len(queue), i < next
         PROVE  queue[i] \in ToSet(SubSeq(queue, 1, next - 1))
    <3>1. i \in 1 .. next - 1
      BY <1>1, <2>4, <2>10
    <3>2. DOMAIN SubSeq(queue, 1, next - 1) = 1 .. next - 1
      BY <2>8, LenProperties
    <3> QED
      BY <2>8, <3>1, <3>2 DEF ToSet
  <2>11. ASSUME NEW k \in inFlight'
         PROVE  \/ \E i \in 1 .. Len(queue') : queue'[i] = k
                \/ \E e \in Drainers : Busy(e)' /\ loop'[e].key = k
    <3>1. k \in inFlight /\ k # key
      BY <2>3
    <3>2. CASE \E e \in Drainers : Busy(e) /\ loop[e].key = k
      <4>1. PICK e \in Drainers : Busy(e) /\ loop[e].key = k
        BY <3>2
      <4>2. e # d
        BY <3>1, <4>1 DEF key
      <4> QED
        BY <2>6, <4>1, <4>2 DEF Busy
    <3>3. CASE \E i \in 1 .. Len(queue) : queue[i] = k
      <4>1. PICK i \in 1 .. Len(queue) : queue[i] = k
        BY <3>3
      <4>2. ~(i < next)
        BY <2>3, <2>10, <4>1
      <4>3. CASE i = next
        BY <2>6, <4>1, <4>3
      <4>4. CASE i > next
        <5>1. i - next \in 1 .. Len(queue) - next /\ next + (i - next) = i
          BY <1>1, <2>4, <4>4
        <5> QED
          BY <2>7, <4>1, <5>1
      <4> QED
        BY <1>1, <2>4, <4>2, <4>3, <4>4
    <3> QED
      BY <3>1, <3>2, <3>3 DEF GeocoderInv, Held
  <2>12. Held'
    BY <2>11 DEF Held
  <2>13. LoopRuns'
    <3>1. processingQueue
      BY <1>1, <2>4, EmptySeq DEF GeocoderInv, LoopRuns
    <3> QED
      BY <2>3, <2>4, <2>6, <3>1 DEF GeocoderInv, LoopRuns, Busy
  <2>14. GeocoderTyped'
    BY <1>3, <2>3, <2>6, <2>7 DEF GeocoderInv, GeocoderTyped
  <2>15. \A k \in inFlight : k \in inFlight' \/ cache'[k] # None
    BY <1>3, <2>3, <2>5, <2>9
  <2> QED
    BY <1>3, <1>4, <2>12, <2>13, <2>14, <2>15 DEF GeocoderInv
<1> QED
  BY <1>5, <1>6

LEMMA GeocoderTickInv ==
  ASSUME GeocoderInv, GeocoderPatient, GeocoderTick
  PROVE  GeocoderInv' /\ cache' = cache /\ inFlight' = inFlight
<1>1. /\ cache' = cache /\ inFlight' = inFlight /\ queue' = queue
      /\ processingQueue' = processingQueue
      /\ sinceRequest' = IF sinceRequest < RequestInterval
                         THEN sinceRequest + 1 ELSE sinceRequest
      /\ loop' = [d \in Drainers |->
                   CASE loop[d].pc = "waiting" -> [loop[d] EXCEPT !.wait = @ - 1]
                     [] loop[d].pc = "asking"  -> [loop[d] EXCEPT !.asked = @ + 1]
                     [] OTHER -> loop[d]]
  BY DEF GeocoderTick
<1>2. ASSUME NEW d \in Drainers
      PROVE  /\ loop'[d] \in Loops
             /\ loop'[d].pc = loop[d].pc /\ loop'[d].key = loop[d].key
  <2>1. /\ loop[d] \in Loops
        /\ ~(loop[d].pc = "asking" /\ loop[d].asked = RequestTimeout)
        /\ ~(loop[d].pc = "waiting" /\ loop[d].wait = 0)
    BY DEF GeocoderInv, GeocoderTyped, GeocoderPatient
  <2>2. CASE loop[d].pc = "waiting"
    <3>1. loop'[d] = [loop[d] EXCEPT !.wait = loop[d].wait - 1]
      BY <1>1, <2>2
    <3>2. loop[d].wait - 1 \in 0 .. RequestInterval
      BY <2>1, <2>2, GeocoderAssumption DEF Loops
    <3> QED
      BY <2>1, <3>1, <3>2 DEF Loops
  <2>3. CASE loop[d].pc = "asking"
    <3>1. loop'[d] = [loop[d] EXCEPT !.asked = loop[d].asked + 1]
      BY <1>1, <2>3
    <3>2. loop[d].asked + 1 \in 0 .. RequestTimeout
      BY <2>1, <2>3, GeocoderAssumption DEF Loops
    <3> QED
      BY <2>1, <3>1, <3>2 DEF Loops
  <2>4. CASE loop[d].pc \notin {"waiting", "asking"}
    BY <1>1, <2>1, <2>4
  <2> QED
    BY <2>2, <2>3, <2>4
<1>3. loop' \in [Drainers -> Loops]
  BY <1>1, <1>2
<1>4. sinceRequest' \in 0 .. RequestInterval
  BY <1>1, GeocoderAssumption DEF GeocoderInv, GeocoderTyped
<1>5. GeocoderTyped' /\ CacheTrue'
  BY <1>1, <1>3, <1>4 DEF GeocoderInv, GeocoderTyped, CacheTrue
<1>6. \A d \in Drainers : Busy(d)' <=> Busy(d)
  BY <1>2 DEF Busy
<1>7. LoopRuns' /\ Held'
  BY <1>1, <1>2, <1>6 DEF GeocoderInv, LoopRuns, Held
<1> QED
  BY <1>1, <1>5, <1>7 DEF GeocoderInv

-----------------------------------------------------------------------------
(* Distances and the current geofence. *)

LEMMA DistanceNat ==
  /\ \A p, q \in Places : Distance(p, q) \in Nat /\ Distance(p, q) = Distance(q, p)
  /\ \A p \in Places : Distance(p, p) = 0
BY TrackingAssumption DEF Places, Distance

LEMMA CurrentGeofenceTyped ==
  ASSUME NEW place \in Places, NEW fences \in Seq(Geofence)
  PROVE  CurrentGeofence(place, fences) \in Fences \cup {None}
<1> DEFINE around == {i \in DOMAIN fences :
                       Distance(place, fences[i].at) <= fences[i].radius}
           D(i) == Distance(place, fences[i].at)
           Nearer(i, j) == D(i) < D(j) \/ (D(i) = D(j) /\ i <= j)
<1>1. /\ DOMAIN fences = 1 .. Len(fences) /\ Len(fences) \in Nat
      /\ \A i \in DOMAIN fences : fences[i] \in Geofence
  BY LenProperties, ElementOfSeq
<1>2. \A i \in DOMAIN fences : D(i) \in Nat /\ fences[i].id \in Fences /\ i \in Nat
  BY <1>1, DistanceNat DEF Geofence
<1>3. ASSUME around # {}
      PROVE  \E i \in around : \A j \in around : Nearer(i, j)
  <2> DEFINE S == {D(i) : i \in around}
  <2> HIDE DEF D
  <2>1. around \subseteq DOMAIN fences
    OBVIOUS
  <2> HIDE DEF around
  <2>2. S \in SUBSET Nat /\ S # {}
    BY <1>2, <1>3, <2>1
  <2>3. PICK d \in S : \A e \in S : d <= e
    BY <2>2, LeastNatural
  <2> DEFINE T == {i \in around : D(i) = d}
  <2>4. T \in SUBSET Nat /\ T # {}
    BY <1>2, <2>1, <2>3
  <2>5. PICK i \in T : \A j \in T : i <= j
    BY <2>4, LeastNatural
  <2>6. ASSUME NEW j \in around
        PROVE  Nearer(i, j)
    <3>1. i \in around /\ D(i) = d /\ D(i) \in Nat /\ D(j) \in Nat /\ D(i) <= D(j)
      BY <1>2, <2>1, <2>3, <2>5
    <3>2. CASE D(j) = d
      BY <2>5, <3>1, <3>2
    <3>3. CASE D(j) # d
      BY <3>1, <3>3
    <3> QED
      BY <3>2, <3>3
  <2> QED
    BY <2>5, <2>6
<1>4. CurrentGeofence(place, fences) =
        IF around = {} THEN None
        ELSE fences[CHOOSE i \in around : \A j \in around : Nearer(i, j)].id
  BY Zenon DEF CurrentGeofence
<1>5. ASSUME around # {}
      PROVE  (CHOOSE i \in around : \A j \in around : Nearer(i, j)) \in DOMAIN fences
  <2> HIDE DEF Nearer
  <2> QED
    BY <1>3, <1>5
<1> HIDE DEF around, Nearer
<1> QED
  BY <1>2, <1>4, <1>5

-----------------------------------------------------------------------------
(* The handling of a packet: r is what it reaches, ns the notifications.   *)

(* What the geocoder does for those who wait: addresses stay known, and    *)
(* keys leave the flight with one.                                         *)
Serving ==
  /\ \A k \in Keys : cache[k] # None => cache'[k] # None
  /\ \A k \in inFlight : k \in inFlight' \/ cache'[k] # None

LEMMA GeocoderSame ==
  ASSUME GeocoderInv, UNCHANGED geocoderVars
  PROVE  GeocoderInv' /\ Serving
BY DEF GeocoderInv, GeocoderTyped, CacheTrue, LoopRuns, Held, Busy, Serving, geocoderVars

LEMMA Told ==
  ASSUME NEW N, NEW ns \in Seq(N), NEW x \in N, NEW f, EnteredIn(ns, f, Len(ns))
  PROVE  EnteredIn(Append(ns, x), f, Len(Append(ns, x)))
<1>1. /\ Len(ns) \in Nat /\ Len(Append(ns, x)) = Len(ns) + 1
      /\ \A i \in 1 .. Len(ns) : Append(ns, x)[i] = ns[i]
  BY AppendProperties, LenProperties
<1> QED
  BY <1>1 DEF EnteredIn

LEMMA PacketMoves ==
  ASSUME SlotsOK, Waiting, inFlight \subseteq Keys, Serving,
         NEW s \in Slots, NEW r, Reach(s, r), Reached(r), Backed(r, notes'),
         r.pc = "address" => cache'[r.place] # None \/ r.place \in inFlight',
         notes' = notes \/ \A q \in Slots : Backed(slot[q], notes')
  PROVE  SlotsOK' /\ Waiting'
<1>1. /\ slot' \in [Slots -> SlotType] /\ slot'[s] = r
      /\ \A q \in Slots \ {s} : slot'[q] = slot[q]
  BY DEF Reach, Reached, SlotsOK
<1>2. \A q \in Slots : Reached(slot'[q])
  BY <1>1 DEF SlotsOK
<1>3. \A q \in Slots : Backed(slot'[q], notes')
  BY <1>1 DEF SlotsOK
<1>4. SlotsOK'
  BY <1>1, <1>2, <1>3 DEF SlotsOK, Reached, Backed, AddressOf
<1>5. ASSUME NEW q \in Slots, slot'[q].pc = "address"
      PROVE  cache'[slot'[q].place] # None \/ slot'[q].place \in inFlight'
  <2>1. CASE q = s
    BY <1>1, <1>5, <2>1
  <2>2. CASE q # s
    <3>1. slot'[q] = slot[q] /\ slot[q].place \in Keys
      BY <1>1, <1>5, <2>2 DEF SlotsOK, Reached, Places
    <3> QED
      BY <1>5, <3>1 DEF Waiting, Waits, Serving
  <2> QED
    BY <2>1, <2>2
<1> QED
  BY <1>4, <1>5 DEF Waiting, Waits

(* It reaches r without a notification. *)
LEMMA PacketMovesOn ==
  ASSUME Inv, NEW s \in Slots, NEW r, Reach(s, r), Reached(r), Backed(r, notes),
         r.pc # "address", UNCHANGED <<geocoderVars, notes>>
  PROVE  GeocoderInv' /\ SlotsOK' /\ Waiting'
<1>1. GeocoderInv' /\ Serving /\ inFlight \subseteq Keys /\ notes' = notes
  BY GeocoderSame DEF Inv, GeocoderInv, GeocoderTyped
<1> QED
  BY <1>1, PacketMoves DEF Inv

LEMMA StartGeofencesInv ==
  ASSUME Inv, NEW s \in Slots, NEW r \in SlotType, StartGeofences(s, r),
         r.place \in Places, r.ts \in 1 .. MaxTime, AddressOf(r.place, r.address),
         UNCHANGED <<geocoderVars, notes>>
  PROVE  GeocoderInv' /\ SlotsOK' /\ Waiting'
<1>1. CASE /\ geofenceCache # None /\ geofenceCache.age < CacheAge
           /\ Reach(s, [r EXCEPT !.pc = "previous", !.read = geofenceCache.read,
                             !.fence = CurrentGeofence(r.place, geofenceCache.data)])
  <2> DEFINE f == CurrentGeofence(r.place, geofenceCache.data)
             n == [r EXCEPT !.pc = "previous", !.read = geofenceCache.read, !.fence = f]
  <2>1. /\ geofenceCache.data \in Seq(Geofence) /\ geofenceCache.read \in 0 .. CacheAge
        /\ geofenceCache.age \in 0 .. CacheAge /\ geofenceCache.read <= geofenceCache.age
    BY <1>1 DEF Inv, FencesKept
  <2>2. f \in Fences \cup {None} /\ geofenceCache.read < CacheAge
    BY <1>1, <2>1, CurrentGeofenceTyped, TrackingAssumption
  <2> HIDE DEF f
  <2>3. /\ n \in SlotType /\ n.pc = "previous" /\ n.read = geofenceCache.read
        /\ n.place = r.place /\ n.ts = r.ts /\ n.address = r.address
    BY <2>1, <2>2 DEF SlotType
  <2>4. Reach(s, n)
    BY <1>1 DEF f
  <2> HIDE DEF n
  <2>5. Reached(n) /\ Backed(n, notes)
    BY <2>2, <2>3 DEF Reached, Backed
  <2> QED
    BY <2>3, <2>4, <2>5, PacketMovesOn
<1>2. CASE Reach(s, [r EXCEPT !.pc = "load", !.loading = 0])
  <2> DEFINE n == [r EXCEPT !.pc = "load", !.loading = 0]
  <2>0. 0 \in 0 .. CacheAge
    BY TrackingAssumption
  <2>1. /\ n \in SlotType /\ n.pc = "load"
        /\ n.place = r.place /\ n.ts = r.ts /\ n.address = r.address
    BY <2>0 DEF SlotType
  <2> HIDE DEF n
  <2>2. Reached(n) /\ Backed(n, notes)
    BY <2>1 DEF Reached, Backed
  <2> QED
    BY <1>2, <2>1, <2>2, PacketMovesOn DEF n
<1> QED
  BY <1>1, <1>2 DEF StartGeofences

-----------------------------------------------------------------------------
(* The steps. *)

LEMMA SlotFacts ==
  ASSUME Inv, NEW s \in Slots
  PROVE  /\ slot[s] \in SlotType /\ Reached(slot[s]) /\ Backed(slot[s], notes)
         /\ slot[s].pc # "idle" => slot[s].place \in Places /\ slot[s].ts \in 1 .. MaxTime
BY DEF Inv, SlotsOK, Reached

(* What a step does not touch stays as it was. *)
LEMMA TablesSame ==
  ASSUME Inv, UNCHANGED <<geofences, rows, notes>>
  PROVE  RowsOK' /\ NotesOK' /\ geofences' \in Seq(Geofence)
BY DEF Inv, RowsOK, NotesOK, FencesKept, EnteredIn, AddressOf

LEMMA ReceiveInv ==
  ASSUME Inv, NEW s \in Slots, Receive(s)
  PROVE  Inv'
<1>1. PICK place \in Places, ts \in 1 .. MaxTime :
        /\ Reach(s, [Idle EXCEPT !.pc = "lookup", !.place = place, !.ts = ts])
        /\ disturbed' = (disturbed \/ ~InOrder(ts) \/ \E t \in Slots : Handled(t))
  BY DEF Receive
<1>2. /\ received < MaxPackets /\ received' = received + 1
      /\ UNCHANGED <<geocoderVars, lastKnown, geofences, geofenceCache, rows,
                     notes, edits>>
  BY DEF Receive
<1> DEFINE r == [Idle EXCEPT !.pc = "lookup", !.place = place, !.ts = ts]
<1>3. r \in SlotType /\ r.pc = "lookup" /\ r.place = place /\ r.ts = ts
  <2>1. 0 \in 0 .. CacheAge /\ ts \in 0 .. MaxTime /\ <<>> \in Seq(Geofence)
    BY TrackingAssumption, EmptySeq
  <2> QED
    BY <2>1 DEF Idle, SlotType
<1>4. Reach(s, r)
  BY <1>1
<1> HIDE DEF r
<1>5. Reached(r) /\ Backed(r, notes)
  BY <1>3 DEF Reached, Backed
<1>6. GeocoderInv' /\ SlotsOK' /\ Waiting'
  BY <1>2, <1>3, <1>4, <1>5, PacketMovesOn
<1>7. received' \in 0 .. MaxPackets
  BY <1>2, TrackingAssumption DEF Inv, CountsOK
<1>8. disturbed' \in BOOLEAN
  BY <1>1
<1>9. CountsOK'
  BY <1>2, <1>7, <1>8 DEF Inv, CountsOK
<1> QED
  BY <1>2, <1>6, <1>9, TablesSame DEF Inv, FencesKept, LastKnownOK

LEMMA ResolvedInv ==
  ASSUME Inv, NEW s \in Slots, NEW address, Resolved(s, address),
         slot[s].pc \in {"lookup", "address"}, address \in {slot[s].place, Unknown},
         UNCHANGED <<geocoderVars, geofences, geofenceCache, rows, notes,
                     received, edits, disturbed>>
  PROVE  Inv'
<1> DEFINE place == slot[s].place
           r == [slot[s] EXCEPT !.address = address]
<1>1. slot[s] \in SlotType /\ place \in Places /\ slot[s].ts \in 1 .. MaxTime
  BY SlotFacts
<1>2. AddressOf(place, address) /\ address \in Addresses
  BY <1>1, DistanceNat, TrackingAssumption DEF AddressOf, Addresses
<1>3. r \in SlotType /\ r.place = place /\ r.ts = slot[s].ts /\ r.address = address
  BY <1>1, <1>2 DEF SlotType
<1>4. StartGeofences(s, r) /\ lastKnown' = [place |-> place, address |-> address]
  BY DEF Resolved
<1> HIDE DEF r, place
<1>5. GeocoderInv' /\ SlotsOK' /\ Waiting'
  BY <1>1, <1>2, <1>3, <1>4, StartGeofencesInv
<1>6. LastKnownOK'
  BY <1>1, <1>2, <1>4 DEF LastKnownOK, place
<1> QED
  BY <1>5, <1>6, TablesSame DEF Inv, FencesKept, CountsOK

LEMMA LookedUpInv ==
  ASSUME Inv, NEW s \in Slots, LookedUp(s)
  PROVE  Inv'
<1> DEFINE place == slot[s].place
<1>1. /\ slot[s].pc = "lookup" /\ slot[s] \in SlotType
      /\ place \in Places /\ slot[s].ts \in 1 .. MaxTime
  BY SlotFacts DEF LookedUp
<1>2. UNCHANGED <<geofences, geofenceCache, rows, notes, received,
                  edits, disturbed>>
  BY DEF LookedUp
<1>3. CASE /\ Near(place)
           /\ StartGeofences(s, [slot[s] EXCEPT !.address = lastKnown.address])
           /\ UNCHANGED <<geocoderVars, lastKnown>>
  <2> DEFINE r == [slot[s] EXCEPT !.address = lastKnown.address]
  <2>1. /\ lastKnown # None /\ lastKnown.place \in Places
        /\ lastKnown.address \in Addresses
        /\ lastKnown.address \in {lastKnown.place, Unknown}
        /\ Distance(lastKnown.place, place) < Threshold
    BY <1>3 DEF Near, Inv, LastKnownOK
  <2>2. AddressOf(place, lastKnown.address)
    BY <1>1, <2>1, DistanceNat DEF AddressOf
  <2>3. r \in SlotType /\ r.place = place /\ r.ts = slot[s].ts /\ r.address = lastKnown.address
    BY <1>1, <2>1 DEF SlotType
  <2> HIDE DEF r, place
  <2>4. GeocoderInv' /\ SlotsOK' /\ Waiting'
    BY <1>1, <1>2, <1>3, <2>2, <2>3, StartGeofencesInv DEF r
  <2> QED
    BY <1>2, <1>3, <2>4, TablesSame DEF Inv, FencesKept, LastKnownOK, CountsOK
<1>4. CASE cache[place] # None /\ Resolved(s, cache[place]) /\ UNCHANGED geocoderVars
  <2>1. cache[place] \in {place, Unknown}
    BY <1>1, <1>4 DEF Inv, GeocoderInv, CacheTrue, Places
  <2> QED
    BY <1>1, <1>2, <1>4, <2>1, ResolvedInv
<1>5. CASE Resolved(s, Unknown) /\ UNCHANGED geocoderVars
  BY <1>1, <1>2, <1>5, ResolvedInv
<1>6. CASE /\ Reach(s, [slot[s] EXCEPT !.pc = "address"])
           /\ lastKnown' = lastKnown
           /\ IF place \in inFlight THEN UNCHANGED geocoderVars ELSE Enqueue(place)
  <2> DEFINE r == [slot[s] EXCEPT !.pc = "address"]
  <2>1. r \in SlotType /\ r.pc = "address" /\ r.place = place /\ r.ts = slot[s].ts
    BY <1>1 DEF SlotType
  <2>2. place \in Keys
    BY <1>1 DEF Places
  <2>3. Reach(s, r)
    BY <1>6
  <2> HIDE DEF r, place
  <2>4. GeocoderInv' /\ Serving /\ place \in inFlight'
    <3>1. CASE place \in inFlight
      <4>1. UNCHANGED geocoderVars
        BY <1>6, <3>1 DEF place
      <4> QED
        BY <3>1, <4>1, GeocoderSame DEF Inv, geocoderVars
    <3>2. CASE place \notin inFlight
      <4>1. Enqueue(place)
        BY <1>6, <3>2 DEF place
      <4> QED
        BY <2>2, <4>1, EnqueueInv DEF Inv, Serving
    <3> QED
      BY <3>1, <3>2
  <2>5. Reached(r) /\ Backed(r, notes)
    BY <1>1, <2>1 DEF Reached, Backed
  <2>6. SlotsOK' /\ Waiting'
    <3>1. notes' = notes /\ inFlight \subseteq Keys
      BY <1>2 DEF Inv, GeocoderInv, GeocoderTyped
    <3> QED
      BY <2>1, <2>3, <2>4, <2>5, <3>1, PacketMoves DEF Inv
  <2> QED
    BY <1>2, <1>6, <2>4, <2>6, TablesSame DEF Inv, FencesKept, LastKnownOK, CountsOK
<1> QED
  BY <1>3, <1>4, <1>5, <1>6 DEF LookedUp

LEMMA AddressedInv ==
  ASSUME Inv, NEW s \in Slots, Addressed(s)
  PROVE  Inv'
<1>1. slot[s].pc = "address" /\ slot[s].place \in Places
  BY SlotFacts DEF Addressed
<1>2. cache[slot[s].place] \in {slot[s].place, Unknown}
  BY <1>1 DEF Addressed, Inv, GeocoderInv, CacheTrue, Places
<1> QED
  BY <1>1, <1>2, ResolvedInv DEF Addressed

LEMMA ReadGeofencesInv ==
  ASSUME Inv, NEW s \in Slots, ReadGeofences(s)
  PROVE  Inv'
<1> DEFINE r == [slot[s] EXCEPT !.pc = "loaded", !.data = geofences, !.read = 0]
<1>1. /\ slot[s].pc = "load" /\ Reach(s, r)
      /\ UNCHANGED <<geocoderVars, lastKnown, geofences, geofenceCache, rows,
                     notes, received, edits, disturbed>>
  BY DEF ReadGeofences
<1>2. 0 \in 0 .. CacheAge /\ geofences \in Seq(Geofence)
  BY TrackingAssumption DEF Inv, FencesKept
<1>3. slot[s] \in SlotType /\ Reached(slot[s])
  BY SlotFacts
<1>4. /\ r \in SlotType /\ r.pc = "loaded" /\ r.read = 0 /\ r.loading = slot[s].loading
      /\ r.place = slot[s].place /\ r.ts = slot[s].ts /\ r.address = slot[s].address
  BY <1>2, <1>3 DEF SlotType
<1>5. slot[s].loading \in Nat
  BY <1>3, TrackingAssumption DEF SlotType
<1> HIDE DEF r
<1>6. Reached(r) /\ Backed(r, notes)
  BY <1>1, <1>3, <1>4, <1>5 DEF Reached, Backed
<1>7. GeocoderInv' /\ SlotsOK' /\ Waiting'
  BY <1>1, <1>4, <1>6, PacketMovesOn
<1> QED
  BY <1>1, <1>7, TablesSame DEF Inv, FencesKept, LastKnownOK, CountsOK

LEMMA LoadedGeofencesInv ==
  ASSUME Inv, NEW s \in Slots, LoadedGeofences(s)
  PROVE  Inv'
<1> DEFINE f == CurrentGeofence(slot[s].place, slot[s].data)
           r == [slot[s] EXCEPT !.pc = "previous", !.data = <<>>, !.read = 0,
                                !.loading = 0, !.fence = f]
<1>1. /\ slot[s].pc = "loaded" /\ Reach(s, r)
      /\ geofenceCache' = [data |-> slot[s].data, age |-> slot[s].loading,
                           read |-> slot[s].read]
      /\ UNCHANGED <<geocoderVars, lastKnown, geofences, rows, notes,
                     received, edits, disturbed>>
  BY DEF LoadedGeofences
<1>2. 0 \in 0 .. CacheAge /\ 0 < CacheAge /\ <<>> \in Seq(Geofence)
  BY TrackingAssumption, EmptySeq
<1>3. /\ slot[s] \in SlotType /\ Reached(slot[s]) /\ slot[s].place \in Places
      /\ slot[s].data \in Seq(Geofence) /\ slot[s].read <= slot[s].loading
  BY <1>1, SlotFacts DEF SlotType, Reached
<1>4. f \in Fences \cup {None}
  BY <1>3, CurrentGeofenceTyped
<1> HIDE DEF f
<1>5. /\ r \in SlotType /\ r.pc = "previous" /\ r.read = 0
      /\ r.place = slot[s].place /\ r.ts = slot[s].ts /\ r.address = slot[s].address
  BY <1>2, <1>3, <1>4 DEF SlotType
<1> HIDE DEF r
<1>6. Reached(r) /\ Backed(r, notes)
  BY <1>1, <1>2, <1>3, <1>5 DEF Reached, Backed
<1>7. GeocoderInv' /\ SlotsOK' /\ Waiting'
  BY <1>1, <1>5, <1>6, PacketMovesOn
<1>8. FencesKept'
  <2>1. slot[s].loading \in 0 .. CacheAge /\ slot[s].read \in 0 .. CacheAge
    BY <1>3 DEF SlotType
  <2> QED
    BY <1>1, <1>3, <2>1 DEF Inv, FencesKept
<1> QED
  BY <1>1, <1>7, <1>8, TablesSame DEF Inv, LastKnownOK, CountsOK

LEMMA PreviousInv ==
  ASSUME Inv, NEW s \in Slots, Previous(s)
  PROVE  Inv'
<1>1. slot[s].pc = "previous"
      /\ UNCHANGED <<geocoderVars, lastKnown, geofences, geofenceCache, rows,
                     notes, received, edits, disturbed>>
  BY DEF Previous
<1>2. PICK previous \in
         IF rows = {} THEN {None}
         ELSE {r.fence : r \in {q \in rows : \A o \in rows : o.ts <= q.ts}} :
         Reach(s, [slot[s] EXCEPT !.previous = previous, !.read = 0,
                                  !.pc = Crossing(previous, slot[s].fence)])
  BY DEF Previous
<1>3. /\ previous \in Fences \cup {None}
      /\ previous # None => EnteredIn(notes, previous, Len(notes))
  <2>1. CASE rows = {}
    BY <1>2, <2>1
  <2>2. CASE rows # {}
    <3>1. PICK q \in rows : previous = q.fence
      BY <1>2, <2>2
    <3>2. q \in Row
      BY DEF Inv, RowsOK
    <3> QED
      BY <3>1, <3>2 DEF Inv, RowsOK, Row
  <2> QED
    BY <2>1, <2>2
<1> DEFINE c == Crossing(previous, slot[s].fence)
           n == [slot[s] EXCEPT !.previous = previous, !.read = 0, !.pc = c]
<1>4. Reach(s, n)
  BY <1>2
<1>5. slot[s] \in SlotType /\ Reached(slot[s]) /\ 0 \in 0 .. CacheAge
  BY SlotFacts, TrackingAssumption
<1>6. /\ c \in {"save", "exit", "enter"}
      /\ c = "save" => previous = slot[s].fence
      /\ c = "exit" => previous # None
      /\ c = "enter" => slot[s].fence # None
  BY DEF Crossing
<1> HIDE DEF c
<1>7. /\ n \in SlotType /\ n.pc = c /\ n.previous = previous /\ n.fence = slot[s].fence
      /\ n.place = slot[s].place /\ n.ts = slot[s].ts /\ n.address = slot[s].address
  BY <1>3, <1>5, <1>6 DEF SlotType
<1> HIDE DEF n
<1>8. Reached(n)
  BY <1>1, <1>5, <1>6, <1>7 DEF Reached
<1>9. Backed(n, notes)
  BY <1>3, <1>6, <1>7 DEF Backed
<1>10. GeocoderInv' /\ SlotsOK' /\ Waiting'
  BY <1>1, <1>4, <1>6, <1>7, <1>8, <1>9, PacketMovesOn
<1> QED
  BY <1>1, <1>10, TablesSame DEF Inv, FencesKept, LastKnownOK, CountsOK

(* A notification is appended: what was told stays told.                   *)
LEMMA NoteInv ==
  ASSUME Inv, NEW s \in Slots, NEW r,
         NEW note \in [type : {"exit", "enter"}, fence : Fences],
         notes' = Append(notes, note), Reach(s, r), Reached(r), r.pc # "address",
         note.type = "exit" => EnteredIn(notes, note.fence, Len(notes)),
         Backed(r, notes'),
         UNCHANGED <<geocoderVars, lastKnown, geofences, geofenceCache, rows, received, edits, disturbed>>
  PROVE  Inv'
<1> DEFINE N == [type : {"exit", "enter"}, fence : Fences]
<1>1. /\ notes \in Seq(N) /\ notes' \in Seq(N) /\ Len(notes) \in Nat
      /\ Len(notes') = Len(notes) + 1 /\ notes'[Len(notes) + 1] = note
      /\ \A i \in 1 .. Len(notes) : notes'[i] = notes[i]
  BY AppendProperties, LenProperties DEF Inv, NotesOK
<1>2. ASSUME NEW f, EnteredIn(notes, f, Len(notes))
      PROVE  EnteredIn(notes', f, Len(notes'))
  BY <1>1, <1>2, Told
<1>3. \A q \in Slots : Backed(slot[q], notes')
  BY <1>2 DEF Inv, SlotsOK, Backed
<1>4. GeocoderInv' /\ Serving /\ inFlight \subseteq Keys
  BY GeocoderSame DEF Inv, GeocoderInv, GeocoderTyped
<1>5. SlotsOK' /\ Waiting'
  BY <1>3, <1>4, PacketMoves DEF Inv
<1>6. RowsOK'
  BY <1>2 DEF Inv, RowsOK, AddressOf
<1>7. ASSUME NEW i \in 1 .. Len(notes'), notes'[i].type = "exit"
      PROVE  EnteredIn(notes', notes'[i].fence, i)
  <2>1. CASE i \in 1 .. Len(notes)
    <3>1. EnteredIn(notes, notes[i].fence, i)
      BY <1>1, <1>7, <2>1 DEF Inv, NotesOK
    <3> QED
      BY <1>1, <2>1, <3>1 DEF EnteredIn
  <2>2. CASE i = Len(notes) + 1
    BY <1>1, <1>2, <1>7, <2>2
  <2> QED
    BY <1>1, <2>1, <2>2
<1>8. NotesOK'
  BY <1>1, <1>7 DEF NotesOK
<1> QED
  BY <1>4, <1>5, <1>6, <1>8 DEF Inv, FencesKept, LastKnownOK, CountsOK

LEMMA NoteExitInv ==
  ASSUME Inv, NEW s \in Slots, NoteExit(s)
  PROVE  Inv'
<1> DEFINE note == [type |-> "exit", fence |-> slot[s].previous]
           r == [slot[s] EXCEPT !.pc = AfterExit(s)]
<1>1. /\ slot[s].pc = "exit" /\ notes' = Append(notes, note) /\ Reach(s, r)
      /\ UNCHANGED <<geocoderVars, lastKnown, geofences, geofenceCache, rows, received, edits, disturbed>>
  BY DEF NoteExit
<1>2. slot[s] \in SlotType /\ Reached(slot[s]) /\ Backed(slot[s], notes)
  BY SlotFacts
<1>3. /\ slot[s].previous \in Fences
      /\ EnteredIn(notes, slot[s].previous, Len(notes))
  BY <1>1, <1>2 DEF SlotType, Reached, Backed
<1>4. /\ r \in SlotType /\ r.pc = AfterExit(s) /\ r.previous = slot[s].previous
      /\ r.place = slot[s].place /\ r.ts = slot[s].ts /\ r.address = slot[s].address
      /\ r.fence = slot[s].fence
  BY <1>2 DEF SlotType, AfterExit
<1> HIDE DEF r
<1>5. /\ r.pc \in {"save", "enter"} /\ (r.pc = "enter" => r.fence # None)
      /\ r.pc = "save" => r.fence = None
  BY <1>4 DEF AfterExit
<1>6. Reached(r) /\ Backed(r, notes')
  BY <1>1, <1>2, <1>4, <1>5 DEF Reached, Backed
<1>7. note \in [type : {"exit", "enter"}, fence : Fences] /\ note.fence = slot[s].previous
  BY <1>3
<1> HIDE DEF note
<1> QED
  BY <1>1, <1>3, <1>5, <1>6, <1>7, NoteInv

LEMMA NoteEnterInv ==
  ASSUME Inv, NEW s \in Slots, NoteEnter(s)
  PROVE  Inv'
<1> DEFINE note == [type |-> "enter", fence |-> slot[s].fence]
           r == [slot[s] EXCEPT !.pc = "save"]
<1>1. /\ slot[s].pc = "enter" /\ notes' = Append(notes, note) /\ Reach(s, r)
      /\ UNCHANGED <<geocoderVars, lastKnown, geofences, geofenceCache, rows, received, edits, disturbed>>
  BY DEF NoteEnter
<1>2. slot[s] \in SlotType /\ Reached(slot[s]) /\ slot[s].fence \in Fences
  BY <1>1, SlotFacts DEF SlotType, Reached
<1>3. /\ r \in SlotType /\ r.pc = "save" /\ r.fence = slot[s].fence
      /\ r.place = slot[s].place /\ r.ts = slot[s].ts /\ r.address = slot[s].address
  BY <1>2 DEF SlotType
<1> HIDE DEF r
<1>4. note \in [type : {"exit", "enter"}, fence : Fences] /\ note.type = "enter"
  BY <1>2
<1>5. /\ Len(notes) + 1 \in 1 .. Len(notes') /\ notes'[Len(notes) + 1] = note
  BY <1>1, <1>4, AppendProperties, LenProperties DEF Inv, NotesOK
<1>6. EnteredIn(notes', r.fence, Len(notes'))
  BY <1>3, <1>5 DEF EnteredIn
<1> HIDE DEF note
<1>7. Reached(r) /\ Backed(r, notes')
  BY <1>1, <1>2, <1>3, <1>6 DEF Reached, Backed
<1> QED
  BY <1>1, <1>3, <1>4, <1>7, NoteInv

LEMMA SaveRowInv ==
  ASSUME Inv, NEW s \in Slots, SaveRow(s)
  PROVE  Inv'
<1> DEFINE row == [n |-> Cardinality(rows) + 1, place |-> slot[s].place, ts |-> slot[s].ts,
                   address |-> slot[s].address, fence |-> slot[s].fence]
           r == [slot[s] EXCEPT !.pc = "vehicle"]
<1>1. /\ slot[s].pc = "save" /\ rows' = rows \cup {row} /\ Reach(s, r)
      /\ UNCHANGED <<geocoderVars, lastKnown, geofences, geofenceCache, notes, received, edits, disturbed>>
  BY DEF SaveRow
<1>2. /\ slot[s] \in SlotType /\ Reached(slot[s]) /\ Backed(slot[s], notes)
      /\ slot[s].place \in Places /\ slot[s].ts \in 1 .. MaxTime
      /\ AddressOf(slot[s].place, slot[s].address)
      /\ slot[s].fence \in Fences \cup {None}
  BY <1>1, SlotFacts DEF SlotType, Reached
<1>3. /\ r \in SlotType /\ r.pc = "vehicle" /\ r.fence = slot[s].fence
      /\ r.place = slot[s].place /\ r.ts = slot[s].ts /\ r.address = slot[s].address
  BY <1>2 DEF SlotType
<1> HIDE DEF r
<1>4. Reached(r) /\ Backed(r, notes)
  BY <1>1, <1>2, <1>3 DEF Reached, Backed
<1>5. GeocoderInv' /\ SlotsOK' /\ Waiting'
  BY <1>1, <1>3, <1>4, PacketMovesOn
<1>6. IsFiniteSet(rows) /\ Cardinality(rows) \in Nat
  BY FS_CardinalityType DEF Inv, RowsOK
<1>7. /\ row \in Row /\ row.place = slot[s].place /\ row.address = slot[s].address
      /\ row.fence = slot[s].fence
  BY <1>2, <1>6 DEF Row, AddressOf
<1> HIDE DEF row
<1>8. IsFiniteSet(rows')
  BY <1>1, <1>6, FS_AddElement
<1>9. RowsOK'
  <2>1. ASSUME NEW q \in rows'
        PROVE  /\ q \in Row /\ AddressOf(q.place, q.address)
               /\ q.fence # None => EnteredIn(notes, q.fence, Len(notes))
    <3>1. CASE q = row
      BY <1>1, <1>2, <1>7, <3>1 DEF Backed
    <3>2. CASE q \in rows
      BY <3>2 DEF Inv, RowsOK
    <3> QED
      BY <1>1, <3>1, <3>2
  <2>2. rows' \subseteq Row /\ notes' = notes
    BY <1>1, <2>1
  <2> QED
    BY <1>8, <2>1, <2>2 DEF RowsOK, AddressOf
<1> QED
  BY <1>1, <1>5, <1>9 DEF Inv, FencesKept, LastKnownOK, NotesOK, CountsOK

LEMMA IdleReached ==
  Reached(Idle) /\ Idle.pc = "idle" /\ \A ns : Backed(Idle, ns)
<1>1. Idle \in SlotType /\ Idle.pc = "idle"
  <2>1. 0 \in 0 .. CacheAge /\ 0 \in 0 .. MaxTime /\ <<>> \in Seq(Geofence)
    BY TrackingAssumption, EmptySeq
  <2> QED
    BY <2>1 DEF Idle, SlotType
<1> QED
  BY <1>1 DEF Reached, Backed

LEMMA SaveVehicleInv ==
  ASSUME Inv, NEW s \in Slots, SaveVehicle(s)
  PROVE  Inv'
<1>1. /\ Reach(s, Idle)
      /\ UNCHANGED <<geocoderVars, lastKnown, geofences, geofenceCache, rows,
                     notes, received, edits, disturbed>>
  BY DEF SaveVehicle
<1>2. GeocoderInv' /\ SlotsOK' /\ Waiting'
  BY <1>1, IdleReached, PacketMovesOn
<1> QED
  BY <1>1, <1>2, TablesSame DEF Inv, FencesKept, LastKnownOK, CountsOK

LEMMA FailInv ==
  ASSUME Inv, NEW s \in Slots, Fail(s)
  PROVE  Inv'
<1>1. /\ Reach(s, Idle) /\ disturbed' = TRUE
      /\ UNCHANGED <<geocoderVars, lastKnown, geofences, geofenceCache, rows,
                     notes, received, edits>>
  BY DEF Fail
<1>2. GeocoderInv' /\ SlotsOK' /\ Waiting'
  BY <1>1, IdleReached, PacketMovesOn
<1> QED
  BY <1>1, <1>2, TablesSame DEF Inv, FencesKept, LastKnownOK, CountsOK

(* The fences of the college are edited. *)
LEMMA EditedInv ==
  ASSUME Inv, NEW fences \in Seq(Geofence), Edited(fences)
  PROVE  Inv'
<1>1. /\ edits < MaxEdits /\ edits' = edits + 1 /\ geofences' = fences
      /\ UNCHANGED <<geocoderVars, slot, lastKnown, geofenceCache, rows, notes, received, disturbed>>
  BY DEF Edited
<1>2. edits' \in 0 .. MaxEdits
  BY <1>1, TrackingAssumption DEF Inv, CountsOK
<1>3. GeocoderInv'
  BY <1>1, GeocoderSame DEF Inv
<1>4. SlotsOK' /\ Waiting'
  BY <1>1 DEF Inv, SlotsOK, Reached, Backed, AddressOf, EnteredIn, Waiting, Waits, geocoderVars
<1>5. RowsOK' /\ NotesOK'
  BY <1>1 DEF Inv, RowsOK, NotesOK, EnteredIn, AddressOf
<1> QED
  BY <1>1, <1>2, <1>3, <1>4, <1>5 DEF Inv, FencesKept, LastKnownOK, CountsOK

LEMMA RemoveAtTyped ==
  ASSUME NEW S, NEW seq \in Seq(S), NEW i \in DOMAIN seq
  PROVE  RemoveAt(seq, i) \in Seq(S)
<1>1. /\ Len(seq) \in Nat /\ i \in 1 .. Len(seq)
      /\ \A j \in 1 .. Len(seq) : seq[j] \in S
  BY LenProperties, ElementOfSeq
<1>2. SubSeq(seq, 1, i - 1) \in Seq(S)
  <2>1. \A j \in 1 .. i - 1 : seq[j] \in S
    BY <1>1
  <2>2. i - 1 \in Int
    BY <1>1
  <2> QED
    BY <2>1, <2>2, SubSeqProperties
<1>3. SubSeq(seq, i + 1, Len(seq)) \in Seq(S)
  <2>1. \A j \in i + 1 .. Len(seq) : seq[j] \in S
    BY <1>1
  <2>2. i + 1 \in Int /\ Len(seq) \in Int
    BY <1>1
  <2> QED
    BY <2>1, <2>2, SubSeqProperties
<1> QED
  BY <1>2, <1>3, ConcatProperties DEF RemoveAt

LEMMA CreateGeofenceInv ==
  ASSUME Inv, CreateGeofence
  PROVE  Inv'
<1>1. PICK g \in Geofence : Edited(<<g>> \o geofences)
  BY DEF CreateGeofence
<1>2. <<g>> \in Seq(Geofence) /\ geofences \in Seq(Geofence)
  BY DEF Inv, FencesKept
<1>3. <<g>> \o geofences \in Seq(Geofence)
  BY <1>2, ConcatProperties
<1> QED
  BY <1>1, <1>3, EditedInv

LEMMA UpdateGeofenceInv ==
  ASSUME Inv, NEW i \in DOMAIN geofences, UpdateGeofence(i)
  PROVE  Inv'
<1>1. PICK g \in Geofence : Edited(<<g>> \o RemoveAt(geofences, i))
  BY DEF UpdateGeofence
<1>2. geofences \in Seq(Geofence)
  BY DEF Inv, FencesKept
<1>3. <<g>> \in Seq(Geofence) /\ RemoveAt(geofences, i) \in Seq(Geofence)
  BY <1>2, RemoveAtTyped
<1>4. <<g>> \o RemoveAt(geofences, i) \in Seq(Geofence)
  BY <1>3, ConcatProperties
<1> QED
  BY <1>1, <1>4, EditedInv

LEMMA RemoveGeofenceInv ==
  ASSUME Inv, NEW i \in DOMAIN geofences, RemoveGeofence(i)
  PROVE  Inv'
<1>1. geofences \in Seq(Geofence)
  BY DEF Inv, FencesKept
<1>2. RemoveAt(geofences, i) \in Seq(Geofence)
  BY <1>1, RemoveAtTyped
<1> QED
  BY <1>2, EditedInv DEF RemoveGeofence

(* The geocoder serves those who wait while the vehicle stands still.      *)
LEMMA ServedInv ==
  ASSUME Inv, GeocoderInv', Serving, UNCHANGED trackingVars
  PROVE  Inv'
<1>1. UNCHANGED <<slot, lastKnown, geofences, geofenceCache, rows, notes,
                  received, edits, disturbed>>
  BY DEF trackingVars
<1>2. SlotsOK'
  BY <1>1 DEF Inv, SlotsOK, Reached, Backed, AddressOf, EnteredIn
<1>3. ASSUME NEW s \in Slots, slot[s].pc = "address"
      PROVE  cache'[slot[s].place] # None \/ slot[s].place \in inFlight'
  <2>1. slot[s].place \in Keys
    BY <1>3, SlotFacts DEF Places
  <2>2. cache[slot[s].place] # None \/ slot[s].place \in inFlight
    BY <1>3 DEF Inv, Waiting, Waits
  <2> QED
    BY <2>1, <2>2 DEF Serving
<1>4. Waiting'
  BY <1>1, <1>3 DEF Waiting, Waits
<1>5. RowsOK' /\ NotesOK'
  BY <1>1 DEF Inv, RowsOK, NotesOK, EnteredIn, AddressOf
<1> QED
  BY <1>1, <1>2, <1>4, <1>5 DEF Inv, FencesKept, LastKnownOK, CountsOK

LEMMA GeocoderStepInv ==
  ASSUME Inv, GeocoderStep
  PROVE  Inv'
<1>1. UNCHANGED trackingVars /\ GeocoderInv
  BY DEF GeocoderStep, Inv
<1>2. ASSUME NEW d \in Drainers, Request(d)
      PROVE  Inv'
  <2>1. GeocoderInv' /\ Serving
    BY <1>1, <1>2, RequestInv DEF Serving
  <2> QED
    BY <1>1, <2>1, ServedInv
<1>3. ASSUME NEW d \in Drainers, Answer(d)
      PROVE  Inv'
  <2>1. GeocoderInv' /\ Serving
    BY <1>1, <1>3, AnswerInv DEF Serving
  <2> QED
    BY <1>1, <2>1, ServedInv
<1>4. ASSUME NEW k \in Elsewhere, Enqueue(k)
      PROVE  Inv'
  <2>1. k \in Keys
    BY TrackingAssumption
  <2>2. GeocoderInv' /\ Serving
    BY <1>1, <1>4, <2>1, EnqueueInv DEF Serving
  <2> QED
    BY <1>1, <2>2, ServedInv
<1> QED
  BY <1>2, <1>3, <1>4 DEF GeocoderStep

(* Time passes for the data of a query and of the cache alike.             *)
LEMMA OlderFacts ==
  /\ \A a \in 0 .. CacheAge : Older(a) \in 0 .. CacheAge
  /\ \A a, b \in 0 .. CacheAge : a <= b => Older(a) <= Older(b)
BY TrackingAssumption DEF Older

LEMMA TickInv ==
  ASSUME Inv, Tick
  PROVE  Inv'
<1>1. GeocoderInv' /\ cache' = cache /\ inFlight' = inFlight
  BY GeocoderTickInv DEF Inv, Tick
<1>2. UNCHANGED <<lastKnown, geofences, rows, notes, received, edits, disturbed>>
  BY DEF Tick
<1>3. ASSUME NEW s \in Slots
      PROVE  /\ slot'[s] \in SlotType /\ Reached(slot'[s]) /\ Backed(slot'[s], notes)
             /\ slot'[s].pc = slot[s].pc /\ slot'[s].place = slot[s].place
  <2>1. /\ slot[s] \in SlotType /\ Reached(slot[s]) /\ Backed(slot[s], notes)
        /\ slot[s].loading \in 0 .. CacheAge /\ slot[s].read \in 0 .. CacheAge
    BY SlotFacts DEF SlotType
  <2>2. slot'[s] = CASE slot[s].pc = "load" -> [slot[s] EXCEPT !.loading = Older(@)]
                     [] slot[s].pc = "loaded" -> [slot[s] EXCEPT !.loading = Older(@), !.read = Older(@)]
                     [] OTHER -> slot[s]
    BY DEF Tick
  <2> DEFINE a == Older(slot[s].loading)
             b == Older(slot[s].read)
  <2>3. a \in 0 .. CacheAge /\ b \in 0 .. CacheAge
        /\ (slot[s].read <= slot[s].loading => b <= a)
    BY <2>1, OlderFacts
  <2>4. CASE slot[s].pc = "load"
    <3> DEFINE r == [slot[s] EXCEPT !.loading = a]
    <3>1. slot'[s] = r
      BY <2>2, <2>4
    <3> HIDE DEF a
    <3>2. /\ r \in SlotType /\ r.pc = "load"
          /\ r.place = slot[s].place /\ r.ts = slot[s].ts /\ r.address = slot[s].address
      BY <2>1, <2>3, <2>4 DEF SlotType
    <3> HIDE DEF r
    <3>3. Reached(r) /\ Backed(r, notes)
      BY <2>1, <2>4, <3>2 DEF Reached, Backed
    <3> QED
      BY <2>4, <3>1, <3>2, <3>3
  <2>5. CASE slot[s].pc = "loaded"
    <3> DEFINE r == [slot[s] EXCEPT !.loading = a, !.read = b]
    <3>1. slot'[s] = r
      BY <2>2, <2>5
    <3> HIDE DEF a, b
    <3>2. /\ r \in SlotType /\ r.pc = "loaded" /\ r.loading = a /\ r.read = b
          /\ r.place = slot[s].place /\ r.ts = slot[s].ts /\ r.address = slot[s].address
      BY <2>1, <2>3, <2>5 DEF SlotType
    <3> HIDE DEF r
    <3>3. slot[s].read <= slot[s].loading
      BY <2>1, <2>5 DEF Reached
    <3>4. Reached(r) /\ Backed(r, notes)
      BY <2>1, <2>3, <2>5, <3>2, <3>3 DEF Reached, Backed
    <3> QED
      BY <2>5, <3>1, <3>2, <3>4
  <2>6. CASE slot[s].pc \notin {"load", "loaded"}
    BY <2>1, <2>2, <2>6
  <2> QED
    BY <2>4, <2>5, <2>6
<1>4. slot' \in [Slots -> SlotType]
  <2>1. DOMAIN slot' = Slots /\ slot' = [s \in Slots |-> slot'[s]]
    BY DEF Tick
  <2> QED
    BY <1>3, <2>1
<1>5. SlotsOK'
  BY <1>2, <1>3, <1>4 DEF SlotsOK, Reached, Backed, AddressOf, EnteredIn
<1>6. Waiting'
  BY <1>1, <1>3 DEF Inv, Waiting, Waits
<1>7. FencesKept'
  <2>1. CASE geofenceCache = None
    <3>1. geofenceCache' = None
      BY <2>1 DEF Tick
    <3> QED
      BY <1>2, <3>1 DEF Inv, FencesKept
  <2>2. CASE geofenceCache # None
    <3>1. /\ geofenceCache \in [data : Seq(Geofence), age : 0 .. CacheAge, read : 0 .. CacheAge]
          /\ geofenceCache.read <= geofenceCache.age
      BY <2>2 DEF Inv, FencesKept
    <3> DEFINE a == Older(geofenceCache.age)
               b == Older(geofenceCache.read)
    <3>2. geofenceCache' = [geofenceCache EXCEPT !.age = a, !.read = b]
      BY <2>2 DEF Tick
    <3>3. a \in 0 .. CacheAge /\ b \in 0 .. CacheAge /\ b <= a
      BY <3>1, OlderFacts
    <3> HIDE DEF a, b
    <3>4. /\ geofenceCache' \in [data : Seq(Geofence), age : 0 .. CacheAge, read : 0 .. CacheAge]
          /\ geofenceCache'.age = a /\ geofenceCache'.read = b
      BY <3>1, <3>2, <3>3
    <3> QED
      BY <1>2, <3>3, <3>4 DEF Inv, FencesKept
  <2> QED
    BY <2>1, <2>2
<1> QED
  BY <1>1, <1>2, <1>5, <1>6, <1>7, TablesSame DEF Inv, LastKnownOK, CountsOK

-----------------------------------------------------------------------------
(* The theorems. *)

LEMMA InitInv ==
  ASSUME Init
  PROVE  Inv
<1>1. GeocoderInv
  <2>1. RequestInterval \in 0 .. RequestInterval /\ <<>> \in Seq(Keys) /\ Asleep \in Loops
    BY GeocoderAssumption, EmptySeq DEF Asleep, Loops
  <2>2. GeocoderTyped
    BY <2>1 DEF Init, GeocoderInit, GeocoderTyped
  <2>3. CacheTrue /\ LoopRuns /\ Held
    BY DEF Init, GeocoderInit, CacheTrue, LoopRuns, Held, Busy, Asleep
  <2> QED
    BY <2>2, <2>3 DEF GeocoderInv
<1>2. SlotsOK /\ Waiting
  BY IdleReached DEF Init, SlotsOK, Waiting, Waits, Reached
<1>3. FencesKept
  BY TrackingAssumption DEF Init, FencesKept, Geofence, Places
<1>4. NotesOK
  BY EmptySeq DEF Init, NotesOK
<1>5. RowsOK
  BY FS_EmptySet DEF Init, RowsOK
<1>6. LastKnownOK
  BY DEF Init, LastKnownOK
<1>7. CountsOK
  <2>1. 0 \in 0 .. MaxPackets /\ 0 \in 0 .. MaxEdits
    BY TrackingAssumption
  <2> QED
    BY <2>1, Zenon DEF Init, CountsOK
<1> QED
  BY <1>1, <1>2, <1>3, <1>4, <1>5, <1>6, <1>7 DEF Inv

LEMMA StepInv ==
  ASSUME Inv, [Next]_vars
  PROVE  Inv'
<1>1. ASSUME NEW s \in Slots, Receive(s) \/ Handle(s) \/ Fail(s)
      PROVE  Inv'
  <2>1. CASE Receive(s)
    BY <2>1, ReceiveInv
  <2>2. CASE Handle(s)
    BY <2>2, LookedUpInv, AddressedInv, ReadGeofencesInv, LoadedGeofencesInv, PreviousInv,
       NoteExitInv, NoteEnterInv, SaveRowInv, SaveVehicleInv DEF Handle
  <2>3. CASE Fail(s)
    BY <2>3, FailInv
  <2> QED
    BY <1>1, <2>1, <2>2, <2>3
<1>2. ASSUME NEW i \in DOMAIN geofences, UpdateGeofence(i) \/ RemoveGeofence(i)
      PROVE  Inv'
  BY <1>2, UpdateGeofenceInv, RemoveGeofenceInv
<1>3. CASE UNCHANGED vars
  <2>1. UNCHANGED geocoderVars /\ UNCHANGED trackingVars
    BY <1>3 DEF vars
  <2>2. GeocoderInv' /\ Serving
    BY <2>1, GeocoderSame DEF Inv
  <2> QED
    BY <2>1, <2>2, ServedInv
<1> QED
  BY <1>1, <1>2, <1>3, CreateGeofenceInv, GeocoderStepInv, TickInv DEF Next

(* Every reachable state satisfies the invariant. *)
THEOREM Invariance == Spec => []Inv
<1>1. Init => Inv
  BY InitInv
<1>2. Inv /\ [Next]_vars => Inv'
  BY StepInv
<1> QED
  BY <1>1, <1>2, PTL DEF Spec

(* The state keeps its types, whatever packets, edits and look-ups do. *)
THEOREM TypeCorrect == Spec => []TypeOK
<1>1. Inv => TypeOK
  BY DEF Inv, GeocoderInv, GeocoderTyped, SlotsOK, SlotType, FencesKept, LastKnownOK,
         RowsOK, NotesOK, CountsOK, TypeOK
<1> QED
  BY <1>1, Invariance, PTL

(* Nobody is told that a vehicle left a fence it was not told to have      *)
(* entered, and no row names such a fence (ingest, lines 272-280).         *)
THEOREM CrossingsAreBacked == Spec => []CrossingsBacked
<1>1. Inv => CrossingsBacked
  BY DEF Inv, RowsOK, NotesOK, EnteredIn, Entered, CrossingsBacked
<1> QED
  BY <1>1, Invariance, PTL

(* The fences a packet is compared with were read less than                *)
(* GEOFENCE_CACHE_MS ago (getGeofences takes the time before the query).   *)
THEOREM FencesAreRecent == Spec => []FencesRecent
<1>1. Inv => FencesRecent
  BY DEF Inv, SlotsOK, Reached, FencesRecent
<1> QED
  BY <1>1, Invariance, PTL

(* The address of a row is unknown, or that of a place nearer than the     *)
(* movement threshold (resolveAddress does not let reuse add up).          *)
THEOREM AddressesNear == Spec => []AddressNear
<1>1. Inv => AddressNear
  BY DEF Inv, RowsOK, AddressOf, AddressNear
<1> QED
  BY <1>1, Invariance, PTL

(* No packet waits for an address in vain: its key is with a loop that     *)
(* runs until the queue is empty (processQueue).                           *)
THEOREM WaitersAreServed == Spec => []WaitersServed
<1>1. ASSUME Inv
      PROVE  WaitersServed
  <2>1. \A s \in Slots :
          slot[s].pc = "address" => cache[slot[s].place] # None \/ slot[s].place \in inFlight
    BY <1>1 DEF Inv, Waiting, Waits
  <2>2. DOMAIN queue = 1 .. Len(queue)
    BY <1>1, LenProperties DEF Inv, GeocoderInv, GeocoderTyped
  <2>3. ASSUME NEW k \in inFlight
        PROVE  k \in ToSet(queue) \/ \E d \in Drainers : Busy(d) /\ loop[d].key = k
    BY <1>1, <2>2 DEF Inv, GeocoderInv, Held, ToSet
  <2>4. queue # <<>> => \E d \in Drainers : Busy(d)
    BY <1>1 DEF Inv, GeocoderInv, GeocoderTyped, LoopRuns
  <2> QED
    BY <2>1, <2>3, <2>4 DEF WaitersServed
<1> QED
  BY <1>1, Invariance, PTL
-----------------------------------------------------------------------------
(* What the notifications tell, while packets come one at a time, in       *)
(* order, and none fails.  The notifications are those of the rows, and    *)
(* those of the packet in hand (Behind); the latest row is the one saved   *)
(* last, so that the packet is compared with it.                           *)

Notice == [type : {"exit", "enter"}, fence : Fences]

Count == Cardinality(rows)

(* The fences of the rows, after None. *)
FencesOf == [i \in 0 .. Count |-> FenceAt(i)]

Latest == FencesOf[Count]

(* g holds the notifications up to each of n rows with the fences F; t are *)
(* those of all rows.                                                      *)
Spells(g, F, n, t) ==
  /\ g \in [0 .. n -> Seq(Notice)]
  /\ g[0] = <<>> /\ g[n] = t
  /\ \A i \in 1 .. n : g[i] = g[i - 1] \o Crossings(F[i - 1], F[i])

Spelled(F, n, t) == \E g : Spells(g, F, n, t)

Exit(from, to) ==
  IF from # to /\ from # None THEN <<[type |-> "exit", fence |-> from]>> ELSE <<>>

Enter(from, to) ==
  IF from # to /\ to # None THEN <<[type |-> "enter", fence |-> to]>> ELSE <<>>

(* The notifications of a packet whose row is yet to be saved.             *)
Behind(r) ==
  IF r.pc = "enter" THEN Exit(r.previous, r.fence)
  ELSE IF r.pc = "save" THEN Exit(r.previous, r.fence) \o Enter(r.previous, r.fence)
  ELSE <<>>

InHand(r) ==
  /\ r.pc # "vehicle" => InOrder(r.ts)
  /\ r.pc \in {"exit", "enter", "save"} => r.previous = Latest
  /\ r.pc \in {"exit", "enter"} => r.previous # r.fence
  /\ \E t \in Seq(Notice) : Spelled(FencesOf, Count, t) /\ notes = t \o Behind(r)

Numbered ==
  /\ \A r \in rows : r.n \in 1 .. Count
  /\ \A i \in 1 .. Count : \E r \in rows : r.n = i
  /\ \A q, r \in rows : q.n = r.n => q = r

Ordered == \A q, r \in rows : q.n < r.n => q.ts < r.ts

OneInHand ==
  /\ Ordered
  /\ \A s, t \in Slots : Handled(s) /\ Handled(t) => s = t
  /\ (\A s \in Slots : ~Handled(s)) => Spelled(FencesOf, Count, notes)
  /\ \A s \in Slots : Handled(s) => InHand(slot[s])

TellInv == Numbered /\ (~disturbed => OneInHand)

LEMMA CrossingsAre ==
  ASSUME NEW from, NEW to
  PROVE  Crossings(from, to) = Exit(from, to) \o Enter(from, to)
BY DEF Crossings, Exit, Enter

LEMMA NoticesTyped ==
  ASSUME NEW from \in Fences \cup {None}, NEW to \in Fences \cup {None}
  PROVE  /\ Exit(from, to) \in Seq(Notice) /\ Enter(from, to) \in Seq(Notice)
         /\ Exit(from, to) \o Enter(from, to) \in Seq(Notice)
<1>1. <<>> \in Seq(Notice)
  OBVIOUS
<1>2. ASSUME NEW x \in Notice PROVE <<x>> \in Seq(Notice)
  OBVIOUS
<1>3. Exit(from, to) \in Seq(Notice)
  <2>1. CASE from # to /\ from # None
    <3>1. [type |-> "exit", fence |-> from] \in Notice
      BY <2>1 DEF Notice
    <3> QED
      BY <1>2, <2>1, <3>1 DEF Exit
  <2>2. CASE ~(from # to /\ from # None)
    BY <1>1, <2>2 DEF Exit
  <2> QED
    BY <2>1, <2>2
<1>4. Enter(from, to) \in Seq(Notice)
  <2>1. CASE from # to /\ to # None
    <3>1. [type |-> "enter", fence |-> to] \in Notice
      BY <2>1 DEF Notice
    <3> QED
      BY <1>2, <2>1, <3>1 DEF Enter
  <2>2. CASE ~(from # to /\ to # None)
    BY <1>1, <2>2 DEF Enter
  <2> QED
    BY <2>1, <2>2
<1> QED
  BY <1>3, <1>4, ConcatProperties

LEMMA ConcatEmpty ==
  ASSUME NEW X, NEW t \in Seq(X)
  PROVE  t \o <<>> = t /\ <<>> \o t = t
BY ConcatEmptySeq

LEMMA ConcatTwice ==
  ASSUME NEW X, NEW t \in Seq(X), NEW u \in Seq(X), NEW v \in Seq(X)
  PROVE  t \o (u \o v) = (t \o u) \o v
BY ConcatAssociative

LEMMA CountNat ==
  ASSUME Inv
  PROVE  Count \in Nat /\ IsFiniteSet(rows)
BY FS_CardinalityType DEF Inv, RowsOK, Count

(* The i-th place of the track is the row of that number. *)
LEMMA RowAt ==
  ASSUME Inv, Numbered, NEW r \in rows
  PROVE  r.n \in 1 .. Count /\ FenceAt(r.n) = r.fence /\ FencesOf[r.n] = r.fence
<1>1. r.n \in 1 .. Count /\ Count \in Nat
  BY CountNat DEF Numbered
<1>2. Track[r.n] = CHOOSE q \in rows : q.n = r.n
  BY <1>1 DEF Track, Count
<1>3. Track[r.n] = r
  <2>1. \A q \in rows : q.n = r.n => q = r
    BY DEF Numbered
  <2> QED
    BY <1>2, <2>1
<1>4. r.n # 0 /\ r.n \in 0 .. Count
  BY <1>1
<1>5. FenceAt(r.n) = r.fence
  BY <1>3, <1>4 DEF FenceAt
<1> QED
  BY <1>1, <1>4, <1>5 DEF FencesOf

LEMMA FencesTyped ==
  ASSUME Inv, Numbered
  PROVE  /\ FencesOf[0] = None /\ Latest \in Fences \cup {None}
         /\ \A i \in 0 .. Count : FencesOf[i] = FenceAt(i) /\ FencesOf[i] \in Fences \cup {None}
<1>1. Count \in Nat
  BY CountNat
<1>2. FencesOf[0] = None
  BY <1>1 DEF FencesOf, FenceAt
<1>3. ASSUME NEW i \in 0 .. Count
      PROVE  FencesOf[i] = FenceAt(i) /\ FencesOf[i] \in Fences \cup {None}
  <2>1. FencesOf[i] = FenceAt(i)
    BY DEF FencesOf
  <2>2. CASE i = 0
    BY <1>2, <2>1, <2>2
  <2>3. CASE i # 0
    <3>1. i \in 1 .. Count
      BY <1>1, <2>3
    <3>2. PICK r \in rows : r.n = i
      BY <3>1 DEF Numbered
    <3>3. r.fence \in Fences \cup {None}
      BY DEF Inv, RowsOK, Row
    <3> QED
      BY <2>1, <3>2, <3>3, RowAt
  <2> QED
    BY <2>2, <2>3
<1> QED
  BY <1>1, <1>2, <1>3 DEF Latest

LEMMA RowsSame ==
  ASSUME rows' = rows
  PROVE  /\ Count' = Count /\ FencesOf' = FencesOf /\ Latest' = Latest
         /\ Numbered' <=> Numbered
         /\ Ordered' <=> Ordered
<1>1. Count' = Count
  BY DEF Count
<1>2. FencesOf' = FencesOf
  BY DEF FencesOf, Count, FenceAt, Track
<1> QED
  BY <1>1, <1>2 DEF Latest, Numbered, Ordered

RowFacts == FencesOf[0] = None /\ \A r \in rows : FencesOf[r.n] = r.fence

LEMMA RowFactsHold == Inv /\ Numbered => RowFacts
BY RowAt, FencesTyped DEF RowFacts

(* A row is added after the others. *)
LEMMA RowAdded ==
  ASSUME Inv, Numbered, Inv', NEW row, row.n = Count + 1, rows' = rows \cup {row}
  PROVE  /\ Numbered' /\ Count' = Count + 1 /\ Latest' = row.fence
         /\ \A i \in 0 .. Count : FencesOf'[i] = FencesOf[i]
         /\ FencesOf'[Count + 1] = row.fence
<1>1. Count \in Nat /\ IsFiniteSet(rows)
  BY CountNat
<1>2. row \notin rows
  BY <1>1 DEF Numbered
<1>3. Count' = Count + 1
  BY <1>1, <1>2, FS_AddElement DEF Count
<1>4. Numbered'
  <2>1. \A r \in rows' : r.n \in 1 .. Count + 1
    BY <1>1 DEF Numbered
  <2>2. ASSUME NEW i \in 1 .. Count + 1
        PROVE  \E r \in rows' : r.n = i
    <3>1. i \in 1 .. Count \/ i = Count + 1
      BY <1>1
    <3> QED
      BY <3>1 DEF Numbered
  <2>3. \A q, r \in rows' : q.n = r.n => q = r
    BY <1>1 DEF Numbered
  <2> QED
    BY <1>3, <2>1, <2>2, <2>3 DEF Numbered
<1>5. FencesOf'[0] = None /\ \A r \in rows' : FencesOf'[r.n] = r.fence
  <2>1. RowFacts'
    BY <1>4, RowFactsHold, PTL
  <2> QED
    BY <2>1 DEF RowFacts
<1>6. ASSUME NEW i \in 0 .. Count
      PROVE  FencesOf'[i] = FencesOf[i]
  <2>1. CASE i = 0
    BY <1>5, <2>1, FencesTyped
  <2>2. CASE i # 0
    <3>1. i \in 1 .. Count
      BY <1>1, <2>2
    <3>2. PICK r \in rows : r.n = i
      BY <3>1 DEF Numbered
    <3> QED
      BY <1>5, <3>2, RowAt
  <2> QED
    BY <2>1, <2>2
<1>7. FencesOf'[Count + 1] = row.fence
  BY <1>5
<1> QED
  BY <1>3, <1>4, <1>6, <1>7 DEF Latest

(* The notifications of one row more. *)
LEMMA SpelledOn ==
  ASSUME NEW n \in Nat, NEW F, NEW G, NEW t \in Seq(Notice), Spelled(F, n, t),
         \A i \in 0 .. n : G[i] = F[i],
         G[n] \in Fences \cup {None}, G[n + 1] \in Fences \cup {None}
  PROVE  /\ Spelled(G, n + 1, t \o Crossings(G[n], G[n + 1]))
         /\ t \o Crossings(G[n], G[n + 1]) \in Seq(Notice)
<1> DEFINE u == t \o Crossings(G[n], G[n + 1])
<1>1. PICK g : Spells(g, F, n, t)
  BY DEF Spelled
<1>2. u \in Seq(Notice)
  BY CrossingsAre, NoticesTyped, ConcatProperties
<1> DEFINE h == [i \in 0 .. n + 1 |-> IF i <= n THEN g[i] ELSE u]
<1>3. g \in [0 .. n -> Seq(Notice)] /\ g[0] = <<>> /\ g[n] = t
  BY <1>1 DEF Spells
<1>4. /\ \A i \in 0 .. n : h[i] = g[i]
      /\ h[n + 1] = u
  OBVIOUS
<1>5. h \in [0 .. n + 1 -> Seq(Notice)]
  <2> HIDE DEF u
  <2>1. ASSUME NEW i \in 0 .. n + 1 PROVE (IF i <= n THEN g[i] ELSE u) \in Seq(Notice)
    <3>1. CASE i <= n
      <4>1. i \in 0 .. n
        BY <3>1
      <4> QED
        BY <1>3, <3>1, <4>1
    <3>2. CASE ~(i <= n)
      BY <1>2, <3>2
    <3> QED
      BY <3>1, <3>2
  <2> QED
    BY <2>1
<1>6. ASSUME NEW i \in 1 .. n + 1
      PROVE  h[i] = h[i - 1] \o Crossings(G[i - 1], G[i])
  <2>1. CASE i = n + 1
    <3>1. h[i - 1] = t /\ h[i] = u /\ i - 1 = n
      BY <1>3, <1>4, <2>1
    <3> QED
      BY <2>1, <3>1
  <2>2. CASE i # n + 1
    <3>1. i \in 1 .. n /\ i \in 0 .. n /\ i - 1 \in 0 .. n
      BY <2>2
    <3>2. g[i] = g[i - 1] \o Crossings(F[i - 1], F[i])
      BY <1>1, <3>1 DEF Spells
    <3> HIDE DEF h
    <3> QED
      BY <1>4, <3>1, <3>2
  <2> QED
    BY <2>1, <2>2
<1>7. h[0] = <<>>
  BY <1>3
<1> HIDE DEF h, u
<1>8. Spells(h, G, n + 1, u)
  BY <1>4, <1>5, <1>6, <1>7 DEF Spells
<1> QED
  BY <1>2, <1>8 DEF Spelled, u

-----------------------------------------------------------------------------
(* The steps. *)

Early == {"lookup", "address", "load", "loaded", "previous"}

(* q is r as far as rows and notifications are concerned. *)
SameStage(r, q) ==
  /\ q.ts = r.ts
  /\ \/ r.pc \in Early /\ q.pc \in Early
     \/ q.pc = r.pc /\ q.fence = r.fence /\ q.previous = r.previous

LEMMA QuietTell ==
  ASSUME TellInv, UNCHANGED <<rows, notes, disturbed>>,
         \A s \in Slots : SameStage(slot[s], slot'[s])
  PROVE  TellInv'
<1>1. /\ Count' = Count /\ FencesOf' = FencesOf /\ Latest' = Latest
      /\ Numbered' /\ (Ordered' <=> Ordered)
  BY RowsSame DEF TellInv
<1>2. \A s \in Slots : Handled(s)' <=> Handled(s)
  BY DEF SameStage, Early, Handled
<1>3. ASSUME ~disturbed, NEW s \in Slots, Handled(s)
      PROVE  InHand(slot[s])'
  <2>1. InHand(slot[s]) /\ SameStage(slot[s], slot'[s])
    BY <1>3 DEF TellInv, OneInHand
  <2>2. PICK t \in Seq(Notice) : Spelled(FencesOf, Count, t) /\ notes = t \o Behind(slot[s])
    BY <2>1 DEF InHand
  <2>3. Behind(slot[s])' = Behind(slot[s])
    BY <2>1 DEF SameStage, Early, Behind
  <2>4. \E u \in Seq(Notice) :
          Spelled(FencesOf', Count', u) /\ notes' = u \o Behind(slot[s])'
    BY <1>1, <2>2, <2>3
  <2>5. /\ slot'[s].pc # "vehicle" => InOrder(slot[s].ts)'
        /\ slot'[s].pc \in {"exit", "enter", "save"} => slot'[s].previous = Latest'
        /\ slot'[s].pc \in {"exit", "enter"} => slot'[s].previous # slot'[s].fence
    BY <1>1, <2>1 DEF SameStage, Early, InHand, InOrder
  <2> QED
    BY <2>4, <2>5 DEF InHand
<1>4. ASSUME ~disturbed
      PROVE  OneInHand'
  <2>1. OneInHand
    BY <1>4 DEF TellInv
  <2>2. \A s, t \in Slots : Handled(s)' /\ Handled(t)' => s = t
    BY <1>2, <2>1 DEF OneInHand
  <2>3. (\A s \in Slots : ~Handled(s)') =>
          Spelled(FencesOf', Count', notes')
    BY <1>1, <1>2, <2>1 DEF OneInHand
  <2>4. \A s \in Slots : Handled(s)' => InHand(slot[s])'
    BY <1>2, <1>3, <1>4
  <2> QED
    BY <1>1, <2>1, <2>2, <2>3, <2>4 DEF OneInHand
<1> QED
  BY <1>1, <1>4 DEF TellInv

(* The packet in hand reaches r without a change of the tables. *)
LEMMA EarlyTell ==
  ASSUME Inv, TellInv, NEW s \in Slots, slot[s].pc \in Early,
         NEW r, Reach(s, r), r.pc \in Early, r.ts = slot[s].ts,
         UNCHANGED <<rows, notes, disturbed>>
  PROVE  TellInv'
<1>1. slot'[s] = r /\ \A q \in Slots \ {s} : slot'[q] = slot[q]
  BY DEF Reach, Inv, SlotsOK
<1>2. \A q \in Slots : SameStage(slot[q], slot'[q])
  BY <1>1 DEF SameStage
<1> QED
  BY <1>2, QuietTell

LEMMA StartGeofencesTell ==
  ASSUME Inv, TellInv, NEW s \in Slots, slot[s].pc \in Early,
         NEW r \in SlotType, r.ts = slot[s].ts, StartGeofences(s, r),
         UNCHANGED <<rows, notes, disturbed>>
  PROVE  TellInv'
<1>1. CASE Reach(s, [r EXCEPT !.pc = "load", !.loading = 0])
  <2> DEFINE n == [r EXCEPT !.pc = "load", !.loading = 0]
  <2>1. n.pc \in Early /\ n.ts = r.ts /\ Reach(s, n)
    BY <1>1 DEF SlotType, Early
  <2> HIDE DEF n
  <2> QED
    BY <2>1, EarlyTell
<1>2. CASE Reach(s, [r EXCEPT !.pc = "previous", !.read = geofenceCache.read,
                             !.fence = CurrentGeofence(r.place, geofenceCache.data)])
  <2> DEFINE f == CurrentGeofence(r.place, geofenceCache.data)
             n == [r EXCEPT !.pc = "previous", !.read = geofenceCache.read, !.fence = f]
  <2>1. Reach(s, n)
    BY <1>2
  <2> HIDE DEF f
  <2>2. n.pc \in Early /\ n.ts = r.ts
    BY DEF SlotType, Early
  <2> HIDE DEF n
  <2> QED
    BY <2>1, <2>2, EarlyTell
<1> QED
  BY <1>1, <1>2 DEF StartGeofences

LEMMA ResolvedTell ==
  ASSUME Inv, TellInv, NEW s \in Slots, slot[s].pc \in Early,
         NEW address \in Addresses, Resolved(s, address),
         UNCHANGED <<rows, notes, disturbed>>
  PROVE  TellInv'
<1> DEFINE r == [slot[s] EXCEPT !.address = address]
<1>1. r \in SlotType /\ r.ts = slot[s].ts
  BY SlotFacts DEF SlotType
<1>2. StartGeofences(s, r)
  BY DEF Resolved
<1> HIDE DEF r
<1> QED
  BY <1>1, <1>2, StartGeofencesTell

LEMMA LookedUpTell ==
  ASSUME Inv, TellInv, NEW s \in Slots, LookedUp(s)
  PROVE  TellInv'
<1>1. /\ slot[s].pc \in Early /\ slot[s] \in SlotType /\ slot[s].place \in Places
      /\ UNCHANGED <<rows, notes, disturbed>>
  BY SlotFacts DEF LookedUp, Early
<1>2. CASE Near(slot[s].place)
           /\ StartGeofences(s, [slot[s] EXCEPT !.address = lastKnown.address])
  <2> DEFINE r == [slot[s] EXCEPT !.address = lastKnown.address]
  <2>1. lastKnown.address \in Addresses
    BY <1>2 DEF Near, Inv, LastKnownOK
  <2>2. r \in SlotType /\ r.ts = slot[s].ts /\ StartGeofences(s, r)
    BY <1>1, <1>2, <2>1 DEF SlotType
  <2> HIDE DEF r
  <2> QED
    BY <1>1, <2>2, StartGeofencesTell
<1>3. CASE cache[slot[s].place] # None /\ Resolved(s, cache[slot[s].place])
  <2>1. cache[slot[s].place] \in Addresses
    BY <1>1, <1>3 DEF Inv, GeocoderInv, GeocoderTyped, Places
  <2> QED
    BY <1>1, <1>3, <2>1, ResolvedTell
<1>4. CASE Resolved(s, Unknown)
  BY <1>1, <1>4, ResolvedTell DEF Addresses
<1>5. CASE Reach(s, [slot[s] EXCEPT !.pc = "address"])
  <2> DEFINE r == [slot[s] EXCEPT !.pc = "address"]
  <2>1. r.pc \in Early /\ r.ts = slot[s].ts /\ Reach(s, r)
    BY <1>1, <1>5 DEF SlotType, Early
  <2> HIDE DEF r
  <2> QED
    BY <1>1, <2>1, EarlyTell
<1> QED
  BY <1>2, <1>3, <1>4, <1>5 DEF LookedUp

LEMMA AddressedTell ==
  ASSUME Inv, TellInv, NEW s \in Slots, Addressed(s)
  PROVE  TellInv'
<1>1. /\ slot[s].pc \in Early /\ slot[s].place \in Places
      /\ UNCHANGED <<rows, notes, disturbed>>
  BY SlotFacts DEF Addressed, Early
<1>2. cache[slot[s].place] \in Addresses
  BY <1>1 DEF Addressed, Inv, GeocoderInv, GeocoderTyped, Places
<1> QED
  BY <1>1, <1>2, ResolvedTell DEF Addressed

LEMMA ReadGeofencesTell ==
  ASSUME Inv, TellInv, NEW s \in Slots, ReadGeofences(s)
  PROVE  TellInv'
<1> DEFINE r == [slot[s] EXCEPT !.pc = "loaded", !.data = geofences, !.read = 0]
<1>1. /\ slot[s].pc \in Early /\ Reach(s, r)
      /\ UNCHANGED <<rows, notes, disturbed>>
  BY DEF ReadGeofences, Early
<1>2. r.pc \in Early /\ r.ts = slot[s].ts
  BY SlotFacts DEF SlotType, Early
<1> HIDE DEF r
<1> QED
  BY <1>1, <1>2, EarlyTell

LEMMA LoadedGeofencesTell ==
  ASSUME Inv, TellInv, NEW s \in Slots, LoadedGeofences(s)
  PROVE  TellInv'
<1> DEFINE f == CurrentGeofence(slot[s].place, slot[s].data)
           r == [slot[s] EXCEPT !.pc = "previous", !.data = <<>>, !.read = 0,
                                !.loading = 0, !.fence = f]
<1>1. /\ slot[s].pc \in Early /\ Reach(s, r)
      /\ UNCHANGED <<rows, notes, disturbed>>
  BY DEF LoadedGeofences, Early
<1> HIDE DEF f
<1>2. r.pc \in Early /\ r.ts = slot[s].ts
  BY SlotFacts DEF SlotType, Early
<1> HIDE DEF r
<1> QED
  BY <1>1, <1>2, EarlyTell

LEMMA ReceiveTell ==
  ASSUME Inv, TellInv, NEW s \in Slots, Receive(s)
  PROVE  TellInv'
<1>1. PICK place \in Places, ts \in 1 .. MaxTime :
        /\ Reach(s, [Idle EXCEPT !.pc = "lookup", !.place = place, !.ts = ts])
        /\ disturbed' = (disturbed \/ ~InOrder(ts) \/ \E t \in Slots : Handled(t))
  BY DEF Receive
<1> DEFINE r == [Idle EXCEPT !.pc = "lookup", !.place = place, !.ts = ts]
<1>2. Reach(s, r) /\ UNCHANGED <<rows, notes>>
  BY <1>1 DEF Receive
<1>3. r.pc = "lookup" /\ r.ts = ts
  BY DEF Idle
<1> HIDE DEF r
<1>4. slot'[s] = r /\ \A q \in Slots \ {s} : slot'[q] = slot[q]
  BY <1>2 DEF Reach, Inv, SlotsOK
<1>5. /\ Count' = Count /\ FencesOf' = FencesOf /\ Latest' = Latest
      /\ Numbered' /\ (Ordered' <=> Ordered)
  BY <1>2, RowsSame DEF TellInv
<1>6. ASSUME ~disturbed'
      PROVE  OneInHand'
  <2>1. ~disturbed /\ InOrder(ts) /\ \A t \in Slots : ~Handled(t)
    BY <1>1, <1>6
  <2>2. OneInHand /\ Spelled(FencesOf, Count, notes)
    BY <2>1 DEF TellInv, OneInHand
  <2>3. Handled(s)' /\ \A q \in Slots \ {s} : ~Handled(q)'
    BY <1>3, <1>4, <2>1 DEF Handled
  <2>4. Behind(slot[s])' = <<>>
    BY <1>3, <1>4 DEF Behind
  <2>5. notes \in Seq(Notice) /\ notes \o <<>> = notes
    BY ConcatEmpty DEF Inv, NotesOK, Notice
  <2>6. \E u \in Seq(Notice) :
          Spelled(FencesOf', Count', u) /\ notes' = u \o Behind(slot[s])'
    BY <1>2, <1>5, <2>2, <2>4, <2>5
  <2>7. InHand(slot[s])'
    BY <1>2, <1>3, <1>4, <1>5, <2>1, <2>2, <2>6 DEF InHand, InOrder
  <2> QED
    BY <1>5, <2>2, <2>3, <2>7 DEF OneInHand
<1> QED
  BY <1>5, <1>6 DEF TellInv

(* The packet in hand reaches r. *)
LEMMA HandTell ==
  ASSUME Inv, OneInHand, NEW s \in Slots, Handled(s),
         NEW r, Reach(s, r), r.pc # "idle", Ordered', InHand(slot[s])'
  PROVE  OneInHand'
<1>1. slot'[s] = r /\ \A q \in Slots \ {s} : slot'[q] = slot[q]
  BY DEF Reach, Inv, SlotsOK
<1>2. Handled(s)' /\ \A q \in Slots \ {s} : ~Handled(q)'
  BY <1>1 DEF OneInHand, Handled
<1> QED
  BY <1>2 DEF OneInHand

(* The row with the latest timestamp is the one saved last. *)
LEMMA LatestRow ==
  ASSUME Inv, Numbered, Ordered
  PROVE  /\ rows = {} => Latest = None
         /\ \A q \in rows : (\A o \in rows : o.ts <= q.ts) => q.fence = Latest
<1>1. Count \in Nat
  BY CountNat
<1>2. ASSUME rows = {}
      PROVE  Latest = None
  <2>1. Count = 0
    BY <1>2, FS_EmptySet DEF Count
  <2> QED
    BY <2>1, FencesTyped DEF Latest
<1>3. ASSUME NEW q \in rows, \A o \in rows : o.ts <= q.ts
      PROVE  q.fence = Latest
  <2>1. q.n \in 1 .. Count /\ q.ts \in Int
    BY <1>3 DEF Numbered, Inv, RowsOK, Row
  <2>2. PICK top \in rows : top.n = Count
    BY <1>1, <2>1 DEF Numbered
  <2>3. top.ts \in Int /\ top.ts <= q.ts
    BY <1>3, <2>2 DEF Inv, RowsOK, Row
  <2>4. ~(q.n < top.n)
    BY <2>1, <2>2, <2>3 DEF Ordered
  <2>5. q.n = Count
    BY <1>1, <2>1, <2>2, <2>4
  <2> QED
    BY <2>5, RowAt DEF Latest
<1> QED
  BY <1>2, <1>3

LEMMA PreviousTell ==
  ASSUME Inv, TellInv, NEW s \in Slots, Previous(s)
  PROVE  TellInv'
<1>1. PICK previous \in
         IF rows = {} THEN {None}
         ELSE {r.fence : r \in {q \in rows : \A o \in rows : o.ts <= q.ts}} :
         Reach(s, [slot[s] EXCEPT !.previous = previous, !.read = 0,
                                  !.pc = Crossing(previous, slot[s].fence)])
  BY DEF Previous
<1> DEFINE c == Crossing(previous, slot[s].fence)
           r == [slot[s] EXCEPT !.previous = previous, !.read = 0, !.pc = c]
<1>2. /\ slot[s].pc = "previous" /\ Reach(s, r)
      /\ UNCHANGED <<rows, notes, disturbed>>
  BY <1>1 DEF Previous
<1>3. slot[s] \in SlotType
  BY SlotFacts
<1>4. /\ c \in {"save", "exit", "enter"}
      /\ c = "save" => previous = slot[s].fence
      /\ c = "exit" => previous # slot[s].fence
      /\ c = "enter" => previous # slot[s].fence /\ previous = None
  BY DEF Crossing
<1> HIDE DEF c
<1>5. /\ r.pc = c /\ r.previous = previous /\ r.fence = slot[s].fence
      /\ r.ts = slot[s].ts
  BY <1>3 DEF SlotType
<1> HIDE DEF r
<1>6. slot'[s] = r
  BY <1>2 DEF Reach, Inv, SlotsOK
<1>7. /\ Count' = Count /\ FencesOf' = FencesOf /\ Latest' = Latest
      /\ Numbered' /\ (Ordered' <=> Ordered)
  BY <1>2, RowsSame DEF TellInv
<1>8. Behind(r) = <<>>
  <2>1. CASE c = "save"
    BY <1>4, <1>5, <2>1 DEF Behind, Exit, Enter
  <2>2. CASE c = "exit"
    BY <1>5, <2>2 DEF Behind
  <2>3. CASE c = "enter"
    BY <1>4, <1>5, <2>3 DEF Behind, Exit
  <2> QED
    BY <1>4, <2>1, <2>2, <2>3
<1>9. ASSUME ~disturbed
      PROVE  OneInHand'
  <2>1. OneInHand /\ Handled(s) /\ InHand(slot[s]) /\ Numbered
    BY <1>2, <1>9 DEF TellInv, OneInHand, Handled
  <2>2. previous = Latest
    BY <1>1, <2>1, LatestRow DEF OneInHand
  <2>3. PICK t \in Seq(Notice) : Spelled(FencesOf, Count, t) /\ notes = t \o Behind(slot[s])
    BY <2>1 DEF InHand
  <2>4. Behind(slot[s]) = <<>> /\ Behind(slot[s])' = Behind(r)
    BY <1>2, <1>6 DEF Behind
  <2>5. \E u \in Seq(Notice) :
          Spelled(FencesOf', Count', u) /\ notes' = u \o Behind(slot[s])'
    BY <1>2, <1>7, <1>8, <2>3, <2>4
  <2>6. InHand(slot[s])'
    BY <1>2, <1>4, <1>5, <1>6, <1>7, <2>1, <2>2, <2>5 DEF InHand, InOrder
  <2>7. r.pc # "idle" /\ Ordered'
    BY <1>4, <1>5, <1>7, <2>1 DEF OneInHand
  <2> QED
    BY <1>2, <2>1, <2>6, <2>7, HandTell
<1> QED
  BY <1>2, <1>7, <1>9 DEF TellInv

LEMMA NoteExitTell ==
  ASSUME Inv, TellInv, NEW s \in Slots, NoteExit(s)
  PROVE  TellInv'
<1> DEFINE note == [type |-> "exit", fence |-> slot[s].previous]
           r == [slot[s] EXCEPT !.pc = AfterExit(s)]
<1>1. /\ slot[s].pc = "exit" /\ notes' = Append(notes, note) /\ Reach(s, r)
      /\ UNCHANGED <<rows, disturbed>>
  BY DEF NoteExit
<1>2. slot[s] \in SlotType /\ slot[s].previous \in Fences /\ slot[s].fence \in Fences \cup {None}
  BY <1>1, SlotFacts DEF SlotType, Reached
<1>3. /\ r.pc = AfterExit(s) /\ r.previous = slot[s].previous /\ r.fence = slot[s].fence
      /\ r.ts = slot[s].ts
  BY <1>2 DEF SlotType, AfterExit
<1> HIDE DEF r
<1>4. /\ r.pc \in {"save", "enter"}
      /\ r.pc = "save" => r.fence = None
  BY <1>3 DEF AfterExit
<1>5. slot'[s] = r
  BY <1>1 DEF Reach, Inv, SlotsOK
<1>6. /\ Count' = Count /\ FencesOf' = FencesOf /\ Latest' = Latest
      /\ Numbered' /\ (Ordered' <=> Ordered)
  BY <1>1, RowsSame DEF TellInv
<1>7. ASSUME ~disturbed
      PROVE  OneInHand'
  <2>1. OneInHand /\ Handled(s) /\ InHand(slot[s])
    BY <1>1, <1>7 DEF TellInv, OneInHand, Handled
  <2>2. /\ slot[s].previous # slot[s].fence /\ slot[s].previous = Latest
        /\ InOrder(slot[s].ts)
    BY <1>1, <2>1 DEF InHand
  <2>3. PICK t \in Seq(Notice) : Spelled(FencesOf, Count, t) /\ notes = t \o Behind(slot[s])
    BY <2>1 DEF InHand
  <2>4. notes = t
    BY <1>1, <2>3, ConcatEmpty DEF Behind
  <2>5. note \in Notice /\ <<note>> = Exit(r.previous, r.fence)
    BY <1>2, <1>3, <2>2, TrackingAssumption DEF Notice, Exit
  <2>6. Behind(r) = <<note>>
    <3>1. CASE r.pc = "enter"
      BY <2>5, <3>1 DEF Behind
    <3>2. CASE r.pc = "save"
      <4>1. Enter(r.previous, r.fence) = <<>>
        BY <1>4, <3>2 DEF Enter
      <4>2. <<note>> \in Seq(Notice)
        BY <2>5
      <4>3. <<note>> \o <<>> = <<note>>
        BY <4>2, ConcatEmpty
      <4> QED
        BY <2>5, <3>2, <4>1, <4>3 DEF Behind
    <3> QED
      BY <1>4, <3>1, <3>2
  <2> HIDE DEF note
  <2>7. notes' = t \o <<note>>
    BY <1>1, <2>4, <2>5, AppendIsConcat
  <2>8. Behind(slot[s])' = Behind(r)
    BY <1>5 DEF Behind
  <2>9. \E u \in Seq(Notice) :
          Spelled(FencesOf', Count', u) /\ notes' = u \o Behind(slot[s])'
    BY <1>6, <2>3, <2>6, <2>7, <2>8
  <2>10. InHand(slot[s])'
    BY <1>1, <1>3, <1>4, <1>5, <1>6, <2>2, <2>9 DEF InHand, InOrder
  <2>11. r.pc # "idle" /\ Ordered'
    BY <1>4, <1>6, <2>1 DEF OneInHand
  <2> QED
    BY <1>1, <2>1, <2>10, <2>11, HandTell
<1> QED
  BY <1>1, <1>6, <1>7 DEF TellInv

LEMMA NoteEnterTell ==
  ASSUME Inv, TellInv, NEW s \in Slots, NoteEnter(s)
  PROVE  TellInv'
<1> DEFINE note == [type |-> "enter", fence |-> slot[s].fence]
           r == [slot[s] EXCEPT !.pc = "save"]
<1>1. /\ slot[s].pc = "enter" /\ notes' = Append(notes, note) /\ Reach(s, r)
      /\ UNCHANGED <<rows, disturbed>>
  BY DEF NoteEnter
<1>2. /\ slot[s] \in SlotType /\ slot[s].fence \in Fences
      /\ slot[s].previous \in Fences \cup {None}
  BY <1>1, SlotFacts DEF SlotType, Reached
<1>3. /\ r.pc = "save" /\ r.previous = slot[s].previous /\ r.fence = slot[s].fence
      /\ r.ts = slot[s].ts
  BY <1>2 DEF SlotType
<1> HIDE DEF r
<1>4. slot'[s] = r
  BY <1>1 DEF Reach, Inv, SlotsOK
<1>5. /\ Count' = Count /\ FencesOf' = FencesOf /\ Latest' = Latest
      /\ Numbered' /\ (Ordered' <=> Ordered)
  BY <1>1, RowsSame DEF TellInv
<1>6. ASSUME ~disturbed
      PROVE  OneInHand'
  <2>1. OneInHand /\ Handled(s) /\ InHand(slot[s])
    BY <1>1, <1>6 DEF TellInv, OneInHand, Handled
  <2>2. /\ slot[s].previous # slot[s].fence /\ slot[s].previous = Latest
        /\ InOrder(slot[s].ts)
    BY <1>1, <2>1 DEF InHand
  <2>3. PICK t \in Seq(Notice) : Spelled(FencesOf, Count, t) /\ notes = t \o Behind(slot[s])
    BY <2>1 DEF InHand
  <2> DEFINE x == Exit(r.previous, r.fence)
  <2>4. notes = t \o x /\ x \in Seq(Notice)
    BY <1>1, <1>2, <1>3, <2>3, NoticesTyped DEF Behind
  <2>5. note \in Notice /\ <<note>> = Enter(r.previous, r.fence)
    BY <1>2, <1>3, <2>2, TrackingAssumption DEF Notice, Enter
  <2>6. Behind(r) = x \o <<note>>
    BY <1>3, <2>5 DEF Behind
  <2> HIDE DEF note, x
  <2>7. <<note>> \in Seq(Notice)
    BY <2>5
  <2>8. notes \in Seq(Notice)
    BY DEF Inv, NotesOK, Notice
  <2>9. notes' = notes \o <<note>>
    BY <1>1, <2>5, <2>8, AppendIsConcat
  <2>10. notes' = t \o (x \o <<note>>)
    BY <2>4, <2>7, <2>9, ConcatTwice
  <2>11. Behind(slot[s])' = Behind(r)
    BY <1>4 DEF Behind
  <2>12. \E u \in Seq(Notice) :
           Spelled(FencesOf', Count', u) /\ notes' = u \o Behind(slot[s])'
    BY <1>5, <2>3, <2>6, <2>10, <2>11
  <2>13. InHand(slot[s])'
    BY <1>1, <1>3, <1>4, <1>5, <2>2, <2>12 DEF InHand, InOrder
  <2>14. r.pc # "idle" /\ Ordered'
    BY <1>3, <1>5, <2>1 DEF OneInHand
  <2> QED
    BY <1>1, <2>1, <2>13, <2>14, HandTell
<1> QED
  BY <1>1, <1>5, <1>6 DEF TellInv

LEMMA SaveRowTell ==
  ASSUME Inv, TellInv, Inv', NEW s \in Slots, SaveRow(s)
  PROVE  TellInv'
<1> DEFINE row == [n |-> Count + 1, place |-> slot[s].place, ts |-> slot[s].ts,
                   address |-> slot[s].address, fence |-> slot[s].fence]
           r == [slot[s] EXCEPT !.pc = "vehicle"]
<1>1. /\ slot[s].pc = "save" /\ rows' = rows \cup {row} /\ Reach(s, r)
      /\ UNCHANGED <<notes, disturbed>>
  BY DEF SaveRow, Count
<1>2. /\ slot[s] \in SlotType /\ slot[s].fence \in Fences \cup {None}
      /\ slot[s].ts \in Int
  BY <1>1, SlotFacts DEF SlotType
<1>3. r.pc = "vehicle" /\ r.fence = slot[s].fence
  BY <1>2 DEF SlotType
<1> HIDE DEF r
<1>4. slot'[s] = r
  BY <1>1 DEF Reach, Inv, SlotsOK
<1>5. row.n = Count + 1 /\ row.ts = slot[s].ts /\ row.fence = slot[s].fence
  OBVIOUS
<1> HIDE DEF row
<1>6. Numbered /\ Count \in Nat
  BY CountNat DEF TellInv
<1>7. /\ Numbered' /\ Count' = Count + 1 /\ Latest' = row.fence
      /\ \A i \in 0 .. Count : FencesOf'[i] = FencesOf[i]
      /\ FencesOf'[Count + 1] = row.fence
  BY <1>1, <1>5, <1>6, RowAdded
<1>8. ASSUME ~disturbed
      PROVE  OneInHand'
  <2>1. OneInHand /\ Handled(s) /\ InHand(slot[s])
    BY <1>1, <1>8 DEF TellInv, OneInHand, Handled
  <2>2. slot[s].previous = Latest /\ InOrder(slot[s].ts)
    BY <1>1, <2>1 DEF InHand
  <2>3. PICK t \in Seq(Notice) : Spelled(FencesOf, Count, t) /\ notes = t \o Behind(slot[s])
    BY <2>1 DEF InHand
  <2>4. notes = t \o Crossings(Latest, slot[s].fence)
    BY <1>1, <2>2, <2>3, CrossingsAre DEF Behind
  <2>5. /\ FencesOf'[Count] = Latest /\ FencesOf'[Count + 1] = slot[s].fence
        /\ Latest \in Fences \cup {None}
    BY <1>5, <1>6, <1>7, FencesTyped DEF Latest
  <2>6. Spelled(FencesOf', Count + 1, notes) /\ notes \in Seq(Notice)
    BY <1>2, <1>6, <1>7, <2>3, <2>4, <2>5, SpelledOn
  <2>7. Behind(slot[s])' = <<>> /\ notes \o <<>> = notes
    BY <1>3, <1>4, <2>6, ConcatEmpty DEF Behind
  <2>8. \E u \in Seq(Notice) :
          Spelled(FencesOf', Count', u) /\ notes' = u \o Behind(slot[s])'
    BY <1>1, <1>7, <2>6, <2>7
  <2>9. InHand(slot[s])'
    BY <1>3, <1>4, <1>5, <1>7, <2>8 DEF InHand
  <2>10. ASSUME NEW p \in rows', NEW q \in rows', p.n < q.n
         PROVE  p.ts < q.ts
    <3>1. \A o \in rows : o.n \in 1 .. Count /\ o.ts < slot[s].ts
      BY <1>6, <2>2 DEF Numbered, InOrder
    <3>2. p \in rows
      <4>1. CASE p = row /\ q = row
        BY <1>5, <1>6, <2>10, <4>1
      <4>2. CASE p = row /\ q \in rows
        BY <1>5, <1>6, <2>10, <3>1, <4>2
      <4> QED
        BY <1>1, <4>1, <4>2
    <3>3. CASE q \in rows
      BY <2>1, <2>10, <3>2, <3>3 DEF OneInHand, Ordered
    <3>4. CASE q = row
      BY <1>5, <3>1, <3>2, <3>4
    <3> QED
      BY <1>1, <3>3, <3>4
  <2>11. r.pc # "idle" /\ Ordered'
    BY <1>3, <2>10 DEF Ordered
  <2> QED
    BY <1>1, <2>1, <2>9, <2>11, HandTell
<1> QED
  BY <1>1, <1>7, <1>8 DEF TellInv

LEMMA SaveVehicleTell ==
  ASSUME Inv, TellInv, NEW s \in Slots, SaveVehicle(s)
  PROVE  TellInv'
<1>1. /\ slot[s].pc = "vehicle" /\ Reach(s, Idle)
      /\ UNCHANGED <<rows, notes, disturbed>>
  BY DEF SaveVehicle
<1>2. slot'[s] = Idle /\ \A q \in Slots \ {s} : slot'[q] = slot[q]
  BY <1>1 DEF Reach, Inv, SlotsOK
<1>3. /\ Count' = Count /\ FencesOf' = FencesOf /\ Latest' = Latest
      /\ Numbered' /\ (Ordered' <=> Ordered)
  BY <1>1, RowsSame DEF TellInv
<1>4. ASSUME ~disturbed
      PROVE  OneInHand'
  <2>1. OneInHand /\ Handled(s) /\ InHand(slot[s])
    BY <1>1, <1>4 DEF TellInv, OneInHand, Handled
  <2>2. \A q \in Slots : ~Handled(q)'
    BY <1>2, <2>1 DEF OneInHand, Handled, Idle
  <2>3. PICK t \in Seq(Notice) : Spelled(FencesOf, Count, t) /\ notes = t \o Behind(slot[s])
    BY <2>1 DEF InHand
  <2>4. notes = t
    BY <1>1, <2>3, ConcatEmpty DEF Behind
  <2> QED
    BY <1>1, <1>3, <2>1, <2>2, <2>3, <2>4 DEF OneInHand
<1> QED
  BY <1>1, <1>3, <1>4 DEF TellInv

LEMMA FailTell ==
  ASSUME TellInv, NEW s \in Slots, Fail(s)
  PROVE  TellInv'
BY RowsSame DEF TellInv, Fail

(* Neither an edit, nor the geocoder, nor time moves a packet to another   *)
(* stage.                                                                  *)
LEMMA StillTell ==
  ASSUME TellInv, UNCHANGED <<slot, rows, notes, disturbed>>
  PROVE  TellInv'
BY QuietTell DEF SameStage

LEMMA TickTell ==
  ASSUME Inv, TellInv, Tick
  PROVE  TellInv'
<1>1. UNCHANGED <<rows, notes, disturbed>>
  BY DEF Tick
<1>2. ASSUME NEW s \in Slots
      PROVE  SameStage(slot[s], slot'[s])
  <2>1. slot[s] \in SlotType
    BY SlotFacts
  <2>2. slot'[s] = CASE slot[s].pc = "load" -> [slot[s] EXCEPT !.loading = Older(@)]
                     [] slot[s].pc = "loaded" -> [slot[s] EXCEPT !.loading = Older(@), !.read = Older(@)]
                     [] OTHER -> slot[s]
    BY DEF Tick
  <2>3. /\ slot'[s].ts = slot[s].ts /\ slot'[s].pc = slot[s].pc
        /\ slot'[s].fence = slot[s].fence /\ slot'[s].previous = slot[s].previous
    <3>1. CASE slot[s].pc = "load"
      BY <2>1, <2>2, <3>1 DEF SlotType
    <3>2. CASE slot[s].pc = "loaded"
      BY <2>1, <2>2, <3>2 DEF SlotType
    <3>3. CASE slot[s].pc \notin {"load", "loaded"}
      BY <2>2, <3>3
    <3> QED
      BY <3>1, <3>2, <3>3
  <2> QED
    BY <2>3 DEF SameStage
<1> QED
  BY <1>1, <1>2, QuietTell

LEMMA InitTell ==
  ASSUME Init
  PROVE  TellInv
<1>1. Count = 0
  BY FS_EmptySet DEF Init, Count
<1>2. Numbered /\ Ordered
  BY <1>1 DEF Init, Numbered, Ordered
<1>3. FencesOf[0] = None /\ Latest = None
  BY <1>1 DEF FencesOf, FenceAt, Latest
<1>4. \A s \in Slots : ~Handled(s)
  BY DEF Init, Handled, Idle
<1>5. Spells([i \in 0 .. 0 |-> <<>>], FencesOf, 0, <<>>)
  BY DEF Spells
<1>6. OneInHand
  BY <1>1, <1>2, <1>3, <1>4, <1>5 DEF Init, OneInHand, Spelled
<1> QED
  BY <1>2, <1>6 DEF TellInv

LEMMA StepTell ==
  ASSUME Inv, TellInv, Inv', [Next]_vars
  PROVE  TellInv'
<1>1. ASSUME NEW s \in Slots, Receive(s) \/ Handle(s) \/ Fail(s)
      PROVE  TellInv'
  BY <1>1, ReceiveTell, FailTell, LookedUpTell, AddressedTell, ReadGeofencesTell,
     LoadedGeofencesTell, PreviousTell, NoteExitTell, NoteEnterTell, SaveRowTell,
     SaveVehicleTell DEF Handle
<1>2. CASE \/ CreateGeofence \/ GeocoderStep \/ UNCHANGED vars
           \/ \E i \in DOMAIN geofences : UpdateGeofence(i) \/ RemoveGeofence(i)
  <2>1. UNCHANGED <<slot, rows, notes, disturbed>>
    BY <1>2 DEF CreateGeofence, UpdateGeofence, RemoveGeofence, Edited, GeocoderStep,
                vars, trackingVars
  <2> QED
    BY <2>1, StillTell
<1> QED
  BY <1>1, <1>2, TickTell DEF Next

-----------------------------------------------------------------------------
(* Sequences put end to end: FlattenSeq is the last of the sums f.         *)

Flat(seqs, f) == f = [i \in 1 .. Len(seqs) |-> IF i = 1 THEN seqs[i] ELSE f[i - 1] \o seqs[i]]

LEMMA FlattenIs ==
  ASSUME NEW seqs, Len(seqs) \in Nat \ {0}, NEW g, Flat(seqs, g)
  PROVE  FlattenSeq(seqs) = g[Len(seqs)]
<1> DEFINE f == CHOOSE h : Flat(seqs, h)
<1>1. Flat(seqs, f)
  BY Zenon
<1>2. FlattenSeq(seqs) = f[Len(seqs)]
  BY Zenon DEF FlattenSeq, Flat
<1> HIDE DEF f
<1>3. \A i \in 1 .. Len(seqs) : f[i] = g[i]
  <2> DEFINE T == {i \in 1 .. Len(seqs) : f[i] # g[i]}
  <2>1. SUFFICES ASSUME T # {} PROVE FALSE
    OBVIOUS
  <2>2. PICK i \in T : \A j \in T : ~(<<j, i>> \in OpToRel(<, Nat))
    <3>1. T \in SUBSET Nat
      OBVIOUS
    <3> HIDE DEF T
    <3> QED
      BY <2>1, <3>1, NatLessThanWellFounded, WFMin
  <2>3. \A j \in 1 .. (i - 1) : f[j] = g[j]
    <3>1. ASSUME NEW j \in 1 .. (i - 1) PROVE f[j] = g[j]
      <4>1. <<j, i>> \in OpToRel(<, Nat) /\ j \in 1 .. Len(seqs)
        BY <2>2, <3>1 DEF OpToRel
      <4> QED
        BY <2>2, <4>1
    <3> QED
      BY <3>1
  <2>4. f[i] = g[i]
    <3>1. CASE i = 1
      BY <1>1, <2>2, <3>1 DEF Flat
    <3>2. CASE i # 1
      <4>0. i \in 1 .. Len(seqs)
        BY <2>2
      <4>1. f[i - 1] = g[i - 1] /\ i - 1 \in 1 .. Len(seqs)
        <5>1. i - 1 \in 1 .. (i - 1) /\ i - 1 \in 1 .. Len(seqs)
          BY <3>2, <4>0
        <5> QED
          BY <2>3, <5>1
      <4>2. f[i] = f[i - 1] \o seqs[i] /\ g[i] = g[i - 1] \o seqs[i]
        BY <1>1, <2>2, <3>2 DEF Flat
      <4> QED
        BY <4>1, <4>2
    <3> QED
      BY <3>1, <3>2
  <2> QED
    BY <2>2, <2>4
<1> QED
  BY <1>2, <1>3

(* What the invariant says of the notifications is the reference.          *)
LEMMA SpelledIsFlat ==
  ASSUME Inv, Numbered, Spelled(FencesOf, Count, notes)
  PROVE  notes = FlattenSeq([i \in 1 .. Len(Track) |-> Crossings(FenceAt(i - 1), FenceAt(i))])
<1> DEFINE seqs == [i \in 1 .. Len(Track) |-> Crossings(FenceAt(i - 1), FenceAt(i))]
<1>1. Count \in Nat /\ Len(Track) = Count
  BY CountNat DEF Track, Count
<1>2. Len(seqs) = Count /\ \A i \in 1 .. Count : seqs[i] = Crossings(FenceAt(i - 1), FenceAt(i))
  BY <1>1
<1>3. PICK g : Spells(g, FencesOf, Count, notes)
  BY DEF Spelled
<1>4. CASE Count = 0
  <2>1. seqs = <<>> /\ notes = <<>>
    BY <1>1, <1>3, <1>4 DEF Spells
  <2>2. FlattenSeq(<<>>) = <<>>
    BY DEF FlattenSeq
  <2> QED
    BY <2>1, <2>2
<1>5. CASE Count # 0
  <2> HIDE DEF seqs
  <2> DEFINE h == [i \in 1 .. Count |-> g[i]]
  <2>1. ASSUME NEW i \in 1 .. Count
        PROVE  h[i] = IF i = 1 THEN seqs[i] ELSE h[i - 1] \o seqs[i]
    <3>1. g[i] = g[i - 1] \o Crossings(FencesOf[i - 1], FencesOf[i])
      BY <1>3 DEF Spells
    <3>2. i \in 0 .. Count /\ i - 1 \in 0 .. Count
      BY <1>1
    <3>3. FencesOf[i - 1] = FenceAt(i - 1) /\ FencesOf[i] = FenceAt(i)
      BY <3>2, FencesTyped
    <3>4. g[i] = g[i - 1] \o seqs[i] /\ h[i] = g[i]
      BY <1>2, <3>1, <3>3
    <3>5. CASE i = 1
      <4>1. g[0] = <<>>
        BY <1>3 DEF Spells
      <4>2. /\ FenceAt(i - 1) \in Fences \cup {None}
            /\ FenceAt(i) \in Fences \cup {None}
        BY <3>2, <3>3, FencesTyped
      <4>3. Crossings(FenceAt(i - 1), FenceAt(i)) \in Seq(Notice)
        BY <4>2, NoticesTyped, CrossingsAre
      <4>4. seqs[i] \in Seq(Notice)
        BY <1>2, <4>3
      <4>5. <<>> \o seqs[i] = seqs[i]
        BY <4>4, ConcatEmpty
      <4>6. g[i - 1] = g[0]
        BY <3>5
      <4> QED
        BY <3>4, <3>5, <4>1, <4>5, <4>6
    <3>6. CASE i # 1
      <4>1. h[i - 1] = g[i - 1]
        BY <1>1, <3>6
      <4> QED
        BY <3>4, <3>6, <4>1
    <3> QED
      BY <3>5, <3>6
  <2>2. h = [i \in 1 .. Count |-> h[i]] /\ h[Count] = notes
    BY <1>1, <1>3, <1>5 DEF Spells
  <2> HIDE DEF h
  <2>3. Flat(seqs, h)
    BY <1>2, <2>1, <2>2 DEF Flat
  <2>4. Len(seqs) \in Nat \ {0}
    BY <1>1, <1>2, <1>5
  <2>5. FlattenSeq(seqs) = h[Len(seqs)]
    BY <2>3, <2>4, FlattenIs
  <2> QED
    BY <1>2, <2>2, <2>5 DEF seqs
<1> QED
  BY <1>4, <1>5

(* When the packets of a vehicle came one after the other, in order, and   *)
(* none failed, the notifications are the crossings of its track, each     *)
(* told once and in order (ingest).                                        *)
THEOREM NotesTellTheTrack == Spec => []NotesTellTrack
<1>1. Init => TellInv
  BY InitTell
<1>2. Inv /\ Inv' /\ TellInv /\ [Next]_vars => TellInv'
  BY StepTell
<1>3. ASSUME Inv, TellInv
      PROVE  NotesTellTrack
  <2>1. SUFFICES ASSUME ~disturbed, \A s \in Slots : ~Handled(s)
                 PROVE  notes = FlattenSeq([i \in 1 .. Len(Track) |->
                                              Crossings(FenceAt(i - 1), FenceAt(i))])
    BY DEF NotesTellTrack
  <2>2. Numbered /\ Spelled(FencesOf, Count, notes)
    BY <1>3, <2>1 DEF TellInv, OneInHand
  <2> QED
    BY <1>3, <2>2, SpelledIsFlat
<1> QED
  BY <1>1, <1>2, <1>3, Invariance, PTL DEF Spec

-----------------------------------------------------------------------------
(* Stop events.  The rows of the device are numbered as they are created,  *)
(* and none is from the future.                                            *)

StopRow == [n : Nat, timestamp : Nat, ignition : BOOLEAN, vehicle : Vehicles]

StopsInv ==
  /\ now \in Nat /\ assigned \in Vehicles
  /\ IsFiniteSet(telemetry) /\ telemetry \subseteq StopRow
  /\ \A r \in telemetry : r.n < Cardinality(telemetry) /\ r.timestamp <= now
  /\ \A q, r \in telemetry : q.n = r.n => q = r

LEMMA InsertInv ==
  ASSUME StopsInv, Insert
  PROVE  StopsInv'
<1>1. PICK timestamp \in 0 .. now, ignition \in BOOLEAN :
        telemetry' = telemetry \cup
          {[n |-> Cardinality(telemetry), timestamp |-> timestamp,
            ignition |-> ignition, vehicle |-> assigned]}
  BY DEF Insert
<1> DEFINE row == [n |-> Cardinality(telemetry), timestamp |-> timestamp,
                   ignition |-> ignition, vehicle |-> assigned]
<1>2. Cardinality(telemetry) \in Nat /\ UNCHANGED <<assigned, now>>
  BY FS_CardinalityType DEF StopsInv, Insert
<1>3. /\ row \in StopRow /\ row.n = Cardinality(telemetry) /\ row.timestamp <= now
      /\ telemetry' = telemetry \cup {row}
  BY <1>1, <1>2 DEF StopsInv, StopRow
<1> HIDE DEF row
<1>4. row \notin telemetry
  BY <1>2, <1>3 DEF StopsInv
<1>5. IsFiniteSet(telemetry') /\ Cardinality(telemetry') = Cardinality(telemetry) + 1
  BY <1>3, <1>4, FS_AddElement DEF StopsInv
<1>6. \A r \in telemetry : r.n \in Nat /\ r.n < Cardinality(telemetry)
  BY DEF StopsInv, StopRow
<1>7. \A r \in telemetry' : r.n < Cardinality(telemetry') /\ r.timestamp <= now'
  BY <1>2, <1>3, <1>5, <1>6 DEF StopsInv
<1>8. \A q, r \in telemetry' : q.n = r.n => q = r
  BY <1>2, <1>3, <1>6 DEF StopsInv
<1> QED
  BY <1>2, <1>3, <1>5, <1>7, <1>8 DEF StopsInv

LEMMA StopsInvariance == StopsSpec => []StopsInv
<1>1. StopsInit => StopsInv
  BY FS_EmptySet DEF StopsInit, StopsInv
<1>2. ASSUME StopsInv, [StopsNext]_stopsVars
      PROVE  StopsInv'
  <2>1. CASE Insert
    BY <1>2, <2>1, InsertInv
  <2>2. CASE Assign
    BY <1>2, <2>2 DEF StopsInv, Assign
  <2>3. CASE TimePasses
    <3>1. telemetry' = telemetry /\ assigned' = assigned /\ now' = now + 1
      BY <2>3 DEF TimePasses
    <3>2. \A r \in telemetry : r.timestamp \in Nat /\ r.timestamp <= now + 1
      BY <1>2 DEF StopsInv, StopRow
    <3> QED
      BY <1>2, <3>1, <3>2 DEF StopsInv
  <2>4. CASE UNCHANGED stopsVars
    BY <1>2, <2>4 DEF StopsInv, stopsVars
  <2> QED
    BY <1>2, <2>1, <2>2, <2>3, <2>4 DEF StopsNext
<1> QED
  BY <1>1, <1>2, PTL DEF StopsSpec

(* One row of each timestamp is looked at.                                 *)
LEMMA DedupedFacts ==
  ASSUME StopsInv, NEW f
  PROVE  /\ \A r \in Deduped(f) : /\ r \in telemetry /\ r.timestamp \in Nat
                                  /\ r.timestamp <= now /\ r.ignition \in BOOLEAN
         /\ \A q, r \in Deduped(f) : q.timestamp = r.timestamp => q = r
<1>1. \A r \in Deduped(f) : r \in telemetry
  BY DEF Deduped
<1>2. ASSUME NEW q \in Deduped(f), NEW r \in Deduped(f), q.timestamp = r.timestamp
      PROVE  q = r
  <2>1. q.n <= r.n /\ r.n <= q.n
    BY <1>2 DEF Deduped
  <2>2. q.n \in Nat /\ r.n \in Nat
    BY <1>1 DEF StopsInv, StopRow
  <2> QED
    BY <1>1, <2>1, <2>2 DEF StopsInv
<1> QED
  BY <1>1, <1>2 DEF StopsInv, StopRow

(* The row before a time, if there is one (LAG).                           *)
LEMMA RowBefore ==
  ASSUME StopsInv, NEW f, NEW t, Before(f, t) # {}
  PROVE  \E p \in Before(f, t) : \A q \in Before(f, t) : q.timestamp <= p.timestamp
<1> DEFINE S == {now - q.timestamp : q \in Before(f, t)}
<1>1. now \in Nat /\ \A q \in Before(f, t) : q.timestamp \in Nat /\ q.timestamp <= now
  BY DedupedFacts DEF Before, StopsInv
<1>2. S \in SUBSET Nat /\ S # {}
  BY <1>1
<1>3. PICK x \in S : \A y \in S : x <= y
  BY <1>2, LeastNatural
<1>4. PICK p \in Before(f, t) : x = now - p.timestamp
  BY <1>3
<1>5. \A q \in Before(f, t) : now - p.timestamp <= now - q.timestamp
  BY <1>3, <1>4
<1>6. ASSUME NEW q \in Before(f, t)
      PROVE  q.timestamp <= p.timestamp
  <2>1. now - p.timestamp <= now - q.timestamp
    BY <1>5
  <2>2. now \in Nat /\ p.timestamp \in Nat /\ q.timestamp \in Nat
    BY <1>1
  <2> QED
    BY <2>1, <2>2
<1> QED
  BY <1>6

(* A stop with a later row that is on ends at the first of them.           *)
LEMMA EndsAtFirst ==
  ASSUME StopsInv, NEW f, NEW t, NextOn(f, t) # {}
  PROVE  /\ \E r \in NextOn(f, t) : EndTime(f, t) = r.timestamp
         /\ \A r \in NextOn(f, t) : EndTime(f, t) <= r.timestamp
<1> DEFINE S == {r.timestamp : r \in NextOn(f, t)}
<1>1. S \in SUBSET Nat /\ S # {}
  BY DedupedFacts DEF NextOn
<1>2. EndTime(f, t) = Min(S)
  BY DEF EndTime
<1>3. Min(S) \in S /\ \A y \in S : Min(S) <= y
  BY <1>1, LeastOfSet
<1> QED
  BY <1>2, <1>3

(* Between the starts of two stops the ignition is on.                     *)
LEMMA OnBetweenStops ==
  ASSUME StopsInv, NEW f, NEW s \in StopStarts(f), NEW u \in StopStarts(f),
         s.timestamp < u.timestamp
  PROVE  \E p \in NextOn(f, s.timestamp) : p.timestamp < u.timestamp
<1>1. s \in Deduped(f) /\ ~s.ignition /\ s \in Before(f, u.timestamp)
  BY DEF StopStarts, Before
<1>2. PICK p \in Before(f, u.timestamp) :
        \A q \in Before(f, u.timestamp) : q.timestamp <= p.timestamp
  BY <1>1, RowBefore
<1>3. p.ignition
  BY <1>2 DEF StopStarts
<1>4. s.timestamp <= p.timestamp /\ p \in Deduped(f) /\ p.timestamp < u.timestamp
  BY <1>1, <1>2 DEF Before
<1>5. s.timestamp # p.timestamp
  BY <1>1, <1>3, <1>4, DedupedFacts
<1>6. s.timestamp \in Nat /\ p.timestamp \in Nat
  BY <1>1, <1>4, DedupedFacts
<1> QED
  BY <1>3, <1>4, <1>5, <1>6 DEF NextOn

(* When the ignition is off, a stop has begun, and no row that is on has   *)
(* come since: the earliest row after all those that are on.               *)
LEMMA StopHasBegun ==
  ASSUME StopsInv, NEW f, NEW t \in Nat, OffAt(f, t)
  PROVE  \E s \in StopStarts(f) :
           s.timestamp <= t /\ NextOn(f, s.timestamp) = NextOn(f, t)
<1> DEFINE AfterOn(q) == \A p \in Deduped(f) :
                           p.ignition /\ p.timestamp <= t => p.timestamp < q.timestamp
           L == {q \in Deduped(f) : q.timestamp <= t /\ AfterOn(q)}
           S == {q.timestamp : q \in L}
<1>0. \A q \in Deduped(f) : q.timestamp \in Nat
  BY DedupedFacts
<1>1. PICK r \in Deduped(f) :
        /\ r.timestamp <= t /\ ~r.ignition
        /\ \A q \in Deduped(f) : q.timestamp <= t => q.timestamp <= r.timestamp
  BY DEF OffAt
<1>2. AfterOn(r)
  <2> SUFFICES ASSUME NEW p \in Deduped(f), p.ignition, p.timestamp <= t
               PROVE  p.timestamp < r.timestamp
    OBVIOUS
  <2>1. p.timestamp <= r.timestamp /\ p.timestamp # r.timestamp
    BY <1>1, DedupedFacts
  <2> QED
    BY <1>0, <2>1
<1>3. S \in SUBSET Nat /\ S # {}
  BY <1>0, <1>1, <1>2
<1>4. PICK x \in S : \A y \in S : x <= y
  BY <1>3, LeastNatural
<1>5. PICK s \in L : x = s.timestamp
  BY <1>4
<1>6. /\ s \in Deduped(f) /\ s.timestamp <= t /\ AfterOn(s) /\ s.timestamp \in Nat
      /\ \A q \in L : s.timestamp <= q.timestamp
  BY <1>0, <1>4, <1>5
<1>7. ~s.ignition
  BY <1>6
<1>8. ASSUME NEW b \in Before(f, s.timestamp),
             \A q \in Before(f, s.timestamp) : q.timestamp <= b.timestamp
      PROVE  b.ignition
  <2>1. SUFFICES ASSUME ~b.ignition
                 PROVE  FALSE
    OBVIOUS
  <2>2. b \in Deduped(f) /\ b.timestamp < s.timestamp /\ b.timestamp \in Nat
    BY <1>0 DEF Before
  <2>3. ASSUME NEW p \in Deduped(f), p.ignition, p.timestamp <= t
        PROVE  p.timestamp < b.timestamp
    <3>1. p.timestamp < s.timestamp
      BY <1>6, <2>3
    <3>2. p.timestamp <= b.timestamp
      BY <1>8, <3>1 DEF Before
    <3>3. p.timestamp # b.timestamp
      BY <2>1, <2>2, <2>3, DedupedFacts
    <3> QED
      BY <1>0, <2>2, <3>2, <3>3
  <2>4. AfterOn(b)
    BY <2>3
  <2>5. b.timestamp <= t
    BY <1>6, <2>2
  <2> HIDE DEF AfterOn
  <2>6. b \in L
    BY <2>2, <2>4, <2>5
  <2> QED
    BY <1>6, <2>2, <2>6
<1>9. s \in StopStarts(f)
  BY <1>6, <1>7, <1>8 DEF StopStarts
<1>10. NextOn(f, s.timestamp) = NextOn(f, t)
  <2>1. ASSUME NEW q \in Deduped(f), q.ignition
        PROVE  q.timestamp > s.timestamp <=> q.timestamp > t
    BY <1>0, <1>6, <2>1
  <2> QED
    BY <2>1 DEF NextOn
<1> QED
  BY <1>6, <1>9, <1>10

(* The stops that cover a time. *)
Covering(f, t) == {s \in Stops(f) : s.id <= t /\ t < s.endTime}

LEMMA OffIsCovered ==
  ASSUME StopsInv, NEW f, NEW t \in Nat, t < now, OffAt(f, t)
  PROVE  Cardinality(Covering(f, t)) = IF Followed(f, t) THEN 1 ELSE 0
<1>1. PICK s \in StopStarts(f) :
        s.timestamp <= t /\ NextOn(f, s.timestamp) = NextOn(f, t)
  BY StopHasBegun
<1> DEFINE x == [id |-> s.timestamp, vehicle |-> s.vehicle,
                 endTime |-> EndTime(f, s.timestamp)]
<1>2. /\ x \in Stops(f) /\ x.id = s.timestamp /\ x.endTime = EndTime(f, s.timestamp)
      /\ s \in Deduped(f) /\ s.timestamp \in Nat
  BY DedupedFacts DEF Stops, StopStarts
<1> HIDE DEF x
<1>3. ASSUME NEW u \in StopStarts(f), u.timestamp <= t,
             NextOn(f, u.timestamp) = {} \/ t < EndTime(f, u.timestamp)
      PROVE  u = s
  <2>1. u \in Deduped(f) /\ u.timestamp \in Nat
    BY DedupedFacts DEF StopStarts
  <2>2. ~(s.timestamp < u.timestamp)
    <3>1. SUFFICES ASSUME s.timestamp < u.timestamp
                   PROVE  FALSE
      OBVIOUS
    <3>2. PICK p \in NextOn(f, t) : p.timestamp < u.timestamp
      BY <1>1, <3>1, OnBetweenStops
    <3>3. p.timestamp > t /\ p.timestamp \in Nat
      BY DedupedFacts DEF NextOn
    <3> QED
      BY <1>3, <2>1, <3>2, <3>3
  <2>3. ~(u.timestamp < s.timestamp)
    <3>1. SUFFICES ASSUME u.timestamp < s.timestamp
                   PROVE  FALSE
      OBVIOUS
    <3>2. PICK p \in NextOn(f, u.timestamp) : p.timestamp < s.timestamp
      BY <3>1, OnBetweenStops
    <3>3. EndTime(f, u.timestamp) <= p.timestamp /\ p.timestamp \in Nat
      BY EndsAtFirst, DedupedFacts DEF NextOn
    <3>4. PICK r \in NextOn(f, u.timestamp) : EndTime(f, u.timestamp) = r.timestamp
      BY <3>2, EndsAtFirst
    <3>5. EndTime(f, u.timestamp) \in Nat
      BY <3>4, DedupedFacts DEF NextOn
    <3> QED
      BY <1>1, <1>2, <1>3, <3>2, <3>3, <3>5
  <2> QED
    BY <1>2, <2>1, <2>2, <2>3, DedupedFacts
<1>4. ASSUME NEW y \in Covering(f, t)
      PROVE  y = x
  <2>1. PICK u \in StopStarts(f) : y = [id |-> u.timestamp, vehicle |-> u.vehicle,
                                        endTime |-> EndTime(f, u.timestamp)]
    BY DEF Covering, Stops
  <2>2. u.timestamp <= t /\ t < EndTime(f, u.timestamp)
    BY <2>1 DEF Covering
  <2> QED
    BY <1>3, <2>1, <2>2 DEF x
<1>5. x \in Covering(f, t) <=> t < EndTime(f, s.timestamp)
  BY <1>1, <1>2 DEF Covering
<1>6. Followed(f, t) <=> t < EndTime(f, s.timestamp)
  <2>1. CASE NextOn(f, t) # {}
    <3>1. PICK r \in NextOn(f, t) : EndTime(f, s.timestamp) = r.timestamp
      BY <1>1, <2>1, EndsAtFirst
    <3> QED
      BY <2>1, <3>1 DEF Followed, NextOn
  <2>2. CASE NextOn(f, t) = {}
    <3>1. EndTime(f, s.timestamp) = Least(now, s.timestamp + ActiveStopCap)
      BY <1>1, <2>2 DEF EndTime
    <3>2. t < EndTime(f, s.timestamp) <=> t < s.timestamp + ActiveStopCap
      BY <1>2, <3>1, StopEventsAssumption DEF Least, StopsInv
    <3>3. ASSUME t < s.timestamp + ActiveStopCap
          PROVE  Followed(f, t)
      BY <1>1, <1>2, <2>2, <3>3 DEF Followed
    <3>4. ASSUME Followed(f, t)
          PROVE  t < s.timestamp + ActiveStopCap
      <4>1. PICK v \in Stops(f) :
              v.id <= t /\ t < v.id + ActiveStopCap /\ NextOn(f, v.id) = {}
        BY <2>2, <3>4 DEF Followed
      <4>2. PICK u \in StopStarts(f) : v.id = u.timestamp
        BY DEF Stops
      <4> QED
        BY <1>3, <4>1, <4>2
    <3> QED
      BY <3>2, <3>3, <3>4
  <2> QED
    BY <2>1, <2>2
<1>7. Covering(f, t) = IF Followed(f, t) THEN {x} ELSE {}
  BY <1>4, <1>5, <1>6
<1> QED
  BY <1>7, FS_Singleton, FS_EmptySet

LEMMA OnIsNotCovered ==
  ASSUME StopsInv, NEW f, NEW t \in Nat, ~OffAt(f, t)
  PROVE  Covering(f, t) = {}
<1>1. SUFFICES ASSUME NEW y \in Covering(f, t)
               PROVE  FALSE
  OBVIOUS
<1>2. PICK s \in StopStarts(f) : y = [id |-> s.timestamp, vehicle |-> s.vehicle,
                                      endTime |-> EndTime(f, s.timestamp)]
  BY DEF Covering, Stops
<1>3. /\ s.timestamp <= t /\ t < EndTime(f, s.timestamp)
      /\ s \in Deduped(f) /\ ~s.ignition /\ s.timestamp \in Nat
  BY <1>2, DedupedFacts DEF Covering, StopStarts
<1>4. s \in Before(f, t + 1)
  BY <1>3 DEF Before
<1>5. PICK q \in Before(f, t + 1) :
        \A p \in Before(f, t + 1) : p.timestamp <= q.timestamp
  BY <1>4, RowBefore
<1>6. /\ q \in Deduped(f) /\ q.timestamp \in Nat /\ q.timestamp <= t
      /\ \A p \in Deduped(f) : p.timestamp <= t => p.timestamp <= q.timestamp
  BY <1>5, DedupedFacts DEF Before
<1>7. q.ignition
  BY <1>6 DEF OffAt
<1>8. s.timestamp < q.timestamp
  <2>1. s.timestamp <= q.timestamp /\ s.timestamp # q.timestamp
    BY <1>3, <1>6, <1>7, DedupedFacts
  <2> QED
    BY <1>3, <1>6, <2>1
<1>9. q \in NextOn(f, s.timestamp)
  BY <1>6, <1>7, <1>8 DEF NextOn
<1>10. EndTime(f, s.timestamp) <= q.timestamp
  BY <1>9, EndsAtFirst
<1>11. EndTime(f, s.timestamp) \in Nat
  <2>1. PICK r \in NextOn(f, s.timestamp) : EndTime(f, s.timestamp) = r.timestamp
    BY <1>9, EndsAtFirst
  <2> QED
    BY <2>1, DedupedFacts DEF NextOn
<1> QED
  BY <1>3, <1>6, <1>10, <1>11

(* At every time up to now at which the ignition was off, and at no other, *)
(* the device was in exactly one stop (stop-events.service.ts:135-213),    *)
(* for any rows in any order of arrival.                                   *)
THEOREM StopsCoverTheOffTime == StopsSpec => []StopsCoverOffTime
<1>1. ASSUME StopsInv
      PROVE  StopsCoverOffTime
  <2> SUFFICES ASSUME NEW f \in Filters, NEW t \in 0 .. (now - 1)
               PROVE  Cardinality(Covering(f, t))
                        = IF OffAt(f, t) /\ Followed(f, t) THEN 1 ELSE 0
    BY DEF StopsCoverOffTime, Covering
  <2>1. t \in Nat /\ t < now
    BY <1>1 DEF StopsInv
  <2>2. CASE OffAt(f, t)
    BY <1>1, <2>1, <2>2, OffIsCovered
  <2>3. CASE ~OffAt(f, t)
    BY <1>1, <2>1, <2>3, OnIsNotCovered, FS_EmptySet
  <2> QED
    BY <2>2, <2>3
<1> QED
  BY <1>1, StopsInvariance, PTL

-----------------------------------------------------------------------------
(* Listed stops, while time passes and newer rows arrive. *)

EndFacts ==
  \A f, t : NextOn(f, t) # {} =>
    /\ \E r \in NextOn(f, t) : EndTime(f, t) = r.timestamp
    /\ \A r \in NextOn(f, t) : EndTime(f, t) <= r.timestamp

LEMMA EndFactsHold == StopsInv => EndFacts
BY EndsAtFirst DEF EndFacts

(* A row of each timestamp is among those that are looked at.              *)
LEMMA EachTimestamp ==
  ASSUME StopsInv, NEW f, NEW r \in telemetry, f = All \/ r.vehicle = f
  PROVE  \E q \in Deduped(f) : q.timestamp = r.timestamp
<1> DEFINE Same == {q \in telemetry : (f = All \/ q.vehicle = f) /\ q.timestamp = r.timestamp}
           c == Cardinality(telemetry)
           S == {c - q.n : q \in Same}
<1>1. c \in Nat /\ \A q \in Same : q.n \in Nat /\ q.n < c
  BY FS_CardinalityType DEF StopsInv, StopRow
<1> HIDE DEF c
<1>2. S \in SUBSET Nat /\ S # {}
  BY <1>1
<1>3. PICK x \in S : \A y \in S : x <= y
  BY <1>2, LeastNatural
<1>4. PICK q \in Same : x = c - q.n
  BY <1>3
<1>5. ASSUME NEW p \in Same
      PROVE  p.n <= q.n
  <2>1. c - q.n <= c - p.n
    BY <1>3, <1>4
  <2>2. c \in Nat /\ q.n \in Nat /\ p.n \in Nat
    BY <1>1
  <2> QED
    BY <2>1, <2>2
<1>6. q \in Deduped(f)
  BY <1>5 DEF Deduped
<1> QED
  BY <1>6

(* The stop that starts with u, as it is listed. *)
StopOf(f, u) == [id |-> u.timestamp, vehicle |-> u.vehicle, endTime |-> EndTime(f, u.timestamp)]

StillListed(f, s) ==
  \E later \in Listed(f)' :
    /\ later.id = s.id
    /\ NextOn(f, s.id) # {} => later = s

LEMMA KeptListed ==
  ASSUME NEW f, NEW u, u \in StopStarts(f)',
         EndTime(f, u.timestamp)' - u.timestamp >= Debounce,
         NextOn(f, u.timestamp) # {} => EndTime(f, u.timestamp)' = EndTime(f, u.timestamp)
  PROVE  StillListed(f, StopOf(f, u))
<1> DEFINE later == [id |-> u.timestamp, vehicle |-> u.vehicle,
                     endTime |-> EndTime(f, u.timestamp)']
<1>1. later \in Stops(f)'
  BY DEF Stops
<1>2. later \in Listed(f)'
  BY <1>1 DEF Listed
<1>3. NextOn(f, u.timestamp) # {} => later = StopOf(f, u)
  BY DEF StopOf
<1>4. later.id = u.timestamp /\ StopOf(f, u).id = u.timestamp
  BY DEF StopOf
<1> HIDE DEF later
<1> QED
  BY <1>2, <1>3, <1>4 DEF StillListed

LEMMA ListedFacts ==
  ASSUME StopsInv, NEW f, NEW s \in Listed(f)
  PROVE  \E u \in StopStarts(f) :
           /\ s = StopOf(f, u) /\ s.id = u.timestamp
           /\ u \in Deduped(f) /\ u.timestamp \in Nat
           /\ EndTime(f, u.timestamp) - u.timestamp >= Debounce
<1>1. PICK u \in StopStarts(f) : s = StopOf(f, u)
  BY DEF Listed, Stops, StopOf
<1>2. s.id = u.timestamp /\ s.endTime = EndTime(f, u.timestamp)
  BY <1>1 DEF StopOf
<1>3. u \in Deduped(f) /\ u.timestamp \in Nat
  BY DedupedFacts DEF StopStarts
<1> QED
  BY <1>1, <1>2, <1>3 DEF Listed

(* Without a new row of its vehicle, a stop that goes on may only last. *)
LEMMA SameRowsKeep ==
  ASSUME StopsInv, now' \in {now, now + 1}, NEW f, Deduped(f)' = Deduped(f),
         NEW s \in Listed(f)
  PROVE  StillListed(f, s)
<1>1. PICK u \in StopStarts(f) :
        /\ s = StopOf(f, u) /\ s.id = u.timestamp
        /\ u \in Deduped(f) /\ u.timestamp \in Nat
        /\ EndTime(f, u.timestamp) - u.timestamp >= Debounce
  BY ListedFacts
<1>2. \A t : Before(f, t)' = Before(f, t) /\ NextOn(f, t)' = NextOn(f, t)
  BY DEF Before, NextOn
<1>3. u \in StopStarts(f)'
  BY <1>2 DEF StopStarts
<1>4. CASE NextOn(f, u.timestamp) # {}
  <2>1. EndTime(f, u.timestamp)' = EndTime(f, u.timestamp)
    BY <1>2, <1>4 DEF EndTime
  <2> QED
    BY <1>1, <1>3, <2>1, KeptListed
<1>5. CASE NextOn(f, u.timestamp) = {}
  <2>1. /\ EndTime(f, u.timestamp) = Least(now, u.timestamp + ActiveStopCap)
        /\ EndTime(f, u.timestamp)' = Least(now', u.timestamp + ActiveStopCap)
    BY <1>2, <1>5 DEF EndTime, Least
  <2>2. EndTime(f, u.timestamp)' - u.timestamp >= Debounce
    BY <1>1, <2>1, StopEventsAssumption DEF Least, StopsInv
  <2> QED
    BY <1>1, <1>3, <1>5, <2>2, KeptListed
<1> QED
  BY <1>4, <1>5

(* A row later than all those looked at ends the stop that goes on. *)
LEMMA NewerRowKeeps ==
  ASSUME StopsInv, StopsInv', now' = now, NEW f, NEW s \in Listed(f),
         NEW row, Deduped(f)' = Deduped(f) \cup {row}, row.timestamp \in Nat,
         \A q \in Deduped(f) : row.timestamp > q.timestamp,
         row.timestamp - s.id >= Debounce
  PROVE  StillListed(f, s)
<1>1. PICK u \in StopStarts(f) :
        /\ s = StopOf(f, u) /\ s.id = u.timestamp
        /\ u \in Deduped(f) /\ u.timestamp \in Nat
        /\ EndTime(f, u.timestamp) - u.timestamp >= Debounce
  BY ListedFacts
<1> DEFINE t == u.timestamp
<1>2. EndFacts /\ EndFacts'
  BY EndFactsHold, PTL
<1>3. row.timestamp > t
  BY <1>1
<1>4. Before(f, t)' = Before(f, t)
  BY <1>1, <1>3 DEF Before
<1>5. u \in StopStarts(f)'
  BY <1>1, <1>4 DEF StopStarts
<1>6. \A r : r \in NextOn(f, t)' <=> r \in NextOn(f, t) \/ (r = row /\ row.ignition)
  BY <1>3 DEF NextOn
<1>7. CASE NextOn(f, t) # {}
  <2>1. PICK r \in NextOn(f, t) : EndTime(f, t) = r.timestamp
    BY <1>2, <1>7 DEF EndFacts
  <2>2. r \in NextOn(f, t)' /\ r \in Deduped(f) /\ r.timestamp \in Nat
    BY <1>6, DedupedFacts DEF NextOn
  <2>3. /\ \E q \in NextOn(f, t)' : EndTime(f, t)' = q.timestamp
        /\ \A q \in NextOn(f, t)' : EndTime(f, t)' <= q.timestamp
    BY <1>2, <2>2 DEF EndFacts
  <2>4. PICK q \in NextOn(f, t)' : EndTime(f, t)' = q.timestamp
    BY <2>3
  <2>5. q.timestamp <= r.timestamp
    BY <2>2, <2>3, <2>4
  <2>6. q \in NextOn(f, t)
    BY <1>6, <2>2, <2>4, <2>5
  <2>7. r.timestamp <= q.timestamp /\ q.timestamp \in Nat
    BY <1>2, <2>1, <2>6, DedupedFacts DEF EndFacts, NextOn
  <2>8. EndTime(f, t)' = EndTime(f, t)
    BY <2>1, <2>2, <2>4, <2>5, <2>7
  <2> QED
    BY <1>1, <1>5, <2>8, KeptListed
<1>8. CASE NextOn(f, t) = {} /\ row.ignition
  <2>1. row \in NextOn(f, t)' /\ \A q \in NextOn(f, t)' : q = row
    BY <1>6, <1>8
  <2>2. \E q \in NextOn(f, t)' : EndTime(f, t)' = q.timestamp
    BY <1>2, <2>1 DEF EndFacts
  <2>3. EndTime(f, t)' = row.timestamp
    BY <2>1, <2>2
  <2> QED
    BY <1>1, <1>5, <1>8, <2>3, KeptListed
<1>9. CASE NextOn(f, t) = {} /\ ~row.ignition
  <2>1. NextOn(f, t)' = {}
    BY <1>6, <1>9
  <2>2. EndTime(f, t)' = EndTime(f, t)
    BY <1>9, <2>1 DEF EndTime
  <2> QED
    BY <1>1, <1>5, <2>2, KeptListed
<1> QED
  BY <1>7, <1>8, <1>9

LEMMA InsertKeeps ==
  ASSUME StopsInv, StopsInv', Insert, NEW f, NEW s \in Listed(f), Newer(f, s)
  PROVE  StillListed(f, s)
<1>1. PICK timestamp \in 0 .. now, ignition \in BOOLEAN :
        telemetry' = telemetry \cup
          {[n |-> Cardinality(telemetry), timestamp |-> timestamp,
            ignition |-> ignition, vehicle |-> assigned]}
  BY DEF Insert
<1> DEFINE row == [n |-> Cardinality(telemetry), timestamp |-> timestamp,
                   ignition |-> ignition, vehicle |-> assigned]
<1>2. /\ Cardinality(telemetry) \in Nat /\ now' = now
      /\ \A r \in telemetry : r.n \in Nat /\ r.n < Cardinality(telemetry)
  BY FS_CardinalityType DEF StopsInv, StopRow, Insert
<1>3. /\ row.n = Cardinality(telemetry) /\ row.timestamp \in Nat
      /\ telemetry' = telemetry \cup {row}
  BY <1>1, <1>2 DEF StopsInv
<1> HIDE DEF row
<1>4. row \in telemetry' \ telemetry
  BY <1>2, <1>3
<1>5. \A q \in Deduped(f) : row.timestamp > q.timestamp /\ row.timestamp - s.id >= Debounce
  BY <1>4 DEF Newer
<1>6. \E q \in Deduped(f) : TRUE
  BY ListedFacts
<1>7. CASE f = All \/ row.vehicle = f
  <2>1. \A r \in telemetry : f = All \/ r.vehicle = f => r.timestamp # row.timestamp
    <3> SUFFICES ASSUME NEW r \in telemetry, f = All \/ r.vehicle = f,
                        r.timestamp = row.timestamp
                 PROVE  FALSE
      OBVIOUS
    <3>1. PICK q \in Deduped(f) : q.timestamp = r.timestamp
      BY EachTimestamp
    <3> QED
      BY <1>3, <1>5, <3>1
  <2>2. Deduped(f)' = Deduped(f) \cup {row}
    BY <1>2, <1>3, <1>7, <2>1 DEF Deduped
  <2> QED
    BY <1>2, <1>3, <1>5, <1>6, <2>2, NewerRowKeeps
<1>8. CASE ~(f = All \/ row.vehicle = f)
  <2>1. Deduped(f)' = Deduped(f)
    BY <1>3, <1>8 DEF Deduped
  <2> QED
    BY <1>2, <2>1, SameRowsKeep
<1> QED
  BY <1>7, <1>8

LEMMA StepKeeps ==
  ASSUME StopsInv, StopsInv', [StopsNext]_stopsVars
  PROVE  \A f \in Filters : \A s \in Listed(f) : Newer(f, s) => StillListed(f, s)
<1> SUFFICES ASSUME NEW f \in Filters, NEW s \in Listed(f), Newer(f, s)
             PROVE  StillListed(f, s)
  OBVIOUS
<1>1. CASE Insert
  BY <1>1, InsertKeeps
<1>2. CASE Assign \/ TimePasses \/ UNCHANGED stopsVars
  <2>1. telemetry' = telemetry /\ now' \in {now, now + 1}
    BY <1>2 DEF Assign, TimePasses, stopsVars
  <2>2. Deduped(f)' = Deduped(f)
    BY <2>1 DEF Deduped
  <2> QED
    BY <2>1, <2>2, SameRowsKeep
<1> QED
  BY <1>1, <1>2 DEF StopsNext

(* What was listed stays listed, with the same end once it has ended, as   *)
(* time passes and as newer rows arrive (stop-events.service.ts:135-213).  *)
THEOREM ListedStopsStay == StopsSpec => ListedStopsLast
<1>1. StopsInv /\ StopsInv' /\ [StopsNext]_stopsVars =>
        [\A f \in Filters : \A s \in Listed(f) :
           Newer(f, s) =>
             \E later \in Listed(f)' :
               /\ later.id = s.id
               /\ NextOn(f, s.id) # {} => later = s]_stopsVars
  BY StepKeeps DEF StillListed
<1> QED
  BY <1>1, StopsInvariance, PTL DEF StopsSpec, ListedStopsLast
=============================================================================
