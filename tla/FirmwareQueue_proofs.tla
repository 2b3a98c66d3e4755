------------------------ MODULE FirmwareQueue_proofs ------------------------
(***************************************************************************)
(* Proofs about FirmwareQueue, for every capacity: TypeOK, SentInOrder,    *)
(* NewestRetained, and that it implements StoreAndForward.                 *)
(*                                                                         *)
(* The inductive invariant, Core, relates the ring to the numbers of the   *)
(* messages: the ring holds consecutive messages ending with the newest    *)
(* one given to it, nothing sent is newer than the oldest of them, and     *)
(* what is older was sent or evicted.  Control relates the place in the    *)
(* code to the message in hand; without it a message could be handed to    *)
(* the ring twice or skipped.                                              *)
(*                                                                         *)
(* For the refinement, the same invariant says what the contract sees:     *)
(* Waiting is the run of the last Pending messages built (Consecutive), so *)
(* every step of the ring is a step of the contract on such runs.          *)
(***************************************************************************)
EXTENDS FirmwareQueue, SequenceTheorems, TLAPS

LEMMA BelowCount ==
  ASSUME NEW c \in Nat, NEW i \in 0 .. c - 1
  PROVE  i \in Nat /\ i < c
  OBVIOUS

LEMMA ModSmall ==
  ASSUME NEW N \in Nat \ {0}, NEW x \in 0 .. N - 1
  PROVE  x % N = x
  OBVIOUS

LEMMA ModOnce ==
  ASSUME NEW N \in Nat \ {0}, NEW x \in N .. 2 * N - 1
  PROVE  x % N = x - N
<1>1. x - N \in 0 .. N - 1
  OBVIOUS
<1> QED
  BY <1>1

(* A position of the ring, without the modulo. *)
Wrap(x) == IF x < Capacity THEN x ELSE x - Capacity

LEMMA WrapIsMod ==
  ASSUME NEW x \in 0 .. 2 * Capacity - 1
  PROVE  x % Capacity = Wrap(x) /\ Wrap(x) \in Index
<1>1. Capacity \in Nat \ {0}
  BY QueueAssumption
<1>2. CASE x < Capacity
  BY <1>1, <1>2, ModSmall DEF Wrap, Index
<1>3. CASE x >= Capacity
  BY <1>1, <1>3, ModOnce DEF Wrap, Index
<1> QED
  BY <1>1, <1>2, <1>3

LEMMA WrapSum ==
  ASSUME NEW h \in Index, NEW i \in Index
  PROVE  (h + i) % Capacity = Wrap(h + i) /\ Wrap(h + i) \in Index
<1>1. Capacity \in Nat \ {0}
  BY QueueAssumption
<1>2. h + i \in 0 .. 2 * Capacity - 1
  BY <1>1 DEF Index
<1> QED
  BY <1>2, WrapIsMod

(* The newest message that was given to the ring. *)
Newest == IF hand = 0 THEN produced ELSE produced - 1

Holds(s, h, c, n) == \A i \in 0 .. c - 1 : s[(h + i) % Capacity] = n - c + 1 + i

Bounded(c, n, q) ==
  \A k \in 1 .. Len(q) : q[k] <= IF c > 0 THEN n - c + 1 ELSE n

Sorted(q) == \A i, j \in 1 .. Len(q) : i < j => q[i] <= q[j]

Gone(c, n, b, q) ==
  \A m \in b + 1 .. n - c :
    m <= n - Capacity \/ \E k \in 1 .. Len(q) : q[k] = m

(* A ring s with head h and count c whose newest message is n, after the   *)
(* messages q were sent; b is the newest message of the boots before.      *)
Core(s, h, c, n, b, q) ==
  /\ s \in [Index -> Nat] /\ h \in Index /\ c \in 0 .. Capacity
  /\ n \in Nat /\ b \in Nat /\ q \in Seq(Nat)
  /\ b + c <= n
  /\ Holds(s, h, c, n)
  /\ Bounded(c, n, q)
  /\ Sorted(q)
  /\ Gone(c, n, b, q)

Control ==
  /\ pc \in PCs
  /\ pc \in {"loop", "flush"} => hand = 0
  /\ pc \in {"flushFirst", "publish"} => hand = produced /\ produced > 0
  /\ pc \in {"flush", "flushFirst"} => count > 0
  /\ pc = "publish" => count = 0

Inv ==
  /\ Core(slots, head, count, Newest, bootMark, sent)
  /\ Control
  /\ produced \in Nat /\ hand \in Nat /\ reboots \in Nat
  /\ connected \in BOOLEAN /\ link \in BOOLEAN /\ session \in BOOLEAN

----------------------------------------------------------------------------
(* The operations of the ring. *)

LEMMA PeekOldest ==
  ASSUME NEW n, NEW b, NEW q, Core(slots, head, count, n, b, q), count > 0
  PROVE  Peek = n - count + 1
<1>1. head % Capacity = head
  BY QueueAssumption, ModSmall DEF Core, Index
<1>2. head + 0 = head /\ 0 \in 0 .. count - 1
  BY QueueAssumption DEF Core, Index
<1>3. slots[(head + 0) % Capacity] = n - count + 1 + 0
  BY <1>2 DEF Core, Holds
<1> QED
  BY <1>1, <1>2, <1>3 DEF Peek, Core

LEMMA SortedAppend ==
  ASSUME NEW q \in Seq(Nat), NEW x \in Nat, Sorted(q),
         \A k \in 1 .. Len(q) : q[k] <= x
  PROVE  Sorted(Append(q, x))
<1> DEFINE r == Append(q, x)
<1>1. /\ Len(r) = Len(q) + 1 /\ Len(q) \in Nat
      /\ \A i \in 1 .. Len(q) : r[i] = q[i]
      /\ r[Len(q) + 1] = x
  BY AppendProperties
<1> HIDE DEF r
<1> SUFFICES ASSUME NEW i \in 1 .. Len(r), NEW j \in 1 .. Len(r), i < j
             PROVE  r[i] <= r[j]
  BY DEF Sorted, r
<1>2. i \in 1 .. Len(q) /\ r[i] = q[i]
  BY <1>1
<1>3. CASE j = Len(q) + 1
  BY <1>1, <1>2, <1>3
<1>4. CASE j \in 1 .. Len(q)
  BY <1>1, <1>2, <1>4 DEF Sorted
<1> QED
  BY <1>1, <1>3, <1>4

(* The oldest message, or a newest one that waits nowhere, is sent (again). *)
LEMMA CoreSend ==
  ASSUME NEW s, NEW h, NEW c, NEW n, NEW b, NEW q, Core(s, h, c, n, b, q),
         NEW x, x = n - c + 1, c > 0
  PROVE  Core(s, h, c, n, b, Append(q, x))
<1> DEFINE r == Append(q, x)
<1>1. n \in Nat /\ c \in Nat /\ b \in Nat /\ q \in Seq(Nat) /\ x \in Nat
      /\ Len(q) \in Nat
  BY QueueAssumption DEF Core
<1>2. /\ r \in Seq(Nat) /\ Len(r) = Len(q) + 1
      /\ \A i \in 1 .. Len(q) : r[i] = q[i]
      /\ r[Len(q) + 1] = x
  BY <1>1, AppendProperties
<1>3. \A k \in 1 .. Len(q) : q[k] \in Nat /\ q[k] <= x
  BY <1>1, ElementOfSeq DEF Core, Bounded
<1> HIDE DEF r
<1>4. Bounded(c, n, r)
  BY <1>1, <1>2, <1>3 DEF Bounded
<1>5. Sorted(r)
  <2>1. Sorted(q)
    BY DEF Core
  <2> QED
    BY <1>1, <1>3, <2>1, SortedAppend DEF r
<1>6. Gone(c, n, b, r)
  <2> SUFFICES ASSUME NEW m \in b + 1 .. n - c, ~(m <= n - Capacity)
               PROVE  \E k \in 1 .. Len(r) : r[k] = m
    BY DEF Gone
  <2>1. PICK k \in 1 .. Len(q) : q[k] = m
    BY DEF Core, Gone
  <2> QED
    BY <1>1, <1>2, <2>1
<1> QED
  BY <1>2, <1>4, <1>5, <1>6 DEF Core, r

(* A message that never waits is sent, with the ring empty. *)
LEMMA CoreSendNew ==
  ASSUME NEW s, NEW h, NEW n, NEW b, NEW q, Core(s, h, 0, n, b, q)
  PROVE  Core(s, h, 0, n + 1, b, Append(q, n + 1))
<1> DEFINE r == Append(q, n + 1)
<1>1. n \in Nat /\ b \in Nat /\ q \in Seq(Nat) /\ Len(q) \in Nat
  BY DEF Core
<1>2. /\ r \in Seq(Nat) /\ Len(r) = Len(q) + 1
      /\ \A i \in 1 .. Len(q) : r[i] = q[i]
      /\ r[Len(q) + 1] = n + 1
  BY <1>1, AppendProperties
<1>3. \A k \in 1 .. Len(q) : q[k] \in Nat /\ q[k] <= n
  BY <1>1, ElementOfSeq DEF Core, Bounded
<1> HIDE DEF r
<1>4. Bounded(0, n + 1, r) /\ Sorted(r)
  <2>1. Sorted(q)
    BY DEF Core
  <2> QED
    BY <1>1, <1>2, <1>3, <2>1, SortedAppend DEF Bounded, r
<1>5. Gone(0, n + 1, b, r)
  <2> SUFFICES ASSUME NEW m \in b + 1 .. (n + 1) - 0,
                      ~(m <= (n + 1) - Capacity)
               PROVE  \E k \in 1 .. Len(r) : r[k] = m
    BY DEF Gone
  <2>1. CASE m = n + 1
    BY <1>1, <1>2, <2>1
  <2>2. CASE m # n + 1
    <3>1. m \in b + 1 .. n - 0 /\ ~(m <= n - Capacity)
      BY <1>1, <2>2, QueueAssumption
    <3>2. PICK k \in 1 .. Len(q) : q[k] = m
      BY <3>1 DEF Core, Gone
    <3> QED
      BY <1>1, <1>2, <3>2
  <2> QED
    BY <2>1, <2>2
<1>6. Holds(s, h, 0, n + 1) /\ b + 0 <= n + 1
  BY <1>1 DEF Core, Holds
<1> QED
  BY <1>1, <1>2, <1>4, <1>5, <1>6 DEF Core, r

(* The oldest message was sent and leaves the ring. *)
LEMMA CorePop ==
  ASSUME NEW n, NEW b, NEW q, Core(slots, head, count, n, b, q), count > 0,
         \E k \in 1 .. Len(q) : q[k] = n - count + 1,
         Pop
  PROVE  Core(slots', head', count', n, b, q) /\ count' = count - 1
<1> DEFINE c == count - 1
<1>1. /\ Capacity \in Nat \ {0} /\ head \in 0 .. Capacity - 1
      /\ count \in 1 .. Capacity /\ n \in Nat /\ b \in Nat /\ q \in Seq(Nat)
      /\ c \in 0 .. Capacity - 1 /\ b + count <= n
      /\ slots \in [Index -> Nat]
  BY QueueAssumption DEF Core, Index
<1>2. slots' = [slots EXCEPT ![head] = 0] /\ head' = Wrap(head + 1) /\ count' = c
  <2>1. head + 1 \in 0 .. 2 * Capacity - 1
    BY <1>1
  <2> QED
    BY <2>1, WrapIsMod DEF Pop
<1>3. slots' \in [Index -> Nat] /\ head' \in Index
  <2>1. Wrap(head + 1) \in Index
    BY <1>1 DEF Wrap, Index
  <2> QED
    BY <1>1, <1>2, <2>1
<1>4. Holds(slots', head', c, n)
  <2> SUFFICES ASSUME NEW i \in 0 .. c - 1
               PROVE  slots'[(head' + i) % Capacity] = n - c + 1 + i
    BY DEF Holds
  <2>0. /\ i \in Index /\ i + 1 \in Index /\ i + 1 \in 0 .. count - 1
        /\ head \in Index
    <3>1. /\ Capacity \in Nat /\ count \in Nat /\ count <= Capacity
          /\ head \in 0 .. Capacity - 1
      BY <1>1
    <3> QED
      BY <3>1 DEF Index
  <2>1. slots[(head + (i + 1)) % Capacity] = n - count + 1 + (i + 1)
    <3>1. Holds(slots, head, count, n)
      BY DEF Core
    <3> QED
      BY <2>0, <3>1 DEF Holds
  <2>2. (head + (i + 1)) % Capacity = Wrap(head + (i + 1))
    BY <2>0, WrapSum
  <2>3. (head' + i) % Capacity = Wrap(head' + i) /\ Wrap(head' + i) \in Index
    BY <1>3, <2>0, WrapSum
  <2>4. Wrap(head' + i) = Wrap(head + (i + 1)) /\ Wrap(head' + i) # head
    BY <1>1, <1>2 DEF Wrap
  <2> QED
    BY <1>1, <1>2, <2>1, <2>2, <2>3, <2>4
<1>5. Bounded(c, n, q)
  <2> SUFFICES ASSUME NEW k \in 1 .. Len(q)
               PROVE  q[k] <= IF c > 0 THEN n - c + 1 ELSE n
    BY DEF Bounded
  <2>1. q[k] \in Nat /\ q[k] <= n - count + 1
    BY <1>1, ElementOfSeq DEF Core, Bounded
  <2> QED
    BY <1>1, <2>1
<1>6. Gone(c, n, b, q)
  <2> SUFFICES ASSUME NEW m \in b + 1 .. n - c, ~(m <= n - Capacity)
               PROVE  \E k \in 1 .. Len(q) : q[k] = m
    BY DEF Gone
  <2>1. CASE m = n - c
    BY <1>1, <2>1
  <2>2. CASE m # n - c
    <3>1. m \in b + 1 .. n - count
      BY <1>1, <2>2
    <3> QED
      BY <3>1 DEF Core, Gone
  <2> QED
    BY <2>1, <2>2
<1> QED
  BY <1>1, <1>2, <1>3, <1>4, <1>5, <1>6 DEF Core

(* A message enters the ring; a full ring evicts its oldest. *)
LEMMA CoreEnqueue ==
  ASSUME NEW n, NEW b, NEW q, Core(slots, head, count, n, b, q), Enqueue(n + 1)
  PROVE  /\ Core(slots', head', count', n + 1, b, q)
         /\ count' > 0
         /\ count = 0 => count' = 1
<1>1. /\ Capacity \in Nat \ {0} /\ head \in 0 .. Capacity - 1
      /\ count \in 0 .. Capacity /\ n \in Nat /\ b \in Nat /\ q \in Seq(Nat)
      /\ b + count <= n
      /\ slots \in [Index -> Nat]
      /\ \A k \in 1 .. Len(q) : q[k] \in Nat
  BY QueueAssumption, ElementOfSeq DEF Core, Index
<1>2. \A i \in 0 .. count - 1 : slots[Wrap(head + i)] = n - count + 1 + i
  <2> SUFFICES ASSUME NEW i \in 0 .. count - 1
               PROVE  slots[Wrap(head + i)] = n - count + 1 + i
    OBVIOUS
  <2>1. (head + i) % Capacity = Wrap(head + i)
    BY <1>1, WrapIsMod
  <2> QED
    BY <2>1 DEF Core, Holds
<1>3. /\ slots' \in [Index -> Nat] /\ head' \in Index
      /\ count' = IF QueueFull THEN count ELSE count + 1
      /\ \A i \in 0 .. count' - 1 :
           slots'[Wrap(head' + i)] = (n + 1) - count' + 1 + i
  <2>1. CASE ~QueueFull
    <3>1. (head + count) % Capacity = Wrap(head + count)
          /\ Wrap(head + count) \in Index
      <4>1. head + count \in 0 .. 2 * Capacity - 1
        BY <1>1, <2>1 DEF QueueFull
      <4> QED
        BY <4>1, WrapIsMod
    <3>2. /\ slots' = [slots EXCEPT ![Wrap(head + count)] = n + 1]
          /\ head' = head /\ count' = count + 1
      BY <2>1, <3>1 DEF Enqueue
    <3>3. ASSUME NEW i \in 0 .. count
          PROVE  slots'[Wrap(head' + i)] = (n + 1) - count' + 1 + i
      <4>1. CASE i = count
        BY <1>1, <3>1, <3>2, <4>1
      <4>2. CASE i # count
        <5>1. Wrap(head + i) # Wrap(head + count) /\ Wrap(head + i) \in Index
          BY <1>1, <2>1, <4>2 DEF Wrap, Index, QueueFull
        <5>2. i \in 0 .. count - 1
          BY <1>1, <4>2
        <5>3. slots[Wrap(head + i)] = n - count + 1 + i
          BY <1>2, <5>2
        <5>4. slots'[Wrap(head' + i)] = slots[Wrap(head + i)]
          BY <1>1, <3>2, <5>1
        <5> QED
          BY <1>1, <3>2, <5>2, <5>3, <5>4
      <4> QED
        BY <4>1, <4>2
    <3> QED
      BY <1>1, <2>1, <3>1, <3>2, <3>3 DEF Index
  <2>2. CASE QueueFull
    <3> DEFINE first == Wrap(head + 1)
               tail == Wrap(first + count - 1)
    <3>1. /\ (head + 1) % Capacity = first /\ first \in Index
      <4>1. head + 1 \in 0 .. 2 * Capacity - 1
        BY <1>1
      <4> QED
        BY <4>1, WrapIsMod
    <3>2. (first + count - 1) % Capacity = tail /\ tail \in Index
      <4>1. first + count - 1 \in 0 .. 2 * Capacity - 1
        BY <1>1, <2>2, <3>1 DEF QueueFull, Index
      <4> HIDE DEF first
      <4> QED
        BY <4>1, WrapIsMod
    <3>3. /\ slots' = [[slots EXCEPT ![head] = 0] EXCEPT ![tail] = n + 1]
          /\ head' = first /\ count' = count
      BY <2>2, <3>1, <3>2 DEF Enqueue
    <3>4. tail = head
      BY <1>1, <2>2 DEF QueueFull, Wrap
    <3>5. ASSUME NEW i \in 0 .. count - 1
          PROVE  slots'[Wrap(first + i)] = (n + 1) - count + 1 + i
      <4>1. CASE i = count - 1
        <5>1. Wrap(first + i) = tail
          BY <1>1, <4>1, <3>1 DEF Index
        <5> QED
          BY <1>1, <3>2, <3>3, <4>1, <5>1
      <4>2. CASE i # count - 1
        <5>1. /\ Wrap(first + i) = Wrap(head + (i + 1))
              /\ Wrap(first + i) # head
              /\ Wrap(first + i) \in Index
          BY <1>1, <2>2, <4>2 DEF Wrap, Index, QueueFull
        <5>2. slots[Wrap(head + (i + 1))] = n - count + 1 + (i + 1)
          <6>1. i + 1 \in 0 .. count - 1
            BY <1>1, <4>2
          <6> QED
            BY <1>2, <6>1
        <5> HIDE DEF first, tail
        <5> QED
          BY <1>1, <3>3, <3>4, <5>1, <5>2
      <4> QED
        BY <4>1, <4>2
    <3> HIDE DEF first, tail
    <3>6. slots' \in [Index -> Nat]
      BY <1>1, <3>2, <3>3
    <3> QED
      BY <2>2, <3>1, <3>3, <3>5, <3>6
  <2> QED
    BY <2>1, <2>2
<1>4. count' \in 1 .. Capacity /\ count' \in Nat
  BY <1>1, <1>3 DEF QueueFull
<1>5. Holds(slots', head', count', n + 1)
  <2>1. ASSUME NEW i, i \in 0 .. count' - 1
        PROVE  slots'[(head' + i) % Capacity] = (n + 1) - count' + 1 + i
    <3>1. i \in Nat /\ i < count'
      BY <1>4, <2>1, BelowCount, Zenon
    <3>2. i \in Index
      BY <1>1, <1>4, <3>1 DEF Index
    <3>3. (head' + i) % Capacity = Wrap(head' + i)
      BY <1>3, <3>2, WrapSum
    <3> QED
      BY <1>3, <2>1, <3>3
  <2> QED
    BY <2>1 DEF Holds
<1>6. Bounded(count', n + 1, q)
  BY <1>1, <1>3, <1>4 DEF Core, Bounded, QueueFull
<1>7. Gone(count', n + 1, b, q)
  <2> SUFFICES ASSUME NEW m \in b + 1 .. (n + 1) - count',
                      ~(m <= (n + 1) - Capacity)
               PROVE  \E k \in 1 .. Len(q) : q[k] = m
    BY DEF Gone
  <2>1. m \in b + 1 .. n - count /\ ~(m <= n - Capacity)
    BY <1>1, <1>3 DEF QueueFull
  <2> QED
    BY <2>1 DEF Core, Gone
<1>8. b + count' <= n + 1 /\ (count = 0 => count' = 1)
  BY <1>1, <1>3 DEF QueueFull
<1> QED
  BY <1>1, <1>3, <1>4, <1>5, <1>6, <1>7, <1>8 DEF Core

----------------------------------------------------------------------------
(* Preservation, one lemma per group of actions. *)

LEMMA InitInv ==
  ASSUME Init
  PROVE  Inv
<1>1. 0 \in Index /\ Capacity \in Nat
  BY QueueAssumption DEF Index
<1>2. slots \in [Index -> Nat]
  BY DEF Init
<1>3. sent = <<>> /\ sent \in Seq(Nat) /\ Len(sent) = 0
  BY DEF Init
<1>4. Core(slots, head, count, 0, 0, sent)
  BY <1>1, <1>2, <1>3 DEF Init, Core, Holds, Bounded, Sorted, Gone
<1> QED
  BY <1>4 DEF Init, Inv, Control, PCs, Newest

(* Steps that touch neither the ring nor what was sent. *)
LEMMA QuietInv ==
  ASSUME Inv,
         NoticeDrop \/ Reconnect \/ StartFlush \/ LinkDown \/ LinkUp
           \/ UNCHANGED vars
  PROVE  Inv'
<1>1. UNCHANGED <<queue, sent, hand, produced, history>>
  BY DEF NoticeDrop, Reconnect, StartFlush, LinkDown, LinkUp, vars
<1>2. Core(slots, head, count, Newest, bootMark, sent)'
  BY <1>1 DEF Inv, Core, Newest, queue, history, Holds, Bounded, Sorted, Gone
<1>3. Control'
  <2>1. CASE StartFlush
    BY <1>1, <2>1
    DEF Inv, Control, StartFlush, QueueEmpty, queue, PCs, Core
  <2>2. CASE pc' = pc
    BY <1>1, <2>2 DEF Inv, Control, queue
  <2> QED
    BY <2>1, <2>2 DEF NoticeDrop, Reconnect, LinkDown, LinkUp, vars
<1>4. connected' \in BOOLEAN /\ link' \in BOOLEAN /\ session' \in BOOLEAN
  BY DEF Inv, NoticeDrop, Reconnect, StartFlush, LinkDown, LinkUp, vars,
         Connect, network
<1> QED
  BY <1>1, <1>2, <1>3, <1>4 DEF Inv, history

LEMMA BuildPublishInv ==
  ASSUME Inv, BuildPublish
  PROVE  Inv'
<1>1. /\ pc = "loop" /\ hand = 0 /\ produced \in Nat
      /\ produced' = produced + 1 /\ hand' = produced + 1
      /\ UNCHANGED <<slots, head, count, sent, link, bootMark, reboots>>
  BY DEF BuildPublish, Inv, Control, queue, history
<1>2. Newest' = Newest
  BY <1>1 DEF Newest
<1>3. Core(slots, head, count, Newest, bootMark, sent)'
  BY <1>1, <1>2 DEF Inv, Core, Holds, Bounded, Sorted, Gone
<1>4. Control'
  <2>1. pc' = IF count = 0 THEN "publish" ELSE "flushFirst"
    BY DEF BuildPublish, QueueEmpty
  <2>2. count \in Nat
    BY DEF Inv, Core
  <2> QED
    BY <1>1, <2>1, <2>2 DEF Control, PCs
<1>5. connected' \in BOOLEAN /\ session' \in BOOLEAN
  BY DEF BuildPublish, Connect, Inv
<1> QED
  BY <1>1, <1>3, <1>4, <1>5 DEF Inv

LEMMA BuildQueueInv ==
  ASSUME Inv, BuildQueue
  PROVE  Inv'
<1>1. /\ pc = "loop" /\ hand = 0 /\ produced \in Nat /\ Newest = produced
      /\ produced' = produced + 1 /\ Enqueue(produced + 1)
      /\ UNCHANGED <<pc, hand, sent, link, bootMark, reboots, connected>>
  BY DEF BuildQueue, CannotConnect, Inv, Control, history, Newest
<1>2. Newest' = produced + 1
  BY <1>1 DEF Newest
<1>3. Core(slots', head', count', produced + 1, bootMark, sent)
  BY <1>1, CoreEnqueue DEF Inv
<1>4. Core(slots, head, count, Newest, bootMark, sent)'
  BY <1>1, <1>2, <1>3 DEF Core, Holds, Bounded, Sorted, Gone
<1>5. Control'
  BY <1>1 DEF Control, Inv
<1>6. session' \in BOOLEAN
  BY DEF BuildQueue, CannotConnect, Inv
<1> QED
  BY <1>1, <1>4, <1>5, <1>6 DEF Inv

LEMMA FlushSendsInv ==
  ASSUME Inv, FlushSends
  PROVE  Inv'
<1> DEFINE q == Append(sent, Peek)
<1>1. /\ pc \in {"flush", "flushFirst"} /\ count > 0 /\ Pop /\ sent' = q
      /\ UNCHANGED <<connected, session, hand, produced, link, bootMark, reboots>>
  BY DEF FlushSends, Accepted, Inv, Control, history
<1>2. Core(slots, head, count, Newest, bootMark, sent)
  BY DEF Inv
<1>3. Peek = Newest - count + 1
  BY <1>1, <1>2, PeekOldest
<1>4. Core(slots, head, count, Newest, bootMark, q)
  BY <1>1, <1>2, <1>3, CoreSend
<1>5. \E k \in 1 .. Len(q) : q[k] = Newest - count + 1
  <2>1. Peek \in Nat /\ sent \in Seq(Nat) /\ Len(sent) \in Nat
    BY <1>1, <1>2, <1>3, QueueAssumption DEF Core
  <2>2. Len(q) = Len(sent) + 1 /\ q[Len(sent) + 1] = Peek
    BY <2>1, AppendProperties
  <2> HIDE DEF q
  <2> QED
    BY <1>3, <2>1, <2>2
<1> HIDE DEF q
<1>6. Core(slots', head', count', Newest, bootMark, q) /\ count' = count - 1
  BY <1>1, <1>4, <1>5, CorePop
<1>7. Newest' = Newest
  BY <1>1 DEF Newest
<1>8. Core(slots, head, count, Newest, bootMark, sent)'
  BY <1>1, <1>6, <1>7 DEF Core, Holds, Bounded, Sorted, Gone
<1>9. Control'
  <2>1. count \in Nat /\ count' = count - 1
    BY <1>2, <1>6 DEF Core
  <2>2. pc' = IF count > 1 THEN pc ELSE IF pc = "flush" THEN "loop" ELSE "publish"
    BY <1>1, <2>1 DEF FlushSends
  <2> QED
    BY <1>1, <2>1, <2>2 DEF Inv, Control, PCs
<1> QED
  BY <1>1, <1>8, <1>9 DEF Inv

(* What a publish that was not acknowledged leaves of the sent messages.   *)
LEMMA NotAcknowledgedCore ==
  ASSUME NEW s, NEW h, NEW c, NEW n, NEW b, Core(s, h, c, n, b, sent), c > 0,
         NEW x, x = n - c + 1, NotAcknowledged(x)
  PROVE  Core(s, h, c, n, b, sent')
<1>1. sent' = sent \/ sent' = Append(sent, x)
  BY DEF NotAcknowledged
<1> QED
  BY <1>1, CoreSend

LEMMA FlushStopsInv ==
  ASSUME Inv, FlushStops
  PROVE  Inv'
<1>1. /\ pc \in {"flush", "flushFirst"} /\ count > 0 /\ NotAcknowledged(Peek)
      /\ pc' = "loop" /\ hand' = 0
      /\ connected' = FALSE /\ session' = session
      /\ UNCHANGED <<produced, link, bootMark, reboots>>
      /\ produced \in Nat
  BY DEF FlushStops, NotAcknowledged, Inv, Control, history
<1>2. Core(slots, head, count, Newest, bootMark, sent)
  BY DEF Inv
<1>3. Peek = Newest - count + 1
  BY <1>1, <1>2, PeekOldest
<1>4. Core(slots, head, count, Newest, bootMark, sent')
  BY <1>1, <1>2, <1>3, NotAcknowledgedCore
<1>5. Newest' = produced
  BY <1>1 DEF Newest
<1>6. Core(slots', head', count', produced, bootMark, sent')
  <2>1. CASE pc = "flush"
    <3>1. Newest = produced /\ UNCHANGED <<slots, head, count>>
      BY <1>1, <2>1 DEF Inv, Control, Newest, FlushStops, queue
    <3> QED
      BY <1>4, <3>1
  <2>2. CASE pc = "flushFirst"
    <3>1. hand = Newest + 1 /\ produced = Newest + 1 /\ Enqueue(hand)
      BY <1>1, <2>2 DEF Inv, Control, Newest, FlushStops
    <3>2. Enqueue(Newest + 1)
      BY <3>1
    <3> QED
      BY <1>4, <3>1, <3>2, CoreEnqueue
  <2> QED
    BY <1>1, <2>1, <2>2
<1>7. Core(slots, head, count, Newest, bootMark, sent)'
  BY <1>1, <1>5, <1>6 DEF Core, Holds, Bounded, Sorted, Gone
<1>8. Control'
  BY <1>1 DEF Control, PCs
<1> QED
  BY <1>1, <1>7, <1>8 DEF Inv

LEMMA PublishInv ==
  ASSUME Inv, PublishSends \/ PublishFails
  PROVE  Inv'
<1>1. /\ pc = "publish" /\ count = 0 /\ hand = produced /\ produced > 0
      /\ pc' = "loop" /\ hand' = 0
      /\ UNCHANGED <<produced, link, bootMark, reboots>>
      /\ produced \in Nat
  BY DEF PublishSends, PublishFails, Inv, Control, history
<1>2. Newest \in Nat /\ produced = Newest + 1 /\ Newest' = produced
  BY <1>1 DEF Newest
<1>3. Core(slots, head, 0, Newest, bootMark, sent)
  BY <1>1 DEF Inv
<1>4. Core(slots', head', count', produced, bootMark, sent')
  <2>1. CASE PublishSends
    <3>1. sent' = Append(sent, Newest + 1) /\ UNCHANGED <<slots, head, count>>
      BY <1>1, <1>2, <2>1 DEF PublishSends, Accepted, queue
    <3> QED
      BY <1>1, <1>2, <1>3, <3>1, CoreSendNew
  <2>2. CASE PublishFails
    <3>1. Enqueue(Newest + 1) /\ NotAcknowledged(Newest + 1)
      BY <1>1, <1>2, <2>2 DEF PublishFails
    <3>2. /\ Core(slots', head', count', Newest + 1, bootMark, sent)
          /\ count' = 1
      BY <1>1, <1>3, <3>1, CoreEnqueue
    <3>3. Newest + 1 = (Newest + 1) - count' + 1 /\ count' > 0
      BY <1>2, <3>2
    <3> QED
      BY <1>2, <3>1, <3>2, <3>3, NotAcknowledgedCore
  <2> QED
    BY <2>1, <2>2
<1>5. Core(slots, head, count, Newest, bootMark, sent)'
  BY <1>1, <1>2, <1>4 DEF Core, Holds, Bounded, Sorted, Gone
<1>6. Control'
  BY <1>1 DEF Control, PCs
<1>7. connected' \in BOOLEAN /\ session' \in BOOLEAN
  BY DEF PublishSends, PublishFails, Accepted, NotAcknowledged, Inv
<1> QED
  BY <1>1, <1>5, <1>6, <1>7 DEF Inv

LEMMA RebootInv ==
  ASSUME Inv, Reboot
  PROVE  Inv'
<1>1. /\ produced \in Nat /\ bootMark' = produced /\ hand' = 0
      /\ slots' = [i \in Index |-> 0] /\ head' = 0 /\ count' = 0
      /\ pc' = "loop" /\ reboots' = reboots + 1
      /\ connected' = FALSE /\ session' = FALSE
      /\ UNCHANGED <<produced, sent, link>>
  BY DEF Reboot, Inv
<1>2. Newest' = produced
  BY <1>1 DEF Newest
<1>3. 0 \in Index /\ Capacity \in Nat /\ sent \in Seq(Nat)
  BY QueueAssumption DEF Index, Inv, Core
<1>4. \A k \in 1 .. Len(sent) : sent[k] <= produced
  <2>1. Newest \in Nat /\ Newest <= produced /\ count \in Nat
    BY <1>1 DEF Newest, Inv, Core
  <2>2. \A k \in 1 .. Len(sent) :
          sent[k] \in Nat /\ sent[k] <= IF count > 0 THEN Newest - count + 1
                                         ELSE Newest
    BY <1>3, ElementOfSeq DEF Inv, Core, Bounded
  <2> QED
    BY <1>1, <2>1, <2>2
<1>5. Sorted(sent)
  BY DEF Inv, Core
<1>6. Core(slots', 0, 0, produced, produced, sent)
  <2>1. slots' \in [Index -> Nat]
    BY <1>1
  <2>2. Holds(slots', 0, 0, produced) /\ Gone(0, produced, produced, sent)
    BY <1>1 DEF Holds, Gone
  <2>3. Bounded(0, produced, sent)
    BY <1>4 DEF Bounded
  <2> QED
    BY <1>1, <1>3, <1>5, <2>1, <2>2, <2>3 DEF Core
<1>7. Core(slots, head, count, Newest, bootMark, sent)'
  BY <1>1, <1>2, <1>6 DEF Core, Holds, Bounded, Sorted, Gone
<1>8. Control'
  BY <1>1 DEF Control, PCs
<1>9. reboots' \in Nat /\ produced' \in Nat /\ hand' \in Nat
  BY <1>1 DEF Inv
<1>10. connected' \in BOOLEAN /\ link' \in BOOLEAN /\ session' \in BOOLEAN
  BY <1>1 DEF Inv
<1> QED
  BY <1>7, <1>8, <1>9, <1>10 DEF Inv

LEMMA NextInv ==
  ASSUME Inv, [Next]_vars
  PROVE  Inv'
  BY QuietInv, BuildPublishInv, BuildQueueInv, FlushSendsInv, FlushStopsInv,
     PublishInv, RebootInv
  DEF Next, Publishing

LEMMA InvInductive == Spec => []Inv
<1>1. Init => Inv
  BY InitInv
<1>2. Inv /\ [Next]_vars => Inv'
  BY NextInv
<1> QED
  BY <1>1, <1>2, PTL DEF Spec

----------------------------------------------------------------------------

(* The indices stay inside the ring through wrap-around and eviction. *)
THEOREM TypeCorrect == Spec => []TypeOK
<1>1. Inv => TypeOK
  BY DEF Inv, Core, Control, TypeOK
<1> QED
  BY <1>1, InvInductive, PTL

(* Messages leave the device in the order they were built, for every       *)
(* capacity and however often publishes and power fail.                    *)
THEOREM SentStaysInOrder == Spec => []SentInOrder
<1>1. Inv => SentInOrder
  BY DEF Inv, Core, Sorted, SentInOrder
<1> QED
  BY <1>1, InvInductive, PTL

(* None of the last Capacity messages built since the boot is ever lost. *)
THEOREM NewestStaysRetained == Spec => []NewestRetained
<1>1. Inv => NewestRetained
  <2> SUFFICES ASSUME Inv, NEW m \in bootMark + 1 .. produced,
                      m > produced - Capacity
               PROVE  Retained(m)
    BY DEF NewestRetained
  <2>1. /\ Capacity \in Nat \ {0} /\ produced \in Nat /\ hand \in Nat
        /\ bootMark \in Nat /\ count \in Nat
        /\ hand = 0 \/ hand = produced
        /\ Newest = IF hand = 0 THEN produced ELSE produced - 1
    BY QueueAssumption DEF Inv, Core, Control, PCs, Newest
  <2>2. CASE m = hand
    BY <2>2 DEF Retained
  <2>3. CASE m # hand /\ m <= Newest - count
    <3>1. m \in bootMark + 1 .. Newest - count /\ ~(m <= Newest - Capacity)
      BY <2>1, <2>3
    <3> QED
      BY <3>1 DEF Retained, Inv, Core, Gone
  <2>4. CASE m # hand /\ m > Newest - count
    <3> DEFINE i == m - (Newest - count + 1)
    <3>1. i \in 0 .. count - 1 /\ Newest - count + 1 + i = m
      BY <2>1, <2>4
    <3>2. slots[(head + i) % Capacity] = Newest - count + 1 + i
      BY <3>1 DEF Inv, Core, Holds
    <3> HIDE DEF i
    <3> QED
      BY <3>1, <3>2 DEF Retained
  <2> QED
    BY <2>1, <2>2, <2>3, <2>4
<1> QED
  BY <1>1, InvInductive, PTL

----------------------------------------------------------------------------
(* The ring with the message in hand is a run of consecutive messages that *)
(* ends with the newest one built; every step is then a step of the        *)
(* contract on such runs.                                                  *)

Consecutive(n, w) == [i \in 1 .. w |-> n - w + i]

Pending == IF hand = 0 THEN count ELSE count + 1

LEMMA ConsecutiveSeq ==
  ASSUME NEW n \in Nat, NEW w \in Nat
  PROVE  /\ Consecutive(n, w) \in Seq(Int) /\ Len(Consecutive(n, w)) = w
         /\ \A i \in 1 .. w : Consecutive(n, w)[i] = n - w + i
         /\ w = 0 => Consecutive(n, w) = <<>>
<1> DEFINE q == Consecutive(n, w)
<1>1. q \in [1 .. w -> Int]
  BY DEF Consecutive
<1>2. q \in Seq(Int)
  BY <1>1, SeqDef
<1>3. Len(q) = w
  BY <1>1, <1>2, LenProperties DEF Consecutive
<1>4. w = 0 => q = <<>>
  BY <1>2, <1>3, EmptySeq
<1> QED
  BY <1>2, <1>3, <1>4 DEF Consecutive

LEMMA ConsecutiveAppend ==
  ASSUME NEW n \in Nat, NEW w \in Nat
  PROVE  Append(Consecutive(n, w), n + 1) = Consecutive(n + 1, w + 1)
<1> DEFINE q == Consecutive(n, w)
           r == Append(q, n + 1)
           t == Consecutive(n + 1, w + 1)
<1>1. /\ q \in Seq(Int) /\ Len(q) = w
      /\ \A i \in 1 .. w : q[i] = n - w + i
  BY ConsecutiveSeq
<1>2. /\ t \in Seq(Int) /\ Len(t) = w + 1
      /\ \A i \in 1 .. w + 1 : t[i] = (n + 1) - (w + 1) + i
  BY ConsecutiveSeq
<1> HIDE DEF q, t
<1>3. /\ r \in Seq(Int) /\ Len(r) = w + 1
      /\ \A i \in 1 .. w : r[i] = q[i]
      /\ r[w + 1] = n + 1
  BY <1>1, AppendProperties
<1> HIDE DEF r
<1>4. \A i \in 1 .. w + 1 : r[i] = t[i]
  BY <1>1, <1>2, <1>3
<1>5. r = t
  BY <1>2, <1>3, <1>4, SeqEqual
<1> QED
  BY <1>5 DEF r, q, t

LEMMA ConsecutiveTail ==
  ASSUME NEW n \in Nat, NEW w \in Nat \ {0}
  PROVE  /\ Consecutive(n, w) # <<>>
         /\ Head(Consecutive(n, w)) = n - w + 1
         /\ Tail(Consecutive(n, w)) = Consecutive(n, w - 1)
<1> DEFINE q == Consecutive(n, w)
           r == Tail(q)
           t == Consecutive(n, w - 1)
<1>1. /\ q \in Seq(Int) /\ Len(q) = w
      /\ \A i \in 1 .. w : q[i] = n - w + i
  BY ConsecutiveSeq
<1>2. /\ t \in Seq(Int) /\ Len(t) = w - 1
      /\ \A i \in 1 .. w - 1 : t[i] = n - (w - 1) + i
  BY ConsecutiveSeq
<1> HIDE DEF q, t
<1>3. q # <<>>
  BY <1>1
<1>4. /\ Head(q) = q[1]
      /\ r \in Seq(Int) /\ Len(r) = w - 1
      /\ \A i \in 1 .. w - 1 : r[i] = q[i + 1]
  BY <1>1, <1>3, HeadTailProperties
<1> HIDE DEF r
<1>5. \A i \in 1 .. w - 1 : r[i] = t[i]
  BY <1>1, <1>2, <1>4
<1>6. r = t
  BY <1>2, <1>4, <1>5, SeqEqual
<1>7. Head(q) = n - w + 1
  BY <1>1, <1>4
<1> QED
  BY <1>3, <1>6, <1>7 DEF r, q, t

(* In terms of Consecutive, what Trimmed offers. *)
LEMMA ConsecutiveTrimmed ==
  ASSUME NEW n \in Nat, NEW w \in Nat
  PROVE  /\ Consecutive(n, w) \in Buffer!Trimmed(Consecutive(n, w))
         /\ w > Capacity =>
              Consecutive(n, w - 1) \in Buffer!Trimmed(Consecutive(n, w))
<1>1. Len(Consecutive(n, w)) = w
  BY ConsecutiveSeq
<1>2. ASSUME w > Capacity
      PROVE  Tail(Consecutive(n, w)) = Consecutive(n, w - 1)
  <2>1. w \in Nat \ {0}
    BY <1>2, QueueAssumption
  <2> QED
    BY <2>1, ConsecutiveTail
<1> QED
  BY <1>1, <1>2 DEF Buffer!Trimmed

LEMMA WaitingIsConsecutive ==
  Inv => /\ Waiting = Consecutive(produced, Pending)
         /\ produced \in Nat /\ Pending \in 0 .. Capacity + 1
<1> SUFFICES ASSUME Inv
             PROVE  /\ Waiting = Consecutive(produced, Pending)
                    /\ produced \in Nat /\ Pending \in 0 .. Capacity + 1
  OBVIOUS
<1>1. /\ count \in 0 .. Capacity /\ Newest \in Nat /\ produced \in Nat
      /\ hand = 0 \/ hand = produced
      /\ Capacity \in Nat
  BY QueueAssumption DEF Inv, Core, Control, PCs
<1>2. Ring = Consecutive(Newest, count)
  <2>1. ASSUME NEW i \in 1 .. count
        PROVE  slots[(head + i - 1) % Capacity] = Newest - count + i
    <3>1. i - 1 \in 0 .. count - 1 /\ head \in Int
      BY <1>1 DEF Inv, Core, Index
    <3>2. slots[(head + (i - 1)) % Capacity] = Newest - count + 1 + (i - 1)
      BY <3>1 DEF Inv, Core, Holds
    <3>3. head + (i - 1) = head + i - 1
          /\ Newest - count + 1 + (i - 1) = Newest - count + i
      BY <1>1, <3>1
    <3> QED
      BY <3>2, <3>3
  <2> QED
    BY <2>1 DEF Ring, Consecutive
<1>3. CASE hand = 0
  BY <1>1, <1>2, <1>3 DEF Waiting, Pending, Newest
<1>4. CASE hand # 0
  <2>1. hand = produced /\ produced = Newest + 1
    BY <1>1, <1>4 DEF Newest
  <2>2. Append(Consecutive(Newest, count), Newest + 1)
          = Consecutive(Newest + 1, count + 1)
    <3>1. count \in Nat
      BY <1>1
    <3> QED
      BY <1>1, <3>1, ConsecutiveAppend
  <2>3. Waiting = Append(Consecutive(Newest, count), Newest + 1)
    BY <1>2, <1>4, <2>1 DEF Waiting
  <2> QED
    BY <1>1, <1>4, <2>1, <2>2, <2>3 DEF Pending
<1> QED
  BY <1>3, <1>4

LEMMA NextWaitingIsConsecutive ==
  ASSUME Inv'
  PROVE  /\ Waiting' = Consecutive(produced', Pending')
         /\ produced' \in Nat /\ Pending' \in 0 .. Capacity + 1
<1>1. Inv' => (/\ Waiting = Consecutive(produced, Pending)
               /\ produced \in Nat /\ Pending \in 0 .. Capacity + 1)'
  BY WaitingIsConsecutive, PTL
<1> QED
  BY <1>1

----------------------------------------------------------------------------
(* The steps of the contract, for runs of consecutive messages. *)

LEMMA BuildStep ==
  ASSUME Inv, Inv', Pending <= Capacity,
         produced' = produced + 1, sent' = sent,
         \/ Pending' = Pending + 1
         \/ Pending' = Pending /\ Pending = Capacity
  PROVE  Buffer!Build
<1> DEFINE q == Consecutive(produced, Pending)
           r == Consecutive(produced + 1, Pending + 1)
           t == Consecutive(produced + 1, Pending)
<1>1. /\ Waiting = q /\ produced \in Nat /\ Pending \in Nat
      /\ Capacity \in Nat
  BY WaitingIsConsecutive, QueueAssumption
<1>2. Waiting' = r \/ (Waiting' = t /\ Pending = Capacity)
  BY NextWaitingIsConsecutive
<1>3. Len(q) = Pending
  BY <1>1, ConsecutiveSeq
<1>4. Append(q, produced + 1) = r
  BY <1>1, ConsecutiveAppend
<1>5. r \in Buffer!Trimmed(r) /\ (Pending = Capacity => t \in Buffer!Trimmed(r))
  <2>1. produced + 1 \in Nat /\ Pending + 1 \in Nat /\ (Pending + 1) - 1 = Pending
    BY <1>1
  <2>2. Pending = Capacity => Pending + 1 > Capacity
    BY <1>1
  <2> QED
    BY <2>1, <2>2, ConsecutiveTrimmed
<1> HIDE DEF q, r, t
<1>6. Len(Waiting) <= Capacity
  BY <1>1, <1>3
<1>7. Waiting' \in Buffer!Trimmed(Append(Waiting, produced + 1))
  BY <1>1, <1>2, <1>4, <1>5
<1> QED
  BY <1>6, <1>7 DEF Buffer!Build

LEMMA SendStep ==
  ASSUME Inv, Inv', Pending > 0, produced' = produced,
         Pending' = Pending - 1,
         sent' = Append(sent, produced - Pending + 1)
  PROVE  Buffer!Send
<1>1. /\ Waiting = Consecutive(produced, Pending) /\ produced \in Nat
      /\ Pending \in Nat \ {0}
      /\ Waiting' = Consecutive(produced, Pending - 1)
  BY WaitingIsConsecutive, NextWaitingIsConsecutive, QueueAssumption
<1>2. /\ Waiting # <<>> /\ Head(Waiting) = produced - Pending + 1
      /\ Tail(Waiting) = Waiting'
  BY <1>1, ConsecutiveTail
<1> QED
  BY <1>2 DEF Buffer!Send

(* A publish that is not acknowledged: the modem took the oldest message   *)
(* or not, and the ring gives it up when it is full.                       *)
LEMMA FailedStep ==
  ASSUME Inv, Inv', Pending > 0, produced' = produced,
         \/ sent' = sent
         \/ sent' = Append(sent, produced - Pending + 1),
         \/ Pending' = Pending
         \/ Pending' = Pending - 1 /\ Pending > Capacity
  PROVE  \/ Buffer!GiveUpOldest \/ Buffer!SendUnacknowledged
<1>1. /\ Waiting = Consecutive(produced, Pending) /\ produced \in Nat
      /\ Pending \in Nat \ {0}
      /\ \/ Waiting' = Consecutive(produced, Pending)
         \/ Waiting' = Consecutive(produced, Pending - 1) /\ Pending > Capacity
  BY WaitingIsConsecutive, NextWaitingIsConsecutive, QueueAssumption
<1>2. /\ Waiting # <<>> /\ Head(Waiting) = produced - Pending + 1
  BY <1>1, ConsecutiveTail
<1>3. Waiting' \in Buffer!Trimmed(Waiting)
  BY <1>1, ConsecutiveTrimmed
<1> QED
  BY <1>2, <1>3 DEF Buffer!GiveUpOldest, Buffer!SendUnacknowledged

LEMMA StutterStep ==
  ASSUME Inv, Inv', produced' = produced, Pending' = Pending, sent' = sent
  PROVE  UNCHANGED <<produced, Waiting, sent>>
  BY WaitingIsConsecutive, NextWaitingIsConsecutive

(* How a message entering the ring changes its length. *)
LEMMA EnqueueCount ==
  ASSUME NEW m, Enqueue(m)
  PROVE  count' = IF count = Capacity THEN count ELSE count + 1
  BY DEF Enqueue, QueueFull

LEMMA OldestInRing ==
  ASSUME Inv, pc \in {"flush", "flushFirst"}
  PROVE  /\ Peek = produced - Pending + 1 /\ count \in 1 .. Capacity
         /\ produced \in Nat /\ Capacity \in Nat \ {0}
         /\ pc = "flush" => hand = 0
         /\ pc = "flushFirst" => hand # 0
<1>1. /\ count \in 1 .. Capacity /\ produced \in Nat /\ Newest \in Nat
      /\ Capacity \in Nat \ {0}
      /\ hand = 0 \/ (hand = produced /\ hand # 0)
      /\ pc = "flush" => hand = 0
      /\ pc = "flushFirst" => hand # 0
  BY QueueAssumption DEF Inv, Core, Control, PCs
<1>2. Peek = Newest - count + 1
  BY <1>1, PeekOldest DEF Inv
<1>3. Newest - count = produced - Pending
  BY <1>1 DEF Newest, Pending
<1> QED
  BY <1>1, <1>2, <1>3

LEMMA BufferNext ==
  ASSUME Inv, [Next]_vars
  PROVE  Buffer!Next \/ UNCHANGED <<produced, Waiting, sent>>
<1>1. Inv'
  BY NextInv
<1>2. Pending \in Nat /\ count \in 0 .. Capacity /\ Capacity \in Nat \ {0}
      /\ produced \in Nat
  BY QueueAssumption DEF Inv, Core, Pending
<1>3. CASE NoticeDrop \/ Reconnect \/ StartFlush \/ LinkDown \/ LinkUp
             \/ UNCHANGED vars
  <2>1. UNCHANGED <<produced, hand, count, sent>>
    BY <1>3 DEF NoticeDrop, Reconnect, StartFlush, LinkDown, LinkUp, vars, queue
  <2>2. Pending' = Pending
    BY <2>1 DEF Pending
  <2> QED
    BY <1>1, <2>1, <2>2, StutterStep
<1>4. CASE BuildPublish
  <2>1. /\ hand = 0 /\ hand' = produced + 1 /\ produced' = produced + 1
        /\ count' = count /\ sent' = sent
    BY <1>4 DEF BuildPublish, Inv, Control, queue
  <2>2. Pending <= Capacity /\ Pending' = Pending + 1
    BY <1>2, <2>1 DEF Pending
  <2>3. Buffer!Build
    BY <1>1, <2>1, <2>2, BuildStep
  <2> QED
    BY <2>3 DEF Buffer!Next
<1>5. CASE BuildQueue
  <2>1. /\ hand = 0 /\ hand' = hand /\ produced' = produced + 1
        /\ sent' = sent /\ Enqueue(produced + 1)
    BY <1>5 DEF BuildQueue, Inv, Control
  <2>2. count' = IF count = Capacity THEN count ELSE count + 1
    BY <2>1, EnqueueCount
  <2>3. /\ Pending <= Capacity
        /\ Pending' = Pending + 1 \/ (Pending' = Pending /\ Pending = Capacity)
    BY <1>2, <2>1, <2>2 DEF Pending
  <2>4. Buffer!Build
    BY <1>1, <2>1, <2>3, BuildStep
  <2> QED
    BY <2>4 DEF Buffer!Next
<1>6. CASE FlushSends
  <2>1. /\ pc \in {"flush", "flushFirst"} /\ count' = count - 1
        /\ sent' = Append(sent, Peek) /\ produced' = produced /\ hand' = hand
    BY <1>6 DEF FlushSends, Accepted, Pop
  <2>2. Peek = produced - Pending + 1 /\ count \in 1 .. Capacity
    BY <2>1, OldestInRing
  <2>3. Pending > 0 /\ Pending' = Pending - 1
    BY <1>2, <2>1, <2>2 DEF Pending
  <2>4. Buffer!Send
    BY <1>1, <2>1, <2>2, <2>3, SendStep
  <2> QED
    BY <2>4 DEF Buffer!Next
<1>7. CASE FlushStops
  <2>1. /\ pc \in {"flush", "flushFirst"} /\ hand' = 0 /\ produced' = produced
        /\ sent' = sent \/ sent' = Append(sent, Peek)
        /\ pc = "flush" => count' = count
        /\ pc = "flushFirst" => Enqueue(hand)
    BY <1>7 DEF FlushStops, NotAcknowledged, queue
  <2>2. /\ Peek = produced - Pending + 1 /\ count \in 1 .. Capacity
        /\ pc = "flush" => hand = 0
        /\ pc = "flushFirst" => hand # 0
    BY <2>1, OldestInRing
  <2>3. /\ Pending > 0
        /\ Pending' = Pending \/ (Pending' = Pending - 1 /\ Pending > Capacity)
    <3>1. CASE pc = "flush"
      BY <1>2, <2>1, <2>2, <3>1 DEF Pending
    <3>2. CASE pc = "flushFirst"
      <4>1. count' = IF count = Capacity THEN count ELSE count + 1
        BY <2>1, <3>2, EnqueueCount
      <4> QED
        BY <1>2, <2>1, <2>2, <3>2, <4>1 DEF Pending
    <3> QED
      BY <2>1, <3>1, <3>2
  <2>4. Buffer!GiveUpOldest \/ Buffer!SendUnacknowledged
    BY <1>1, <2>1, <2>2, <2>3, FailedStep
  <2> QED
    BY <2>4 DEF Buffer!Next
<1>8. CASE PublishSends \/ PublishFails
  <2>1. /\ hand = produced /\ hand # 0 /\ count = 0
        /\ hand' = 0 /\ produced' = produced
    BY <1>8 DEF PublishSends, PublishFails, Inv, Control
  <2>2. Pending = 1 /\ hand = produced - Pending + 1
    BY <1>2, <2>1 DEF Pending
  <2>3. CASE PublishSends
    <3>1. count' = count /\ sent' = Append(sent, hand)
      BY <2>3 DEF PublishSends, Accepted, queue
    <3>2. Pending' = Pending - 1
      BY <2>1, <2>2, <3>1 DEF Pending
    <3>3. Buffer!Send
      BY <1>1, <2>1, <2>2, <3>1, <3>2, SendStep
    <3> QED
      BY <3>3 DEF Buffer!Next
  <2>4. CASE PublishFails
    <3>1. Enqueue(hand) /\ (sent' = sent \/ sent' = Append(sent, hand))
      BY <2>4 DEF PublishFails, NotAcknowledged
    <3>2. Pending' = Pending
      <4>1. count' = IF count = Capacity THEN count ELSE count + 1
        BY <3>1, EnqueueCount
      <4> QED
        BY <1>2, <2>1, <2>2, <4>1 DEF Pending
    <3>3. Buffer!GiveUpOldest \/ Buffer!SendUnacknowledged
      BY <1>1, <2>1, <2>2, <3>1, <3>2, FailedStep
    <3> QED
      BY <3>3 DEF Buffer!Next
  <2> QED
    BY <1>8, <2>3, <2>4
<1>9. CASE Reboot
  <2>1. /\ count' = 0 /\ hand' = 0 /\ produced' = produced /\ sent' = sent
    BY <1>9 DEF Reboot
  <2>2. Pending' = 0
    BY <2>1 DEF Pending
  <2>3. Waiting' = <<>>
    BY <1>1, <1>2, <2>1, <2>2, NextWaitingIsConsecutive, ConsecutiveSeq
  <2>4. Buffer!Restart
    BY <2>1, <2>3 DEF Buffer!Restart
  <2> QED
    BY <2>4 DEF Buffer!Next
<1> QED
  BY <1>3, <1>4, <1>5, <1>6, <1>7, <1>8, <1>9 DEF Next, Publishing

(* The ring buffer, with its wrap-around, its evictions, its interrupted   *)
(* flushes and its power cycles, implements the bounded first-in first-out *)
(* queue that the messaging contract asks for, for every capacity.         *)
THEOREM ImplementsContract == Spec => StoreAndForwardSpec
<1>1. Init => Buffer!Init
  <2> SUFFICES ASSUME Init
               PROVE  Buffer!Init
    OBVIOUS
  <2>1. Pending = 0 /\ produced = 0 /\ sent = <<>>
    BY DEF Init, Pending
  <2>2. Waiting = <<>>
    BY <2>1, InitInv, WaitingIsConsecutive, ConsecutiveSeq
  <2> QED
    BY <2>1, <2>2 DEF Buffer!Init
<1>2. Inv /\ [Next]_vars => [Buffer!Next]_<<produced, Waiting, sent>>
  BY BufferNext
<1> QED
  BY <1>1, <1>2, InvInductive, PTL DEF Spec, StoreAndForwardSpec, Buffer!Spec
=============================================================================
