-------------------------- MODULE StoreAndForward --------------------------
(***************************************************************************)
(* What the messaging contract asks of a device's offline buffer (Retry,   *)
(* Queue, Offline Rules): a bounded first-in first-out queue that gives up *)
(* its oldest message when it is full and is emptied oldest first.  A      *)
(* message may be sent again when its acknowledgement is lost; a restart   *)
(* loses the buffer.                                                       *)
(*                                                                         *)
(* Messages are numbered in the order they are built; FirmwareQueue        *)
(* implements this specification with a ring buffer.                       *)
(***************************************************************************)
EXTENDS Integers, Sequences

CONSTANT Capacity      \* messages the buffer keeps

VARIABLES
  built,    \* messages built so far
  waiting,  \* messages not yet known to be sent, oldest first
  sent      \* messages the modem accepted, in that order

Init == built = 0 /\ waiting = <<>> /\ sent = <<>>

(* A queue above capacity may give up its oldest message, and no other. *)
Trimmed(q) == IF Len(q) > Capacity THEN {q, Tail(q)} ELSE {q}

(* A new message waits behind the others; at most one is above capacity. *)
Build ==
  /\ Len(waiting) <= Capacity
  /\ built' = built + 1
  /\ waiting' \in Trimmed(Append(waiting, built + 1))
  /\ UNCHANGED sent

GiveUpOldest ==
  /\ waiting' \in Trimmed(waiting)
  /\ UNCHANGED <<built, sent>>

Send ==
  /\ waiting # <<>>
  /\ sent' = Append(sent, Head(waiting))
  /\ waiting' = Tail(waiting)
  /\ UNCHANGED built

(* The acknowledgement is lost: the oldest message stays, or is given up. *)
SendUnacknowledged ==
  /\ waiting # <<>>
  /\ sent' = Append(sent, Head(waiting))
  /\ waiting' \in Trimmed(waiting)
  /\ UNCHANGED built

Restart == waiting' = <<>> /\ UNCHANGED <<built, sent>>

Next == Build \/ GiveUpOldest \/ Send \/ SendUnacknowledged \/ Restart

Spec == Init /\ [][Next]_<<built, waiting, sent>>
=============================================================================
