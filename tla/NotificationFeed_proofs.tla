------------------------ MODULE NotificationFeed_proofs ------------------------
(***************************************************************************)
(* Proofs about NotificationFeed, for any number of users, colleges,       *)
(* notifications and requests: the list stays in scope (ScopedList), and   *)
(* is up to date once nothing is under way (CaughtUp).                     *)
(*                                                                         *)
(* CatchUpInv says why.  Page is the first page of a list; what is on the  *)
(* page of a view stays on it until newer ones push it off, and never comes *)
(* back.  Answers that can still be taken keep what the store lists and is *)
(* still on the page (Grows): so do the answers for one view, in the order *)
(* of their numbers, and an answer that is overtaken counts as missed.     *)
(* What the store lacks of the page is announced by an event, or will be   *)
(* brought by a request that is under way (Coming).  So in the end the     *)
(* store lists the whole page, and it lists nothing else because nothing   *)
(* in it has a page of newer ones before it (Short).                       *)
(***************************************************************************)
EXTENDS NotificationFeed, FiniteSetTheorems, SequenceTheorems, TLAPS

Phases == {"none", "patch", "patched", "get", "answered"}
Kinds == {None, "reset", "refresh", "load", "markAsRead", "markAllAsRead"}
Call == [phase : Phases, kind : Kinds, by : Users \cup {None},
         college : Colleges \cup {None}, note : Nat,
         list : SUBSET Nat, read : SUBSET Nat, number : Nat]
Store == [list : SUBSET Nat, read : SUBSET Nat, unreadCount : Nat, toasts : Seq(Nat),
          isLoaded : BOOLEAN]

Answered(q) == calls[q].phase = "answered"

(* A request to mark a notification is for one that its user may read, and *)
(* once it is served the notification is read.                             *)
Marks(call) ==
  /\ call.kind = "markAsRead" /\ call.phase = "patch" => MayRead(call.by, call.note)
  /\ call.kind = "markAsRead" /\ call.phase \in {"patched", "get", "answered"}
       => call.note \in read

(* No notification of a list comes after a page of newer ones.             *)
Short(list) == \A j \in list : Cardinality({i \in list : i > j}) < PageSize

(* An answer holds a page of what its user and college may see.            *)
Holds(call) ==
  /\ call.number <= answers
  /\ call.read \subseteq read
  /\ call.list \subseteq Scope(call)
  /\ Short(call.list)

TypeInv ==
  /\ notes \in [Ids -> Colleges \cup {None}] /\ read \subseteq Created /\ events \in Nat
  /\ user \in Users \cup {None} /\ selected \in Colleges \cup {None}
  /\ store \in Store /\ store.list \subseteq Created /\ ToSet(store.toasts) \subseteq Created
  /\ calls \in [Calls -> Call] /\ answers \in Nat /\ latest \in Nat
  /\ missed \in BOOLEAN

CallInv ==
  /\ \A q \in Calls : Marks(calls[q])
  /\ \A q \in Calls : Answered(q) => Holds(calls[q])
  /\ \A q, r \in Calls :
       q # r /\ Answered(q) /\ Answered(r) =>
         /\ calls[q].number # calls[r].number
         /\ /\ calls[q].by = calls[r].by /\ calls[q].college = calls[r].college
            /\ calls[q].number < calls[r].number
            => calls[q].list \cap Page(Scope(calls[r])) \subseteq calls[r].list

(* A page that has shown all it was to show.                               *)
Current == Settled /\ user # None /\ ~missed

Visible == Filtered({i \in Ids : MayRead(user, i)})

Ours(call) == call.by = user /\ call.college = View.college

Grows(q) ==
  Answered(q) /\ Ours(calls[q]) /\ calls[q].number >= latest =>
    store.list \cap Page(Visible) \subseteq Filtered(calls[q].list)

Brings(q, i) ==
  /\ calls[q].kind \in {"reset", "refresh", "load"}
  /\ \/ calls[q].phase = "get"
     \/ Answered(q) /\ (Ours(calls[q]) => i \in calls[q].list)

Coming == \A i \in Page(Visible) \ store.list : \E q \in Calls : Brings(q, i)

CatchUpInv ==
  /\ store.read \subseteq read
  /\ Current =>
       /\ store.list \subseteq Visible /\ Short(store.list)
       /\ \A q \in Calls : Grows(q)
       /\ events = 0 => Coming
       /\ store.unreadCount = Unread(store.list, store.read)

FeedInv == TypeInv /\ ScopedList /\ CallInv /\ CatchUpInv

----------------------------------------------------------------------------
(* Sequences. *)

LEMMA IsSeq ==
  ASSUME NEW X, NEW n \in Nat, NEW s \in [1 .. n -> X]
  PROVE  s \in Seq(X)
BY SeqDef

LEMMA SeqWithin ==
  ASSUME NEW Y, NEW s \in Seq(Y), NEW X
  PROVE  ToSet(s) \subseteq X <=> s \in Seq(X)
<1>1. s \in [1 .. Len(s) -> Y] /\ Len(s) \in Nat /\ DOMAIN s = 1 .. Len(s)
  BY LenProperties
<1>2. ASSUME ToSet(s) \subseteq X PROVE s \in Seq(X)
  <2>1. \A i \in 1 .. Len(s) : s[i] \in X
    BY <1>1, <1>2 DEF ToSet
  <2>2. s \in [1 .. Len(s) -> X]
    BY <1>1, <2>1
  <2> QED
    BY <1>1, <2>2, IsSeq
<1>3. ASSUME s \in Seq(X) PROVE ToSet(s) \subseteq X
  BY <1>3, LenProperties DEF ToSet
<1> QED
  BY <1>2, <1>3

(* Each place of Ascending is taken: the ranks of n numbers are 1 .. n.    *)
LEMMA AscendingWithin ==
  ASSUME NEW S \in SUBSET Nat, IsFiniteSet(S)
  PROVE  /\ Ascending(S) \in [1 .. Cardinality(S) -> S]
         /\ Ascending(S) \in Seq(S)
         /\ \A k \in 1 .. Cardinality(S) :
              Cardinality({j \in S : j <= Ascending(S)[k]}) = k
<1> DEFINE n == Cardinality(S)
           Upto(i) == {j \in S : j <= i}
           rank == [i \in S |-> Cardinality(Upto(i))]
<1>1. n \in Nat
  BY FS_CardinalityType
<1>2. ASSUME NEW i \in S PROVE Cardinality(Upto(i)) \in 1 .. n
  <2>1. IsFiniteSet(Upto(i)) /\ Cardinality(Upto(i)) <= n
    <3>1. Upto(i) \in SUBSET S
      OBVIOUS
    <3> QED
      BY <3>1, FS_Subset
  <2>2. Cardinality(Upto(i)) \in Nat /\ Cardinality(Upto(i)) # 0
    BY <2>1, FS_CardinalityType, FS_EmptySet
  <2> QED
    BY <1>1, <2>1, <2>2
<1>3. ASSUME NEW i \in S, NEW k \in S, i < k
      PROVE  Cardinality(Upto(i)) # Cardinality(Upto(k))
  <2>1. Upto(k) \subseteq S /\ Upto(i) \subseteq Upto(k)
    <3>1. Upto(k) \subseteq S
      OBVIOUS
    <3>2. \A j \in S : j <= i => j <= k
      BY <1>3
    <3> QED
      BY <3>1, <3>2
  <2>2. k \in Upto(k) /\ k \notin Upto(i)
    BY <1>3
  <2>3. IsFiniteSet(Upto(k))
    BY <2>1, FS_Subset
  <2> HIDE DEF Upto
  <2> QED
    BY <2>1, <2>2, <2>3, FS_Subset
<1>4. rank \in Injection(S, 1 .. n)
  <2>1. rank \in [S -> 1 .. n]
    BY <1>2
  <2>2. \A i, k \in S : rank[i] = rank[k] => i = k
    BY <1>3
  <2> QED
    BY <2>1, <2>2 DEF Injection, IsInjective
<1>5. rank \in Surjection(S, 1 .. n)
  <2>1. IsFiniteSet(1 .. n) /\ Cardinality(1 .. n) = n
    BY <1>1, FS_Interval
  <2> QED
    BY <1>4, <2>1, FS_Injection
<1>6. \A k \in 1 .. n : \E i \in S : Cardinality(Upto(i)) = k
  BY <1>5 DEF Surjection
<1>7. /\ Ascending(S) \in [1 .. n -> S]
      /\ \A k \in 1 .. n : Cardinality({j \in S : j <= Ascending(S)[k]}) = k
  BY <1>6 DEF Ascending
<1> QED
  BY <1>1, <1>7, IsSeq

LEMMA NewestWithin ==
  ASSUME NEW S \in SUBSET Nat, IsFiniteSet(S)
  PROVE  Newest(S) \in Seq(S)
<1>1. Ascending(S) \in Seq(S)
  BY AscendingWithin
<1>2. /\ Len(Ascending(S)) \in Nat
      /\ \A i \in 1 .. Len(Ascending(S)) : Ascending(S)[i] \in S
  BY <1>1, LenProperties, ElementOfSeq
<1>3. Newest(S) \in [1 .. Len(Ascending(S)) -> S]
  BY <1>2 DEF Newest, Reverse
<1> QED
  BY <1>2, <1>3, IsSeq

LEMMA AtWithin ==
  ASSUME NEW X, NEW s \in Seq(X), NEW places \in SUBSET DOMAIN s
  PROVE  At(s, places) \in Seq(X)
<1>1. DOMAIN s = 1 .. Len(s) /\ Len(s) \in Nat /\ \A i \in DOMAIN s : s[i] \in X
  BY LenProperties, ElementOfSeq
<1>2. IsFiniteSet(places) /\ places \in SUBSET Nat
  <2>1. IsFiniteSet(1 .. Len(s))
    BY <1>1, FS_Interval
  <2>2. places \in SUBSET (1 .. Len(s))
    BY <1>1
  <2> QED
    BY <1>1, <2>1, <2>2, FS_Subset
<1>3. Ascending(places) \in [1 .. Cardinality(places) -> places]
  BY <1>2, AscendingWithin
<1>4. Cardinality(places) \in Nat
  BY <1>2, FS_CardinalityType
<1>5. At(s, places) \in [1 .. Cardinality(places) -> X]
  BY <1>1, <1>3 DEF At
<1> QED
  BY <1>4, <1>5, IsSeq
----------------------------------------------------------------------------
(* Pages. *)

(* A longer list pushes notifications off the page, and brings none back.  *)
LEMMA PageShrinks ==
  ASSUME NEW T \in SUBSET Nat, IsFiniteSet(T), NEW S \in SUBSET T
  PROVE  S \cap Page(T) \subseteq Page(S)
<1>1. ASSUME NEW i \in S, Cardinality({j \in T : j > i}) < PageSize
      PROVE  Cardinality({j \in S : j > i}) < PageSize
  <2> DEFINE A == {j \in S : j > i}
             B == {j \in T : j > i}
  <2>1. B \in SUBSET T /\ A \in SUBSET B
    OBVIOUS
  <2>2. IsFiniteSet(B)
    BY <2>1, FS_Subset
  <2>3. Cardinality(A) <= Cardinality(B)
    <3> HIDE DEF A, B
    <3> QED
      BY <2>1, <2>2, FS_Subset
  <2>4. IsFiniteSet(A) /\ Cardinality(A) \in Nat /\ Cardinality(B) \in Nat
    <3> HIDE DEF A, B
    <3> QED
      BY <2>1, <2>2, FS_Subset, FS_CardinalityType
  <2>5. Cardinality(B) < PageSize
    BY <1>1
  <2> HIDE DEF A, B
  <2>6. Cardinality(A) < PageSize
    BY <2>3, <2>4, <2>5, FeedAssumption
  <2> QED
    BY <2>6 DEF A
<1> QED
  BY <1>1 DEF Page

LEMMA ShortWithin ==
  ASSUME NEW L \in SUBSET Nat, IsFiniteSet(L), Short(L), NEW K \in SUBSET L
  PROVE  Short(K)
<1>1. K \cap Page(L) = K
  BY DEF Page, Short
<1>2. K \subseteq Page(K)
  BY <1>1, PageShrinks
<1> QED
  BY <1>2 DEF Page, Short

LEMMA PageIsShort ==
  ASSUME NEW L \in SUBSET Nat, IsFiniteSet(L)
  PROVE  Page(L) \subseteq L /\ Short(Page(L))
<1>1. Page(L) \in SUBSET L
  BY DEF Page
<1>2. Page(L) \subseteq Page(Page(L))
  BY <1>1, PageShrinks
<1> QED
  BY <1>1, <1>2 DEF Page, Short

(* There is a page of any list that is long enough: its last places.       *)
LEMMA PageFull ==
  ASSUME NEW W \in SUBSET Nat, IsFiniteSet(W), Cardinality(W) >= PageSize
  PROVE  Cardinality(Page(W)) >= PageSize
<1> DEFINE n == Cardinality(W)
           A == Ascending(W)
           last == n - PageSize + 1 .. n
           f == [k \in last |-> A[k]]
<1>1. n \in Nat /\ PageSize \in Nat \ {0} /\ n >= PageSize
  BY FS_CardinalityType, FeedAssumption
<1>2. /\ A \in [1 .. n -> W]
      /\ \A k \in 1 .. n : Cardinality({j \in W : j <= A[k]}) = k
  BY AscendingWithin
<1> HIDE DEF A
<1>3. last \subseteq 1 .. n
  <2> HIDE DEF n
  <2> QED
    BY <1>1
<1>4. ASSUME NEW k \in last PROVE A[k] \in Page(W)
  <2> DEFINE below == {j \in W : j <= A[k]}
             above == {j \in W : j > A[k]}
  <2>1. k \in 1 .. n /\ A[k] \in W /\ A[k] \in Nat /\ Cardinality(below) = k
    BY <1>2, <1>3, <1>4
  <2>2. above = W \ below /\ W \cap below = below
    <3>1. ASSUME NEW j \in W PROVE j > A[k] <=> ~(j <= A[k])
      BY <2>1
    <3> QED
      BY <3>1
  <2>3. Cardinality(above) = n - k
    <3> HIDE DEF above, below
    <3> QED
      BY <2>1, <2>2, FS_Difference
  <2>4. Cardinality(above) < PageSize
    <3>1. k \in Nat /\ k > n - PageSize
      <4> HIDE DEF n
      <4> QED
        BY <1>1, <1>4
    <3> HIDE DEF n, above
    <3> QED
      BY <1>1, <2>3, <3>1
  <2> QED
    BY <2>1, <2>4 DEF Page
<1>5. \A k, m \in last : A[k] = A[m] => k = m
  <2> HIDE DEF last, n
  <2> SUFFICES ASSUME NEW k \in last, NEW m \in last, A[k] = A[m] PROVE k = m
    OBVIOUS
  <2>1. Cardinality({j \in W : j <= A[k]}) = k /\ Cardinality({j \in W : j <= A[m]}) = m
    BY <1>2, <1>3
  <2> QED
    BY <2>1
<1>6. f \in Injection(last, Page(W))
  <2> HIDE DEF last
  <2> QED
    BY <1>4, <1>5 DEF Injection, IsInjective
<1>7. IsFiniteSet(Page(W)) /\ Cardinality(Page(W)) \in Nat
  <2>1. Page(W) \in SUBSET W
    BY DEF Page
  <2> QED
    BY <2>1, FS_Subset, FS_CardinalityType
<1>8. Cardinality(last) <= Cardinality(Page(W))
  <2> HIDE DEF last, f
  <2> QED
    BY <1>6, <1>7, FS_Injection
<1>9. Cardinality(last) = PageSize
  <2> HIDE DEF n
  <2>1. n - PageSize + 1 \in Int /\ n \in Int /\ ~(n - PageSize + 1 > n)
    BY <1>1
  <2>2. Cardinality(last) = n - (n - PageSize + 1) + 1
    BY <2>1, FS_Interval
  <2> QED
    BY <1>1, <2>2
<1> HIDE DEF last
<1> QED
  BY <1>1, <1>7, <1>8, <1>9

(* A short list that has the page of a view, and nothing else than the     *)
(* view, is the page: what comes after it would have a page before it.     *)
LEMMA PageListed ==
  ASSUME NEW V \in SUBSET Nat, IsFiniteSet(V), NEW L \in SUBSET V, Page(V) \subseteq L, Short(L)
  PROVE  L = Page(V)
<1> SUFFICES ASSUME NEW j \in L, j \notin Page(V) PROVE FALSE
  OBVIOUS
<1> DEFINE W == {i \in V : i > j}
           newer == {i \in L : i > j}
<1>1. j \in V /\ j \in Nat /\ W \in SUBSET Nat /\ W \in SUBSET V /\ newer \in SUBSET V
  OBVIOUS
<1>2. /\ IsFiniteSet(W) /\ Cardinality(W) \in Nat
      /\ IsFiniteSet(newer) /\ Cardinality(newer) \in Nat
  <2> HIDE DEF W, newer
  <2> QED
    BY <1>1, FS_Subset, FS_CardinalityType
<1>3. Cardinality(W) >= PageSize
  <2>1. ~(Cardinality(W) < PageSize)
    BY <1>1 DEF Page
  <2> HIDE DEF W
  <2> QED
    BY <1>2, <2>1, FeedAssumption
<1>4. Page(W) \subseteq newer
  <2>1. ASSUME NEW w \in W PROVE {i \in W : i > w} = {i \in V : i > w}
    <3>1. ASSUME NEW i \in V, i > w PROVE i > j
      BY <1>1, <3>1
    <3> QED
      BY <3>1
  <2>2. \A w \in Page(W) : w \in W /\ w \in Page(V)
    BY <2>1 DEF Page
  <2>3. \A w \in W : w > j
    OBVIOUS
  <2> QED
    BY <2>2, <2>3
<1>5. Cardinality(Page(W)) >= PageSize
  <2> HIDE DEF W
  <2> QED
    BY <1>1, <1>2, <1>3, PageFull
<1>6. Cardinality(newer) < PageSize
  BY DEF Short
<1> HIDE DEF W, newer
<1>7. Cardinality(Page(W)) <= Cardinality(newer) /\ Cardinality(Page(W)) \in Nat
  BY <1>2, <1>4, FS_Subset, FS_CardinalityType
<1> QED
  BY <1>2, <1>5, <1>6, <1>7, FeedAssumption

----------------------------------------------------------------------------
(* The requests and the store. *)

LEMMA CallSet ==
  ASSUME TypeInv, NEW q \in Calls, NEW c \in Call, calls' = [calls EXCEPT ![q] = c]
  PROVE  /\ calls' \in [Calls -> Call] /\ calls'[q] = c
         /\ \A r \in Calls \ {q} : calls'[r] = calls[r]
BY DEF TypeInv

LEMMA NoCallIsCall == NoCall \in Call
BY DEF NoCall, Call, Phases, Kinds

(* What a GET keeps of the request, and what it takes from the page.       *)
LEMMA GetIsCall ==
  ASSUME TypeInv, NEW q \in Calls, NEW c \in Call
  PROVE  /\ Get(q, c) \in Call
         /\ Get(q, c).phase = "get" /\ Get(q, c).kind = c.kind
         /\ Get(q, c).by = user /\ Get(q, c).college = View.college
         /\ Get(q, c).note = c.note
BY DEF TypeInv, Get, Call, Phases, View

LEMMA PatchIsCall ==
  ASSUME TypeInv, user # None, NEW i \in Nat, NEW kind \in {"markAsRead", "markAllAsRead"}
  PROVE  LET c == [NoCall EXCEPT !.phase = "patch", !.kind = kind, !.by = user, !.note = i]
             d == [NoCall EXCEPT !.phase = "patch", !.kind = kind, !.by = user]
         IN  /\ c \in Call /\ c.phase = "patch" /\ c.kind = kind /\ c.by = user /\ c.note = i
             /\ d \in Call /\ d.phase = "patch" /\ d.kind = kind /\ d.by = user
BY DEF TypeInv, NoCall, Call, Phases, Kinds

LEMMA AskIsCall ==
  ASSUME NEW kind \in {"reset", "refresh", "load"}
  PROVE  /\ [NoCall EXCEPT !.kind = kind] \in Call
         /\ [NoCall EXCEPT !.kind = kind].kind = kind
BY DEF NoCall, Call, Phases, Kinds

LEMMA PatchedIsCall ==
  ASSUME TypeInv, NEW q \in Calls
  PROVE  LET c == [calls[q] EXCEPT !.phase = "patched"]
         IN  /\ c \in Call /\ c.phase = "patched" /\ c.kind = calls[q].kind
             /\ c.note = calls[q].note
             /\ [calls EXCEPT ![q].phase = "patched"] = [calls EXCEPT ![q] = c]
BY DEF TypeInv, Call, Phases

(* The list of an answer is finite, and so is what the page shows of it.   *)
LEMMA CreatedFinite ==
  Created \subseteq Nat /\ IsFiniteSet(Created)
  /\ \A S \in SUBSET Created : IsFiniteSet(S) /\ Cardinality(S) \in Nat
<1>1. Ids \subseteq Nat /\ IsFiniteSet(Ids)
  BY FeedAssumption, FS_Interval DEF Ids
<1>2. Created \in SUBSET Ids
  BY DEF Created
<1>3. Created \subseteq Nat /\ IsFiniteSet(Created)
  BY <1>1, <1>2, FS_Subset
<1> QED
  BY <1>3, FS_Subset, FS_CardinalityType

LEMMA ScopeIn ==
  ASSUME NEW call
  PROVE  /\ \A i : i \in Scope(call) <=>
               i \in Created /\ MayRead(call.by, i) /\ call.college \in {None, notes[i]}
         /\ Scope(call) \subseteq Created /\ Scope(call) \in SUBSET Nat
         /\ IsFiniteSet(Scope(call))
<1>1. \A i : i \in Scope(call) <=>
               i \in Created /\ MayRead(call.by, i) /\ call.college \in {None, notes[i]}
  BY DEF Scope, MayRead, Created
<1> QED
  BY <1>1, CreatedFinite

LEMMA FilteredIn ==
  \A L : \A i : i \in Filtered(L) <=>
    i \in L /\ (SuperAdmin => selected # None /\ notes[i] = selected)
BY DEF Filtered

(* The toasts after an answer are those before it and new ones.            *)
LEMMA ToastsWithin ==
  ASSUME TypeInv, NEW q \in Calls, Answered(q), CallInv, NEW X,
         calls[q].kind \in {"reset", "refresh", "load"},
         store.toasts \in Seq(X), Filtered(calls[q].list) \subseteq X
  PROVE  Refreshed(calls[q]).toasts \in Seq(X)
<1> DEFINE new == Filtered(calls[q].list) \ (calls[q].read \cup store.list)
           s == Newest(new) \o store.toasts
           m == IF Len(s) < MaxToasts THEN Len(s) ELSE MaxToasts
<1>1. new \in SUBSET Nat /\ IsFiniteSet(new) /\ new \subseteq X
  BY CreatedFinite, ScopeIn, FilteredIn DEF CallInv, Holds
<1>2. Newest(new) \in Seq(new)
  BY <1>1, NewestWithin
<1>3. Newest(new) \in Seq(X)
  <2>1. ToSet(Newest(new)) \subseteq new
    BY <1>2, SeqWithin
  <2>2. ToSet(Newest(new)) \subseteq X
    BY <1>1, <2>1
  <2> QED
    BY <1>2, <2>2, SeqWithin
<1>4. s \in Seq(X) /\ Len(s) \in Nat
  BY <1>3, ConcatProperties, LenProperties
<1>5. m \in 0 .. Len(s)
  BY <1>4, FeedAssumption
<1>6. SubSeq(s, 1, m) \in Seq(X)
  <2> HIDE DEF s, m
  <2> QED
    BY <1>4, <1>5, SubSeqProperties
<1>7. << >> \in Seq(X)
  OBVIOUS
<1>8. Refreshed(calls[q]).toasts \in {<< >>, store.toasts, SubSeq(s, 1, m)}
  BY DEF Refreshed
<1> QED
  BY <1>6, <1>7, <1>8

----------------------------------------------------------------------------
(* Types. *)

PageType == /\ user \in Users \cup {None} /\ selected \in Colleges \cup {None}
            /\ answers \in Nat /\ latest \in Nat /\ missed \in BOOLEAN
BackendType == notes \in [Ids -> Colleges \cup {None}] /\ read \subseteq Created /\ events \in Nat
StoreType == store \in Store /\ store.list \subseteq Created /\ ToSet(store.toasts) \subseteq Created
CallType == calls \in [Calls -> Call]

LEMMA TypeParts == TypeInv <=> PageType /\ BackendType /\ StoreType /\ CallType
BY DEF TypeInv, PageType, BackendType, StoreType, CallType

LEMMA EmptyIsStore == Empty \in Store /\ Empty.list = {} /\ ToSet(Empty.toasts) = {}
<1>1. << >> \in Seq(Nat) /\ DOMAIN << >> = {}
  OBVIOUS
<1> QED
  BY <1>1 DEF Empty, Store, ToSet

(* A request that fails leaves nothing new in the store. *)
LEMMA FailedStore ==
  ASSUME TypeInv, NEW q \in Calls, store' = Failed(calls[q].kind)
  PROVE  /\ store' \in Store /\ store'.list \in {store.list, {}}
         /\ store'.toasts \in {store.toasts, << >>}
         /\ store'.read \in {store.read, {}}
<1>1. store \in Store /\ Empty \in Store /\ Empty.list = {} /\ Empty.toasts = << >>
      /\ Empty.read = {}
  BY EmptyIsStore DEF TypeInv, Empty
<1> HIDE DEF Empty
<1> DEFINE a == [Empty EXCEPT !.isLoaded = TRUE]
           b == [Empty EXCEPT !.isLoaded = TRUE, !.toasts = store.toasts]
           c == [store EXCEPT !.isLoaded = TRUE]
<1>2. store' \in {a, b, c, store}
  BY DEF Failed
<1>3. a \in Store /\ a.list = {} /\ a.toasts = << >> /\ a.read = {}
  BY <1>1 DEF Store
<1>4. b \in Store /\ b.list = {} /\ b.toasts = store.toasts /\ b.read = {}
  BY <1>1 DEF Store
<1>5. c \in Store /\ c.list = store.list /\ c.toasts = store.toasts /\ c.read = store.read
  BY <1>1 DEF Store
<1> HIDE DEF a, b, c
<1> QED
  BY <1>1, <1>2, <1>3, <1>4, <1>5

LEMMA StoreKept ==
  ASSUME TypeInv, Created \subseteq Created', store' = store \/ store' = Empty
  PROVE  StoreType'
BY EmptyIsStore DEF TypeInv, StoreType

(* What an answer leaves in the store. *)
LEMMA RefreshedType ==
  ASSUME TypeInv, CallInv, NEW q \in Calls, Answered(q), store' = Refreshed(calls[q]),
         calls[q].kind \in {"reset", "refresh", "load"}, notes' = notes
  PROVE  StoreType'
<1> DEFINE list == Filtered(calls[q].list)
<1>1. list \subseteq Created /\ list \subseteq Nat /\ calls[q].read \subseteq Nat
  BY FilteredIn, ScopeIn, CreatedFinite DEF CallInv, Holds, TypeInv, Call
<1>2. Unread(list, calls[q].read) \in Nat
  <2>1. list \ calls[q].read \in SUBSET Created
    BY <1>1
  <2> QED
    BY <2>1, CreatedFinite DEF Unread
<1>3. store.toasts \in Seq(Created)
  BY SeqWithin DEF TypeInv, Store
<1>4. store'.toasts \in Seq(Created)
  BY <1>1, <1>3, ToastsWithin
<1>5. store'.toasts \in Seq(Nat) /\ ToSet(store'.toasts) \subseteq Created
  <2>1. ToSet(store'.toasts) \subseteq Created
    BY <1>4, SeqWithin
  <2>2. ToSet(store'.toasts) \subseteq Nat
    BY <2>1, CreatedFinite
  <2> QED
    BY <1>4, <2>1, <2>2, SeqWithin
<1>6. store' = [list |-> list, read |-> calls[q].read \cap list,
                unreadCount |-> Unread(list, calls[q].read), toasts |-> store'.toasts,
                isLoaded |-> TRUE]
  BY DEF Refreshed
<1>7. store' \in Store /\ store'.list = list
  <2>1. ASSUME NEW l \in SUBSET Nat, NEW r \in SUBSET Nat, NEW n \in Nat, NEW t \in Seq(Nat)
        PROVE  [list |-> l, read |-> r, unreadCount |-> n, toasts |-> t,
                isLoaded |-> TRUE] \in Store
    BY DEF Store
  <2> HIDE DEF list
  <2>2. calls[q].read \cap list \in SUBSET Nat /\ list \in SUBSET Nat
    BY <1>1
  <2>3. store' \in Store
    BY <1>2, <1>5, <1>6, <2>1, <2>2
  <2> QED
    BY <1>6, <2>3
<1>8. Created' = Created
  BY DEF Created, Ids
<1> QED
  BY <1>1, <1>5, <1>7, <1>8 DEF StoreType

LEMMA MarkedType ==
  ASSUME TypeInv, CallInv, NEW q \in Calls, MarkedAsRead(q) \/ MarkedAllAsRead(q)
  PROVE  StoreType'
<1>1. Created' = Created /\ Created \subseteq Nat
  BY CreatedFinite DEF Created, Ids, MarkedAsRead, MarkedAllAsRead, backend
<1>2. /\ store \in Store /\ store.list \subseteq Created /\ ToSet(store.toasts) \subseteq Created
      /\ calls[q] \in Call
  BY DEF TypeInv
<1>3. CASE MarkedAsRead(q)
  <2> DEFINE i == calls[q].note
  <2>1. i \in Nat /\ CountAfterRead(i) \in Nat
    BY <1>2 DEF CountAfterRead, Store, Call
  <2>2. CASE i \in Filtered(calls[q].list) \cap store.list
    <3>1. store' = [store EXCEPT !.read = @ \cup {i}, !.unreadCount = CountAfterRead(i)]
      BY <1>3, <2>2 DEF MarkedAsRead
    <3>2. store' \in Store /\ store'.list = store.list /\ store'.toasts = store.toasts
      <4> HIDE DEF i
      <4> QED
        BY <1>2, <2>1, <3>1 DEF Store
    <3> QED
      BY <1>1, <1>2, <3>2 DEF StoreType
  <2>3. CASE i \notin Filtered(calls[q].list) \cap store.list
    <3>1. store' = store
      BY <1>3, <2>3 DEF MarkedAsRead
    <3> QED
      BY <1>1, <1>2, <3>1 DEF StoreType
  <2> QED
    BY <2>2, <2>3
<1>4. CASE MarkedAllAsRead(q)
  <2> DEFINE list == Filtered(calls[q].list)
  <2>1. list \subseteq Created /\ list \subseteq Nat /\ calls[q].read \cap list \subseteq Nat
    BY <1>1, <1>4, FilteredIn, ScopeIn DEF CallInv, Holds, Answered, MarkedAllAsRead
  <2>2. store' = [store EXCEPT !.list = list, !.read = calls[q].read \cap list,
                               !.unreadCount = 0]
    BY <1>4 DEF MarkedAllAsRead
  <2>3. store' \in Store /\ store'.list = list /\ store'.toasts = store.toasts
    <3> HIDE DEF list
    <3> QED
      BY <1>2, <2>1, <2>2 DEF Store
  <2> QED
    BY <1>1, <1>2, <2>1, <2>3 DEF StoreType
<1> QED
  BY <1>3, <1>4

LEMMA DismissType ==
  ASSUME TypeInv, NEW i, DismissToast(i)
  PROVE  StoreType'
<1> DEFINE left == {k \in DOMAIN store.toasts : store.toasts[k] # i}
<1>1. store \in Store /\ store.toasts \in Seq(Created) /\ Created' = Created
  BY SeqWithin DEF TypeInv, Store, DismissToast, backend, Created, Ids
<1>2. At(store.toasts, left) \in Seq(Created)
  BY <1>1, AtWithin
<1>3. At(store.toasts, left) \in Seq(Nat) /\ ToSet(At(store.toasts, left)) \subseteq Created
  <2>1. ToSet(At(store.toasts, left)) \subseteq Created
    BY <1>2, SeqWithin
  <2>2. ToSet(At(store.toasts, left)) \subseteq Nat
    BY <2>1, CreatedFinite
  <2> QED
    BY <1>2, <2>1, <2>2, SeqWithin
<1>4. store' = [store EXCEPT !.toasts = At(store.toasts, left)]
  BY DEF DismissToast
<1>5. store' \in Store /\ store'.list = store.list /\ store'.toasts = At(store.toasts, left)
  <2> HIDE DEF left
  <2> QED
    BY <1>1, <1>3, <1>4 DEF Store
<1> QED
  BY <1>1, <1>3, <1>5 DEF StoreType, TypeInv

LEMMA DoneType ==
  ASSUME TypeInv, NEW q \in Calls, Done(q)
  PROVE  /\ CallType' /\ calls'[q] = NoCall /\ NoCall \in Call
         /\ \A r \in Calls \ {q} : calls'[r] = calls[r]
BY NoCallIsCall, CallSet DEF CallType, Done

LEMMA SendType ==
  ASSUME TypeInv, NEW q \in Calls, NEW c \in Call, Send(q, c)
  PROVE  /\ CallType' /\ calls'[q] = c /\ calls[q].phase = "none"
         /\ \A r \in Calls \ {q} : calls'[r] = calls[r]
BY CallSet DEF CallType, Send

LEMMA CreateType ==
  ASSUME TypeInv, NEW c \in Colleges, Create(c)
  PROVE  /\ BackendType' /\ Created \subseteq Created'
         /\ \A i \in Created : notes'[i] = notes[i]
<1>1. notes \in [Ids -> Colleges \cup {None}] /\ read \subseteq Created /\ events \in Nat
  BY DEF TypeInv
<1>2. PICK i \in Ids : notes[i] = None /\ notes' = [notes EXCEPT ![i] = c]
  BY DEF Create
<1>3. /\ notes' \in [Ids -> Colleges \cup {None}]
      /\ \A j \in Ids \ {i} : notes'[j] = notes[j]
  BY <1>1, <1>2
<1>4. Created \subseteq Created' /\ \A j \in Created : notes'[j] = notes[j]
  BY <1>2, <1>3 DEF Created, Ids
<1>5. read' = read /\ events' \in Nat
  BY <1>1 DEF Create
<1>6. Ids' = Ids
  BY DEF Ids
<1> QED
  BY <1>1, <1>3, <1>4, <1>5, <1>6 DEF BackendType

(* What a GET is answered with. *)
LEMMA ServeGetCall ==
  ASSUME TypeInv, NEW q \in Calls, ServeGet(q)
  PROVE  LET call == calls[q]
             c == calls'[q]
         IN  /\ CallType' /\ \A r \in Calls \ {q} : calls'[r] = calls[r]
             /\ call.phase = "get" /\ call \in Call
             /\ c.phase = "answered" /\ c.kind = call.kind /\ c.by = call.by
             /\ c.college = call.college /\ c.note = call.note /\ c.number = answers + 1
             /\ c.read \subseteq read /\ c.list = Page(Scope(call))
<1> DEFINE call == calls[q]
           list == Page(Scope(call))
           c == [call EXCEPT !.phase = "answered", !.list = list,
                             !.read = list \cap read, !.number = answers + 1]
<1>1. call \in Call /\ answers + 1 \in Nat /\ call.phase = "get"
  BY DEF TypeInv, ServeGet
<1>2. list \in SUBSET Nat /\ list \cap read \in SUBSET Nat
  BY ScopeIn DEF Page
<1>3. calls' = [calls EXCEPT ![q] = c]
  BY DEF ServeGet
<1>4. list \cap read \subseteq read /\ list = Page(Scope(call))
  OBVIOUS
<1> HIDE DEF list
<1>5. /\ c \in Call /\ c.phase = "answered" /\ c.kind = call.kind
      /\ c.by = call.by /\ c.college = call.college /\ c.note = call.note
      /\ c.list = list /\ c.read = list \cap read /\ c.number = answers + 1
  <2> HIDE DEF call
  <2> QED
    BY <1>1, <1>2 DEF Call, Phases
<1> HIDE DEF c
<1>6. calls' \in [Calls -> Call] /\ calls'[q] = c /\ \A r \in Calls \ {q} : calls'[r] = calls[r]
  BY <1>3, <1>5, CallSet
<1> QED
  BY <1>1, <1>4, <1>5, <1>6 DEF CallType

LEMMA TypeStep ==
  ASSUME TypeInv, CallInv, [Next]_vars
  PROVE  TypeInv'
<1> USE DEF page, backend
<1> DEFINE Typed == PageType' /\ BackendType' /\ StoreType' /\ CallType'
<1> SUFFICES Typed
  BY DEF TypeInv, PageType, BackendType, StoreType, CallType
<1>0. PageType /\ BackendType /\ StoreType /\ CallType
  BY TypeParts
<1>1. ASSUME notes' = notes, read' = read, events' = events PROVE BackendType'
  BY <1>0, <1>1 DEF BackendType, Created, Ids
<1>2. ASSUME notes' = notes, read' = read, events' \in Nat PROVE BackendType'
  BY <1>0, <1>2 DEF BackendType, Created, Ids
<1>3. ASSUME UNCHANGED <<user, selected, answers, latest>>, missed' \in BOOLEAN
      PROVE  PageType'
  BY <1>0, <1>3 DEF PageType
<1>4. ASSUME calls' = calls PROVE CallType'
  BY <1>0, <1>4 DEF CallType
<1>5. ASSUME notes' = notes, store' = store \/ store' = Empty PROVE StoreType'
  <2>1. Created' = Created
    BY <1>5 DEF Created, Ids
  <2> QED
    BY <1>5, <2>1, StoreKept
<1>6. missed \in BOOLEAN /\ events \in Nat
  BY <1>0 DEF PageType, BackendType
<1>7. \A q \in Calls : calls[q] \in Call
  BY <1>0 DEF CallType
<1>8. ASSUME NEW q \in Calls, calls[q].phase = "answered", Taken(calls[q]),
             UNCHANGED <<user, selected, answers>>
      PROVE  PageType'
  <2>1. calls[q].number \in Nat
    BY <1>7 DEF Call
  <2>2. latest' \in Nat /\ missed' \in BOOLEAN
    BY <1>0, <1>6, <1>8, <2>1 DEF PageType, Taken
  <2> QED
    BY <1>0, <1>8, <2>2 DEF PageType
<1>a. ASSUME NEW u \in Users, Login(u) PROVE Typed
  <2>1. PageType'
    BY <1>0, <1>a DEF Login, PageType
  <2> QED
    BY <1>1, <1>4, <1>5, <1>a, <2>1 DEF Login
<1>b. CASE Logout
  <2>1. PageType'
    BY <1>0, <1>b DEF Logout, PageType
  <2> QED
    BY <1>1, <1>4, <1>5, <1>b, <2>1 DEF Logout
<1>c. ASSUME NEW c \in Colleges \cup {None}, Select(c) PROVE Typed
  <2>1. PageType'
    BY <1>0, <1>c DEF Select, PageType
  <2> QED
    BY <1>1, <1>4, <1>5, <1>c, <2>1 DEF Select
<1>d. ASSUME NEW c \in Colleges, Create(c) PROVE Typed
  <2>1. BackendType' /\ Created \subseteq Created'
    BY <1>d, CreateType
  <2>2. PageType' /\ CallType'
    BY <1>3, <1>4, <1>6, <1>d DEF Create
  <2>3. StoreType'
    BY <1>d, <2>1, StoreKept DEF Create
  <2> QED
    BY <2>1, <2>2, <2>3
<1>e. ASSUME NEW i \in Ids, DismissToast(i) PROVE Typed
  <2>1. StoreType'
    BY <1>e, DismissType
  <2> QED
    BY <1>1, <1>3, <1>4, <1>6, <1>e, <2>1 DEF DismissToast
<1>f. CASE LoseSocket
  BY <1>2, <1>3, <1>4, <1>5, <1>f DEF LoseSocket
<1>g. ASSUME NEW q \in Calls, Effects(q) PROVE Typed
  <2>1. CallType'
    <3>1. CASE user = None
      BY <1>4, <1>g, <3>1 DEF Effects
    <3>2. CASE user # None
      BY <1>g, <3>2, AskIsCall, GetIsCall, SendType DEF Effects
    <3> QED
      BY <3>1, <3>2
  <2>2. events' \in Nat
    BY <1>6, <1>g DEF Effects
  <2> QED
    BY <1>2, <1>3, <1>5, <1>g, <2>1, <2>2 DEF Effects
<1>h. ASSUME NEW q \in Calls, Event(q) PROVE Typed
  <2>1. CallType'
    BY <1>h, AskIsCall, GetIsCall, SendType DEF Event
  <2>2. events' \in Nat
    BY <1>6, <1>h DEF Event
  <2> QED
    BY <1>2, <1>3, <1>5, <1>6, <1>h, <2>1, <2>2 DEF Event
<1>i. ASSUME NEW q \in Calls, NEW i \in Ids, MarkAsRead(q, i) PROVE Typed
  <2>1. i \in Nat /\ user # None
    BY <1>i, CreatedFinite DEF MarkAsRead, MayRead
  <2>2. CallType'
    BY <1>i, <2>1, PatchIsCall, SendType DEF MarkAsRead
  <2> QED
    BY <1>1, <1>3, <1>5, <1>6, <1>i, <2>2 DEF MarkAsRead
<1>j. ASSUME NEW q \in Calls, MarkAllAsRead(q) PROVE Typed
  <2>1. CallType'
    BY <1>j, PatchIsCall, SendType DEF MarkAllAsRead
  <2> QED
    BY <1>1, <1>3, <1>5, <1>6, <1>j, <2>1 DEF MarkAllAsRead
<1>k. ASSUME NEW q \in Calls, ServePatch(q) PROVE Typed
  <2>1. CallType'
    BY <1>k, PatchedIsCall, CallSet DEF ServePatch, CallType
  <2>2. read' \subseteq Created /\ Created' = Created
    BY <1>0, <1>k DEF ServePatch, Patched, MayRead, BackendType, Created, Ids
  <2>3. BackendType'
    BY <1>0, <1>k, <2>2 DEF ServePatch, BackendType
  <2> QED
    BY <1>3, <1>5, <1>6, <1>k, <2>1, <2>3 DEF ServePatch
<1>l. ASSUME NEW q \in Calls, Load(q) PROVE Typed
  <2>1. CallType'
    BY <1>l, AskIsCall, GetIsCall, SendType DEF Load
  <2> QED
    BY <1>1, <1>3, <1>5, <1>6, <1>l, <2>1 DEF Load
<1>m. ASSUME NEW q \in Calls, ServeGet(q) PROVE Typed
  <2>1. CallType'
    BY <1>m, ServeGetCall
  <2>2. PageType'
    BY <1>0, <1>m DEF ServeGet, PageType
  <2> QED
    BY <1>1, <1>5, <1>m, <2>1, <2>2 DEF ServeGet
<1>n. ASSUME NEW q \in Calls, Continue(q) PROVE Typed
  <2>1. CallType'
    <3>1. CASE user = None
      BY <1>n, <3>1, DoneType DEF Continue
    <3>2. CASE user # None
      <4>1. Get(q, calls[q]) \in Call
        BY <1>7, GetIsCall
      <4> QED
        BY <1>n, <3>2, <4>1, CallSet DEF Continue, CallType
    <3> QED
      BY <3>1, <3>2
  <2> QED
    BY <1>1, <1>3, <1>5, <1>6, <1>n, <2>1 DEF Continue
<1>o. ASSUME NEW q \in Calls, Refresh(q) PROVE Typed
  <2>1. CallType' /\ PageType'
    BY <1>8, <1>o, DoneType DEF Refresh
  <2>2. StoreType'
    BY <1>o, RefreshedType DEF Refresh, Answered
  <2> QED
    BY <1>1, <1>o, <2>1, <2>2 DEF Refresh
<1>p. ASSUME NEW q \in Calls, MarkedAsRead(q) PROVE Typed
  <2>1. CallType' /\ PageType'
    BY <1>3, <1>6, <1>p, DoneType DEF MarkedAsRead
  <2> QED
    BY <1>1, <1>p, <2>1, MarkedType DEF MarkedAsRead
<1>q. ASSUME NEW q \in Calls, MarkedAllAsRead(q) PROVE Typed
  <2>1. CallType' /\ PageType'
    BY <1>8, <1>q, DoneType DEF MarkedAllAsRead
  <2> QED
    BY <1>1, <1>q, <2>1, MarkedType DEF MarkedAllAsRead
<1>r. ASSUME NEW q \in Calls, Fail(q) PROVE Typed
  <2>1. BackendType' /\ PageType' /\ CallType' /\ notes' = notes
    BY <1>1, <1>3, <1>r, DoneType DEF Fail
  <2>2. store' = Failed(calls[q].kind) /\ Created' = Created
    BY <1>r, <2>1 DEF Fail, Created, Ids
  <2>3. ToSet(<< >>) = {}
    BY EmptyIsStore DEF Empty
  <2>4. StoreType'
    BY <1>0, <2>2, <2>3, FailedStore DEF StoreType
  <2> QED
    BY <2>1, <2>4
<1>s. CASE UNCHANGED vars
  BY <1>1, <1>3, <1>4, <1>5, <1>6, <1>s DEF vars
<1> QED
  BY <1>a, <1>b, <1>c, <1>d, <1>e, <1>f, <1>g, <1>h, <1>i, <1>j, <1>k, <1>l, <1>m,
     <1>n, <1>o, <1>p, <1>q, <1>r, <1>s DEF Next

----------------------------------------------------------------------------
(* The list stays in scope. *)

(* A change of the view is not settled before the effects have run.        *)
LEMMA ViewChanged ==
  ASSUME TypeInv, Settled, rendered' = rendered, View' # View
  PROVE  ~Settled'
BY DEF Settled

LEMMA ViewSame ==
  ASSUME user' = user, selected' = selected
  PROVE  View' = View /\ SuperAdmin' = SuperAdmin
BY DEF View, SuperAdmin

LEMMA UserChanged ==
  ASSUME user' # user
  PROVE  View' # View
BY DEF View

LEMMA Selection ==
  ASSUME NEW c \in Colleges \cup {None}, Select(c)
  PROVE  selected' = selected \/ View' # View
BY DEF Select, View, SuperAdmin

InScope(i) == SuperAdmin /\ Settled => notes[i] = selected

LEMMA ScopeKept ==
  ASSUME TypeInv, ScopedList, UNCHANGED <<user, selected, rendered>>,
         \A i \in Created : notes'[i] = notes[i],
         \A i \in store'.list \cup ToSet(store'.toasts) :
           i \in store.list \cup ToSet(store.toasts) \/ (i \in Created /\ InScope(i))
  PROVE  ScopedList'
<1>1. SuperAdmin' = SuperAdmin /\ Settled' = Settled
  BY ViewSame DEF Settled
<1>2. store.list \cup ToSet(store.toasts) \subseteq Created
  BY DEF TypeInv
<1>3. ASSUME SuperAdmin, Settled, NEW i \in store'.list \cup ToSet(store'.toasts)
      PROVE  notes'[i] = selected
  BY <1>2, <1>3 DEF ScopedList, InScope
<1> QED
  BY <1>1, <1>3 DEF ScopedList

LEMMA ScopeStep ==
  ASSUME TypeInv, CallInv, ScopedList, [Next]_vars
  PROVE  ScopedList'
<1> USE DEF page, backend
<1>0. /\ store \in Store /\ store.list \subseteq Created /\ ToSet(store.toasts) \subseteq Created
  BY DEF TypeInv
<1>1. ASSUME store' = store \/ store' = Empty, UNCHANGED <<user, selected, rendered>>,
             \A i \in Created : notes'[i] = notes[i]
      PROVE  ScopedList'
  <2>1. store'.list \cup ToSet(store'.toasts) \subseteq store.list \cup ToSet(store.toasts)
    BY <1>1, EmptyIsStore
  <2> QED
    BY <1>1, <2>1, ScopeKept
<1>2. ASSUME ~Settled' \/ ~SuperAdmin' PROVE ScopedList'
  BY <1>2 DEF ScopedList
<1>a. ASSUME NEW u \in Users, Login(u) PROVE ScopedList'
  <2>1. Settled /\ rendered' = rendered /\ user' # user
    BY <1>a, FeedAssumption DEF Login
  <2> QED
    BY <1>2, <2>1, UserChanged, ViewChanged
<1>b. CASE Logout
  <2>1. ~SuperAdmin'
    BY <1>b DEF Logout, SuperAdmin
  <2> QED
    BY <1>2, <2>1
<1>c. ASSUME NEW c \in Colleges \cup {None}, Select(c) PROVE ScopedList'
  <2>1. CASE selected' = selected
    BY <1>1, <1>c, <2>1 DEF Select
  <2>2. CASE selected' # selected
    <3>1. View' # View
      BY <1>c, <2>2, Selection
    <3>2. Settled /\ rendered' = rendered
      BY <1>c DEF Select
    <3> QED
      BY <1>2, <3>1, <3>2, ViewChanged
  <2> QED
    BY <2>1, <2>2
<1>d. ASSUME NEW c \in Colleges, Create(c) PROVE ScopedList'
  BY <1>1, <1>d, CreateType DEF Create
<1>e. ASSUME NEW i \in Ids, DismissToast(i) PROVE ScopedList'
  <2> DEFINE left == {k \in DOMAIN store.toasts : store.toasts[k] # i}
  <2>1. store' = [store EXCEPT !.toasts = At(store.toasts, left)]
    BY <1>e DEF DismissToast
  <2>2. At(store.toasts, left) \in Seq(ToSet(store.toasts))
    <3>1. store.toasts \in Seq(ToSet(store.toasts))
      BY <1>0, SeqWithin DEF Store
    <3> QED
      BY <3>1, AtWithin
  <2> HIDE DEF left
  <2>3. store'.list = store.list /\ store'.toasts = At(store.toasts, left)
    BY <1>0, <2>1 DEF Store
  <2>4. ToSet(store'.toasts) \subseteq ToSet(store.toasts)
    BY <2>2, <2>3, SeqWithin
  <2> QED
    BY <1>e, <2>3, <2>4, ScopeKept DEF DismissToast
<1>f. CASE LoseSocket
  BY <1>1, <1>f DEF LoseSocket
<1>g. ASSUME NEW q \in Calls, Effects(q) PROVE ScopedList'
  <2>1. store'.list = {} /\ ToSet(store'.toasts) = {}
    BY <1>g, EmptyIsStore DEF Effects
  <2> QED
    BY <2>1 DEF ScopedList
<1>h. ASSUME NEW q \in Calls, Event(q) PROVE ScopedList'
  BY <1>1, <1>h DEF Event
<1>i. ASSUME NEW q \in Calls, NEW i \in Ids, MarkAsRead(q, i) PROVE ScopedList'
  BY <1>1, <1>i DEF MarkAsRead
<1>j. ASSUME NEW q \in Calls, MarkAllAsRead(q) PROVE ScopedList'
  BY <1>1, <1>j DEF MarkAllAsRead
<1>k. ASSUME NEW q \in Calls, ServePatch(q) PROVE ScopedList'
  BY <1>1, <1>k DEF ServePatch
<1>l. ASSUME NEW q \in Calls, Load(q) PROVE ScopedList'
  BY <1>1, <1>l DEF Load
<1>m. ASSUME NEW q \in Calls, ServeGet(q) PROVE ScopedList'
  BY <1>1, <1>m DEF ServeGet
<1>n. ASSUME NEW q \in Calls, Continue(q) PROVE ScopedList'
  BY <1>1, <1>n DEF Continue
<1>3. ASSUME NEW q \in Calls, Answered(q), NEW i \in Filtered(calls[q].list)
      PROVE  i \in Created /\ InScope(i)
  BY <1>3, FilteredIn, ScopeIn DEF CallInv, Holds, InScope
<1>o. ASSUME NEW q \in Calls, Refresh(q) PROVE ScopedList'
  <2>1. /\ Answered(q) /\ store' = Refreshed(calls[q])
        /\ calls[q].kind \in {"reset", "refresh", "load"}
    BY <1>o DEF Refresh, Answered
  <2>2. store'.list = Filtered(calls[q].list)
    BY <2>1 DEF Refreshed
  <2> DEFINE X == ToSet(store.toasts) \cup Filtered(calls[q].list)
  <2>3. store.toasts \in Seq(X)
    <3>1. ToSet(store.toasts) \subseteq X /\ store.toasts \in Seq(Nat)
      BY <1>0 DEF Store
    <3> HIDE DEF X
    <3> QED
      BY <3>1, SeqWithin
  <2>4. ToSet(store'.toasts) \subseteq X
    <3>1. store'.toasts \in Seq(X)
      <4>1. Filtered(calls[q].list) \subseteq X
        OBVIOUS
      <4> HIDE DEF X
      <4> QED
        BY <2>1, <2>3, <4>1, ToastsWithin
    <3> HIDE DEF X
    <3> QED
      BY <3>1, SeqWithin
  <2> QED
    BY <1>3, <1>o, <2>1, <2>2, <2>4, ScopeKept DEF Refresh
<1>p. ASSUME NEW q \in Calls, MarkedAsRead(q) PROVE ScopedList'
  <2>1. store'.list = store.list /\ store'.toasts = store.toasts
    <3>1. ASSUME NEW R, NEW n, store' = [store EXCEPT !.read = R, !.unreadCount = n]
          PROVE  store'.list = store.list /\ store'.toasts = store.toasts
      BY <1>0, <3>1 DEF Store
    <3> QED
      BY <1>p, <3>1 DEF MarkedAsRead
  <2> QED
    BY <1>p, <2>1, ScopeKept DEF MarkedAsRead
<1>q. ASSUME NEW q \in Calls, MarkedAllAsRead(q) PROVE ScopedList'
  <2> DEFINE list == Filtered(calls[q].list)
  <2>1. store' = [store EXCEPT !.list = list, !.read = calls[q].read \cap list,
                               !.unreadCount = 0]
    BY <1>q DEF MarkedAllAsRead
  <2>2. store'.list = list /\ store'.toasts = store.toasts
    <3> HIDE DEF list
    <3> QED
      BY <1>0, <2>1 DEF Store
  <2>3. Answered(q)
    BY <1>q DEF MarkedAllAsRead, Answered
  <2> QED
    BY <1>3, <1>q, <2>2, <2>3, ScopeKept DEF MarkedAllAsRead
<1>r. ASSUME NEW q \in Calls, Fail(q) PROVE ScopedList'
  <2>1. /\ store'.list \in {store.list, {}} /\ store'.toasts \in {store.toasts, << >>}
        /\ ToSet(<< >>) = {}
    BY <1>r, FailedStore, EmptyIsStore DEF Fail, Empty
  <2>2. store'.list \cup ToSet(store'.toasts) \subseteq store.list \cup ToSet(store.toasts)
    BY <2>1
  <2> QED
    BY <1>r, <2>2, ScopeKept DEF Fail
<1>s. CASE UNCHANGED vars
  BY <1>1, <1>s DEF vars
<1> QED
  BY <1>a, <1>b, <1>c, <1>d, <1>e, <1>f, <1>g, <1>h, <1>i, <1>j, <1>k, <1>l, <1>m,
     <1>n, <1>o, <1>p, <1>q, <1>r, <1>s DEF Next

----------------------------------------------------------------------------
(* Answers, and the order in which they were given. *)

LEMMA ScopeNext ==
  ASSUME NEW r \in Calls
  PROVE  /\ \A i : i \in Scope(calls[r])' <=>
               /\ i \in Created' /\ CollegeOf[calls'[r].by] \in {All, notes'[i]}
               /\ calls'[r].college \in {None, notes'[i]}
         /\ Scope(calls[r])' \in SUBSET Nat /\ IsFiniteSet(Scope(calls[r])')
<1>1. \A i : i \in Scope(calls[r])' <=>
               /\ i \in Created' /\ CollegeOf[calls'[r].by] \in {All, notes'[i]}
               /\ calls'[r].college \in {None, notes'[i]}
  BY DEF Scope, MayRead, Created, Ids
<1>2. Created' \in SUBSET Ids
  BY DEF Created, Ids
<1>3. IsFiniteSet(Ids) /\ Ids \subseteq Nat
  BY FeedAssumption, FS_Interval DEF Ids
<1>4. Scope(calls[r])' \in SUBSET Ids
  BY <1>1, <1>2
<1> QED
  BY <1>1, <1>3, <1>4, FS_Subset

LEMMA CallsKept ==
  ASSUME TypeInv, CallInv, answers' = answers, read \subseteq read', Created \subseteq Created',
         \A i \in Created : notes'[i] = notes[i],
         \A r \in Calls : \/ calls'[r] = calls[r]
                          \/ calls'[r].phase # "answered" /\ Marks(calls[r])'
  PROVE  CallInv'
<1>1. ASSUME NEW r \in Calls, calls'[r] = calls[r] PROVE Marks(calls[r])'
  <2>1. Marks(calls[r])
    BY DEF CallInv
  <2> QED
    BY <1>1, <2>1 DEF Marks, MayRead
<1>2. ASSUME NEW r \in Calls, Answered(r)'
      PROVE  calls'[r] = calls[r] /\ Answered(r) /\ Holds(calls[r])
  BY <1>2 DEF CallInv, Answered
<1>3. ASSUME NEW r \in Calls, calls'[r] = calls[r]
      PROVE  /\ Scope(calls[r]) \subseteq Scope(calls[r])'
             /\ Scope(calls[r]) \cap Page(Scope(calls[r]))' \subseteq Page(Scope(calls[r]))
  <2> DEFINE S == Scope(calls[r])
             T == Scope(calls[r])'
  <2>1. S \in SUBSET Nat /\ S \subseteq Created
    BY ScopeIn
  <2>2. T \in SUBSET Nat /\ IsFiniteSet(T)
    BY ScopeNext
  <2>3. S \subseteq T
    <3>1. \A i : i \in S => i \in Created /\ MayRead(calls[r].by, i)
                           /\ calls[r].college \in {None, notes[i]}
      BY ScopeIn
    <3>2. \A i : i \in Created /\ MayRead(calls[r].by, i)
                 /\ calls[r].college \in {None, notes[i]} => i \in T
      BY <1>3, ScopeNext DEF MayRead
    <3> QED
      BY <3>1, <3>2
  <2>4. Page(S)' = Page(T)
    BY DEF Page
  <2> HIDE DEF S, T
  <2>5. S \cap Page(T) \subseteq Page(S)
    BY <2>2, <2>3, PageShrinks
  <2> QED
    BY <2>3, <2>4, <2>5 DEF S, T
<1>4. ASSUME NEW r \in Calls, Answered(r)' PROVE Holds(calls[r])'
  <2>1. calls[r].list \subseteq Scope(calls[r])'
    BY <1>2, <1>3, <1>4 DEF Holds
  <2> QED
    BY <1>2, <1>4, <2>1 DEF Holds, Short
<1>5. ASSUME NEW q \in Calls, NEW r \in Calls, q # r, Answered(q)', Answered(r)'
      PROVE  /\ calls'[q].number # calls'[r].number
             /\ /\ calls'[q].by = calls'[r].by /\ calls'[q].college = calls'[r].college
                /\ calls'[q].number < calls'[r].number
                => calls'[q].list \cap Page(Scope(calls[r]))' \subseteq calls'[r].list
  <2>1. /\ calls'[q] = calls[q] /\ Answered(q) /\ Holds(calls[q])
        /\ calls'[r] = calls[r] /\ Answered(r)
    BY <1>2, <1>5
  <2>2. calls[q].number # calls[r].number
    BY <1>5, <2>1 DEF CallInv
  <2>3. ASSUME calls[q].by = calls[r].by, calls[q].college = calls[r].college,
               calls[q].number < calls[r].number,
               NEW i \in calls[q].list, i \in Page(Scope(calls[r]))'
        PROVE  i \in calls[r].list
    <3>1. i \in Scope(calls[r])
      BY <2>1, <2>3, ScopeIn DEF Holds
    <3>2. i \in Page(Scope(calls[r]))
      BY <1>3, <2>1, <2>3, <3>1
    <3> QED
      BY <1>5, <2>1, <2>3, <3>2 DEF CallInv
  <2> QED
    BY <2>1, <2>2, <2>3
<1> QED
  BY <1>1, <1>4, <1>5 DEF CallInv

LEMMA CallStep ==
  ASSUME TypeInv, CallInv, [Next]_vars
  PROVE  CallInv'
<1> USE DEF page, backend
<1>1. ASSUME UNCHANGED <<notes, read, answers>>,
             \A r \in Calls : \/ calls'[r] = calls[r]
                              \/ calls'[r].phase # "answered" /\ Marks(calls[r])'
      PROVE  CallInv'
  <2>1. Created' = Created
    BY <1>1 DEF Created, Ids
  <2> QED
    BY <1>1, <2>1, CallsKept
<1>2. ASSUME NEW q \in Calls, Done(q), UNCHANGED <<notes, read, answers>>
      PROVE  CallInv'
  <2>1. calls'[q] = NoCall /\ \A r \in Calls \ {q} : calls'[r] = calls[r]
    BY <1>2, DoneType
  <2>2. calls'[q].phase # "answered" /\ Marks(calls[q])'
    BY <2>1, FeedAssumption DEF Marks, NoCall
  <2> QED
    BY <1>1, <1>2, <2>1, <2>2
<1>3. ASSUME NEW q \in Calls, NEW kind \in {"reset", "refresh", "load"},
             Send(q, Get(q, [NoCall EXCEPT !.kind = kind])),
             UNCHANGED <<notes, read, answers>>
      PROVE  CallInv'
  <2> DEFINE c == [NoCall EXCEPT !.kind = kind]
  <2>1. c \in Call /\ c.kind = kind
    BY AskIsCall
  <2>2. Get(q, c) \in Call /\ Get(q, c).phase = "get" /\ Get(q, c).kind = kind
    <3> HIDE DEF c
    <3> QED
      BY <2>1, GetIsCall
  <2>3. calls'[q] = Get(q, c) /\ \A r \in Calls \ {q} : calls'[r] = calls[r]
    BY <1>3, <2>2, SendType
  <2>4. calls'[q].phase # "answered" /\ Marks(calls[q])'
    <3> HIDE DEF c
    <3> QED
      BY <2>2, <2>3 DEF Marks
  <2> QED
    BY <1>1, <1>3, <2>3, <2>4
<1>4. ASSUME calls' = calls, UNCHANGED <<notes, read, answers>> PROVE CallInv'
  BY <1>1, <1>4
<1>a. ASSUME NEW u \in Users, Login(u) PROVE CallInv'
  BY <1>4, <1>a DEF Login
<1>b. CASE Logout
  BY <1>4, <1>b DEF Logout
<1>c. ASSUME NEW c \in Colleges \cup {None}, Select(c) PROVE CallInv'
  BY <1>4, <1>c DEF Select
<1>d. ASSUME NEW c \in Colleges, Create(c) PROVE CallInv'
  BY <1>d, CreateType, CallsKept DEF Create
<1>e. ASSUME NEW i \in Ids, DismissToast(i) PROVE CallInv'
  BY <1>4, <1>e DEF DismissToast
<1>f. CASE LoseSocket
  BY <1>4, <1>f DEF LoseSocket
<1>g. ASSUME NEW q \in Calls, Effects(q) PROVE CallInv'
  BY <1>3, <1>4, <1>g DEF Effects
<1>h. ASSUME NEW q \in Calls, Event(q) PROVE CallInv'
  BY <1>3, <1>h DEF Event
<1>i. ASSUME NEW q \in Calls, NEW i \in Ids, MarkAsRead(q, i) PROVE CallInv'
  <2>1. i \in Nat /\ user # None /\ MayRead(user, i) /\ notes' = notes
    BY <1>i, CreatedFinite DEF MarkAsRead, MayRead
  <2> DEFINE c == [NoCall EXCEPT !.phase = "patch", !.kind = "markAsRead", !.by = user,
                                 !.note = i]
  <2>2. c \in Call /\ c.phase = "patch" /\ c.note = i /\ c.by = user
    BY <2>1, PatchIsCall
  <2>3. Send(q, c)
    BY <1>i DEF MarkAsRead
  <2> HIDE DEF c
  <2>4. calls'[q] = c /\ \A r \in Calls \ {q} : calls'[r] = calls[r]
    BY <2>2, <2>3, SendType
  <2>5. calls'[q].phase # "answered" /\ Marks(calls[q])'
    <3>1. MayRead(user, i)'
      BY <1>i, <2>1 DEF MarkAsRead, MayRead, Created, Ids
    <3> QED
      BY <1>i, <2>2, <2>4, <3>1 DEF Marks, MarkAsRead, MayRead
  <2> QED
    BY <1>1, <1>i, <2>4, <2>5 DEF MarkAsRead
<1>j. ASSUME NEW q \in Calls, MarkAllAsRead(q) PROVE CallInv'
  <2> DEFINE c == [NoCall EXCEPT !.phase = "patch", !.kind = "markAllAsRead", !.by = user]
  <2>1. user # None /\ Send(q, c) /\ 0 \in Nat
    BY <1>j DEF MarkAllAsRead
  <2>2. c \in Call /\ c.phase = "patch" /\ c.kind = "markAllAsRead"
    BY <2>1, PatchIsCall
  <2> HIDE DEF c
  <2>3. calls'[q] = c /\ \A r \in Calls \ {q} : calls'[r] = calls[r]
    BY <2>1, <2>2, SendType
  <2>4. calls'[q].phase # "answered" /\ Marks(calls[q])'
    BY <2>2, <2>3 DEF Marks
  <2> QED
    BY <1>1, <1>j, <2>3, <2>4 DEF MarkAllAsRead
<1>k. ASSUME NEW q \in Calls, ServePatch(q) PROVE CallInv'
  <2> DEFINE c == [calls[q] EXCEPT !.phase = "patched"]
  <2>1. c \in Call /\ c.phase = "patched" /\ c.kind = calls[q].kind /\ c.note = calls[q].note
    BY PatchedIsCall
  <2>2. calls' = [calls EXCEPT ![q] = c]
    BY <1>k, PatchedIsCall DEF ServePatch
  <2> HIDE DEF c
  <2>3. calls'[q] = c /\ \A r \in Calls \ {q} : calls'[r] = calls[r]
    BY <2>1, <2>2, CallSet
  <2>4. read \subseteq read' /\ Created' = Created
    BY <1>k DEF ServePatch, Patched, Created, Ids
  <2>5. ASSUME calls[q].kind = "markAsRead" PROVE calls[q].note \in read'
    <3>1. MayRead(calls[q].by, calls[q].note)
      BY <1>k, <2>5 DEF ServePatch, CallInv, Marks
    <3>2. calls[q].note \in Ids
      BY <3>1 DEF MayRead, Created
    <3> QED
      BY <1>k, <3>1, <3>2 DEF ServePatch, Patched
  <2>6. calls'[q].phase # "answered" /\ Marks(calls[q])'
    BY <2>1, <2>3, <2>4, <2>5 DEF Marks
  <2> QED
    BY <1>k, <2>3, <2>4, <2>6, CallsKept DEF ServePatch
<1>l. ASSUME NEW q \in Calls, Load(q) PROVE CallInv'
  BY <1>3, <1>l DEF Load
<1>m. ASSUME NEW q \in Calls, ServeGet(q) PROVE CallInv'
  <2>1. /\ \A r \in Calls \ {q} : calls'[r] = calls[r]
        /\ calls[q].phase = "get" /\ calls[q] \in Call
        /\ calls'[q].phase = "answered" /\ calls'[q].kind = calls[q].kind
        /\ calls'[q].by = calls[q].by /\ calls'[q].college = calls[q].college
        /\ calls'[q].note = calls[q].note /\ calls'[q].number = answers + 1
        /\ calls'[q].read \subseteq read /\ calls'[q].list = Page(Scope(calls[q]))
    BY <1>m, ServeGetCall
  <2>2. /\ UNCHANGED <<notes, read>> /\ answers' = answers + 1 /\ answers \in Nat
        /\ Created' = Created
    BY <1>m DEF ServeGet, TypeInv, Created, Ids
  <2>3. ASSUME NEW r \in Calls PROVE Marks(calls[r])'
    <3>1. Marks(calls[r])
      BY DEF CallInv
    <3>2. CASE r = q
      BY <2>1, <2>2, <3>1, <3>2 DEF Marks
    <3>3. CASE r # q
      BY <2>1, <2>2, <3>1, <3>3 DEF Marks, MayRead
    <3> QED
      BY <3>2, <3>3
  <2>4. ASSUME NEW r \in Calls \ {q}, Answered(r)'
        PROVE  /\ calls'[r] = calls[r] /\ Answered(r) /\ Holds(calls[r])
               /\ calls[r].number \in Nat
    <3>1. calls'[r] = calls[r] /\ Answered(r)
      BY <2>1, <2>4 DEF Answered
    <3> QED
      BY <3>1 DEF CallInv, TypeInv, Call
  <2>a. ASSUME NEW r \in Calls
        PROVE  Scope(calls[r])' = Scope(calls[r]) /\ Page(Scope(calls[r]))' = Page(Scope(calls[r]))
    <3>1. calls'[r].by = calls[r].by /\ calls'[r].college = calls[r].college
      BY <2>1
    <3>2. Scope(calls[r])' = Scope(calls[r])
      BY <2>2, <3>1, ScopeNext, ScopeIn DEF MayRead
    <3> QED
      BY <3>2 DEF Page
  <2>5. ASSUME NEW r \in Calls, Answered(r)' PROVE Holds(calls[r])'
    <3>1. CASE r = q
      <4>1. calls'[q].list \subseteq Scope(calls[q]) /\ Short(calls'[q].list)
        BY <2>1, ScopeIn, PageIsShort
      <4> QED
        BY <2>1, <2>2, <2>a, <3>1, <4>1 DEF Holds, Short
    <3>2. CASE r # q
      <4>1. calls'[r] = calls[r] /\ Holds(calls[r]) /\ calls[r].number \in Nat
        BY <2>4, <2>5, <3>2
      <4>2. calls[r].number <= answers'
        BY <2>2, <4>1 DEF Holds
      <4> QED
        BY <2>2, <2>a, <4>1, <4>2 DEF Holds, Short
    <3> QED
      BY <3>1, <3>2
  <2>6. ASSUME NEW r \in Calls \ {q}, Answered(r)'
        PROVE  /\ calls'[r].number < calls'[q].number
               /\ Page(Scope(calls[q]))' \subseteq calls'[q].list
    BY <2>1, <2>2, <2>4, <2>6, <2>a DEF Holds
  <2>7. ASSUME NEW r \in Calls, NEW t \in Calls, r # t, Answered(r)', Answered(t)'
        PROVE  /\ calls'[r].number # calls'[t].number
               /\ /\ calls'[r].by = calls'[t].by /\ calls'[r].college = calls'[t].college
                  /\ calls'[r].number < calls'[t].number
                  => calls'[r].list \cap Page(Scope(calls[t]))' \subseteq calls'[t].list
    <3>0. calls'[q].number \in Nat /\ \A u \in Calls \ {q} : Answered(u)' => calls'[u].number \in Nat
      BY <2>1, <2>2, <2>4
    <3>1. CASE r # q /\ t # q
      BY <2>4, <2>7, <2>a, <3>1 DEF CallInv
    <3>2. CASE r = q
      <4>1. t \in Calls \ {q} /\ calls'[t].number < calls'[q].number
        BY <2>6, <2>7, <3>2
      <4> QED
        BY <2>7, <3>0, <3>2, <4>1
    <3>3. CASE t = q
      <4>1. r \in Calls \ {q} /\ calls'[r].number < calls'[q].number
        BY <2>6, <2>7, <3>3
      <4> QED
        BY <2>6, <2>7, <3>0, <3>3, <4>1
    <3> QED
      BY <3>1, <3>2, <3>3
  <2> QED
    BY <2>3, <2>5, <2>7 DEF CallInv
<1>n. ASSUME NEW q \in Calls, Continue(q) PROVE CallInv'
  <2>1. CASE user = None
    BY <1>2, <1>n, <2>1 DEF Continue
  <2>2. CASE user # None
    <3> DEFINE c == Get(q, calls[q])
    <3>1. calls[q] \in Call
      BY DEF TypeInv
    <3>2. c \in Call /\ c.phase = "get" /\ c.kind = calls[q].kind /\ c.note = calls[q].note
      BY <3>1, GetIsCall
    <3>3. calls' = [calls EXCEPT ![q] = c]
      BY <1>n, <2>2 DEF Continue
    <3> HIDE DEF c
    <3>4. calls'[q] = c /\ \A r \in Calls \ {q} : calls'[r] = calls[r]
      BY <3>2, <3>3, CallSet
    <3>5. UNCHANGED <<notes, read, answers>> /\ Created' = Created
      BY <1>n DEF Continue, Created, Ids
    <3>6. calls'[q].phase # "answered" /\ Marks(calls[q])'
      BY <1>n, <3>2, <3>4, <3>5 DEF Marks, CallInv, Continue
    <3> QED
      BY <1>1, <3>4, <3>5, <3>6
  <2> QED
    BY <2>1, <2>2
<1>o. ASSUME NEW q \in Calls, Refresh(q) PROVE CallInv'
  BY <1>2, <1>o DEF Refresh
<1>p. ASSUME NEW q \in Calls, MarkedAsRead(q) PROVE CallInv'
  BY <1>2, <1>p DEF MarkedAsRead
<1>q. ASSUME NEW q \in Calls, MarkedAllAsRead(q) PROVE CallInv'
  BY <1>2, <1>q DEF MarkedAllAsRead
<1>r. ASSUME NEW q \in Calls, Fail(q) PROVE CallInv'
  BY <1>2, <1>r DEF Fail
<1>s. CASE UNCHANGED vars
  BY <1>4, <1>s DEF vars
<1> QED
  BY <1>a, <1>b, <1>c, <1>d, <1>e, <1>f, <1>g, <1>h, <1>i, <1>j, <1>k, <1>l, <1>m,
     <1>n, <1>o, <1>p, <1>q, <1>r, <1>s DEF Next

----------------------------------------------------------------------------
(* The list catches up. *)

InView(i) == SuperAdmin => selected # None /\ notes[i] = selected

LEMMA VisibleIn ==
  /\ \A i : i \in Visible <=> i \in Created /\ MayRead(user, i) /\ InView(i)
  /\ \A L : \A i : i \in Filtered(L) <=> i \in L /\ InView(i)
BY FilteredIn DEF Visible, InView, MayRead, Created

LEMMA VisibleInNext ==
  \A i : i \in Visible' <=> i \in Created' /\ MayRead(user, i)' /\ InView(i)'
BY DEF Visible, InView, Filtered, MayRead, Created

LEMMA VisibleFinite ==
  /\ Visible \in SUBSET Nat /\ IsFiniteSet(Visible)
  /\ Visible' \in SUBSET Nat /\ IsFiniteSet(Visible')
<1>1. Ids \subseteq Nat /\ IsFiniteSet(Ids)
  BY FeedAssumption, FS_Interval DEF Ids
<1>2. Created \subseteq Ids /\ Created' \subseteq Ids
  BY DEF Created, Ids
<1>3. Visible \in SUBSET Ids /\ Visible' \in SUBSET Ids
  BY <1>2, VisibleIn, VisibleInNext
<1> QED
  BY <1>1, <1>3, FS_Subset

LEMMA GrowsNext ==
  ASSUME NEW r \in Calls
  PROVE  Grows(r)' <=>
           (/\ calls'[r].phase = "answered" /\ calls'[r].by = user'
            /\ calls'[r].college = View'.college /\ calls'[r].number >= latest'
            => \A i \in store'.list :
                 i \in Page(Visible)' => i \in calls'[r].list /\ InView(i)')
BY DEF Grows, Answered, Ours, Filtered, InView

LEMMA PageKept ==
  ASSUME UNCHANGED <<user, selected, rendered, notes>>
  PROVE  /\ View' = View /\ Settled' = Settled /\ Created' = Created /\ Visible' = Visible
         /\ Page(Visible)' = Page(Visible)
         /\ \A i : InView(i)' <=> InView(i)
<1>1. View' = View /\ SuperAdmin' = SuperAdmin
  BY ViewSame
<1>2. Settled' = Settled /\ Created' = Created /\ \A i : InView(i)' <=> InView(i)
  BY <1>1 DEF Settled, Created, Ids, InView
<1>3. \A i : MayRead(user, i)' <=> MayRead(user, i)
  BY <1>2 DEF MayRead
<1>4. Visible' = Visible
  BY <1>1, <1>2, <1>3, VisibleIn, VisibleInNext
<1>5. Page(Visible)' = Page(Visible)
  BY <1>4 DEF Page
<1> QED
  BY <1>1, <1>2, <1>4, <1>5

(* What an answer for the view of the page leaves out, the page may not    *)
(* show.                                                                   *)
LEMMA AnswerVisible ==
  ASSUME TypeInv, CallInv, NEW q \in Calls, Answered(q), Ours(calls[q])
  PROVE  Filtered(calls[q].list) \subseteq Visible
BY VisibleIn, ScopeIn DEF CallInv, Holds, Ours

(* What the backend looks through for the view of the page is the view,    *)
(* unless that is empty.                                                   *)
LEMMA ScopeOfView ==
  ASSUME NEW call, Ours(call), NEW i \in Visible
  PROVE  Scope(call) = Visible
<1>1. ASSUME NEW j PROVE View.college \in {None, notes[j]} <=> InView(j)
  <2>1. CASE SuperAdmin
    <3>1. selected # None /\ View.college = selected
      BY <2>1, VisibleIn DEF InView, View
    <3> QED
      BY <2>1, <3>1 DEF InView
  <2>2. CASE ~SuperAdmin
    BY <2>2 DEF InView, View
  <2> QED
    BY <2>1, <2>2
<1> QED
  BY <1>1, ScopeIn, VisibleIn DEF Ours

(* A step that leaves the list, and the requests that bring something to   *)
(* it, as they are.                                                        *)
LEMMA ListKept ==
  ASSUME TypeInv, CatchUpInv, UNCHANGED <<user, selected, rendered, notes, events, latest>>,
         store'.list = store.list, store'.read \subseteq read', ~missed' => ~missed,
         Current /\ store.unreadCount = Unread(store.list, store.read)
           => store'.unreadCount = Unread(store'.list, store'.read),
         \A r \in Calls : \/ calls'[r] = calls[r]
                          \/ /\ calls'[r].phase # "answered"
                             /\ \/ calls[r].phase \notin {"get", "answered"}
                                \/ calls[r].kind = "markAsRead"
  PROVE  CatchUpInv'
<1>1. /\ View' = View /\ Settled' = Settled /\ Visible' = Visible
      /\ Page(Visible)' = Page(Visible) /\ \A i : InView(i)' <=> InView(i)
  BY PageKept
<1>2. Current' => Current
  BY <1>1 DEF Current
<1>3. ASSUME Current'
      PROVE  /\ store'.list \subseteq Visible' /\ Short(store.list)'
             /\ \A q \in Calls : Grows(q)'
             /\ (events = 0 => Coming)'
             /\ (store.unreadCount = Unread(store.list, store.read))'
  <2>1. /\ store.list \subseteq Visible /\ Short(store.list)
        /\ \A q \in Calls : Grows(q)
        /\ events = 0 => Coming
        /\ store.unreadCount = Unread(store.list, store.read)
    BY <1>2, <1>3 DEF CatchUpInv
  <2>2. ASSUME NEW q \in Calls PROVE Grows(q)'
    <3>1. CASE calls'[q] = calls[q]
      <4>1. Grows(q)
        BY <2>1
      <4>2. /\ calls[q].phase = "answered" /\ calls[q].by = user
            /\ calls[q].college = View.college /\ calls[q].number >= latest
            => \A i \in store.list :
                 i \in Page(Visible) => i \in calls[q].list /\ InView(i)
        BY <4>1, VisibleIn DEF Grows, Answered, Ours
      <4> QED
        BY <1>1, <3>1, <4>2, GrowsNext
    <3>2. CASE calls'[q].phase # "answered"
      BY <3>2, GrowsNext
    <3> QED
      BY <3>1, <3>2
  <2>3. ASSUME events' = 0 PROVE Coming'
    <3>1. ASSUME NEW i, i \in Page(Visible), i \notin store.list
          PROVE  \E q \in Calls : Brings(q, i)'
      <4>1. PICK q \in Calls : Brings(q, i)
        BY <2>1, <2>3, <3>1 DEF Coming
      <4>2. calls'[q] = calls[q]
        BY <4>1 DEF Brings, Answered
      <4> QED
        BY <1>1, <4>1, <4>2 DEF Brings, Answered, Ours
    <3> QED
      BY <1>1, <3>1 DEF Coming
  <2> QED
    BY <1>1, <1>2, <1>3, <2>1, <2>2, <2>3 DEF Unread, Short
<1> QED
  BY <1>3 DEF CatchUpInv

(* An answer that replaces the list. *)
LEMMA ListTaken ==
  ASSUME TypeInv, CallInv, CatchUpInv, NEW q \in Calls, Answered(q), Taken(calls[q]),
         UNCHANGED <<user, selected, rendered, notes, read, events>>, Done(q),
         calls[q].kind \in {"reset", "refresh", "load", "markAllAsRead"},
         store'.list = Filtered(calls[q].list),
         store'.read = calls[q].read \cap Filtered(calls[q].list),
         ~missed' => store'.unreadCount = Unread(store'.list, store'.read)
  PROVE  CatchUpInv'
<1>1. /\ View' = View /\ Settled' = Settled /\ Visible' = Visible
      /\ Page(Visible)' = Page(Visible) /\ \A i : InView(i)' <=> InView(i)
  BY PageKept
<1>2. store'.read \subseteq read'
  BY DEF CallInv, Holds
<1>3. calls'[q] = NoCall /\ \A r \in Calls \ {q} : calls'[r] = calls[r]
  BY DoneType
<1>4. calls[q].number \in Nat /\ latest \in Nat
  BY DEF TypeInv, Call
<1>5. ASSUME Current'
      PROVE  /\ store'.list \subseteq Visible' /\ Short(store.list)'
             /\ \A r \in Calls : Grows(r)'
             /\ Coming' \/ events' # 0
             /\ (store.unreadCount = Unread(store.list, store.read))'
  <2>1. ~missed' /\ Settled /\ user # None
    BY <1>1, <1>5 DEF Current
  <2>2. ~missed /\ Ours(calls[q]) /\ calls[q].number >= latest /\ latest' = calls[q].number
    BY <1>4, <2>1 DEF Taken, Ours
  <2>3. Current
    BY <2>1, <2>2 DEF Current
  <2>4. store.list \subseteq Visible /\ Grows(q) /\ (events = 0 => Coming)
    BY <2>3 DEF CatchUpInv
  <2>5. store'.list \subseteq Visible' /\ Short(store.list)'
    <3>1. calls[q].list \in SUBSET Nat /\ IsFiniteSet(calls[q].list) /\ Short(calls[q].list)
      BY ScopeIn, FS_Subset DEF CallInv, Holds
    <3>2. store'.list \subseteq calls[q].list
      BY VisibleIn
    <3> QED
      BY <1>1, <2>2, <3>1, <3>2, AnswerVisible, ShortWithin DEF Short
  <2>6. ASSUME NEW r \in Calls PROVE Grows(r)'
    <3>1. CASE r = q
      BY <1>3, <3>1, GrowsNext DEF NoCall
    <3>2. CASE r # q
      <4>1. ASSUME calls'[r].phase = "answered", calls'[r].by = user',
                   calls'[r].college = View'.college, calls'[r].number >= latest',
                   NEW i \in store'.list, i \in Page(Visible)'
            PROVE  i \in calls'[r].list /\ InView(i)'
        <5>1. calls'[r] = calls[r] /\ Answered(r) /\ calls[r].number \in Nat
          BY <1>3, <3>2, <4>1 DEF Answered, TypeInv, Call
        <5>2. calls[q].number < calls[r].number
          BY <1>4, <2>2, <3>2, <4>1, <5>1 DEF CallInv
        <5>3. calls[q].by = calls[r].by /\ calls[q].college = calls[r].college
          BY <1>1, <2>2, <4>1, <5>1 DEF Ours
        <5>4. calls[q].list \cap Page(Scope(calls[r])) \subseteq calls[r].list
          BY <3>2, <5>1, <5>2, <5>3 DEF CallInv
        <5>5. Scope(calls[r]) = Visible
          BY <1>1, <2>2, <2>5, <4>1, <5>3, ScopeOfView DEF Ours
        <5> QED
          BY <1>1, <4>1, <5>1, <5>4, <5>5, VisibleIn
      <4> QED
        BY <4>1, GrowsNext
    <3> QED
      BY <3>1, <3>2
  <2>7. ASSUME events' = 0 PROVE Coming'
    <3>1. ASSUME NEW i, i \in Page(Visible), i \notin store'.list
          PROVE  \E r \in Calls : Brings(r, i)'
      <4>1. i \notin calls[q].list
        BY <3>1, VisibleIn DEF Page
      <4>2. i \notin store.list
        BY <2>2, <2>4, <3>1, <4>1, VisibleIn DEF Grows
      <4>3. PICK r \in Calls : Brings(r, i)
        BY <2>4, <2>7, <3>1, <4>2 DEF Coming
      <4>4. r # q
        BY <2>2, <4>1, <4>3 DEF Brings, Answered
      <4>5. calls'[r] = calls[r]
        BY <1>3, <4>4
      <4> QED
        BY <1>1, <4>3, <4>5 DEF Brings, Answered, Ours
    <3> QED
      BY <1>1, <3>1 DEF Coming
  <2> QED
    BY <2>1, <2>5, <2>6, <2>7 DEF Unread
<1> QED
  BY <1>2, <1>5 DEF CatchUpInv

(* One of the unread notifications of the list is read. *)
LEMMA UnreadAfterOne ==
  ASSUME TypeInv, NEW i \in store.list, store.unreadCount = Unread(store.list, store.read)
  PROVE  CountAfterRead(i) = Unread(store.list, store.read \cup {i})
<1> DEFINE new == store.list \ store.read
<1>1. IsFiniteSet(new) /\ Cardinality(new) \in Nat
  <2>1. new \in SUBSET Created
    BY DEF TypeInv
  <2> QED
    BY <2>1, CreatedFinite
<1>2. CASE i \in store.read
  <2>1. store.read \cup {i} = store.read
    BY <1>2
  <2> QED
    BY <1>2, <2>1 DEF CountAfterRead
<1>3. CASE i \notin store.read
  <2>1. i \in new /\ store.list \ (store.read \cup {i}) = new \ {i}
    BY <1>3
  <2>2. store.unreadCount = Cardinality(new)
    BY DEF Unread
  <2> HIDE DEF new
  <2>3. Cardinality(new \ {i}) = Cardinality(new) - 1
    BY <1>1, <2>1, FS_RemoveElement
  <2>4. Cardinality(new) # 0
    BY <1>1, <2>1, FS_EmptySet
  <2> QED
    BY <1>3, <2>1, <2>2, <2>3, <2>4 DEF CountAfterRead, Unread
<1> QED
  BY <1>2, <1>3

LEMMA MarkedKept ==
  ASSUME TypeInv, CallInv, CatchUpInv, NEW q \in Calls, MarkedAsRead(q)
  PROVE  CatchUpInv'
<1> USE DEF page, backend
<1> DEFINE i == calls[q].note
<1>1. /\ UNCHANGED <<user, selected, rendered, notes, read, events, latest, missed>>
      /\ Answered(q) /\ calls[q].kind = "markAsRead" /\ Done(q)
  BY DEF MarkedAsRead, Answered
<1>2. calls'[q] = NoCall /\ \A r \in Calls \ {q} : calls'[r] = calls[r]
  BY <1>1, DoneType
<1>3. i \in read
  BY <1>1 DEF CallInv, Marks, Answered
<1>4. /\ store'.list = store.list
      /\ \/ store' = store
         \/ /\ i \in store.list /\ store'.read = store.read \cup {i}
            /\ store'.unreadCount = CountAfterRead(i)
  <2>1. CASE i \in Filtered(calls[q].list) \cap store.list
    <3>1. store' = [store EXCEPT !.read = @ \cup {i}, !.unreadCount = CountAfterRead(i)]
      BY <2>1 DEF MarkedAsRead
    <3>2. store \in Store
      BY DEF TypeInv
    <3> HIDE DEF i
    <3> QED
      BY <2>1, <3>1, <3>2 DEF Store
  <2>2. CASE i \notin Filtered(calls[q].list) \cap store.list
    BY <2>2 DEF MarkedAsRead
  <2> QED
    BY <2>1, <2>2
<1>5. ASSUME NEW r \in Calls
      PROVE  \/ calls'[r] = calls[r]
             \/ /\ calls'[r].phase # "answered"
                /\ calls[r].phase \notin {"get", "answered"} \/ calls[r].kind = "markAsRead"
  BY <1>1, <1>2 DEF NoCall
<1> HIDE DEF i
<1>6. store'.read \subseteq read /\ store.read \subseteq read
  BY <1>3, <1>4 DEF CatchUpInv
<1>7. ASSUME Current, store.unreadCount = Unread(store.list, store.read)
      PROVE  store'.unreadCount = Unread(store'.list, store'.read)
  <2>1. CASE store' = store
    BY <1>7, <2>1
  <2>2. CASE /\ i \in store.list /\ store'.read = store.read \cup {i}
             /\ store'.unreadCount = CountAfterRead(i)
    BY <1>4, <1>7, <2>2, UnreadAfterOne
  <2> QED
    BY <1>4, <2>1, <2>2
<1> QED
  BY <1>1, <1>4, <1>5, <1>6, <1>7, ListKept

LEMMA ServeGetKept ==
  ASSUME TypeInv, CallInv, CatchUpInv, NEW q \in Calls, ServeGet(q)
  PROVE  CatchUpInv'
<1> USE DEF page, backend
<1>1. /\ UNCHANGED <<user, selected, rendered, store, notes, read, events, latest, missed>>
      /\ answers \in Nat
  BY DEF ServeGet, TypeInv
<1>2. /\ View' = View /\ Settled' = Settled /\ Visible' = Visible
      /\ Page(Visible)' = Page(Visible) /\ \A j : InView(j)' <=> InView(j)
  BY <1>1, PageKept
<1>3. /\ \A r \in Calls \ {q} : calls'[r] = calls[r]
      /\ calls[q].phase = "get"
      /\ calls'[q].phase = "answered" /\ calls'[q].kind = calls[q].kind
      /\ calls'[q].by = calls[q].by /\ calls'[q].college = calls[q].college
      /\ calls'[q].list = Page(Scope(calls[q]))
  BY ServeGetCall
<1>4. ASSUME calls[q].by = user, calls[q].college = View.college, NEW i \in Page(Visible)
      PROVE  i \in calls'[q].list /\ InView(i)
  <2>1. i \in Visible
    BY DEF Page
  <2> QED
    BY <1>3, <1>4, <2>1, ScopeOfView, VisibleIn DEF Ours
<1>5. ASSUME Current'
      PROVE  /\ store'.list \subseteq Visible' /\ Short(store.list)'
             /\ \A r \in Calls : Grows(r)'
             /\ Coming' \/ events' # 0
             /\ (store.unreadCount = Unread(store.list, store.read))'
  <2>1. Current
    BY <1>1, <1>2, <1>5 DEF Current
  <2>2. /\ store.list \subseteq Visible /\ Short(store.list)
        /\ \A r \in Calls : Grows(r)
        /\ events = 0 => Coming
        /\ store.unreadCount = Unread(store.list, store.read)
    BY <2>1 DEF CatchUpInv
  <2>3. ASSUME NEW r \in Calls PROVE Grows(r)'
    <3>1. CASE r = q
      <4>1. ASSUME calls'[q].by = user', calls'[q].college = View'.college,
                   NEW i \in store'.list, i \in Page(Visible)'
            PROVE  i \in calls'[q].list /\ InView(i)'
        BY <1>1, <1>2, <1>3, <1>4, <4>1
      <4> QED
        BY <3>1, <4>1, GrowsNext
    <3>2. CASE r # q
      <4>1. ASSUME calls'[r].phase = "answered", calls'[r].by = user',
                   calls'[r].college = View'.college, calls'[r].number >= latest',
                   NEW j \in store'.list, j \in Page(Visible)'
            PROVE  j \in calls'[r].list /\ InView(j)'
        <5>1. calls'[r] = calls[r] /\ Answered(r) /\ Ours(calls[r]) /\ calls[r].number >= latest
          BY <1>1, <1>2, <1>3, <3>2, <4>1 DEF Answered, Ours
        <5>2. j \in Filtered(calls[r].list)
          BY <1>1, <1>2, <2>2, <4>1, <5>1 DEF Grows
        <5> QED
          BY <1>2, <5>1, <5>2, VisibleIn
      <4> QED
        BY <4>1, GrowsNext
    <3> QED
      BY <3>1, <3>2
  <2>4. ASSUME events' = 0 PROVE Coming'
    <3>1. ASSUME NEW j, j \in Page(Visible), j \notin store.list
          PROVE  \E r \in Calls : Brings(r, j)'
      <4>1. PICK r \in Calls : Brings(r, j)
        BY <1>1, <2>2, <2>4, <3>1 DEF Coming
      <4>2. CASE r # q
        <5>1. calls'[r] = calls[r]
          BY <1>3, <4>2
        <5> QED
          BY <1>1, <1>2, <4>1, <5>1 DEF Brings, Answered, Ours
      <4>3. CASE r = q
        BY <1>1, <1>2, <1>3, <1>4, <3>1, <4>1, <4>3 DEF Brings, Answered, Ours
      <4> QED
        BY <4>2, <4>3
    <3> QED
      BY <1>1, <1>2, <3>1 DEF Coming
  <2> QED
    BY <1>1, <1>2, <2>2, <2>3, <2>4 DEF Unread, Short
<1>6. store'.read \subseteq read'
  BY <1>1 DEF CatchUpInv
<1> QED
  BY <1>5, <1>6 DEF CatchUpInv

(* A request that will bring everything, and an empty list or an event     *)
(* that is no more.                                                        *)
LEMMA AskedKept ==
  ASSUME TypeInv, CatchUpInv, NEW q \in Calls, NEW kind \in {"reset", "refresh", "load"},
         Send(q, Get(q, [NoCall EXCEPT !.kind = kind])),
         UNCHANGED <<user, selected, notes, read, latest>>,
         \/ store' = Empty
         \/ UNCHANGED <<rendered, store, missed>>
  PROVE  CatchUpInv'
<1> DEFINE c == Get(q, [NoCall EXCEPT !.kind = kind])
<1>1. c \in Call /\ c.phase = "get" /\ c.kind = kind
  BY AskIsCall, GetIsCall
<1>2. Send(q, c)
  OBVIOUS
<1> HIDE DEF c
<1>3. /\ calls'[q] = c /\ calls[q].phase = "none"
      /\ \A r \in Calls \ {q} : calls'[r] = calls[r]
  BY <1>1, <1>2, SendType
<1>4. Coming'
  BY <1>1, <1>3 DEF Coming, Brings
<1>5. CASE store' = Empty
  <2>1. store'.list = {} /\ store'.read = {} /\ store'.unreadCount = 0
    BY <1>5 DEF Empty
  <2>2. \A r \in Calls : Grows(r)'
    BY <2>1, GrowsNext
  <2>3. Unread(store'.list, store'.read) = 0 /\ Short(store.list)'
    BY <2>1, FS_EmptySet DEF Unread, Short
  <2> QED
    BY <1>4, <2>1, <2>2, <2>3 DEF CatchUpInv, Unread
<1>6. CASE UNCHANGED <<rendered, store, missed>>
  <2>1. /\ View' = View /\ Settled' = Settled /\ Visible' = Visible
        /\ Page(Visible)' = Page(Visible) /\ \A j : InView(j)' <=> InView(j)
    BY <1>6, PageKept
  <2>2. Current' => Current
    BY <1>6, <2>1 DEF Current
  <2>3. ASSUME Current, NEW r \in Calls PROVE Grows(r)'
    <3>1. CASE r = q
      BY <1>1, <1>3, <3>1, GrowsNext
    <3>2. CASE r # q
      <4>1. Grows(r) /\ calls'[r] = calls[r]
        BY <1>3, <2>3, <3>2 DEF CatchUpInv
      <4>2. Answered(r) /\ Ours(calls[r]) /\ calls[r].number >= latest =>
              \A j \in store.list : j \in Page(Visible) => j \in calls[r].list /\ InView(j)
        BY <4>1, VisibleIn DEF Grows
      <4> QED
        BY <1>6, <2>1, <4>1, <4>2, GrowsNext DEF Answered, Ours
    <3> QED
      BY <3>1, <3>2
  <2> QED
    BY <1>4, <1>6, <2>1, <2>2, <2>3 DEF CatchUpInv, Unread, Short
<1> QED
  BY <1>5, <1>6

LEMMA CreateKept ==
  ASSUME TypeInv, CallInv, CatchUpInv, NEW c \in Colleges, Create(c)
  PROVE  CatchUpInv'
<1> USE DEF page, backend
<1>1. /\ UNCHANGED <<user, selected, rendered, store, read, calls, latest, missed>>
      /\ events' = IF rendered.user = None THEN events ELSE events + 1
  BY DEF Create
<1>2. Created \subseteq Created' /\ \A i \in Created : notes'[i] = notes[i]
  BY CreateType
<1>3. View' = View /\ SuperAdmin' = SuperAdmin /\ Settled' = Settled
  BY <1>1, ViewSame DEF Settled
<1>4. \A i \in Created : InView(i)' <=> InView(i)
  BY <1>1, <1>2, <1>3 DEF InView
<1>5. Visible \subseteq Visible'
  <2>1. \A i \in Created : MayRead(user, i) => MayRead(user, i)'
    BY <1>1, <1>2 DEF MayRead
  <2> QED
    BY <1>2, <1>4, <2>1, VisibleIn, VisibleInNext
<1>5a. Visible \cap Page(Visible)' \subseteq Page(Visible)
  <2>1. Page(Visible)' = Page(Visible')
    BY DEF Page
  <2> QED
    BY <1>5, <2>1, VisibleFinite, PageShrinks
<1>6. ASSUME Current'
      PROVE  /\ store'.list \subseteq Visible' /\ Short(store.list)'
             /\ \A r \in Calls : Grows(r)'
             /\ events' # 0
             /\ (store.unreadCount = Unread(store.list, store.read))'
  <2>1. Current
    BY <1>1, <1>3, <1>6 DEF Current
  <2>2. /\ store.list \subseteq Visible /\ Short(store.list)
        /\ \A r \in Calls : Grows(r)
        /\ store.unreadCount = Unread(store.list, store.read)
    BY <2>1 DEF CatchUpInv
  <2>3. events' # 0
    <3>1. rendered.user = user /\ user # None
      BY <2>1 DEF Current, Settled, View
    <3> QED
      BY <1>1, <3>1 DEF TypeInv
  <2>4. ASSUME NEW r \in Calls PROVE Grows(r)'
    <3>1. Answered(r) /\ Ours(calls[r]) /\ calls[r].number >= latest =>
            \A j \in store.list : j \in Page(Visible)' => j \in calls[r].list /\ InView(j)
      BY <1>5a, <2>2, VisibleIn DEF Grows
    <3>2. \A j \in store.list : InView(j)' <=> InView(j)
      BY <1>4 DEF TypeInv
    <3> QED
      BY <1>1, <1>3, <3>1, <3>2, GrowsNext DEF Answered, Ours
  <2> QED
    BY <1>1, <1>5, <2>2, <2>3, <2>4 DEF Unread, Short
<1>7. store'.read \subseteq read'
  BY <1>1 DEF CatchUpInv
<1> QED
  BY <1>6, <1>7 DEF CatchUpInv

LEMMA CatchUpStep ==
  ASSUME TypeInv, CallInv, CatchUpInv, [Next]_vars
  PROVE  CatchUpInv'
<1> USE DEF page, backend
<1>1. store.read \subseteq read /\ Empty.read = {}
  BY DEF CatchUpInv, Empty
<1>2. ASSUME ~Current', store'.read \in {store.read, {}}, read' = read
      PROVE  CatchUpInv'
  BY <1>1, <1>2 DEF CatchUpInv
<1>3. ASSUME NEW q \in Calls, Done(q), calls[q].phase \in {"patch", "patched"},
             UNCHANGED <<user, selected, rendered, notes, events, latest, store, read, missed>>
      PROVE  CatchUpInv'
  <2>1. calls'[q].phase # "answered" /\ \A r \in Calls \ {q} : calls'[r] = calls[r]
    BY <1>3, DoneType DEF NoCall
  <2> QED
    BY <1>1, <1>3, <2>1, ListKept
<1>4. ASSUME NEW q \in Calls, NEW c \in Call, Send(q, c), c.phase # "answered",
             UNCHANGED <<user, selected, rendered, notes, events, latest, store, read, missed>>
      PROVE  CatchUpInv'
  <2>1. /\ calls'[q] = c /\ calls[q].phase = "none"
        /\ \A r \in Calls \ {q} : calls'[r] = calls[r]
    BY <1>4, SendType
  <2> QED
    BY <1>1, <1>4, <2>1, ListKept
<1>5. ASSUME NEW q \in Calls, NEW c \in Call, calls' = [calls EXCEPT ![q] = c],
             c.phase # "answered", calls[q].phase \in {"patch", "patched"}, read \subseteq read',
             UNCHANGED <<user, selected, rendered, notes, events, latest, store, missed>>
      PROVE  CatchUpInv'
  <2>1. calls'[q] = c /\ \A r \in Calls \ {q} : calls'[r] = calls[r]
    BY <1>5, CallSet
  <2> QED
    BY <1>1, <1>5, <2>1, ListKept
<1>a. ASSUME NEW u \in Users, Login(u) PROVE CatchUpInv'
  <2>1. user' # user /\ Settled /\ rendered' = rendered
    BY <1>a, FeedAssumption DEF Login
  <2>2. ~Current'
    BY <2>1, UserChanged, ViewChanged DEF Current
  <2> QED
    BY <1>2, <1>a, <2>2 DEF Login
<1>b. CASE Logout
  <2>1. ~Current'
    BY <1>b DEF Current, Logout
  <2> QED
    BY <1>2, <1>b, <2>1 DEF Logout
<1>c. ASSUME NEW c \in Colleges \cup {None}, Select(c) PROVE CatchUpInv'
  <2>1. CASE selected' = selected
    BY <1>1, <1>c, <2>1, ListKept DEF Select
  <2>2. CASE selected' # selected
    <3>1. View' # View
      BY <1>c, <2>2, Selection
    <3>2. ~Current'
      BY <1>c, <3>1, ViewChanged DEF Current, Select
    <3> QED
      BY <1>2, <1>c, <3>2 DEF Select
  <2> QED
    BY <2>1, <2>2
<1>d. ASSUME NEW c \in Colleges, Create(c) PROVE CatchUpInv'
  BY <1>d, CreateKept
<1>e. ASSUME NEW i \in Ids, DismissToast(i) PROVE CatchUpInv'
  <2>1. ASSUME NEW s, store' = [store EXCEPT !.toasts = s]
        PROVE  /\ store'.list = store.list /\ store'.read = store.read
               /\ store'.unreadCount = store.unreadCount
    BY <2>1 DEF TypeInv, Store
  <2>2. /\ store'.list = store.list /\ store'.read = store.read
        /\ store'.unreadCount = store.unreadCount
    BY <1>e, <2>1 DEF DismissToast
  <2> QED
    BY <1>1, <1>e, <2>2, ListKept DEF DismissToast
<1>f. CASE LoseSocket
  <2>1. ~Current'
    BY <1>f DEF Current, LoseSocket
  <2> QED
    BY <1>2, <1>f, <2>1 DEF LoseSocket
<1>g. ASSUME NEW q \in Calls, Effects(q) PROVE CatchUpInv'
  <2>1. CASE user = None
    <3>1. ~Current'
      BY <1>g, <2>1 DEF Current, Effects
    <3> QED
      BY <1>1, <1>2, <1>g, <3>1 DEF Effects
  <2>2. CASE user # None
    BY <1>g, <2>2, AskedKept DEF Effects
  <2> QED
    BY <2>1, <2>2
<1>h. ASSUME NEW q \in Calls, Event(q) PROVE CatchUpInv'
  BY <1>h, AskedKept DEF Event
<1>i. ASSUME NEW q \in Calls, NEW i \in Ids, MarkAsRead(q, i) PROVE CatchUpInv'
  <2> DEFINE c == [NoCall EXCEPT !.phase = "patch", !.kind = "markAsRead", !.by = user,
                                 !.note = i]
  <2>1. i \in Nat /\ user # None /\ Send(q, c)
    BY <1>i, CreatedFinite DEF MarkAsRead, MayRead
  <2>2. c \in Call /\ c.phase = "patch"
    BY <2>1, PatchIsCall
  <2> HIDE DEF c
  <2> QED
    BY <1>4, <1>i, <2>1, <2>2 DEF MarkAsRead
<1>j. ASSUME NEW q \in Calls, MarkAllAsRead(q) PROVE CatchUpInv'
  <2> DEFINE c == [NoCall EXCEPT !.phase = "patch", !.kind = "markAllAsRead", !.by = user]
  <2>1. user # None /\ Send(q, c) /\ 0 \in Nat
    BY <1>j DEF MarkAllAsRead
  <2>2. c \in Call /\ c.phase = "patch"
    BY <2>1, PatchIsCall
  <2> HIDE DEF c
  <2> QED
    BY <1>4, <1>j, <2>1, <2>2 DEF MarkAllAsRead
<1>k. ASSUME NEW q \in Calls, ServePatch(q) PROVE CatchUpInv'
  <2> DEFINE c == [calls[q] EXCEPT !.phase = "patched"]
  <2>1. c \in Call /\ c.phase = "patched"
    BY PatchedIsCall
  <2>2. calls' = [calls EXCEPT ![q] = c]
    BY <1>k, PatchedIsCall DEF ServePatch
  <2>3. read \subseteq read'
    BY <1>k DEF ServePatch, Patched
  <2> HIDE DEF c
  <2> QED
    BY <1>5, <1>k, <2>1, <2>2, <2>3 DEF ServePatch
<1>l. ASSUME NEW q \in Calls, Load(q) PROVE CatchUpInv'
  BY <1>l, AskedKept DEF Load
<1>m. ASSUME NEW q \in Calls, ServeGet(q) PROVE CatchUpInv'
  BY <1>m, ServeGetKept
<1>n. ASSUME NEW q \in Calls, Continue(q) PROVE CatchUpInv'
  <2>1. CASE user = None
    BY <1>3, <1>n, <2>1 DEF Continue
  <2>2. CASE user # None
    <3> DEFINE c == Get(q, calls[q])
    <3>1. calls[q] \in Call
      BY DEF TypeInv
    <3>2. c \in Call /\ c.phase = "get"
      BY <3>1, GetIsCall
    <3>3. calls' = [calls EXCEPT ![q] = c]
      BY <1>n, <2>2 DEF Continue
    <3> HIDE DEF c
    <3> QED
      BY <1>5, <1>n, <3>2, <3>3 DEF Continue
  <2> QED
    BY <2>1, <2>2
<1>o. ASSUME NEW q \in Calls, Refresh(q) PROVE CatchUpInv'
  <2> DEFINE list == Filtered(calls[q].list)
  <2>1. /\ Answered(q) /\ calls[q].kind \in {"reset", "refresh", "load"} /\ Taken(calls[q])
        /\ Done(q) /\ UNCHANGED <<user, selected, rendered, notes, read, events>>
    BY <1>o DEF Refresh, Answered
  <2>2. /\ store'.list = list /\ store'.read = calls[q].read \cap list
        /\ store'.unreadCount = Unread(list, calls[q].read)
    BY <1>o DEF Refresh, Refreshed
  <2>3. store'.unreadCount = Unread(store'.list, store'.read)
    <3>1. list \ (calls[q].read \cap list) = list \ calls[q].read
      OBVIOUS
    <3> QED
      BY <2>2, <3>1 DEF Unread
  <2> HIDE DEF list
  <2> QED
    BY <2>1, <2>2, <2>3, ListTaken DEF list
<1>p. ASSUME NEW q \in Calls, MarkedAsRead(q) PROVE CatchUpInv'
  BY <1>p, MarkedKept
<1>q. ASSUME NEW q \in Calls, MarkedAllAsRead(q) PROVE CatchUpInv'
  <2> DEFINE list == Filtered(calls[q].list)
  <2>1. /\ Answered(q) /\ calls[q].kind = "markAllAsRead" /\ Taken(calls[q])
        /\ Done(q) /\ UNCHANGED <<user, selected, rendered, notes, read, events>>
    BY <1>q DEF MarkedAllAsRead, Answered
  <2>2. store' = [store EXCEPT !.list = list, !.read = calls[q].read \cap list,
                               !.unreadCount = 0]
    BY <1>q DEF MarkedAllAsRead
  <2>3. /\ store'.list = list /\ store'.read = calls[q].read \cap list
        /\ store'.unreadCount = 0
    <3>1. store \in Store
      BY DEF TypeInv
    <3> HIDE DEF list
    <3> QED
      BY <2>2, <3>1 DEF Store
  <2>4. ASSUME ~missed' PROVE store'.unreadCount = Unread(store'.list, store'.read)
    <3>1. calls[q].read = calls[q].list
      BY <2>1, <2>4 DEF Taken
    <3>2. list \ (calls[q].read \cap list) = {}
      BY <3>1, FilteredIn
    <3> QED
      BY <2>3, <3>2, FS_EmptySet DEF Unread
  <2> HIDE DEF list
  <2> QED
    BY <2>1, <2>3, <2>4, ListTaken DEF list
<1>r. ASSUME NEW q \in Calls, Fail(q) PROVE CatchUpInv'
  <2>1. ~Current' /\ store'.read \in {store.read, {}}
    BY <1>r, FailedStore DEF Current, Fail
  <2> QED
    BY <1>2, <1>r, <2>1 DEF Fail
<1>s. CASE UNCHANGED vars
  BY <1>1, <1>s, ListKept DEF vars
<1> QED
  BY <1>a, <1>b, <1>c, <1>d, <1>e, <1>f, <1>g, <1>h, <1>i, <1>j, <1>k, <1>l, <1>m,
     <1>n, <1>o, <1>p, <1>q, <1>r, <1>s DEF Next

----------------------------------------------------------------------------

LEMMA FeedInit ==
  ASSUME Init
  PROVE  FeedInv
<1>1. /\ ToSet(Empty.toasts) = {} /\ Empty \in Store
      /\ Empty.list = {} /\ Empty.read = {}
  BY EmptyIsStore DEF Empty
<1>2. TypeInv
  BY <1>1, FeedAssumption, NoCallIsCall DEF Init, TypeInv
<1>3. ScopedList /\ ~Current
  BY DEF Init, ScopedList, SuperAdmin, Current
<1>4. CallInv
  BY DEF Init, CallInv, Marks, Answered, NoCall
<1>5. CatchUpInv
  BY <1>1, <1>3 DEF Init, CatchUpInv
<1> QED
  BY <1>2, <1>3, <1>4, <1>5 DEF FeedInv

LEMMA FeedInvariant == Spec => []FeedInv
<1>1. Init => FeedInv
  BY FeedInit
<1>2. FeedInv /\ [Next]_vars => FeedInv'
  BY TypeStep, ScopeStep, CallStep, CatchUpStep DEF FeedInv
<1> QED
  BY <1>1, <1>2, PTL DEF Spec

(* A super admin who selected a college sees, and is shown toasts of,      *)
(* notifications of this college only, whatever answers are still to come. *)
THEOREM ListStaysInScope == Spec => []ScopedList
BY FeedInvariant, PTL DEF FeedInv

LEMMA NothingLeft ==
  ASSUME FeedInv
  PROVE  CaughtUp
<1>1. ASSUME Settled, user # None, ~missed, events = 0,
             \A q \in Calls : calls[q].phase = "none"
      PROVE  /\ store.list = Page(Visible) /\ store.read \subseteq read
             /\ store.unreadCount = Unread(store.list, store.read)
  <2>1. Current /\ CatchUpInv
    BY <1>1 DEF Current, FeedInv
  <2>2. Coming /\ store.list \subseteq Visible /\ Short(store.list)
    BY <1>1, <2>1 DEF CatchUpInv
  <2>3. \A q \in Calls : \A i : ~Brings(q, i)
    BY <1>1 DEF Brings, Answered
  <2>4. Page(Visible) \subseteq store.list
    BY <2>2, <2>3 DEF Coming
  <2>5. store.list = Page(Visible)
    BY <2>2, <2>4, VisibleFinite, PageListed
  <2> QED
    BY <1>1, <2>1, <2>5 DEF CatchUpInv
<1> QED
  BY <1>1 DEF CaughtUp, Visible

(* With nothing under way, the list is the newest page of what the backend *)
(* has for the view, and the unread ones of it are counted, unless since   *)
(* the effects ran something was lost, late or meant for another view.     *)
THEOREM ListCatchesUp == Spec => []CaughtUp
<1>1. FeedInv => CaughtUp
  BY NothingLeft
<1> QED
  BY <1>1, FeedInvariant, PTL

=============================================================================
