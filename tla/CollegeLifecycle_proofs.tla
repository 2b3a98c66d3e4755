----------------------- MODULE CollegeLifecycle_proofs -----------------------
(***************************************************************************)
(* Proofs about CollegeLifecycle, for any number of colleges, users and    *)
(* requests.  What a request holds has a shape at each of its queries      *)
(* (Shape).  What it has read of its college (Ready) is still what the     *)
(* tables hold when it writes, unless the college has clashed: two         *)
(* requests for a college of which one may delete it are what a clash is   *)
(* (Apart), and a step for one college leaves the others alone             *)
(* (Untouched).  So nothing outlives a college that has not clashed        *)
(* (AllOwned), however requests overlap.  While they do not overlap at all *)
(* (calm), the admins that an update has found are still those of its      *)
(* college (Chosen).                                                       *)
(***************************************************************************)
EXTENDS CollegeLifecycle, FiniteSetTheorems, TLAPS

Pcs == {"idle", "saveCollege", "admins", "commit", "users", "data", "delete",
        "insert", "college", "saveUser", "remaining"}

Op == [pc : Pcs, college : Colleges \cup {None}, user : Users \cup {None},
       status : Statuses \cup {None}, row : UserRow \cup {None}, others : SUBSET Users]

TablesOK ==
  /\ colleges \in [Colleges -> Statuses \cup {Gone, None}]
  /\ users \in [Users -> UserRow \cup {Gone, None}]
  /\ data \subseteq Colleges

(* What a request holds at each of its queries. *)
Shape(o) ==
  /\ o \in Op
  /\ o.pc = "idle" => o.college = None
  /\ o.pc # "idle" => o.college \in Colleges
  /\ o.pc \in {"saveCollege", "admins", "commit"} => o.status \in Statuses
  /\ o.pc \in {"insert", "college", "saveUser"} =>
       o.row \in UserRow /\ o.row.college = o.college
  /\ o.pc \in {"college", "saveUser", "remaining"} => o.user \in Users
  /\ o.pc = "users" => o.user = None

RequestsOK ==
  /\ op \in [Requests -> Op]
  /\ \A r \in Requests : Shape(op[r])

(* Tables cs, us and ds in which what request o has read still holds. *)
MembersIn(us, c) == {u \in Users : us[u] \in UserRow /\ us[u].college = c}
AdminsIn(us, c) == {u \in MembersIn(us, c) : us[u].role = "COLLEGE_ADMIN"}

Ready(o, cs, us, ds) ==
  /\ o.pc \in {"insert", "saveUser"} => cs[o.college] \in Statuses
  /\ o.pc \in {"data", "delete"} =>
       /\ o.user = None => MembersIn(us, o.college) = AdminsIn(us, o.college)
       /\ o.user # None => MembersIn(us, o.college) \subseteq {o.user}
  /\ o.pc = "delete" => o.college \notin ds

Chosen(o, us) ==
  o.pc = "commit" =>
    /\ o.user = None => AdminsIn(us, o.college) = {} /\ o.others = {}
    /\ o.user # None => /\ AdminsIn(us, o.college) = {o.user} \cup o.others
                        /\ o.user \notin o.others

AllOwned ==
  /\ \A u \in Users : users[u] \in UserRow =>
       colleges[users[u].college] \in Statuses \/ users[u].college \in clashed
  /\ \A c \in data : colleges[c] \in Statuses \/ c \in clashed

(* Only ids that were given to a college are named. *)
Given(o) == o.pc \notin {"idle", "college"} => colleges[o.college] # None

Named ==
  /\ \A u \in Users : users[u] \in UserRow => colleges[users[u].college] # None
  /\ \A u \in Users : tokens[u] \in UserRow => colleges[tokens[u].college] # None
  /\ \A r \in Requests : Given(op[r])

Apart ==
  \A q, r \in Requests :
    q # r /\ op[q].college = op[r].college /\ Deleting(op[q]) => op[q].college \in clashed

AllReady ==
  \A r \in Requests : Ready(op[r], colleges, users, data) \/ op[r].college \in clashed

Kept == AllOwned /\ Named /\ Apart /\ AllReady

Undisturbed ==
  calm => /\ \A q, r \in Requests : Busy(q) /\ Busy(r) => q = r
          /\ \A r \in Requests : Chosen(op[r], users)

Inv ==
  /\ TablesOK
  /\ tokens \in [Users -> UserRow \cup {None}]
  /\ RequestsOK
  /\ requests \in 0 .. MaxRequests
  /\ calm \in BOOLEAN
  /\ clashed \subseteq Colleges
  /\ Kept
  /\ Undisturbed

-----------------------------------------------------------------------------
(* What a step of request r for college c leaves alone, and what it has to *)
(* show for itself; r holds o afterwards.                                  *)

Untouched(d) ==
  /\ \A u \in Users :
       users'[u] \in UserRow /\ users'[u].college = d => users'[u] = users[u]
  /\ d \in data' => d \in data
  /\ colleges[d] \in Statuses => colleges'[d] \in Statuses

Stands(c) ==
  /\ \A u \in Users : users'[u] \in UserRow /\ users'[u].college = c =>
       colleges'[c] \in Statuses \/ c \in clashed'
  /\ c \in data' => colleges'[c] \in Statuses \/ c \in clashed'

IdsGiven ==
  /\ \A c \in Colleges : colleges[c] # None => colleges'[c] # None
  /\ \A u \in Users : users'[u] \in UserRow =>
       users'[u] = users[u] \/ colleges'[users'[u].college] # None

LEMMA UntouchedReady ==
  ASSUME NEW o, Ready(o, colleges, users, data), Untouched(o.college)
  PROVE  Ready(o, colleges', users', data')
<1> DEFINE d == o.college
<1>1. ASSUME NEW u \in MembersIn(users', d)
      PROVE  /\ u \in MembersIn(users, d)
             /\ u \in AdminsIn(users, d) => u \in AdminsIn(users', d)
  BY DEF Untouched, MembersIn, AdminsIn
<1>2. AdminsIn(users', d) \subseteq MembersIn(users', d)
  BY DEF AdminsIn
<1> HIDE DEF d
<1>3. MembersIn(users, d) = AdminsIn(users, d) =>
        MembersIn(users', d) = AdminsIn(users', d)
  BY <1>1, <1>2
<1>4. MembersIn(users', d) \subseteq MembersIn(users, d)
  BY <1>1
<1>5. MembersIn(users, d) \subseteq {o.user} => MembersIn(users', d) \subseteq {o.user}
  BY <1>4
<1> QED
  BY <1>3, <1>5 DEF Ready, Untouched, d

LEMMA KeptByStep ==
  ASSUME Inv, NEW r \in Requests, NEW o, Shape(o), NEW c \in Colleges \cup {None},
         op' = [op EXCEPT ![r] = o], clashed \subseteq clashed', tokens' = tokens,
         TablesOK', \A d \in Colleges \ {c} : Untouched(d),
         c \in Colleges => Stands(c),
         IdsGiven, Given(o)',
         Ready(o, colleges', users', data') \/ o.college \in clashed',
         \A q \in Requests \ {r} : op[q].college = c /\ c \in Colleges =>
           /\ Deleting(op[q]) => c \in clashed'
           /\ colleges[c] \in Statuses => colleges'[c] \in Statuses \/ c \in clashed',
         \A q \in Requests \ {r} :
           op[q].college = o.college /\ (Deleting(op[q]) \/ Deleting(o))
             => o.college \in clashed'
  PROVE  Kept'
<1>1. op'[r] = o /\ \A q \in Requests \ {r} : op'[q] = op[q]
  BY DEF Inv, RequestsOK
<1>2. AllOwned'
  <2>1. ASSUME NEW u \in Users, users'[u] \in UserRow
        PROVE  colleges'[users'[u].college] \in Statuses \/ users'[u].college \in clashed'
    <3> DEFINE d == users'[u].college
    <3>1. d \in Colleges
      BY <2>1 DEF UserRow
    <3>2. CASE d = c
      BY <2>1, <3>1, <3>2 DEF Stands
    <3>3. CASE d # c
      <4>1. users'[u] = users[u] /\ (colleges[d] \in Statuses => colleges'[d] \in Statuses)
        BY <2>1, <3>1, <3>3 DEF Untouched
      <4> QED
        BY <2>1, <4>1 DEF Inv, Kept, AllOwned
    <3> QED
      BY <3>2, <3>3
  <2>2. ASSUME NEW d \in data'
        PROVE  colleges'[d] \in Statuses \/ d \in clashed'
    <3>1. d \in Colleges
      BY DEF TablesOK
    <3>2. CASE d = c
      BY <3>1, <3>2 DEF Stands
    <3>3. CASE d # c
      BY <3>1, <3>3 DEF Untouched, Inv, Kept, AllOwned
    <3> QED
      BY <3>2, <3>3
  <2> QED
    BY <2>1, <2>2 DEF AllOwned
<1>3. Named'
  <2>1. ASSUME NEW u \in Users, users'[u] \in UserRow
        PROVE  colleges'[users'[u].college] # None
    <3>1. CASE users'[u] = users[u]
      <4>1. users[u].college \in Colleges /\ colleges[users[u].college] # None
        BY <2>1, <3>1 DEF Inv, Kept, Named, UserRow
      <4> QED
        BY <3>1, <4>1 DEF IdsGiven
    <3> QED
      BY <2>1, <3>1 DEF IdsGiven
  <2>2. ASSUME NEW u \in Users, tokens'[u] \in UserRow
        PROVE  colleges'[tokens'[u].college] # None
    BY <2>2 DEF Inv, Kept, Named, UserRow, IdsGiven
  <2>3. ASSUME NEW q \in Requests
        PROVE  Given(op[q])'
    <3>1. CASE q = r
      BY <1>1, <3>1
    <3>2. CASE q # r
      <4>1. op'[q] = op[q] /\ Given(op[q]) /\ Shape(op[q])
        BY <1>1, <3>2 DEF Inv, Kept, Named, RequestsOK
      <4> QED
        BY <4>1 DEF Given, Shape, IdsGiven
    <3> QED
      BY <3>1, <3>2
  <2> QED
    BY <2>1, <2>2, <2>3 DEF Named, Given
<1>4. Apart'
  <2>1. ASSUME NEW q \in Requests, NEW s \in Requests, q # s,
               op'[q].college = op'[s].college, Deleting(op'[q])
        PROVE  op'[q].college \in clashed'
    <3>1. CASE q = r
      BY <1>1, <2>1, <3>1
    <3>2. CASE s = r
      BY <1>1, <2>1, <3>2
    <3>3. CASE q # r /\ s # r
      <4>1. op[q].college \in clashed
        BY <1>1, <2>1, <3>3 DEF Inv, Kept, Apart
      <4> QED
        BY <1>1, <3>3, <4>1
    <3> QED
      BY <3>1, <3>2, <3>3
  <2> QED
    BY <2>1 DEF Apart, Deleting
<1>5. AllReady'
  <2>1. ASSUME NEW q \in Requests
        PROVE  Ready(op'[q], colleges', users', data') \/ op'[q].college \in clashed'
    <3>1. CASE q = r
      BY <1>1, <3>1
    <3>2. CASE q # r
      <4> DEFINE d == op[q].college
      <4>1. op'[q] = op[q] /\ Shape(op[q])
            /\ (Ready(op[q], colleges, users, data) \/ d \in clashed)
        BY <1>1, <3>2 DEF Inv, Kept, AllReady, RequestsOK
      <4>2. CASE d \in clashed
        BY <4>1, <4>2
      <4>3. CASE d \notin Colleges
        <5>1. op[q].pc = "idle"
          BY <4>1, <4>3 DEF Shape
        <5> QED
          BY <4>1, <5>1 DEF Ready
      <4>4. CASE d \in Colleges /\ d # c /\ d \notin clashed
        <5>1. Untouched(d)
          BY <4>4
        <5> QED
          BY <4>1, <4>4, <5>1, UntouchedReady
      <4>5. CASE d \in Colleges /\ d = c /\ d \notin clashed
        <5>1. /\ Deleting(op[q]) => c \in clashed'
              /\ colleges[c] \in Statuses => colleges'[c] \in Statuses \/ c \in clashed'
          BY <3>2, <4>5
        <5>2. CASE Deleting(op[q])
          BY <4>1, <4>5, <5>1, <5>2
        <5>3. CASE ~Deleting(op[q])
          BY <4>1, <4>5, <5>1, <5>3 DEF Ready, Deleting
        <5> QED
          BY <5>2, <5>3
      <4> QED
        BY <4>2, <4>3, <4>4, <4>5
    <3> QED
      BY <3>1, <3>2
  <2> QED
    BY <2>1 DEF AllReady
<1> QED
  BY <1>2, <1>3, <1>4, <1>5 DEF Kept

LEMMA RequestsMoved ==
  ASSUME RequestsOK, NEW r \in Requests, NEW o, Shape(o), op' = [op EXCEPT ![r] = o]
  PROVE  RequestsOK'
<1>1. o \in Op
  BY DEF Shape
<1>2. op'[r] = o /\ \A q \in Requests \ {r} : op'[q] = op[q]
  BY DEF RequestsOK
<1>3. op' \in [Requests -> Op]
  BY <1>1 DEF RequestsOK
<1>4. \A q \in Requests : Shape(op'[q])
  BY <1>2 DEF RequestsOK
<1> QED
  BY <1>3, <1>4 DEF RequestsOK

(* While requests come one at a time, only what r holds matters. *)
LEMMA StaysUndisturbed ==
  ASSUME RequestsOK, NEW r \in Requests, NEW o, op' = [op EXCEPT ![r] = o],
         calm' => (\A q \in Requests \ {r} : ~Busy(q)) /\ Chosen(o, users')
  PROVE  Undisturbed'
<1>1. op'[r] = o /\ \A q \in Requests \ {r} : op'[q] = op[q]
  BY DEF RequestsOK
<1> SUFFICES ASSUME calm'
             PROVE  /\ \A q, s \in Requests : Busy(q)' /\ Busy(s)' => q = s
                    /\ \A q \in Requests : Chosen(op'[q], users')
  BY DEF Undisturbed, Chosen
<1>2. \A q \in Requests \ {r} : op'[q].pc = "idle"
  BY <1>1 DEF Busy
<1>3. \A q, s \in Requests : Busy(q)' /\ Busy(s)' => q = s
  BY <1>2 DEF Busy
<1>4. \A q \in Requests : Chosen(op'[q], users')
  BY <1>1, <1>2 DEF Chosen
<1> QED
  BY <1>3, <1>4

LEMMA Started ==
  ASSUME Inv, NEW r \in Requests, NEW o, NEW actor, NEW k, Shape(o),
         o.pc # "commit",
         StartAt(r, actor, k, o), o.pc # "idle" => k = o.college,
         TablesOK', NEW c \in Colleges \cup {None},
         \A d \in Colleges \ {c} : Untouched(d),
         c \in Colleges => Stands(c),
         IdsGiven, Given(o)',
         Ready(o, colleges', users', data') \/ o.college \in clashed',
         \A q \in Requests \ {r} : op[q].college = c /\ c \in Colleges =>
           /\ Deleting(op[q]) => c \in clashed'
           /\ colleges[c] \in Statuses => colleges'[c] \in Statuses \/ c \in clashed'
  PROVE  Inv'
<1>1. /\ ~Busy(r) /\ requests < MaxRequests /\ requests' = requests + 1
      /\ calm' = (calm /\ Fresh(actor, k) /\ \A q \in Requests : ~Busy(q))
      /\ clashed' = clashed \cup
           {b \in Colleges : b = k /\ (~Fresh(actor, k) \/ Overlaps(k, o))}
      /\ tokens' = tokens
      /\ op' = [op EXCEPT ![r] = o]
  BY DEF StartAt
<1>2. RequestsOK'
  BY <1>1, RequestsMoved DEF Inv
<1>3. Undisturbed'
  BY <1>1, StaysUndisturbed DEF Inv, Chosen
<1>4. clashed \subseteq clashed' /\ clashed' \subseteq Colleges /\ calm' \in BOOLEAN
  BY <1>1 DEF Inv
<1>5. ASSUME NEW q \in Requests \ {r}, op[q].college = o.college,
             Deleting(op[q]) \/ Deleting(o)
      PROVE  o.college \in clashed'
  <2>1. o.pc # "idle" /\ o.college \in Colleges
    <3>1. Shape(op[q])
      BY DEF Inv, RequestsOK
    <3> QED
      BY <1>5, <3>1, LifecycleAssumption DEF Shape, Deleting
  <2>2. Overlaps(k, o) /\ k = o.college
    BY <1>5, <2>1 DEF Overlaps
  <2> QED
    BY <1>1, <2>1, <2>2
<1>6. Kept'
  BY <1>1, <1>4, <1>5, KeptByStep
<1>7. requests' \in 0 .. MaxRequests
  BY <1>1, LifecycleAssumption DEF Inv
<1> QED
  BY <1>1, <1>2, <1>3, <1>4, <1>6, <1>7 DEF Inv

LEMMA WentOn ==
  ASSUME Inv, NEW r \in Requests, NEW o, Shape(o), Busy(r), GoOn(r, o), TablesOK',
         o.college \in {op[r].college, None}, Deleting(o) => Deleting(op[r]),
         \A d \in Colleges \ {op[r].college} : Untouched(d),
         Stands(op[r].college),
         IdsGiven, Given(o)',
         Ready(o, colleges', users', data') \/ o.college \in clashed,
         Deleting(op[r]) \/ (colleges[op[r].college] \in Statuses =>
                               colleges'[op[r].college] \in Statuses),
         calm => Chosen(o, users')
  PROVE  Inv'
<1> DEFINE c == op[r].college
<1>1. /\ op' = [op EXCEPT ![r] = o] /\ tokens' = tokens /\ requests' = requests
      /\ calm' = calm /\ clashed' = clashed
  BY DEF GoOn
<1>2. RequestsOK'
  BY <1>1, RequestsMoved DEF Inv
<1>3. calm => \A q \in Requests \ {r} : ~Busy(q)
  BY DEF Inv, Undisturbed
<1>4. Undisturbed'
  BY <1>1, <1>3, StaysUndisturbed DEF Inv
<1>5. c \in Colleges
  BY DEF Inv, RequestsOK, Shape, Busy
<1>6. ASSUME NEW q \in Requests \ {r}, op[q].college = c,
             Deleting(op[q]) \/ Deleting(op[r])
      PROVE  c \in clashed'
  BY <1>1, <1>6 DEF Inv, Kept, Apart
<1>7. ASSUME NEW q \in Requests \ {r}, op[q].college = c
      PROVE  /\ Deleting(op[q]) => c \in clashed'
             /\ colleges[c] \in Statuses => colleges'[c] \in Statuses \/ c \in clashed'
  BY <1>6, <1>7
<1>8. ASSUME NEW q \in Requests \ {r}, op[q].college = o.college,
             Deleting(op[q]) \/ Deleting(o)
      PROVE  o.college \in clashed'
  <2>1. Shape(op[q])
    BY DEF Inv, RequestsOK
  <2>2. o.college = c
    BY <1>8, <2>1, LifecycleAssumption DEF Shape, Deleting
  <2> QED
    BY <1>6, <1>8, <2>2
<1> HIDE DEF c
<1>9. Kept'
  BY <1>1, <1>5, <1>7, <1>8, KeptByStep DEF c
<1> QED
  BY <1>1, <1>2, <1>4, <1>9 DEF Inv

(* Steps that only read. *)
LEMMA ReadingKeeps ==
  ASSUME Inv, UNCHANGED tables
  PROVE  /\ \A d \in Colleges : Untouched(d)
         /\ IdsGiven /\ TablesOK'
         /\ clashed \subseteq clashed' => \A c \in Colleges : Stands(c)
<1>1. colleges' = colleges /\ users' = users /\ data' = data
  BY DEF tables
<1>2. \A d \in Colleges : Untouched(d)
  BY <1>1 DEF Untouched
<1>3. IdsGiven /\ TablesOK'
  BY <1>1 DEF IdsGiven, Inv, TablesOK
<1>4. clashed \subseteq clashed' => \A c \in Colleges : Stands(c)
  BY <1>1 DEF Stands, Inv, Kept, AllOwned
<1> QED
  BY <1>2, <1>3, <1>4

LEMMA StartedReading ==
  ASSUME Inv, NEW r \in Requests, NEW o, NEW actor, NEW k, Shape(o),
         o.pc # "commit",
         StartAt(r, actor, k, o), o.pc # "idle" => k = o.college,
         UNCHANGED tables, Given(o),
         Ready(o, colleges, users, data) \/ o.college \in clashed'
  PROVE  Inv'
<1>1. colleges' = colleges /\ users' = users /\ data' = data
  BY DEF tables
<1>2. Given(o)' /\ (Ready(o, colleges', users', data') \/ o.college \in clashed')
  BY <1>1 DEF Given
<1>3. None \notin Colleges
  BY LifecycleAssumption
<1> QED
  BY <1>2, <1>3, ReadingKeeps, Started

LEMMA WentOnReading ==
  ASSUME Inv, NEW r \in Requests, NEW o, Shape(o), Busy(r), GoOn(r, o),
         UNCHANGED tables,
         o.college \in {op[r].college, None}, Deleting(o) => Deleting(op[r]),
         Given(o), Ready(o, colleges, users, data) \/ o.college \in clashed,
         calm => Chosen(o, users)
  PROVE  Inv'
<1>1. colleges' = colleges /\ users' = users /\ data' = data
  BY DEF tables
<1>2. /\ Given(o)' /\ (calm => Chosen(o, users'))
      /\ Ready(o, colleges', users', data') \/ o.college \in clashed
  BY <1>1 DEF Given
<1>3. op[r].college \in Colleges
  BY DEF Inv, RequestsOK, Shape, Busy
<1>4. clashed' = clashed
  BY DEF GoOn
<1> QED
  BY <1>1, <1>2, <1>3, <1>4, ReadingKeeps, WentOn

LEMMA IdleShape ==
  /\ Shape(Idle) /\ Idle.pc = "idle" /\ Idle.college = None
  /\ ~Deleting(Idle) /\ Given(Idle) /\ Given(Idle)'
  /\ \A cs, us, ds : Ready(Idle, cs, us, ds) /\ Chosen(Idle, us)
BY DEF Idle, Shape, Op, Pcs, Ready, Chosen, Given, Deleting

LEMMA EndedReading ==
  ASSUME Inv, NEW r \in Requests, Busy(r), UNCHANGED tables, End(r)
  PROVE  Inv'
BY IdleShape, WentOnReading DEF End

(* The request writes rows of its college and ends. *)
LEMMA Ended ==
  ASSUME Inv, NEW r \in Requests, Busy(r), GoOn(r, Idle), TablesOK',
         \A d \in Colleges \ {op[r].college} : Untouched(d),
         Stands(op[r].college), IdsGiven,
         Deleting(op[r]) \/ (colleges[op[r].college] \in Statuses =>
                               colleges'[op[r].college] \in Statuses)
  PROVE  Inv'
BY IdleShape, WentOn

(* What request r holds. *)
LEMMA OpFacts ==
  ASSUME Inv, NEW r \in Requests, Busy(r)
  PROVE  /\ op[r] \in Op /\ Shape(op[r]) /\ Given(op[r])
         /\ op[r].college \in Colleges
         /\ Ready(op[r], colleges, users, data) \/ op[r].college \in clashed
BY DEF Inv, RequestsOK, Shape, Busy, Kept, Named, AllReady

-----------------------------------------------------------------------------
(* The queries of the services of colleges. *)

LEMMA ActorTyped ==
  ASSUME tokens \in [Users -> UserRow \cup {None}], NEW actor \in Actors
  PROVE  \/ actor = Super
         \/ /\ actor.id \in Users /\ tokens[actor.id] \in UserRow
            /\ actor.role = tokens[actor.id].role
            /\ actor.college = tokens[actor.id].college
            /\ actor.role \in Roles /\ actor.college \in Colleges
BY DEF Actors, SignedIn, ActorOf, UserRow

LEMMA CreateCollegeInv ==
  ASSUME Inv, NEW r \in Requests, CreateCollege(r)
  PROVE  Inv'
<1>1. PICK c \in Colleges, u \in Users, status \in {"active", "inactive"} :
        /\ colleges[c] = None /\ users[u] = None
        /\ colleges' = [colleges EXCEPT ![c] = status]
        /\ users' = [users EXCEPT ![u] = [role |-> "COLLEGE_ADMIN", college |-> c]]
  BY DEF CreateCollege
<1>2. data' = data /\ StartAt(r, Super, Idle.college, Idle)
  BY DEF CreateCollege, Start
<1>3. TablesOK'
  BY <1>1, <1>2 DEF Inv, TablesOK, Statuses, UserRow, Roles
<1>4. /\ colleges'[c] = status /\ \A b \in Colleges \ {c} : colleges'[b] = colleges[b]
      /\ users'[u].college = c /\ \A v \in Users \ {u} : users'[v] = users[v]
  BY <1>1 DEF Inv, TablesOK
<1>5. status \in Statuses /\ status # None /\ colleges[c] \notin Statuses
  BY <1>1, LifecycleAssumption DEF Statuses
<1>6. \A d \in Colleges \ {c} : Untouched(d)
  BY <1>2, <1>4 DEF Untouched
<1>7. Stands(c) /\ IdsGiven
  BY <1>4, <1>5 DEF Stands, IdsGiven
<1>8. ASSUME NEW q \in Requests, op[q].college = c
      PROVE  ~Deleting(op[q])
  BY <1>1, <1>8 DEF Inv, Kept, Named, Given, Deleting
<1> QED
  BY <1>2, <1>3, <1>5, <1>6, <1>7, <1>8, IdleShape, Started

LEMMA SetStatusInv ==
  ASSUME Inv, NEW r \in Requests, NEW actor, NEW c \in Colleges, NEW status \in Statuses,
         colleges[c] # None, SetStatus(r, actor, c, status)
  PROVE  Inv'
<1> DEFINE o == [Idle EXCEPT !.pc = "saveCollege", !.college = c, !.status = status]
<1>1. UNCHANGED tables /\ StartAt(r, actor, c, o)
  BY DEF SetStatus, Start, Idle
<1>2. Shape(o)
  BY DEF Shape, Op, Pcs, Idle
<1>3. o.pc = "saveCollege" /\ o.college = c /\ \A cs, us, ds : Ready(o, cs, us, ds)
  BY DEF Idle, Ready
<1> HIDE DEF o
<1>4. Given(o)
  BY <1>3 DEF Given
<1> QED
  BY <1>1, <1>2, <1>3, <1>4, StartedReading

LEMMA StatusRequestsInv ==
  ASSUME Inv, NEW r \in Requests, UpdateStatus(r) \/ RequestDelete(r) \/ CancelDelete(r)
  PROVE  Inv'
<1> None \notin Statuses /\ {"active", "inactive", "delete_pending"} \subseteq Statuses
  BY LifecycleAssumption DEF Statuses
<1>1. CASE UpdateStatus(r)
  <2>1. PICK c \in Colleges, status \in {"active", "inactive"} :
          HasCollege(c) /\ SetStatus(r, Super, c, status)
    BY <1>1 DEF UpdateStatus
  <2>2. status \in Statuses /\ colleges[c] # None
    BY <2>1 DEF HasCollege
  <2> QED
    BY <2>1, <2>2, SetStatusInv
<1>2. CASE RequestDelete(r)
  <2>1. PICK c \in Colleges :
          colleges[c] = "active" /\ SetStatus(r, Super, c, "delete_pending")
    BY <1>2 DEF RequestDelete
  <2> QED
    BY <2>1, SetStatusInv
<1>3. CASE CancelDelete(r)
  <2>1. PICK actor \in Actors : /\ actor.role = "COLLEGE_ADMIN"
                                /\ colleges[actor.college] = "delete_pending"
                                /\ SetStatus(r, actor, actor.college, "active")
    BY <1>3 DEF CancelDelete
  <2>2. actor.college \in Colleges
    BY <2>1, ActorTyped DEF Inv, Super
  <2> QED
    BY <2>1, <2>2, SetStatusInv
<1> QED
  BY <1>1, <1>2, <1>3

LEMMA SaveCollegeInv ==
  ASSUME Inv, NEW r \in Requests, SaveCollege(r)
  PROVE  Inv'
<1> DEFINE c == op[r].college
<1>1. /\ op[r].pc = "saveCollege" /\ Busy(r)
      /\ colleges' = [colleges EXCEPT ![c] = op[r].status]
      /\ users' = users /\ data' = data /\ GoOn(r, Idle)
  BY DEF SaveCollege, End, Busy
<1>2. c \in Colleges /\ op[r].status \in Statuses /\ op[r].status # None
  BY <1>1, OpFacts, LifecycleAssumption DEF Shape
<1> HIDE DEF c
<1>3. TablesOK'
  BY <1>1, <1>2 DEF Inv, TablesOK
<1>4. colleges'[c] = op[r].status /\ \A b \in Colleges \ {c} : colleges'[b] = colleges[b]
  BY <1>1, <1>2 DEF Inv, TablesOK
<1>5. \A d \in Colleges \ {c} : Untouched(d)
  BY <1>1, <1>4 DEF Untouched
<1>6. Stands(c) /\ IdsGiven
  BY <1>1, <1>2, <1>4 DEF Stands, IdsGiven
<1> QED
  BY <1>1, <1>2, <1>3, <1>4, <1>5, <1>6, Ended DEF c

LEMMA UpdateCollegeInv ==
  ASSUME Inv, NEW r \in Requests, UpdateCollege(r)
  PROVE  Inv'
<1>0. PICK c \in Colleges :
        /\ HasCollege(c) /\ UNCHANGED tables
        /\ \E status \in {colleges[c], "active", "inactive"} :
             Start(r, Super, [Idle EXCEPT !.pc = "admins", !.college = c, !.status = status])
  BY DEF UpdateCollege
<1>1. PICK status \in {colleges[c], "active", "inactive"} :
        Start(r, Super, [Idle EXCEPT !.pc = "admins", !.college = c, !.status = status])
  BY <1>0
<1> DEFINE o == [Idle EXCEPT !.pc = "admins", !.college = c, !.status = status]
<1>2. StartAt(r, Super, c, o)
  BY <1>1 DEF Start, Idle
<1>3. status \in Statuses
  BY <1>0, <1>1 DEF HasCollege, Statuses
<1>4. Shape(o)
  BY <1>3 DEF Shape, Op, Pcs, Idle
<1>5. o.pc = "admins" /\ o.college = c /\ \A cs, us, ds : Ready(o, cs, us, ds)
  BY DEF Idle, Ready
<1> HIDE DEF o
<1>6. Given(o)
  BY <1>0, <1>5, LifecycleAssumption DEF Given, HasCollege
<1> QED
  BY <1>0, <1>2, <1>4, <1>5, <1>6, StartedReading

LEMMA FindAdminsInv ==
  ASSUME Inv, NEW r \in Requests, FindAdmins(r)
  PROVE  Inv'
<1>1. op[r].pc = "admins" /\ Busy(r) /\ UNCHANGED tables
  BY DEF FindAdmins, Busy
<1>2. PICK first \in IF Admins(op[r].college) = {} THEN {None} ELSE Admins(op[r].college) :
        GoOn(r, [op[r] EXCEPT !.pc = "commit", !.user = first,
                              !.others = Admins(op[r].college) \ {first}])
  BY DEF FindAdmins
<1> DEFINE admins == Admins(op[r].college)
           o == [op[r] EXCEPT !.pc = "commit", !.user = first, !.others = admins \ {first}]
<1>3. /\ op[r] \in Op /\ op[r].college \in Colleges /\ op[r].status \in Statuses
      /\ colleges[op[r].college] # None
  BY <1>1, OpFacts DEF Shape, Given
<1>4. admins \subseteq Users /\ admins = AdminsIn(users, op[r].college)
  BY DEF Admins, Members, HasUser, AdminsIn, MembersIn
<1> HIDE DEF admins
<1>5. first \in Users \cup {None}
  BY <1>2, <1>4 DEF admins
<1>6. /\ o \in Op /\ o.pc = "commit" /\ o.college = op[r].college /\ o.user = first
      /\ o.others = admins \ {first} /\ o.status = op[r].status
  BY <1>3, <1>4, <1>5 DEF Op, Pcs
<1>7. GoOn(r, o)
  BY <1>2 DEF admins
<1> HIDE DEF o
<1>8. Shape(o)
  BY <1>3, <1>6 DEF Shape
<1>9. Chosen(o, users)
  <2>1. first = None => admins = {}
    BY <1>2, <1>4, LifecycleAssumption DEF admins
  <2>2. first # None => admins = {first} \cup (admins \ {first})
    BY <1>2 DEF admins
  <2> QED
    BY <1>4, <1>6, <2>1, <2>2 DEF Chosen
<1>10. ~Deleting(o) /\ Given(o) /\ Ready(o, colleges, users, data)
  BY <1>3, <1>6 DEF Deleting, Given, Ready
<1> QED
  BY <1>1, <1>6, <1>7, <1>8, <1>9, <1>10, WentOnReading

LEMMA CommitUpdateInv ==
  ASSUME Inv, NEW r \in Requests, CommitUpdate(r)
  PROVE  Inv'
<1> DEFINE c == op[r].college
<1>1. /\ op[r].pc = "commit" /\ Busy(r)
      /\ colleges' = [colleges EXCEPT ![c] = op[r].status]
      /\ data' = data /\ GoOn(r, Idle)
  BY DEF CommitUpdate, End, Busy
<1>2. /\ c \in Colleges /\ op[r].status \in Statuses /\ op[r] \in Op
      /\ op[r].others \subseteq Users /\ op[r].status # None
  BY <1>1, OpFacts, LifecycleAssumption DEF Shape, Op
<1>3. PICK u \in Users :
        users' = [v \in Users |->
                    CASE v \in op[r].others -> [role |-> "FLEET_MANAGER", college |-> c]
                      [] v = u -> [role |-> "COLLEGE_ADMIN", college |-> c]
                      [] OTHER -> users[v]]
  <2>1. CASE op[r].user # None /\ users' = SavedAdmins(op[r])
    <3>1. op[r].user \in Users
      BY <1>2, <2>1 DEF Op
    <3> QED
      BY <2>1, <3>1 DEF SavedAdmins
  <2>2. ASSUME NEW u \in Users, users' = SavedAdmins([op[r] EXCEPT !.user = u])
        PROVE  users' = [v \in Users |->
                    CASE v \in op[r].others -> [role |-> "FLEET_MANAGER", college |-> c]
                      [] v = u -> [role |-> "COLLEGE_ADMIN", college |-> c]
                      [] OTHER -> users[v]]
    <3> DEFINE o == [op[r] EXCEPT !.user = u]
    <3>1. o.user = u /\ o.others = op[r].others /\ o.college = c
      BY <1>2 DEF Op
    <3>2. users' = SavedAdmins(o)
      BY <2>2
    <3> HIDE DEF o
    <3> QED
      BY <3>1, <3>2 DEF SavedAdmins
  <2> QED
    BY <2>1, <2>2 DEF CommitUpdate
<1> HIDE DEF c
<1>4. \A v \in Users : users'[v] = users[v] \/ (users'[v] \in UserRow /\ users'[v].college = c)
  BY <1>2, <1>3 DEF UserRow, Roles
<1>5. TablesOK'
  <2>1. users' \in [Users -> UserRow \cup {Gone, None}]
    BY <1>3, <1>4 DEF Inv, TablesOK
  <2> QED
    BY <1>1, <1>2, <2>1 DEF Inv, TablesOK, c
<1>6. /\ colleges'[c] = op[r].status
      /\ \A b \in Colleges \ {c} : colleges'[b] = colleges[b]
  BY <1>1, <1>2 DEF Inv, TablesOK
<1>7. \A d \in Colleges \ {c} : Untouched(d)
  BY <1>1, <1>4, <1>6 DEF Untouched
<1>8. Stands(c) /\ IdsGiven
  BY <1>2, <1>4, <1>6 DEF Stands, IdsGiven
<1> QED
  BY <1>1, <1>2, <1>5, <1>6, <1>7, <1>8, Ended DEF c

LEMMA RemoveCollegeInv ==
  ASSUME Inv, NEW r \in Requests, RemoveCollege(r)
  PROVE  Inv'
<1>1. PICK actor \in Actors, c \in Colleges :
        /\ HasCollege(c) \/ colleges[c] = "delete_pending"
        /\ UNCHANGED tables
        /\ Start(r, actor, [Idle EXCEPT !.pc = "users", !.college = c])
  BY DEF RemoveCollege
<1> DEFINE o == [Idle EXCEPT !.pc = "users", !.college = c]
<1>2. StartAt(r, actor, c, o)
  BY <1>1 DEF Start, Idle
<1>3. Shape(o)
  BY DEF Shape, Op, Pcs, Idle
<1>4. o.pc = "users" /\ o.college = c /\ \A cs, us, ds : Ready(o, cs, us, ds)
  BY DEF Idle, Ready
<1> HIDE DEF o
<1>5. colleges[c] # None
  BY <1>1, LifecycleAssumption DEF HasCollege, Statuses
<1>6. Given(o)
  BY <1>4, <1>5 DEF Given
<1> QED
  BY <1>1, <1>2, <1>3, <1>4, <1>6, StartedReading

(* A deletion goes on to its next query. *)
LEMMA DeletionGoesOn ==
  ASSUME Inv, NEW r \in Requests, Deleting(op[r]), UNCHANGED tables,
         NEW pc \in {"data", "delete"}, Later(r, pc),
         op[r].pc \in {"remaining", "data"} \/ op[r].user = None,
         \/ Ready([op[r] EXCEPT !.pc = pc], colleges, users, data)
         \/ op[r].college \in clashed
  PROVE  Inv'
<1> DEFINE o == [op[r] EXCEPT !.pc = pc]
<1>1. Busy(r)
  BY DEF Deleting, Busy
<1>2. op[r] \in Op /\ op[r].college \in Colleges /\ colleges[op[r].college] # None
  BY <1>1, OpFacts DEF Given, Deleting
<1>3. o \in Op /\ o.pc = pc /\ o.college = op[r].college
  BY <1>2 DEF Op, Pcs
<1>4. GoOn(r, o) /\ (Ready(o, colleges, users, data) \/ o.college \in clashed)
  BY <1>3 DEF Later
<1> HIDE DEF o
<1>5. Shape(o) /\ Given(o) /\ Chosen(o, users)
  BY <1>2, <1>3 DEF Shape, Given, Chosen
<1> QED
  BY <1>1, <1>3, <1>4, <1>5, WentOnReading

LEMMA MembersAre ==
  ASSUME NEW c
  PROVE  /\ Members(c) = MembersIn(users, c)
         /\ Admins(c) = AdminsIn(users, c)
BY DEF Members, Admins, HasUser, MembersIn, AdminsIn

LEMMA CountUsersInv ==
  ASSUME Inv, NEW r \in Requests, CountUsers(r)
  PROVE  Inv'
<1>1. op[r].pc = "users" /\ Busy(r) /\ Deleting(op[r]) /\ UNCHANGED tables
  BY DEF CountUsers, Busy, Deleting
<1>2. op[r] \in Op /\ op[r].user = None
  BY <1>1, OpFacts DEF Shape
<1>3. CASE Members(op[r].college) = Admins(op[r].college)
  <2>1. Later(r, "data")
    BY <1>3 DEF CountUsers
  <2> DEFINE o == [op[r] EXCEPT !.pc = "data"]
  <2>2. o.pc = "data" /\ o.college = op[r].college /\ o.user = op[r].user
    BY <1>2 DEF Op
  <2> HIDE DEF o
  <2>3. Ready(o, colleges, users, data)
    BY <1>2, <1>3, <2>2, MembersAre DEF Ready
  <2> QED
    BY <1>1, <1>2, <2>1, <2>3, DeletionGoesOn DEF o
<1>4. CASE Members(op[r].college) # Admins(op[r].college)
  BY <1>1, <1>4, EndedReading DEF CountUsers
<1> QED
  BY <1>3, <1>4

(* A look-up that finds no data: the deletion may go ahead. *)
LEMMA NoDataFound ==
  ASSUME Inv, NEW r \in Requests, op[r].pc = "data", UNCHANGED tables,
         op[r].college \notin data, Later(r, "delete")
  PROVE  Inv'
<1>1. Busy(r) /\ Deleting(op[r])
  BY DEF Busy, Deleting
<1> DEFINE o == [op[r] EXCEPT !.pc = "delete"]
<1>2. op[r] \in Op
  BY <1>1, OpFacts
<1>3. o.pc = "delete" /\ o.college = op[r].college /\ o.user = op[r].user
  BY <1>2 DEF Op
<1> HIDE DEF o
<1>4. Ready(op[r], colleges, users, data) => Ready(o, colleges, users, data)
  BY <1>3 DEF Ready
<1>5. Ready(o, colleges, users, data) \/ op[r].college \in clashed
  BY <1>1, <1>4, OpFacts
<1> QED
  BY <1>1, <1>5, DeletionGoesOn DEF o

LEMMA LookForDataInv ==
  ASSUME Inv, NEW r \in Requests, LookForData(r)
  PROVE  Inv'
<1>1. op[r].pc = "data" /\ Busy(r) /\ UNCHANGED tables
  BY DEF LookForData, Busy
<1>2. CASE op[r].college \notin data
  BY <1>1, <1>2, NoDataFound DEF LookForData
<1>3. CASE op[r].college \in data
  BY <1>1, <1>3, EndedReading DEF LookForData
<1> QED
  BY <1>2, <1>3

(* The college of r is deleted, with all the users it has. *)
LEMMA Deleted ==
  ASSUME Inv, NEW r \in Requests, op[r].pc = "delete", TablesOK',
         colleges' = [colleges EXCEPT ![op[r].college] = Gone], data' = data,
         GoOn(r, Idle),
         \A u \in Users : users'[u] \in {Gone, users[u]},
         Ready(op[r], colleges, users, data) =>
           \A u \in MembersIn(users, op[r].college) : users'[u] = Gone
  PROVE  Inv'
<1> DEFINE c == op[r].college
<1>1. Busy(r) /\ Deleting(op[r])
  BY DEF Busy, Deleting
<1>2. c \in Colleges /\ (Ready(op[r], colleges, users, data) \/ c \in clashed)
  BY <1>1, OpFacts
<1>3. clashed' = clashed /\ Gone \notin UserRow /\ Gone # None
  BY LifecycleAssumption DEF GoOn
<1>4. colleges'[c] = Gone /\ \A b \in Colleges \ {c} : colleges'[b] = colleges[b]
  BY <1>2 DEF Inv, TablesOK
<1>5. \A d \in Colleges \ {c} : Untouched(d)
  BY <1>3, <1>4 DEF Untouched
<1>6. IdsGiven
  BY <1>3, <1>4 DEF IdsGiven
<1>7. Stands(c)
  <2>1. CASE c \in clashed
    BY <1>3, <2>1 DEF Stands
  <2>2. CASE c \notin clashed
    <3>1. Ready(op[r], colleges, users, data)
      BY <1>2, <2>2
    <3>2. c \notin data /\ \A u \in MembersIn(users, c) : users'[u] = Gone
      BY <3>1 DEF Ready
    <3>3. ASSUME NEW u \in Users, users'[u] \in UserRow
          PROVE  users'[u].college # c
      <4>1. users'[u] = users[u] /\ u \notin MembersIn(users, c)
        BY <1>3, <3>2, <3>3
      <4> QED
        BY <3>3, <4>1 DEF MembersIn
    <3> QED
      BY <3>2, <3>3 DEF Stands
  <2> QED
    BY <2>1, <2>2
<1> HIDE DEF c
<1> QED
  BY <1>1, <1>5, <1>6, <1>7, Ended DEF c

LEMMA DeleteCollegeInv ==
  ASSUME Inv, NEW r \in Requests, DeleteCollege(r)
  PROVE  Inv'
<1> DEFINE c == op[r].college
<1>1. /\ op[r].pc = "delete" /\ op[r].user = None /\ Busy(r)
      /\ users' = [u \in Users |-> IF u \in Admins(c) THEN Gone ELSE users[u]]
      /\ colleges' = [colleges EXCEPT ![c] = Gone]
      /\ data' = data /\ GoOn(r, Idle)
  BY DEF DeleteCollege, End, Busy
<1>2. c \in Colleges
  BY <1>1, OpFacts
<1>3. TablesOK'
  BY <1>1, <1>2 DEF Inv, TablesOK
<1>4. Admins(c) = AdminsIn(users, c)
  BY MembersAre
<1>5. \A u \in Users : users'[u] \in {Gone, users[u]}
  BY <1>1
<1>6. Ready(op[r], colleges, users, data) =>
        \A u \in MembersIn(users, c) : users'[u] = Gone
  <2>1. Ready(op[r], colleges, users, data) => MembersIn(users, c) = AdminsIn(users, c)
    BY <1>1 DEF Ready
  <2>2. MembersIn(users, c) \subseteq Users
    BY DEF MembersIn
  <2> QED
    BY <1>1, <1>4, <2>1, <2>2
<1> QED
  BY <1>1, <1>3, <1>5, <1>6, Deleted

-----------------------------------------------------------------------------
(* The queries of the services of users. *)

(* The college an actor acts for is in use, or has clashed. *)
LEMMA ActorCollege ==
  ASSUME Inv, NEW r \in Requests, NEW actor \in Actors, NEW c \in Colleges, NEW o,
         c = resolveCollegeScope(actor, c), isSuperAdmin(actor) => colleges[c] # None,
         StartAt(r, actor, c, o)
  PROVE  colleges[c] # None /\ (colleges[c] \in Statuses \/ c \in clashed')
<1>1. /\ ~Fresh(actor, c) => c \in clashed'
      /\ clashed \subseteq clashed'
  BY DEF StartAt
<1>2. CASE isSuperAdmin(actor)
  <2>1. Fresh(actor, c) => colleges[c] \in Statuses
    BY <1>2, LifecycleAssumption DEF Fresh, HasCollege
  <2> QED
    BY <1>1, <1>2, <2>1
<1>3. CASE ~isSuperAdmin(actor)
  <2>1. /\ actor.id \in Users /\ c = tokens[actor.id].college
        /\ tokens[actor.id] \in UserRow
    BY <1>3, ActorTyped DEF Inv, Super, isSuperAdmin, resolveCollegeScope
  <2>2. colleges[c] # None
    BY <2>1 DEF Inv, Kept, Named
  <2>3. Fresh(actor, c) => colleges[c] \in Statuses \/ c \in clashed
    BY <1>3, <2>1 DEF Fresh, Inv, Kept, AllOwned
  <2> QED
    BY <1>1, <2>2, <2>3
<1> QED
  BY <1>2, <1>3

LEMMA AllowedRoles_Roles ==
  ASSUME Inv, NEW actor \in Actors
  PROVE  AllowedRoles(actor) \subseteq Roles
<1>1. actor.role \in Roles \cup {"SUPER_ADMIN"}
  BY ActorTyped DEF Inv, Super
<1> QED
  BY <1>1 DEF AllowedRoles, Roles

LEMMA CreateUserInv ==
  ASSUME Inv, NEW r \in Requests, CreateUser(r)
  PROVE  Inv'
<1>1. PICK actor \in Actors, c \in Colleges :
        /\ c = resolveCollegeScope(actor, c)
        /\ isSuperAdmin(actor) => HasCollege(c)
        /\ UNCHANGED tables
        /\ \E role \in AllowedRoles(actor) :
             Start(r, actor, [Idle EXCEPT !.pc = "insert", !.college = c,
                                          !.row = [role |-> role, college |-> c]])
  BY DEF CreateUser
<1>2. PICK role \in AllowedRoles(actor) :
        Start(r, actor, [Idle EXCEPT !.pc = "insert", !.college = c,
                                     !.row = [role |-> role, college |-> c]])
  BY <1>1
<1> DEFINE row == [role |-> role, college |-> c]
           o == [Idle EXCEPT !.pc = "insert", !.college = c, !.row = row]
<1>3. row \in UserRow /\ row.college = c
  BY AllowedRoles_Roles DEF UserRow
<1> HIDE DEF row
<1>4. /\ o \in Op /\ o.pc = "insert" /\ o.college = c /\ o.row = row
  BY <1>3 DEF Idle, Op, Pcs
<1>5. StartAt(r, actor, c, o)
  BY <1>2, <1>4 DEF Start, row
<1> HIDE DEF o
<1>6. Shape(o)
  BY <1>3, <1>4 DEF Shape
<1>7. colleges[c] # None /\ (colleges[c] \in Statuses \/ c \in clashed')
  BY <1>1, <1>5, ActorCollege, LifecycleAssumption DEF HasCollege
<1>8. Given(o) /\ (Ready(o, colleges, users, data) \/ o.college \in clashed')
  BY <1>4, <1>7 DEF Given, Ready
<1> QED
  BY <1>1, <1>4, <1>5, <1>6, <1>8, StartedReading

(* A row of the college of r is saved for user u, and the request ends. *)
LEMMA UserSaved ==
  ASSUME Inv, NEW r \in Requests, op[r].pc \in {"insert", "saveUser"},
         NEW u \in Users, users' = [users EXCEPT ![u] = op[r].row],
         colleges' = colleges, data' = data, GoOn(r, Idle)
  PROVE  Inv'
<1> DEFINE c == op[r].college
<1>1. Busy(r) /\ clashed' = clashed
  BY DEF Busy, GoOn
<1>2. /\ c \in Colleges /\ op[r].row \in UserRow /\ op[r].row.college = c
      /\ colleges[c] # None /\ (colleges[c] \in Statuses \/ c \in clashed)
  BY <1>1, OpFacts DEF Shape, Given, Ready
<1>3. TablesOK'
  BY <1>2 DEF Inv, TablesOK
<1>4. users'[u] = op[r].row /\ \A v \in Users \ {u} : users'[v] = users[v]
  BY DEF Inv, TablesOK
<1> HIDE DEF c
<1>5. \A d \in Colleges \ {c} : Untouched(d)
  BY <1>2, <1>4 DEF Untouched
<1>6. Stands(c)
  BY <1>1, <1>2 DEF Stands, Inv, Kept, AllOwned
<1>7. IdsGiven
  BY <1>2, <1>4 DEF IdsGiven
<1> QED
  BY <1>1, <1>3, <1>5, <1>6, <1>7, Ended DEF c

LEMMA InsertUserInv ==
  ASSUME Inv, NEW r \in Requests, InsertUser(r)
  PROVE  Inv'
<1>1. PICK u \in Users : users' = [users EXCEPT ![u] = op[r].row]
  BY DEF InsertUser
<1>2. /\ op[r].pc = "insert"
      /\ colleges' = colleges /\ data' = data /\ GoOn(r, Idle)
  BY DEF InsertUser, End
<1> QED
  BY <1>1, <1>2, UserSaved

(* A request that will save row for user u, of college c. *)
LEMMA WillSaveUser ==
  ASSUME Inv, NEW r \in Requests, NEW actor, NEW c \in Colleges, NEW u \in Users,
         NEW row \in UserRow, row.college = c, UNCHANGED tables,
         NEW pc \in {"college", "saveUser"},
         Start(r, actor, [Idle EXCEPT !.pc = pc, !.college = c, !.user = u, !.row = row]),
         pc = "saveUser" => /\ colleges[c] # None
                            /\ colleges[c] \in Statuses \/ c \in clashed
  PROVE  Inv'
<1> DEFINE o == [Idle EXCEPT !.pc = pc, !.college = c, !.user = u, !.row = row]
<1>1. o \in Op /\ o.pc = pc /\ o.college = c /\ o.user = u /\ o.row = row
  BY DEF Idle, Op, Pcs
<1>2. StartAt(r, actor, c, o)
  BY <1>1 DEF Start
<1> HIDE DEF o
<1>3. Shape(o)
  BY <1>1 DEF Shape
<1>4. clashed \subseteq clashed'
  BY <1>2 DEF StartAt
<1>5. Given(o) /\ (Ready(o, colleges, users, data) \/ o.college \in clashed')
  BY <1>1, <1>4 DEF Given, Ready
<1> QED
  BY <1>1, <1>2, <1>3, <1>5, StartedReading

LEMMA UpdateUserInv ==
  ASSUME Inv, NEW r \in Requests, UpdateUser(r)
  PROVE  Inv'
<1>1. PICK actor \in Actors, u \in Users :
        /\ MayManage(actor, u)
        /\ UNCHANGED tables
        /\ \E role \in {users[u].role} \cup AllowedRoles(actor), c \in Colleges :
             LET o == [Idle EXCEPT !.college = c, !.user = u,
                                   !.row = [role |-> role, college |-> c]]
             IN  \/ /\ c = (IF isSuperAdmin(actor) THEN users[u].college ELSE actor.college)
                    /\ Start(r, actor, [o EXCEPT !.pc = "saveUser"])
                 \/ /\ isSuperAdmin(actor) /\ c # users[u].college
                    /\ Start(r, actor, [o EXCEPT !.pc = "college"])
  BY DEF UpdateUser
<1>2. /\ users[u] \in UserRow /\ users[u].role \in Roles
      /\ users[u].college \in Colleges
      /\ ~isSuperAdmin(actor) => users[u].college = actor.college
  BY <1>1 DEF MayManage, HasUser, InScope, UserRow
<1>3. PICK role \in {users[u].role} \cup AllowedRoles(actor), c \in Colleges :
        LET o == [Idle EXCEPT !.college = c, !.user = u,
                              !.row = [role |-> role, college |-> c]]
        IN  \/ /\ c = (IF isSuperAdmin(actor) THEN users[u].college ELSE actor.college)
               /\ Start(r, actor, [o EXCEPT !.pc = "saveUser"])
            \/ /\ isSuperAdmin(actor) /\ c # users[u].college
               /\ Start(r, actor, [o EXCEPT !.pc = "college"])
  BY <1>1
<1> DEFINE row == [role |-> role, college |-> c]
           o(pc) == [Idle EXCEPT !.pc = pc, !.college = c, !.user = u, !.row = row]
<1>4. row \in UserRow /\ row.college = c
  BY <1>2, AllowedRoles_Roles DEF UserRow
<1> HIDE DEF row
<1>5. \A pc : [[Idle EXCEPT !.college = c, !.user = u, !.row = row] EXCEPT !.pc = pc] = o(pc)
  BY DEF Idle
<1>6. CASE c = users[u].college /\ Start(r, actor, o("saveUser"))
  <2>1. colleges[c] # None /\ (colleges[c] \in Statuses \/ c \in clashed)
    BY <1>2, <1>6 DEF Inv, Kept, Named, AllOwned
  <2> QED
    BY <1>1, <1>4, <1>6, <2>1, WillSaveUser
<1>7. CASE Start(r, actor, o("college"))
  BY <1>1, <1>4, <1>7, WillSaveUser
<1>8. \/ c = users[u].college /\ Start(r, actor, o("saveUser"))
      \/ Start(r, actor, o("college"))
  BY <1>2, <1>3, <1>5, Zenon DEF row
<1> QED
  BY <1>6, <1>7, <1>8

LEMMA AssertCollegeExistsInv ==
  ASSUME Inv, NEW r \in Requests, AssertCollegeExists(r)
  PROVE  Inv'
<1>1. op[r].pc = "college" /\ Busy(r) /\ UNCHANGED tables
  BY DEF AssertCollegeExists, Busy
<1>2. CASE HasCollege(op[r].college)
  <2>1. Later(r, "saveUser")
    BY <1>2 DEF AssertCollegeExists
  <2> DEFINE o == [op[r] EXCEPT !.pc = "saveUser"]
  <2>2. /\ op[r] \in Op /\ op[r].college \in Colleges /\ op[r].user \in Users
        /\ op[r].row \in UserRow /\ op[r].row.college = op[r].college
    BY <1>1, OpFacts DEF Shape
  <2>3. /\ o \in Op /\ o.pc = "saveUser" /\ o.college = op[r].college
        /\ o.user = op[r].user /\ o.row = op[r].row
    BY <2>2 DEF Op, Pcs
  <2>4. GoOn(r, o)
    BY <2>1 DEF Later
  <2> HIDE DEF o
  <2>5. /\ Shape(o) /\ Ready(o, colleges, users, data) /\ ~Deleting(o)
        /\ Given(o) /\ Chosen(o, users)
    BY <1>2, <2>2, <2>3, LifecycleAssumption
       DEF Shape, Ready, HasCollege, Deleting, Given, Chosen
  <2> QED
    BY <1>1, <2>3, <2>4, <2>5, WentOnReading
<1>3. CASE ~HasCollege(op[r].college)
  BY <1>1, <1>3, EndedReading DEF AssertCollegeExists
<1> QED
  BY <1>2, <1>3

LEMMA TouchUserInv ==
  ASSUME Inv, NEW r \in Requests, TouchUser(r)
  PROVE  Inv'
<1>1. PICK actor \in Actors, u \in Users :
        /\ HasUser(u) /\ UNCHANGED tables
        /\ Start(r, actor, [Idle EXCEPT !.pc = "saveUser", !.college = users[u].college,
                                        !.user = u, !.row = users[u]])
  BY DEF TouchUser
<1>2. users[u] \in UserRow /\ users[u].college \in Colleges
  BY <1>1 DEF HasUser, UserRow
<1>3. /\ colleges[users[u].college] # None
      /\ colleges[users[u].college] \in Statuses \/ users[u].college \in clashed
  BY <1>2 DEF Inv, Kept, Named, AllOwned
<1> QED
  BY <1>1, <1>2, <1>3, WillSaveUser

LEMMA SaveUserInv ==
  ASSUME Inv, NEW r \in Requests, SaveUser(r)
  PROVE  Inv'
<1>1. /\ op[r].pc = "saveUser" /\ Busy(r)
      /\ users' = [users EXCEPT ![op[r].user] = op[r].row]
      /\ colleges' = colleges /\ data' = data /\ GoOn(r, Idle)
  BY DEF SaveUser, End, Busy
<1>2. op[r].user \in Users
  BY <1>1, OpFacts DEF Shape
<1> QED
  BY <1>1, <1>2, UserSaved

LEMMA RemoveUserInv ==
  ASSUME Inv, NEW r \in Requests, RemoveUser(r)
  PROVE  Inv'
<1>1. PICK actor \in Actors, u \in Users :
        /\ MayManage(actor, u) /\ UNCHANGED tables
        /\ Start(r, actor, [Idle EXCEPT !.pc = "remaining", !.college = users[u].college,
                                        !.user = u])
  BY DEF RemoveUser
<1> DEFINE c == users[u].college
           o == [Idle EXCEPT !.pc = "remaining", !.college = c, !.user = u]
<1>2. c \in Colleges /\ colleges[c] # None
  BY <1>1 DEF MayManage, HasUser, UserRow, Inv, Kept, Named
<1>3. StartAt(r, actor, c, o)
  BY <1>1 DEF Start, Idle
<1> HIDE DEF c
<1>4. Shape(o)
  BY <1>2 DEF Shape, Op, Pcs, Idle
<1>5. o.pc = "remaining" /\ o.college = c /\ \A cs, us, ds : Ready(o, cs, us, ds)
  BY DEF Idle, Ready
<1> HIDE DEF o
<1>6. Given(o)
  BY <1>2, <1>5 DEF Given
<1> QED
  BY <1>1, <1>3, <1>4, <1>5, <1>6, StartedReading

(* The row of the user is deleted and the request ends. *)
LEMMA RemovedInv ==
  ASSUME Inv, NEW r \in Requests, Busy(r), UNCHANGED <<colleges, data>>,
         Removed(op[r].user), End(r)
  PROVE  Inv'
<1>1. /\ users' = [users EXCEPT ![op[r].user] = Gone] /\ GoOn(r, Idle)
      /\ clashed' = clashed
  BY DEF Removed, End, GoOn
<1>2. TablesOK'
  BY <1>1 DEF Inv, TablesOK
<1>3. \A v \in Users : users'[v] = users[v] \/ users'[v] \notin UserRow
  BY <1>1, LifecycleAssumption DEF Inv, TablesOK
<1>4. op[r].college \in Colleges
  BY OpFacts
<1>5. \A d \in Colleges : Untouched(d)
  BY <1>3 DEF Untouched
<1>6. Stands(op[r].college)
  BY <1>1, <1>3 DEF Stands, Inv, Kept, AllOwned
<1>7. IdsGiven
  BY <1>3 DEF IdsGiven
<1> QED
  BY <1>1, <1>2, <1>4, <1>5, <1>6, <1>7, Ended

LEMMA CountRemainingInv ==
  ASSUME Inv, NEW r \in Requests, CountRemaining(r)
  PROVE  Inv'
<1>1. op[r].pc = "remaining" /\ Busy(r) /\ Deleting(op[r]) /\ UNCHANGED <<colleges, data>>
  BY DEF CountRemaining, Busy, Deleting
<1>2. CASE Members(op[r].college) \subseteq {op[r].user}
  <2>1. UNCHANGED tables /\ Later(r, "data")
    BY <1>2 DEF CountRemaining, tables
  <2> DEFINE o == [op[r] EXCEPT !.pc = "data"]
  <2>2. op[r] \in Op /\ op[r].user # None
    BY <1>1, OpFacts, LifecycleAssumption DEF Shape
  <2>3. o.pc = "data" /\ o.college = op[r].college /\ o.user = op[r].user
    BY <2>2 DEF Op
  <2> HIDE DEF o
  <2>4. Ready(o, colleges, users, data)
    BY <1>2, <2>2, <2>3, MembersAre DEF Ready
  <2> QED
    BY <1>1, <2>1, <2>4, DeletionGoesOn DEF o
<1>3. CASE ~(Members(op[r].college) \subseteq {op[r].user})
  BY <1>1, <1>3, RemovedInv DEF CountRemaining
<1> QED
  BY <1>2, <1>3

LEMMA LookForRemainingDataInv ==
  ASSUME Inv, NEW r \in Requests, LookForRemainingData(r)
  PROVE  Inv'
<1>1. op[r].pc = "data" /\ Busy(r) /\ UNCHANGED <<colleges, data>>
  BY DEF LookForRemainingData, Busy
<1>2. CASE op[r].college \notin data
  <2>1. UNCHANGED tables /\ Later(r, "delete")
    BY <1>2 DEF LookForRemainingData, tables
  <2> QED
    BY <1>1, <1>2, <2>1, NoDataFound
<1>3. CASE op[r].college \in data
  BY <1>1, <1>3, RemovedInv DEF LookForRemainingData
<1> QED
  BY <1>2, <1>3

LEMMA DeleteWithLastUserInv ==
  ASSUME Inv, NEW r \in Requests, DeleteWithLastUser(r)
  PROVE  Inv'
<1>1. /\ op[r].pc = "delete" /\ op[r].user # None /\ Busy(r)
      /\ users' = [users EXCEPT ![op[r].user] = Gone]
      /\ colleges' = [colleges EXCEPT ![op[r].college] = Gone]
      /\ data' = data /\ GoOn(r, Idle)
  BY DEF DeleteWithLastUser, Removed, End, Busy
<1>2. op[r].college \in Colleges
  BY <1>1, OpFacts
<1>3. TablesOK'
  BY <1>1, <1>2 DEF Inv, TablesOK
<1>4. \A u \in Users : users'[u] \in {Gone, users[u]}
  BY <1>1 DEF Inv, TablesOK
<1>5. Ready(op[r], colleges, users, data) =>
        \A u \in MembersIn(users, op[r].college) : users'[u] = Gone
  <2>1. ASSUME NEW u \in Users, u = op[r].user
        PROVE  users'[u] = Gone
    BY <1>1, <2>1 DEF Inv, TablesOK
  <2> QED
    BY <1>1, <2>1 DEF Ready, MembersIn
<1> QED
  BY <1>1, <1>3, <1>4, <1>5, Deleted

-----------------------------------------------------------------------------
(* Data, tokens, and the theorems. *)

LEMMA AddDataInv ==
  ASSUME Inv, NEW r \in Requests, AddData(r)
  PROVE  Inv'
<1>1. PICK actor \in Actors, c \in Colleges :
        /\ c = resolveCollegeScope(actor, c)
        /\ isSuperAdmin(actor) => colleges[c] # None
        /\ data' = data \cup {c}
        /\ StartAt(r, actor, c, Idle)
  BY DEF AddData
<1>2. colleges' = colleges /\ users' = users
  BY DEF AddData
<1>3. TablesOK'
  BY <1>1, <1>2 DEF Inv, TablesOK
<1>4. colleges[c] \in Statuses \/ c \in clashed'
  BY <1>1, ActorCollege
<1>5. clashed \subseteq clashed' /\ (Overlaps(c, Idle) => c \in clashed')
  BY <1>1 DEF StartAt
<1>6. \A d \in Colleges \ {c} : Untouched(d)
  BY <1>1, <1>2 DEF Untouched
<1>7. Stands(c) /\ IdsGiven
  BY <1>1, <1>2, <1>4, <1>5 DEF Stands, IdsGiven, Inv, Kept, AllOwned
<1>8. ASSUME NEW q \in Requests, op[q].college = c, Deleting(op[q])
      PROVE  c \in clashed'
  BY <1>5, <1>8 DEF Overlaps
<1> QED
  BY <1>1, <1>2, <1>3, <1>6, <1>7, <1>8, IdleShape, Started

LEMMA RemoveDataInv ==
  ASSUME Inv, NEW r \in Requests, RemoveData(r)
  PROVE  Inv'
<1>1. PICK c \in data : data' = data \ {c} /\ StartAt(r, Super, Idle.college, Idle)
  BY DEF RemoveData, Start
<1>2. colleges' = colleges /\ users' = users
  BY DEF RemoveData
<1>3. TablesOK'
  BY <1>1, <1>2 DEF Inv, TablesOK
<1>4. (\A d \in Colleges : Untouched(d)) /\ IdsGiven
  BY <1>1, <1>2 DEF Untouched, IdsGiven
<1>5. None \notin Colleges
  BY LifecycleAssumption
<1> QED
  BY <1>1, <1>3, <1>4, <1>5, IdleShape, Started

LEMMA LoginInv ==
  ASSUME Inv, NEW u \in Users, Login(u)
  PROVE  Inv'
<1>1. users[u] \in UserRow /\ tokens' = [tokens EXCEPT ![u] = users[u]]
  BY DEF Login, HasUser
<1>2. /\ colleges' = colleges /\ users' = users /\ data' = data /\ op' = op
      /\ requests' = requests /\ calm' = calm /\ clashed' = clashed
  BY DEF Login, tables
<1>3. tokens' \in [Users -> UserRow \cup {None}]
  BY <1>1 DEF Inv
<1>4. TablesOK' /\ RequestsOK' /\ Undisturbed'
  BY <1>2 DEF Inv, TablesOK, RequestsOK, Undisturbed, Busy
<1>5. AllOwned' /\ Apart' /\ AllReady'
  BY <1>2 DEF Inv, Kept, AllOwned, Apart, AllReady
<1>6. Named'
  BY <1>1, <1>2 DEF Inv, Kept, Named, Given
<1> QED
  BY <1>2, <1>3, <1>4, <1>5, <1>6 DEF Inv, Kept

-----------------------------------------------------------------------------

LEMMA InitInv == Init => Inv
<1> SUFFICES ASSUME Init
             PROVE  Inv
  OBVIOUS
<1> USE DEF Init
<1>1. TablesOK /\ tokens \in [Users -> UserRow \cup {None}]
  BY LifecycleAssumption DEF TablesOK, Statuses
<1>2. Idle \in Op
  BY IdleShape DEF Shape
<1>3. RequestsOK
  BY <1>2, IdleShape DEF RequestsOK
<1>4. AllOwned
  BY LifecycleAssumption DEF AllOwned, UserRow, Statuses
<1>5. Named
  <2>1. \A c \in InitialColleges : c \in Colleges /\ colleges[c] # None
    BY LifecycleAssumption DEF Statuses
  <2>2. \A u \in Users : InitialUsers[u] \in UserRow =>
           colleges[InitialUsers[u].college] # None
    BY <2>1, LifecycleAssumption
  <2>3. \A r \in Requests : Given(op[r])
    BY IdleShape DEF Given
  <2> QED
    BY <2>2, <2>3 DEF Named
<1>6. Apart /\ AllReady
  BY IdleShape DEF Apart, AllReady
<1>7. Undisturbed
  BY IdleShape DEF Undisturbed, Busy
<1> QED
  BY <1>1, <1>3, <1>4, <1>5, <1>6, <1>7, LifecycleAssumption DEF Inv, Kept

LEMMA StepInv ==
  ASSUME Inv, [Next]_vars
  PROVE  Inv'
<1>1. CASE UNCHANGED vars
  BY <1>1 DEF Inv, TablesOK, RequestsOK, Undisturbed, Busy, Kept, AllOwned, Named, Given,
     Apart, AllReady, vars, tables
<1>2. ASSUME NEW r \in Requests, CollegeRequest(r)
      PROVE  Inv'
  BY <1>2, CreateCollegeInv, StatusRequestsInv, SaveCollegeInv, UpdateCollegeInv,
     FindAdminsInv, CommitUpdateInv, RemoveCollegeInv, CountUsersInv, LookForDataInv,
     DeleteCollegeInv
     DEF CollegeRequest
<1>3. ASSUME NEW r \in Requests, UserRequest(r)
      PROVE  Inv'
  BY <1>3, CreateUserInv, InsertUserInv, UpdateUserInv, AssertCollegeExistsInv,
     TouchUserInv, SaveUserInv, RemoveUserInv, CountRemainingInv,
     LookForRemainingDataInv, DeleteWithLastUserInv
     DEF UserRequest
<1>4. ASSUME NEW r \in Requests, Fail(r)
      PROVE  Inv'
  BY <1>4, EndedReading DEF Fail
<1>5. ASSUME NEW r \in Requests, AddData(r) \/ RemoveData(r)
      PROVE  Inv'
  BY <1>5, AddDataInv, RemoveDataInv
<1>6. ASSUME NEW u \in Users, Login(u)
      PROVE  Inv'
  BY <1>6, LoginInv
<1> QED
  BY <1>1, <1>2, <1>3, <1>4, <1>5, <1>6 DEF Next

(* Every reachable state satisfies the invariant. *)
THEOREM Invariance == Spec => []Inv
<1>1. Init => Inv
  BY InitInv
<1>2. Inv /\ [Next]_vars => Inv'
  BY StepInv
<1> QED
  BY <1>1, <1>2, PTL DEF Spec

(* The tables and the requests under way keep their types: no service of   *)
(* colleges or users gives anybody the role of a super admin, or saves a   *)
(* row it has not read or made.                                            *)
THEOREM TypeCorrect == Spec => []TypeOK
<1>1. Inv => TypeOK
  BY DEF Inv, TypeOK, TablesOK, RequestsOK, Op, Pcs
<1> QED
  BY <1>1, Invariance, PTL
(* However requests overlap, no user and no data outlive a college whose   *)
(* own deletion no other request overlapped and for which no request came  *)
(* with a token or a selection out of date (colleges.service.ts and        *)
(* users.service.ts, which have no foreign key to rely on).                *)
THEOREM NothingOrphaned == Spec => []Owned
<1>1. Inv => Owned
  BY DEF Inv, Kept, AllOwned, Owned, HasUser, HasCollege
<1> QED
  BY <1>1, Invariance, PTL

LEMMA CommitLeavesOneAdmin ==
  ASSUME Inv, calm, NEW r \in Requests, NEW c \in Colleges,
         c = op[r].college, CommitUpdate(r)
  PROVE  Cardinality(Admins(c)') = 1
<1>1. /\ op[r].pc = "commit" /\ op[r] \in Op
      /\ op[r].others \subseteq Users
  BY DEF CommitUpdate, Inv, RequestsOK, Shape, Op
<1>2. /\ op[r].user = None => AdminsIn(users, c) = {} /\ op[r].others = {}
      /\ op[r].user # None => /\ AdminsIn(users, c) = {op[r].user} \cup op[r].others
                              /\ op[r].user \notin op[r].others
  BY <1>1 DEF Inv, Undisturbed, Chosen
<1> DEFINE Saved(u) ==
             users' = [v \in Users |->
                         CASE v \in op[r].others -> [role |-> "FLEET_MANAGER", college |-> c]
                           [] v = u -> [role |-> "COLLEGE_ADMIN", college |-> c]
                           [] OTHER -> users[v]]
<1>3. PICK u \in Users :
        /\ Saved(u) /\ u \notin op[r].others
        /\ AdminsIn(users, c) \subseteq {u} \cup op[r].others
  <2>1. CASE op[r].user # None /\ users' = SavedAdmins(op[r])
    <3>1. op[r].user \in Users
      BY <1>1, <2>1 DEF Op
    <3>2. Saved(op[r].user)
      BY <2>1 DEF SavedAdmins
    <3> QED
      BY <1>2, <2>1, <3>1, <3>2
  <2>2. ASSUME op[r].user = None, NEW u \in Users,
               users' = SavedAdmins([op[r] EXCEPT !.user = u])
        PROVE  Saved(u)
    <3> DEFINE o == [op[r] EXCEPT !.user = u]
    <3>1. o.user = u /\ o.others = op[r].others /\ o.college = c
      BY <1>1 DEF Op
    <3>2. users' = SavedAdmins(o)
      BY <2>2
    <3> HIDE DEF o
    <3> QED
      BY <3>1, <3>2 DEF SavedAdmins
  <2> HIDE DEF Saved
  <2> QED
    BY <1>2, <2>1, <2>2 DEF CommitUpdate
<1>4. users'[u] = [role |-> "COLLEGE_ADMIN", college |-> c]
  BY <1>3
<1>5. ASSUME NEW v \in Users \ {u}
      PROVE  v \notin AdminsIn(users', c)
  <2>1. CASE v \in op[r].others
    BY <1>3, <2>1 DEF AdminsIn, MembersIn
  <2>2. CASE v \notin op[r].others
    <3>1. users'[v] = users[v] /\ v \notin AdminsIn(users, c)
      BY <1>3, <2>2
    <3> QED
      BY <3>1 DEF AdminsIn, MembersIn
  <2> QED
    BY <2>1, <2>2
<1>6. u \in AdminsIn(users', c)
  BY <1>1, <1>4 DEF AdminsIn, MembersIn, UserRow, Roles
<1>7. AdminsIn(users', c) = {u}
  BY <1>5, <1>6 DEF AdminsIn, MembersIn
<1>8. Admins(c)' = AdminsIn(users', c)
  BY DEF Admins, Members, HasUser, AdminsIn, MembersIn
<1> QED
  BY <1>7, <1>8, FS_Singleton

(* "Each college must have exactly one admin." (colleges.service.ts:296):  *)
(* so it is after an update of the college that no other request disturbs, *)
(* however many admins it had before.                                      *)
THEOREM OneAdminAfterUpdate == Spec => UpdateLeavesOneAdmin
<1>1. ASSUME Inv
      PROVE  \A r \in Requests, c \in Colleges :
               calm /\ c = op[r].college /\ CommitUpdate(r)
                 => Cardinality(Admins(c)') = 1
  <2> SUFFICES ASSUME NEW r \in Requests, NEW c \in Colleges,
                      calm, c = op[r].college, CommitUpdate(r)
               PROVE  Cardinality(Admins(c)') = 1
    OBVIOUS
  <2> QED
    BY <1>1, CommitLeavesOneAdmin
<1> QED
  BY <1>1, Invariance, PTL DEF UpdateLeavesOneAdmin
=============================================================================
