-------------------------- MODULE NotificationFeed --------------------------
(* The notifications a browser shows: the store of the frontend               *)
(* (store/notificationStore.ts), the effects that keep it up to date          *)
(* (app/providers/RealtimeBridge.tsx, pages/dashboard/NotificationsPage.tsx), *)
(* the scope of a super admin (utils/collegeScope.ts), the socket, and the    *)
(* requests to the backend, which are served, and whose answers come back, in *)
(* any order.  Somebody signs in and out, selects a college, opens the page   *)
(* of notifications and marks some as read, while new ones are created.  The  *)
(* number of a notification is its place in the order of timestamps (rows of  *)
(* one timestamp are in some order), which is not the order of creation: the  *)
(* timestamp is that of a packet, or of the start of an event.                *)
EXTENDS Integers, FiniteSets, Sequences, SequencesExt

CONSTANTS
    Users,
    Colleges,
    CollegeOf,         \* the college of a user, All for a super admin
    All,               \* every college
    None,              \* nobody, nothing
    Calls,             \* requests of the page at the same time
    MaxNotes,          \* notifications in a behaviour
    PageSize,          \* notifications in an answer: 50 in the code
    MaxCalls,          \* requests in a behaviour
    MaxToasts          \* toasts shown at the same time: 5 in the code

ASSUME FeedAssumption ==
    /\ CollegeOf \in [Users -> Colleges \cup {All}]
    /\ All \notin Colleges /\ None \notin Colleges \cup Users \cup {All}
    /\ MaxNotes \in Nat /\ MaxCalls \in Nat
    /\ PageSize \in Nat \ {0} /\ MaxToasts \in Nat \ {0}

VARIABLES
    notes,             \* backend: the college of each notification, None when it
                       \* has yet to be created
    read,              \* backend: the ones that are read
    events,            \* notifications the socket has yet to deliver
    user,              \* authStore: who is signed in
    selected,          \* collegeFilterStore: selectedCollegeId
    rendered,          \* what the effects of RealtimeBridge last ran for
    store,             \* notificationStore: the list, the ones read in it,
                       \* unreadCount, toasts and isLoaded
    calls,             \* the requests under way
    sent,              \* requests so far
    answers,           \* answers the backend has given so far
    latest,            \* history: the latest answer the list was set from
    missed             \* history, since the effects ran: an answer was late,
                       \* foreign or lost, or hid what is unread, or an
                       \* event was lost

page == <<user, selected, rendered, store>>
backend == <<notes, read, events>>
vars == <<page, backend, calls, sent, answers, latest, missed>>

Ids == 1 .. MaxNotes
Created == {i \in Ids : notes[i] # None}

Empty == [list |-> {}, read |-> {}, unreadCount |-> 0, toasts |-> <<>>, isLoaded |-> FALSE]
NoCall == [phase |-> "none", kind |-> None, by |-> None, college |-> None, note |-> 0,
           list |-> {}, read |-> {}, number |-> 0]

MayRead(u, i) == i \in Created /\ CollegeOf[u] \in {All, notes[i]}

SuperAdmin == user # None /\ CollegeOf[user] = All
View == [user |-> user, college |-> IF SuperAdmin THEN selected ELSE None]

Init ==
    /\ notes = [i \in Ids |-> None] /\ read = {} /\ events = 0
    /\ user = None /\ selected = None
    /\ rendered = [user |-> None, college |-> None]
    /\ store = Empty
    /\ calls = [q \in Calls |-> NoCall]
    /\ sent = 0 /\ answers = 0 /\ latest = 0 /\ missed = FALSE

-----------------------------------------------------------------------------

Unread(list, marked) == Cardinality(list \ marked)

\* The numbers of a finite set in ascending order: the k-th has k up to it.
Ascending(S) ==
    [k \in 1 .. Cardinality(S) |->
       CHOOSE i \in S : Cardinality({j \in S : j <= i}) = k]

Newest(list) == Reverse(Ascending(list))

\* The elements of a sequence at some of its places.
At(s, places) == [k \in DOMAIN Ascending(places) |-> s[Ascending(places)[k]]]

\* skip and take, with page 1: the newest of what a request may see.
Page(list) == {i \in list : Cardinality({j \in list : j > i}) < PageSize}

\* Mutant: the answer is taken as it is.
FilteredAsAsked(list) == list

\* filterByActiveCollege, with the role and the selection of the moment.
Filtered(list) ==
    IF SuperAdmin THEN {i \in list : selected # None /\ notes[i] = selected} ELSE list

\* buildCollegeScopedPath and the token: what a GET asks for when it is sent.
Get(q, call) ==
    [call EXCEPT !.phase = "get", !.by = user,
                 !.college = IF SuperAdmin THEN selected ELSE None]

Send(q, call) ==
    /\ calls[q].phase = "none"
    /\ sent < MaxCalls
    /\ sent' = sent + 1
    /\ calls' = [calls EXCEPT ![q] = call]

Done(q) == calls' = [calls EXCEPT ![q] = NoCall]

Settled == rendered = View

-----------------------------------------------------------------------------
(* The page.  React runs the effects of a change before the next event of the *)
(* user, but answers may come first.                                          *)

Login(u) ==
    /\ Settled /\ user = None
    /\ user' = u
    /\ selected' = IF CollegeOf[u] = All THEN selected ELSE None
    /\ UNCHANGED <<rendered, store, backend, calls, sent, answers, latest, missed>>

Logout ==
    /\ Settled /\ user # None
    /\ user' = None /\ selected' = None
    /\ UNCHANGED <<rendered, store, backend, calls, sent, answers, latest, missed>>

Select(c) ==
    /\ Settled /\ SuperAdmin
    /\ selected' = c
    /\ UNCHANGED <<user, rendered, store, backend, calls, sent, answers, latest, missed>>

\* The effects of RealtimeBridge: the store is reset and, for somebody who is
\* signed in, asked for anew; the socket is left and joined.
Effects(q) ==
    /\ ~Settled
    /\ rendered' = View
    /\ store' = Empty
    /\ events' = IF user = None THEN 0 ELSE events
    /\ IF user = None THEN UNCHANGED <<calls, sent>>
       ELSE Send(q, Get(q, [NoCall EXCEPT !.kind = "reset"]))
    /\ missed' = FALSE
    /\ UNCHANGED <<user, selected, notes, read, answers, latest>>

\* NotificationsPage asks for the list, when it is opened and after a reset,
\* unless the store has one.
Load(q) ==
    /\ user # None /\ ~store.isLoaded
    /\ Send(q, Get(q, [NoCall EXCEPT !.kind = "load"]))
    /\ UNCHANGED <<page, backend, answers, latest, missed>>

\* markAsRead, for any notification that it shows by pages of its own, and
\* markAllAsRead.
MarkAsRead(q, i) ==
    /\ Settled /\ user # None /\ MayRead(user, i)
    /\ Send(q, [NoCall EXCEPT !.phase = "patch", !.kind = "markAsRead", !.by = user,
                              !.note = i])
    /\ UNCHANGED <<page, backend, answers, latest, missed>>

MarkAllAsRead(q) ==
    /\ Settled /\ user # None
    /\ Send(q, [NoCall EXCEPT !.phase = "patch", !.kind = "markAllAsRead", !.by = user])
    /\ UNCHANGED <<page, backend, answers, latest, missed>>

\* dismissToast, by the user or after AUTO_DISMISS_MS.
DismissToast(i) ==
    /\ i \in ToSet(store.toasts)
    /\ store' = [store EXCEPT !.toasts = At(@, {k \in DOMAIN @ : @[k] # i})]
    /\ UNCHANGED <<user, selected, rendered, backend, calls, sent, answers, latest, missed>>

\* A notification event of the socket: the list is refreshed.
Event(q) ==
    /\ events > 0
    /\ events' = events - 1
    /\ Send(q, Get(q, [NoCall EXCEPT !.kind = "refresh"]))
    /\ UNCHANGED <<page, notes, read, answers, latest, missed>>

\* The socket is lost and made again by its library (services/socketService.ts):
\* what was to be delivered is not, and the page does not ask for it.
LoseSocket ==
    /\ events > 0
    /\ events' = 0
    /\ missed' = TRUE
    /\ UNCHANGED <<page, notes, read, calls, sent, answers, latest>>

-----------------------------------------------------------------------------
(* The backend (modules/notifications/notifications.service.ts).              *)

\* create: the event goes to every socket, whatever the college.
Create(c) ==
    /\ \E i \in Ids : notes[i] = None /\ notes' = [notes EXCEPT ![i] = c]
    /\ events' = IF rendered.user = None THEN events ELSE events + 1
    /\ UNCHANGED <<page, read, calls, sent, answers, latest, missed>>

\* markAsRead finds its row, which is of the college of the token;
\* markAllAsRead takes all the rows of a super admin, whatever college is
\* selected.
Patched(call) ==
    read \cup {i \in Ids : /\ MayRead(call.by, i)
                           /\ call.kind = "markAllAsRead" \/ i = call.note}

ServePatch(q) ==
    /\ calls[q].phase = "patch"
    /\ read' = Patched(calls[q])
    /\ calls' = [calls EXCEPT ![q].phase = "patched"]
    /\ UNCHANGED <<page, notes, events, sent, answers, latest, missed>>

\* Mutant: the college is left to the page to filter, after the limit.
ScopeOfToken(call) == {i \in Ids : MayRead(call.by, i)}

\* findAll: the first page of what the token, and the college asked for, let
\* see; a request without a token can only fail.
Scope(call) ==
    {i \in Ids : MayRead(call.by, i) /\ call.college \in {None, notes[i]}}

ServeGet(q) ==
    LET call == calls[q]
        list == Page(Scope(call))
    IN  /\ call.phase = "get" /\ call.by # None
        /\ answers' = answers + 1
        /\ calls' = [calls EXCEPT ![q] =
             [call EXCEPT !.phase = "answered", !.list = list, !.read = list \cap read,
                          !.number = answers + 1]]
        /\ UNCHANGED <<page, backend, sent, latest, missed>>

-----------------------------------------------------------------------------
(* Answers.                                                                   *)

\* The PATCH is answered and the list is asked for, by whoever is signed in;
\* without a token the request fails.
Continue(q) ==
    /\ calls[q].phase = "patched"
    /\ IF user = None THEN Done(q) ELSE calls' = [calls EXCEPT ![q] = Get(q, @)]
    /\ UNCHANGED <<page, backend, sent, answers, latest, missed>>

\* refreshNotifications, for the effects (reset) or after an event, and
\* loadNotifications, which pops up nothing.
Refreshed(call) ==
    LET list == Filtered(call.list)
        new == list \ (call.read \cup store.list)
        toasts == Newest(new) \o store.toasts
    IN  [list |-> list, read |-> call.read \cap list,
         unreadCount |-> Unread(list, call.read),
         toasts |-> CASE call.kind = "reset" -> <<>>
                      [] call.kind = "load" -> store.toasts
                      [] call.kind = "refresh" ->
                           SubSeq(toasts, 1, IF Len(toasts) < MaxToasts THEN Len(toasts)
                                             ELSE MaxToasts),
         isLoaded |-> TRUE]

\* History: an answer for another view, or older than one that came before.
Taken(call) ==
    /\ missed' = \/ missed
                 \/ call.by # user \/ call.college # View.college
                 \/ call.number < latest
                 \/ call.kind = "markAllAsRead" /\ call.read # call.list
    /\ latest' = IF call.number < latest THEN latest ELSE call.number

Refresh(q) ==
    /\ calls[q].phase = "answered" /\ calls[q].kind \in {"reset", "refresh", "load"}
    /\ store' = Refreshed(calls[q])
    /\ Taken(calls[q])
    /\ Done(q)
    /\ UNCHANGED <<user, selected, rendered, backend, sent, answers>>

CountAfterRead(i) ==
    IF i \in store.read \/ store.unreadCount = 0 THEN store.unreadCount
    ELSE store.unreadCount - 1

\* markAsRead: the item is found in the answer, and in the list by now.
MarkedAsRead(q) ==
    LET i == calls[q].note
    IN  /\ calls[q].phase = "answered" /\ calls[q].kind = "markAsRead"
        /\ store' = IF i \in Filtered(calls[q].list) \cap store.list
                    THEN [store EXCEPT !.read = @ \cup {i},
                                       !.unreadCount = CountAfterRead(i)]
                    ELSE store
        /\ Done(q)
        /\ UNCHANGED <<user, selected, rendered, backend, sent, answers, latest, missed>>

\* markAllAsRead: the list of the answer, and nothing counted as unread.
MarkedAllAsRead(q) ==
    LET list == Filtered(calls[q].list)
    IN  /\ calls[q].phase = "answered" /\ calls[q].kind = "markAllAsRead"
        /\ store' = [store EXCEPT !.list = list, !.read = calls[q].read \cap list,
                                  !.unreadCount = 0]
        /\ Taken(calls[q])
        /\ Done(q)
        /\ UNCHANGED <<user, selected, rendered, backend, sent, answers>>

\* A request fails: the list that was loaded is empty then, else it stays.
Failed(kind) ==
    CASE kind = "reset" -> [Empty EXCEPT !.isLoaded = TRUE]
      [] kind = "load" -> [Empty EXCEPT !.isLoaded = TRUE, !.toasts = store.toasts]
      [] kind = "refresh" -> [store EXCEPT !.isLoaded = TRUE]
      [] OTHER -> store

Fail(q) ==
    /\ calls[q].phase # "none"
    /\ Done(q)
    /\ store' = Failed(calls[q].kind)
    /\ missed' = TRUE
    /\ UNCHANGED <<user, selected, rendered, backend, sent, answers, latest>>

Next ==
    \/ \E u \in Users : Login(u)
    \/ Logout
    \/ \E c \in Colleges \cup {None} : Select(c)
    \/ \E c \in Colleges : Create(c)
    \/ \E i \in Ids : DismissToast(i)
    \/ LoseSocket
    \/ \E q \in Calls :
         \/ Effects(q)
         \/ Event(q)
         \/ Load(q)
         \/ \E i \in Ids : MarkAsRead(q, i)
         \/ MarkAllAsRead(q)
         \/ ServePatch(q)
         \/ ServeGet(q)
         \/ Continue(q)
         \/ Refresh(q)
         \/ MarkedAsRead(q)
         \/ MarkedAllAsRead(q)
         \/ Fail(q)

Spec == Init /\ [][Next]_vars

-----------------------------------------------------------------------------

\* "no mixed-college labels on a single page" (docs, 05-frontend-contracts.md:72):
\* a super admin who selected a college sees notifications of this college only,
\* and pops up no other, whenever requests for the college before, or of a user
\* before, are answered.
ScopedList ==
    SuperAdmin /\ Settled =>
      \A i \in store.list \cup ToSet(store.toasts) : notes[i] = selected

\* When nothing is under way, the store has the newest of what the backend has
\* for its view, and counts the unread ones of them, if since the effects ran no
\* event or answer was lost, overtaken or meant for another view: to ask for the
\* first page after each event leaves nothing of it out, although events and
\* requests overlap and notifications are not created in the order of the list.
CaughtUp ==
    /\ Settled /\ user # None /\ ~missed
    /\ events = 0 /\ \A q \in Calls : calls[q].phase = "none"
    => /\ store.list = Page(Filtered({i \in Ids : MayRead(user, i)}))
       /\ store.read \subseteq read
       /\ store.unreadCount = Unread(store.list, store.read)
=============================================================================
