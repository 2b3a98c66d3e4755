------------------------------ MODULE Geocoder ------------------------------
(* The reverse geocoder of the backend (common/services/geocoder.service.ts): *)
(* a cache, a bounded queue of look-ups and one loop that drains it, with a   *)
(* pause between two requests to the outside service.  Time is kept as ages   *)
(* that stop growing once nothing in the code tells them apart any more.      *)
EXTENDS Integers, Sequences, SequencesExt

CONSTANTS
    Keys,              \* the cells of CACHE_PRECISION decimals that are asked for
    Drainers,          \* runs of processQueue: two, to see that only one works
    MaxQueue,          \* MAX_QUEUE_LENGTH
    RequestInterval,   \* REQUEST_INTERVAL_MS, in ticks
    RequestTimeout,    \* REQUEST_TIMEOUT_MS, in ticks
    Unknown,           \* FALLBACK_LOCATION
    None               \* nothing there

ASSUME GeocoderAssumption ==
    /\ MaxQueue \in Nat \ {0}
    /\ RequestInterval \in Nat \ {0}
    /\ RequestTimeout \in Nat \ {0}
    /\ Unknown \notin Keys
    /\ None \notin Keys \cup {Unknown}

VARIABLES
    cache,             \* the address kept for a key: the key, Unknown or None
    inFlight,          \* the keys with a promise that is not resolved
    queue,             \* the keys that wait for a request
    processingQueue,   \* the flag of processQueue
    loop,              \* what each run of processQueue does
    sinceRequest       \* Date.now() - lastRequestAt, up to RequestInterval

geocoderVars == <<cache, inFlight, queue, processingQueue, loop, sinceRequest>>

Asleep == [pc |-> "asleep", key |-> None, wait |-> 0, asked |-> 0]

Loops == [pc : {"asleep", "waiting", "asking"}, key : Keys \cup {None},
          wait : 0 .. RequestInterval, asked : 0 .. RequestTimeout]

GeocoderInit ==
    /\ cache = [k \in Keys |-> None]
    /\ inFlight = {}
    /\ queue = <<>>
    /\ processingQueue = FALSE
    /\ loop = [d \in Drainers |-> Asleep]
    /\ sinceRequest = RequestInterval

Busy(d) == loop[d].pc # "asleep"

-----------------------------------------------------------------------------

\* The body of the loop for a job: at once to the request when the last one
\* is long enough ago, else a timer for the rest of the interval.
TakeJob(d, k) ==
    LET wait == RequestInterval - sinceRequest
    IN  /\ loop' = [loop EXCEPT ![d] =
                     [pc |-> IF wait > 0 THEN "waiting" ELSE "asking",
                      key |-> k, wait |-> wait, asked |-> 0]]
        /\ sinceRequest' = IF wait > 0 THEN sinceRequest ELSE 0

\* reverseGeocode for a key that is neither cached nor in flight: the job is
\* queued and the loop is started, if none runs.
Enqueue(k) ==
    /\ Len(queue) < MaxQueue
    /\ inFlight' = inFlight \cup {k}
    /\ UNCHANGED cache
    /\ IF processingQueue
       THEN /\ queue' = Append(queue, k)
            /\ UNCHANGED <<processingQueue, loop, sinceRequest>>
       ELSE \E d \in Drainers :
              /\ ~Busy(d)
              /\ processingQueue' = TRUE
              /\ queue' = Tail(Append(queue, k))
              /\ TakeJob(d, Head(Append(queue, k)))

\* The timer of line 53 fires and the request is sent.
Request(d) ==
    /\ loop[d].pc = "waiting"
    /\ loop[d].wait = 0
    /\ loop' = [loop EXCEPT ![d].pc = "asking"]
    /\ sinceRequest' = 0
    /\ UNCHANGED <<cache, inFlight, queue, processingQueue>>

\* Mutant: the flag is left when the queue is empty.
LoopEndsFlagged(d) ==
    /\ loop' = [loop EXCEPT ![d] = Asleep]
    /\ UNCHANGED <<processingQueue, sinceRequest>>

LoopEnds(d) ==
    /\ processingQueue' = FALSE
    /\ loop' = [loop EXCEPT ![d] = Asleep]
    /\ UNCHANGED sinceRequest

\* The answer of the service: a name, or an empty name, an error or the
\* timeout.  It is cached either way, and the loop goes on to the next job
\* that is not cached meanwhile, or ends; every job it passes is resolved.
Answer(d) ==
    /\ loop[d].pc = "asking"
    /\ \E address \in {loop[d].key, Unknown} :
         cache' = [cache EXCEPT ![loop[d].key] = address]
    /\ LET open == {i \in DOMAIN queue : cache'[queue[i]] = None}
       IN  IF open = {}
           THEN /\ inFlight' = inFlight \ ({loop[d].key} \cup ToSet(queue))
                /\ queue' = <<>>
                /\ LoopEnds(d)
           ELSE LET next == Min(open)
                IN  /\ inFlight' = inFlight
                         \ ({loop[d].key} \cup ToSet(SubSeq(queue, 1, next - 1)))
                    /\ queue' = SubSeq(queue, next + 1, Len(queue))
                    /\ TakeJob(d, queue[next])
                    /\ UNCHANGED processingQueue

\* A request is answered or given up after RequestTimeout, and timers fire
\* when they are due: time does not pass them.
GeocoderPatient ==
    \A d \in Drainers :
      /\ ~(loop[d].pc = "asking" /\ loop[d].asked = RequestTimeout)
      /\ ~(loop[d].pc = "waiting" /\ loop[d].wait = 0)

GeocoderTick ==
    /\ sinceRequest' = IF sinceRequest < RequestInterval
                       THEN sinceRequest + 1 ELSE sinceRequest
    /\ loop' = [d \in Drainers |->
                 CASE loop[d].pc = "waiting" -> [loop[d] EXCEPT !.wait = @ - 1]
                   [] loop[d].pc = "asking"  -> [loop[d] EXCEPT !.asked = @ + 1]
                   [] OTHER -> loop[d]]
    /\ UNCHANGED <<cache, inFlight, queue, processingQueue>>
=============================================================================
