---------------------------- MODULE ClusterFront ----------------------------
(***************************************************************************)
(* The request front of the cluster master (cluster_runtime.rs): the       *)
(* admission of connections, the budget of frame bytes, the checks of      *)
(* handle_connection, the list cache, and BackendGate, the condition       *)
(* variable behind which requests and uploads wait for an S3 connection.   *)
(* What a PUT or a DELETE does to the store is one step here; its inner    *)
(* steps are those of ClusterMaster.                                       *)
(*                                                                         *)
(* A connection is served by a thread of its own.  The client on the other *)
(* end may give up at any time (its socket timeout); the thread does not   *)
(* notice and runs on.                                                     *)
(***************************************************************************)
EXTENDS Integers, FiniteSets

CONSTANTS Conns,        \* connection threads
          Uploaders,    \* upload threads of one batch of the worker
          Keys,         \* object keys of one host
          MaxClients,   \* MAJUTSU_CLUSTER_MAX_CLIENTS
          Concurrency,  \* MAJUTSU_CLUSTER_BACKEND_MAX_CONCURRENCY
          Instances     \* the bounds explored, chosen in Init: the connections
                        \* used (conns), the requests sent (ops, keys, kinds,
                        \* sizes, requests), the values of
                        \* MAJUTSU_CLUSTER_MAX_INFLIGHT_FRAME_BYTES (limits),
                        \* timeouts, failing calls and restarts (faults), and
                        \* whether the store may begin empty beside a filled
                        \* backend (cold)

ASSUME FrontAssumption ==
  /\ MaxClients \in Nat \ {0} /\ Concurrency \in Nat \ {0}
  /\ IsFiniteSet(Conns) /\ IsFiniteSet(Uploaders) /\ Keys # {}
  /\ \A i \in Instances :
       /\ i.conns \subseteq Conns /\ i.keys \subseteq Keys /\ i.requests \in Nat /\ i.faults \in Nat
       /\ i.ops \subseteq {"capabilities", "put", "delete", "get", "list", "bad"}
       /\ i.kinds \subseteq {"keys", "sizes", "prefixes"}
       /\ i.cold \in BOOLEAN
       /\ i.limits # {} /\ i.limits \subseteq Nat \ {0} /\ i.sizes \subseteq Nat

VARIABLES inst,      \* the instance
          conn,      \* the thread of each connection
          up,        \* the upload threads
          clients,   \* ClientLimiter.active
          inflight,  \* FrameBudget.in_flight
          limit,     \* FrameBudget.limit of the running master
          gate,      \* BackendGateState
          store,     \* version of each key in the store, 0 when absent
          hidden,    \* keys a queued DELETE or a tombstone hides
          back,      \* version of each key in the backend, 0 when absent
          queue,     \* backend queue: operation and generation of each key
          cache,     \* list cache: one entry per kind of listing
          caps,      \* frame limit in the host's capability cache, 0 when none
          want,      \* ghost: what the host knows of each key
          disturbed, \* ghost: keys with a request overtaken after its timeout
          revived,   \* ghost: keys a GET put back into the store after their DELETE
          requests, faults

vars == <<inst, conn, up, clients, inflight, limit, gate, store, hidden, back, queue,
          cache, caps, want, disturbed, revived, requests, faults>>

server == <<inst, clients, inflight, limit>>
data == <<store, hidden, back, queue>>
ghosts == <<caps, want, disturbed, revived, requests, faults>>

Kinds == {"keys", "sizes", "prefixes"}
Ops == {"capabilities", "put", "delete", "get", "list", "bad"}

\* want[k]: the version of the last acknowledged PUT, 0 after an acknowledged
\* DELETE, Unknown from the moment a new request is sent.
Unknown == -1

Default == "keys"
NoItem == [op |-> "none", gen |-> 0]
Free == [pc |-> "free", op |-> "bad", keys |-> {}, gen |-> 0, size |-> 0, read |-> 0,
         kind |-> Default, seen |-> {}, found |-> {}, late |-> {},
         frame |-> FALSE, client |-> FALSE, ok |-> FALSE]
Idle == [pc |-> "idle", key |-> CHOOSE k \in Keys : TRUE, item |-> NoItem]
NoEntry == [keys |-> {}, late |-> {}, state |-> "none"]

\* master_server_state: an empty process; what is durable stays: the keys
\* uploaded before (with version 1), in a store that has them or one that was
\* started empty beside a filled backend.
Init ==
  /\ inst \in Instances
  /\ conn = [c \in Conns |-> Free]
  /\ up = [u \in Uploaders |-> Idle]
  /\ clients = 0 /\ inflight = 0 /\ limit \in inst.limits
  /\ gate = [active |-> 0, fg |-> 0]
  /\ \E K \in {{}, inst.keys} : back = [k \in Keys |-> IF k \in K THEN 1 ELSE 0]
  /\ store = back \/ (inst.cold /\ store = [k \in Keys |-> 0])
  /\ hidden = {}
  /\ queue = [k \in Keys |-> NoItem]
  /\ cache = [d \in Kinds |-> NoEntry]
  /\ caps \in inst.limits \cup {0} /\ want = back /\ disturbed = {} /\ revived = {}
  /\ requests = 0 /\ faults = 0

Goto(c, pc) == conn' = [conn EXCEPT ![c].pc = pc]
Running(c) == conn[c].pc # "free"
Mutates(c) == conn[c].op \in {"put", "delete"}

-----------------------------------------------------------------------------
\* The client: ClusterRemote

Request(op, K, d, size) ==
  [pc |-> "sent", op |-> op, keys |-> K,
   gen |-> IF op \in {"put", "delete"} THEN requests + 2 ELSE 0, size |-> size, read |-> 0,
   kind |-> d, seen |-> {}, found |-> {}, late |-> {}, frame |-> FALSE, client |-> TRUE, ok |-> FALSE]

\* Until a request that changes keys is answered the host knows nothing of them;
\* one that still runs for a client that gave up disturbs them.
Known(op, K) ==
  IF op \in {"put", "delete"}
  THEN /\ want' = [k \in Keys |-> IF k \in K THEN Unknown ELSE want[k]]
       /\ disturbed' = disturbed \cup
            UNION {conn[e].keys \cap K : e \in {e \in Conns : Running(e) /\ Mutates(e)}}
  ELSE UNCHANGED <<want, disturbed>>

\* cluster_request: an operation needs the cached capabilities of the master
\* and a frame within the limit they state; lifecycle changes are never
\* advertised and never sent.  The upload queue of a host is drained by one
\* process, so that a key has one request whose answer is awaited.
Send(c) ==
  /\ c \in inst.conns /\ ~Running(c) /\ requests < inst.requests
  /\ \E op \in inst.ops, K \in SUBSET inst.keys, d \in inst.kinds \cup {Default}, size \in inst.sizes :
       /\ op = "put" => K # {}
       /\ op \in {"delete", "get"} => \E k \in inst.keys : K = {k}
       /\ op \in {"capabilities", "list", "bad"} => K = {}
       /\ IF op = "list" THEN d \in inst.kinds ELSE d = Default
       /\ op = "put" \/ \A s \in inst.sizes : size <= s
       /\ op \in {"capabilities", "bad"} \/ (caps # 0 /\ size <= caps)
       /\ op \in {"put", "delete"} =>
            \A e \in Conns : conn[e].client /\ Mutates(e) => conn[e].keys \cap K = {}
       /\ conn' = [conn EXCEPT ![c] = Request(op, K, d, size)]
       /\ Known(op, K)
  /\ requests' = requests + 1
  /\ UNCHANGED <<up, server, gate, data, cache, caps, revived, faults>>

\* The read timeout of the client's socket (connect_cluster).
ClientTimeout(c) ==
  /\ conn[c].client /\ faults < inst.faults
  /\ conn' = [conn EXCEPT ![c].client = FALSE]
  /\ faults' = faults + 1
  /\ UNCHANGED <<up, server, gate, data, cache, caps, want, disturbed, revived, requests>>

-----------------------------------------------------------------------------
\* serve_listener and handle_connection

\* ClientLimiter::try_acquire: a compare-and-swap loop that never passes max.
Accept(c) ==
  /\ conn[c].pc = "sent" /\ clients < MaxClients
  /\ clients' = clients + 1
  /\ Goto(c, "admitted")
  /\ UNCHANGED <<inst, up, inflight, limit, gate, data, cache, ghosts>>

Refuse(c) ==
  /\ conn[c].pc = "sent" /\ clients >= MaxClients
  /\ conn' = [conn EXCEPT ![c] = Free]
  /\ UNCHANGED <<up, server, gate, data, cache, ghosts>>

\* read_frame_with_budget and FrameBudget::try_reserve.
Fits(size) == size <= limit /\ inflight + size <= limit

ReadFrame(c) ==
  /\ conn[c].pc = "admitted" /\ Fits(conn[c].size)
  /\ inflight' = inflight + conn[c].size
  /\ conn' = [conn EXCEPT ![c].pc = "framed", ![c].frame = TRUE]
  /\ UNCHANGED <<inst, up, clients, limit, gate, data, cache, ghosts>>

\* send_error: the frame is too large, the budget is used up or the client
\* stops sending; a permit taken on the way is dropped again.
ReadFrameFails(c) ==
  /\ conn[c].pc = "admitted"
  /\ ~Fits(conn[c].size) \/ ~conn[c].client
  /\ Goto(c, "respond")
  /\ UNCHANGED <<up, server, gate, data, cache, ghosts>>

\* Decoding, protocol_version, authenticates, validate_cluster_host_id and
\* authorize_cluster_operation: "bad" stands for a request one of them rejects.
Reject(c) ==
  /\ conn[c].pc = "framed" /\ conn[c].op = "bad"
  /\ Goto(c, "respond")
  /\ UNCHANGED <<up, server, gate, data, cache, ghosts>>

Cached(c) == conn[c].op = "list" /\ cache[conn[c].kind].state = "fresh"

\* dispatch_operation: where the thread goes first.
Route(c) ==
  CASE conn[c].op = "capabilities" -> "respond"
    [] conn[c].op \in {"put", "delete"} -> "lock"
    [] conn[c].op = "get" ->
         IF conn[c].keys \cap hidden # {} \/ \E x \in conn[c].keys : store[x] # 0
         THEN "respond" ELSE "acquire"
    [] OTHER -> IF Cached(c) THEN "respond" ELSE "listing"

Dispatch(c) ==
  /\ conn[c].pc = "framed" /\ conn[c].op # "bad"
  /\ conn' = [conn EXCEPT ![c].pc = Route(c),
                ![c].ok = conn[c].op \in {"capabilities", "get"} \/ Cached(c)]
  /\ cache' = IF conn[c].op = "list" /\ cache[conn[c].kind].state = "expired"
              THEN [cache EXCEPT ![conn[c].kind] = NoEntry] ELSE cache
  /\ UNCHANGED <<up, server, gate, data, ghosts>>

-----------------------------------------------------------------------------
\* PUT, BatchPut and DELETE

\* cancel_local_gc and the queue item of the PUT uncover a deleted key.
HiddenAfterPutStays(op, K) == IF op = "put" THEN hidden ELSE hidden \cup K

HiddenAfter(op, K) == IF op = "put" THEN hidden \ K ELSE hidden \cup K

\* process_puts and durable_delete under durable_lock.  The items of a batch
\* are stored one after the other; the quota may refuse one of them, which
\* fails the whole request after the items before it were stored.
Applied(c, K, ok) ==
  /\ store' = [k \in Keys |-> IF conn[c].op = "put" /\ k \in K THEN conn[c].gen ELSE store[k]]
  /\ hidden' = HiddenAfter(conn[c].op, K)
  /\ queue' = [k \in Keys |-> IF k \in K THEN [op |-> conn[c].op, gen |-> conn[c].gen]
                              ELSE queue[k]]
  /\ revived' = revived \ K
  /\ conn' = [conn EXCEPT ![c].pc = IF ok THEN "uncached" ELSE "respond", ![c].ok = ok]

Apply(c) ==
  /\ conn[c].pc = "lock"
  /\ Applied(c, conn[c].keys, TRUE)
  /\ UNCHANGED <<up, server, gate, back, cache, caps, want, disturbed, requests, faults>>

ApplyFails(c) ==
  /\ conn[c].pc = "lock" /\ conn[c].op = "put" /\ faults < inst.faults
  /\ \E K \in SUBSET conn[c].keys : K # conn[c].keys /\ Applied(c, K, FALSE)
  /\ faults' = faults + 1
  /\ UNCHANGED <<up, server, gate, back, cache, caps, want, disturbed, requests>>

\* update_list_cache_after_puts adds the keys to the entries that hold keys
\* and drops the listings of prefixes; a DELETE clears the cache.  Listings
\* under way do not hear of either, which `late' records.
EntryAfterUpdatesOnly(e, d, K, op) ==
  IF op = "put" /\ e.state # "none" THEN [e EXCEPT !.keys = @ \cup K] ELSE e

EntryAfter(e, d, K, op) ==
  IF op = "delete" \/ d = "prefixes" THEN NoEntry
  ELSE IF e.state = "none" THEN e
  ELSE [e EXCEPT !.keys = @ \cup K]

UpdateCache(c) ==
  /\ conn[c].pc = "uncached"
  /\ cache' = [d \in Kinds |-> EntryAfter(cache[d], d, conn[c].keys, conn[c].op)]
  /\ conn' = [e \in Conns |->
       IF e = c THEN [conn[c] EXCEPT !.pc = "respond"]
       ELSE IF conn[e].pc \in {"liststore", "acquire", "wait", "woken", "backend", "listed"}
               /\ conn[e].op = "list"
            THEN [conn[e] EXCEPT !.late = @ \cup conn[c].keys]
       ELSE conn[e]]
  /\ UNCHANGED <<up, server, gate, data, ghosts>>

-----------------------------------------------------------------------------
\* List, ListWithSizes and ListCommonPrefixes

Stored == {k \in Keys : store[k] # 0}
Uploaded == {k \in Keys : back[k] # 0}

\* logically_deleted_keys; a listing of prefixes does not filter.
ListHidden(c) ==
  /\ conn[c].pc = "listing"
  /\ conn' = [conn EXCEPT ![c].pc = IF conn[c].kind = "sizes" THEN "acquire" ELSE "liststore",
                ![c].seen = IF conn[c].kind = "prefixes" THEN {} ELSE hidden,
                ![c].late = {}]
  /\ UNCHANGED <<up, server, gate, data, cache, ghosts>>

\* The listing of the store: before the backend's, except with sizes.
ListStore(c) ==
  /\ conn[c].pc = "liststore"
  /\ conn' = [conn EXCEPT ![c].pc = IF conn[c].kind = "sizes" THEN "listed" ELSE "acquire",
                ![c].found = @ \cup (Stored \ conn[c].seen)]
  /\ UNCHANGED <<up, server, gate, data, cache, ghosts>>

\* write_list_cache
ListDone(c) ==
  /\ conn[c].pc = "listed"
  /\ cache' = [cache EXCEPT ![conn[c].kind] =
                 [keys |-> conn[c].found, late |-> conn[c].late, state |-> "fresh"]]
  /\ conn' = [conn EXCEPT ![c].pc = "respond", ![c].ok = TRUE, ![c].seen = {},
                ![c].found = {}, ![c].late = {}]
  /\ UNCHANGED <<up, server, gate, data, ghosts>>

\* Instant::elapsed passes MAJUTSU_CLUSTER_LIST_CACHE_TTL_SECS.
Expire(d) ==
  /\ cache[d].state = "fresh"
  /\ cache' = [cache EXCEPT ![d].state = "expired"]
  /\ UNCHANGED <<conn, up, server, gate, data, ghosts>>

-----------------------------------------------------------------------------
\* BackendGate

\* BackendPermit::drop wakes every waiter.
WokenConns(pool) == {c \in Conns : pool[c].pc = "wait"}
WokenUps(pool) == {u \in Uploaders : pool[u].pc = "wait"}

Wake(conns, ups) ==
  /\ conn' = [c \in Conns |-> IF c \in WokenConns(conns) THEN [conns[c] EXCEPT !.pc = "woken"]
                              ELSE conns[c]]
  /\ up' = [u \in Uploaders |-> IF u \in WokenUps(ups) THEN [ups[u] EXCEPT !.pc = "woken"]
                                ELSE ups[u]]

\* acquire(Foreground) announces itself before it waits or enters.
Enter(c) ==
  /\ conn[c].pc \in {"acquire", "woken"}
  /\ LET fg == IF conn[c].pc = "acquire" THEN gate.fg + 1 ELSE gate.fg
     IN IF gate.active >= Concurrency
        THEN gate' = [gate EXCEPT !.fg = fg] /\ Goto(c, "wait")
        ELSE gate' = [active |-> gate.active + 1, fg |-> fg - 1] /\ Goto(c, "backend")
  /\ UNCHANGED <<up, server, data, cache, ghosts>>

\* What a listing of the store cannot make up for when the backend's fails.
Missed(c) == Uploaded \ (IF conn[c].kind = "sizes" THEN Stored ELSE conn[c].found)

Answered(c, ok) ==
  IF conn[c].op = "get"
  THEN [conn[c] EXCEPT !.pc = IF ok THEN "hydrate" ELSE "respond", !.ok = ok,
          !.read = IF ok THEN back[CHOOSE k \in Keys : k \in conn[c].keys] ELSE 0]
  ELSE [conn[c] EXCEPT
          !.pc = IF conn[c].kind = "sizes" THEN "liststore" ELSE "listed", !.ok = FALSE,
          !.found = IF ok THEN @ \cup (Uploaded \ conn[c].seen) ELSE @,
          !.late = IF ok THEN @ ELSE @ \cup Missed(c)]

\* The backend answers or fails; a failing LIST leaves the store's listing.
Leave(c) ==
  /\ conn[c].pc = "backend"
  /\ \E ok \in BOOLEAN :
       /\ ~ok => faults < inst.faults
       /\ faults' = faults + (IF ok THEN 0 ELSE 1)
       /\ Wake([conn EXCEPT ![c] = Answered(c, ok)], up)
  /\ gate' = [gate EXCEPT !.active = @ - 1]
  /\ UNCHANGED <<server, data, cache, caps, want, disturbed, revived, requests>>

\* The end of master_get_optional, under durable_lock: the bytes read are put
\* into the store unless it has the key by now.  Whether the key was deleted
\* meanwhile is not looked at again.  The quota may refuse them; Exists and
\* GetRange do not store what they read.
Hydrate(c) ==
  /\ conn[c].pc = "hydrate"
  /\ \/ \E k \in conn[c].keys :
          /\ store[k] = 0 /\ conn[c].read # 0
          /\ store' = [store EXCEPT ![k] = conn[c].read]
          /\ revived' = IF k \in hidden \/ back[k] # 0 THEN revived ELSE revived \cup {k}
     \/ UNCHANGED <<store, revived>>
  /\ conn' = [conn EXCEPT ![c].pc = "respond", ![c].read = 0]
  /\ UNCHANGED <<up, server, gate, hidden, back, queue, cache, caps, want, disturbed,
                 requests, faults>>

\* Fault: the comparison makes every upload wait.
BackgroundWaitsAlways == gate.active >= Concurrency \/ gate.fg >= 0

\* acquire(Background): a waiting foreground request goes first.
BackgroundWaits == gate.active >= Concurrency \/ gate.fg > 0

UploadTake(u) ==
  /\ up[u].pc = "idle"
  /\ \E k \in Keys :
       /\ queue[k] # NoItem
       /\ \A v \in Uploaders : up[v].pc # "idle" => up[v].key # k
       /\ up' = [up EXCEPT ![u] = [pc |-> "acquire", key |-> k, item |-> queue[k]]]
  /\ UNCHANGED <<conn, server, gate, data, cache, ghosts>>

UploadEnter(u) ==
  /\ up[u].pc \in {"acquire", "woken"}
  /\ IF BackgroundWaits
     THEN up' = [up EXCEPT ![u].pc = "wait"] /\ UNCHANGED gate
     ELSE up' = [up EXCEPT ![u].pc = "backend"] /\ gate' = [gate EXCEPT !.active = @ + 1]
  /\ UNCHANGED <<conn, server, data, cache, ghosts>>

\* The upload takes effect and completes its queue item unless it was
\* replaced; or it fails and the item stays.  A completed DELETE leaves a
\* tombstone if the store has bytes of the key
\* (retain_local_after_backend_delete), else nothing hides it any more.
UploadLeave(u) ==
  /\ up[u].pc = "backend"
  /\ LET k == up[u].key
         i == up[u].item
     IN \/ /\ back' = [back EXCEPT ![k] = IF i.op = "put" THEN i.gen ELSE 0]
           /\ queue' = IF queue[k] = i THEN [queue EXCEPT ![k] = NoItem] ELSE queue
           /\ hidden' = IF queue[k] = i /\ i.op = "delete" /\ store[k] = 0
                        THEN hidden \ {k} ELSE hidden
           /\ UNCHANGED faults
        \/ /\ faults < inst.faults
           /\ faults' = faults + 1
           /\ UNCHANGED <<back, queue, hidden>>
  /\ Wake(conn, [up EXCEPT ![u] = Idle])
  /\ gate' = [gate EXCEPT !.active = @ - 1]
  /\ UNCHANGED <<server, store, cache, caps, want, disturbed, revived, requests>>

\* run_local_gc, after the uploads of a cycle: the grace period of a tombstone is
\* over, the bytes and then the tombstone are removed.
LocalGc(k) ==
  /\ \A u \in Uploaders : up[u].pc = "idle"
  /\ k \in hidden /\ queue[k] = NoItem
  /\ store' = [store EXCEPT ![k] = 0] /\ hidden' = hidden \ {k}
  /\ UNCHANGED <<conn, up, server, gate, back, queue, cache, ghosts>>

-----------------------------------------------------------------------------
\* The answer and the end of the thread

\* write_frame: the client learns of the result if it still waits.
Respond(c) ==
  /\ conn[c].pc = "respond"
  /\ conn' = [conn EXCEPT ![c] = [Free EXCEPT !.pc = "closing", !.frame = conn[c].frame,
                                    !.size = conn[c].size]]
  /\ IF conn[c].client /\ conn[c].ok
     THEN /\ caps' = IF conn[c].op = "capabilities" THEN limit ELSE caps
          /\ want' = [k \in Keys |->
               IF Mutates(c) /\ k \in conn[c].keys
               THEN (IF conn[c].op = "put" THEN conn[c].gen ELSE 0) ELSE want[k]]
     ELSE UNCHANGED <<caps, want>>
  /\ UNCHANGED <<up, server, gate, data, cache, disturbed, revived, requests, faults>>

\* FrameBudgetPermit::drop and ClientPermit::drop, after the answer.
ReturnedUnlessLarge(c) == IF conn[c].frame /\ conn[c].size = 1 THEN conn[c].size ELSE 0

Returned(c) == IF conn[c].frame THEN conn[c].size ELSE 0

Close(c) ==
  /\ conn[c].pc = "closing"
  /\ inflight' = inflight - Returned(c)
  /\ clients' = clients - 1
  /\ conn' = [conn EXCEPT ![c] = Free]
  /\ UNCHANGED <<inst, up, limit, gate, data, cache, ghosts>>

\* The master process ends and is started again, perhaps with another limit:
\* threads, permits and the cache are gone, store and queue are not.
Restart ==
  /\ faults < inst.faults
  /\ faults' = faults + 1
  /\ conn' = [c \in Conns |-> Free]
  /\ up' = [u \in Uploaders |-> Idle]
  /\ clients' = 0 /\ inflight' = 0 /\ limit' \in inst.limits
  /\ gate' = [active |-> 0, fg |-> 0]
  /\ cache' = [d \in Kinds |-> NoEntry]
  /\ UNCHANGED <<inst, data, caps, want, disturbed, revived, requests>>

Serve(c) ==
  \/ Accept(c) \/ Refuse(c) \/ ReadFrame(c) \/ ReadFrameFails(c) \/ Reject(c)
  \/ Dispatch(c) \/ Apply(c) \/ UpdateCache(c) \/ ListHidden(c) \/ ListStore(c)
  \/ ListDone(c) \/ Enter(c) \/ Leave(c) \/ Hydrate(c) \/ Respond(c) \/ Close(c)

UploadStep(u) == UploadTake(u) \/ UploadEnter(u) \/ UploadLeave(u)

Next ==
  \/ \E c \in Conns : Send(c) \/ ClientTimeout(c) \/ Serve(c) \/ ApplyFails(c)
  \/ \E u \in Uploaders : UploadStep(u)
  \/ \E d \in Kinds : Expire(d)
  \/ \E k \in Keys : LocalGc(k)
  \/ Restart

\* Every thread runs until it ends; requests, timeouts, failures and restarts
\* are never forced.
Fairness ==
  /\ \A c \in Conns : WF_vars(Serve(c))
  /\ \A u \in Uploaders : WF_vars(UploadStep(u))

Spec == Init /\ [][Next]_vars /\ Fairness

-----------------------------------------------------------------------------
\* Properties

\* The type invariant, with the bounds of the counters.
TypeOK ==
  /\ \A c \in Conns : conn[c].keys \subseteq Keys /\ conn[c].found \subseteq Keys
  /\ \A u \in Uploaders : up[u].key \in Keys
  /\ clients \in 0..MaxClients /\ limit \in inst.limits /\ inflight \in 0..limit
  /\ gate \in [active : 0..Concurrency, fg : 0..Cardinality(Conns)]
  /\ store \in [Keys -> Nat] /\ back \in [Keys -> Nat] /\ hidden \subseteq Keys
  /\ caps \in inst.limits \cup {0} /\ want \in [Keys -> Unknown..(inst.requests + 1)]

\* The bytes of the frames that threads hold, numbered within each frame
FrameBytes == UNION {{c} \X (1..conn[c].size) : c \in {e \in Conns : conn[e].frame}}

\* The counters of ClientLimiter, FrameBudget and BackendGate are at every
\* moment the permits the threads hold, on every path out of a request: a
\* permit that is lost on one of them shrinks the master for good.  None of them
\* leaves its bounds.
PermitsAreExact ==
  /\ TypeOK
  /\ clients = Cardinality({c \in Conns : conn[c].pc \notin {"free", "sent"}})
  /\ inflight = Cardinality(FrameBytes)
  /\ gate.active = Cardinality({c \in Conns : conn[c].pc = "backend"})
                   + Cardinality({u \in Uploaders : up[u].pc = "backend"})
  /\ gate.fg = Cardinality({c \in Conns : conn[c].pc \in {"wait", "woken"}})

\* What master_get_optional returns for a key.
Visible(k) == IF k \in hidden THEN 0 ELSE IF store[k] # 0 THEN store[k] ELSE back[k]

\* What a host was told last holds: a key whose PUT was acknowledged is visible
\* with that version, from the store or from the backend, and a key whose DELETE
\* was acknowledged is not, whatever the uploads, the local GC and the GETs that
\* fill the store do meanwhile.  There are two exceptions.  A request may have run
\* on after its client had given up while the host already sent the next one for
\* the key (process_puts does not know which of two requests is newer).  And a GET
\* may have read the backend before the DELETE of the key reached it and put the
\* bytes into the store after (master_get_optional does not look again), which lasts
\* until the next PUT or DELETE of the key.
AckedStands ==
  \A k \in Keys \ (disturbed \cup revived) :
    want[k] # Unknown => want[k] = Visible(k)

\* A cached listing is served for minutes: it has every key whose PUT was
\* acknowledged and, unless it lists prefixes, none whose DELETE was.  Excepted are
\* keys that changed while the listing was being made (update_list_cache_after_puts
\* and clear_list_cache do not reach it), keys that only the backend had when its
\* LIST failed (the store's listing is cached all the same), and the keys that
\* AckedStands excepts.
CachedListIsCurrent ==
  \A d \in Kinds : cache[d].state = "fresh" =>
    \A k \in Keys \ (disturbed \cup revived \cup cache[d].late) :
      /\ want[k] > 0 => k \in cache[d].keys
      /\ want[k] = 0 /\ d # "prefixes" => k \notin cache[d].keys

\* Once the clients have stopped, every connection ends and the backend queue
\* drains: no thread waits in BackendGate for ever, although the uploads give
\* way to every waiting request and a permit given back wakes waiters that
\* have to wait again.
Quiesces ==
  <>[](/\ \A c \in Conns : conn[c].pc = "free"
       /\ \A k \in Keys : queue[k] = NoItem)

=============================================================================
