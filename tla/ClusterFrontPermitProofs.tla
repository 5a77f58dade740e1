---------------------- MODULE ClusterFrontPermitProofs ----------------------
(* The threads of the request front keep their types, and its counters count *)
(* exactly the threads that hold a permit, for any number of connections and *)
(* upload threads and for all limits.                                        *)
EXTENDS ClusterFront, FiniteSetTheorems, TLAPS

Stages == {"free", "sent", "admitted", "framed", "lock", "uncached", "listing", "liststore",
           "acquire", "wait", "woken", "backend", "hydrate", "listed", "respond", "closing"}
Items == [op : {"none", "put", "delete"}, gen : Nat]
Threads == [pc : Stages, op : Ops, keys : SUBSET Keys, gen : Nat, size : Nat, read : Nat, kind : Kinds,
            seen : SUBSET Keys, found : SUBSET Keys, late : SUBSET Keys,
            frame : BOOLEAN, client : BOOLEAN, ok : BOOLEAN]
Uploads == [pc : {"idle", "acquire", "wait", "woken", "backend"}, key : Keys, item : Items]
Entries == [keys : SUBSET Keys, late : SUBSET Keys, state : {"none", "fresh", "expired"}]

\* The types of the variables; that the counters are natural numbers follows from
\* what they count.
Types ==
  /\ inst \in Instances /\ limit \in inst.limits /\ caps \in inst.limits \cup {0}
  /\ conn \in [Conns -> Threads] /\ up \in [Uploaders -> Uploads]
  /\ clients \in Int /\ inflight \in Int /\ gate \in [active : Int, fg : Int]
  /\ store \in [Keys -> Nat] /\ back \in [Keys -> Nat] /\ hidden \subseteq Keys
  /\ queue \in [Keys -> Items] /\ cache \in [Kinds -> Entries]
  /\ want \in [Keys -> Unknown..(inst.requests + 1)] /\ disturbed \subseteq Keys /\ revived \subseteq Keys
  /\ requests \in Nat /\ faults \in Nat

Listing == {"liststore", "acquire", "wait", "woken", "backend", "listed"}

\* What the place of a thread says about its request.
ThreadOK(r) ==
  /\ r.pc \in {"free", "closing"} => r.op = "bad" /\ ~r.ok
  /\ r.pc \in {"free", "sent", "admitted"} => ~r.frame
  /\ r.pc \in {"lock", "uncached"} => r.op \in {"put", "delete"}
  /\ r.pc \in {"listing", "liststore", "listed"} => r.op = "list"
  /\ r.pc \in {"acquire", "wait", "woken", "backend"} => r.op \in {"get", "list"}
  /\ r.pc = "hydrate" => r.op = "get"
  /\ r.op = "get" => \E k \in Keys : r.keys = {k}
  /\ r.op \in {"put", "delete"} => r.gen > 0 /\ r.gen <= inst.requests + 1
  /\ r.op \in {"put", "delete"} /\ r.ok => r.pc \in {"uncached", "respond"}
  /\ r.pc = "uncached" => r.ok
  /\ r.pc \in {"sent", "admitted", "framed", "listing"} => r.found = {}

ThreadInv == \A c \in Conns : ThreadOK(conn[c])

-----------------------------------------------------------------------------
(* Steps of one thread *)

\* The other threads stay, or are woken.
Others(c) ==
  \A e \in Conns \ {c} : \/ conn'[e] = conn[e]
                         \/ conn[e].pc = "wait" /\ conn'[e] = [conn[e] EXCEPT !.pc = "woken"]

\* The initial records, and what a waiter becomes, have their types.
LEMMA RecordTypes ==
  /\ Free \in Threads /\ ThreadOK(Free) /\ Idle \in Uploads
  /\ \A r \in Threads : ThreadOK(r) /\ r.pc = "wait" =>
       [r EXCEPT !.pc = "woken"] \in Threads /\ ThreadOK([r EXCEPT !.pc = "woken"])
  /\ \A r \in Uploads : [r EXCEPT !.pc = "woken"] \in Uploads
<1>1. Free \in Threads
  BY ZenonT(30) DEF Free, Threads, Stages, Ops, Kinds, Default
<1>2. ThreadOK(Free)
  BY ZenonT(30) DEF Free, ThreadOK
<1>3. Idle \in Uploads
  BY ZenonT(30), FrontAssumption DEF Idle, Uploads, Items, NoItem
<1>4. ASSUME NEW r \in Threads, ThreadOK(r), r.pc = "wait"
      PROVE  [r EXCEPT !.pc = "woken"] \in Threads /\ ThreadOK([r EXCEPT !.pc = "woken"])
  <2>1. [r EXCEPT !.pc = "woken"] \in Threads
    BY ZenonT(30) DEF Threads, Stages
  <2>2. QED
    BY ZenonT(30), <1>4, <2>1 DEF Threads, ThreadOK
<1>5. ASSUME NEW r \in Uploads PROVE [r EXCEPT !.pc = "woken"] \in Uploads
  BY ZenonT(30) DEF Uploads
<1>6. QED
  BY ZenonT(30), <1>1, <1>2, <1>3, <1>4, <1>5

\* A step that changes one thread and wakes others keeps types and places.
LEMMA OneThread ==
  ASSUME Types, ThreadInv, inst' = inst, NEW c \in Conns, NEW r \in Threads, ThreadOK(r),
         conn' = [e \in Conns |-> conn'[e]], conn'[c] = r, Others(c)
  PROVE  conn' \in [Conns -> Threads] /\ ThreadInv'
<1>1. ASSUME NEW e \in Conns PROVE conn'[e] \in Threads /\ ThreadOK(conn'[e])
  <2>1. conn[e] \in Threads /\ ThreadOK(conn[e])
    BY ZenonT(30) DEF Types, ThreadInv
  <2>2. QED
    BY ZenonT(30), <2>1, RecordTypes DEF Others
<1>2. \A e \in Conns : ThreadOK(conn[e])'
  BY ZenonT(30), <1>1 DEF ThreadOK
<1>3. QED
  BY ZenonT(30), <1>1, <1>2 DEF ThreadInv

\* The actions of a thread and what becomes of its record.
LEMMA Moves ==
  ASSUME Types, NEW c \in Conns
  PROVE  \A r \in Threads : conn' = [conn EXCEPT ![c] = r] =>
           Others(c) /\ conn'[c] = r /\ conn' = [e \in Conns |-> conn'[e]]
BY ZenonT(30) DEF Types, Others

\* BackendPermit::drop: every waiter is woken and nothing else changes.
LEMMA Woken ==
  ASSUME Types, NEW pool, NEW ups, Wake(pool, ups)
  PROVE  /\ conn' = [e \in Conns |-> conn'[e]] /\ up' = [u \in Uploaders |-> up'[u]]
         /\ \A e \in Conns : conn'[e] = IF pool[e].pc = "wait"
                                        THEN [pool[e] EXCEPT !.pc = "woken"] ELSE pool[e]
         /\ \A u \in Uploaders : up'[u] = IF ups[u].pc = "wait"
                                          THEN [ups[u] EXCEPT !.pc = "woken"] ELSE ups[u]
BY ZenonT(30) DEF Wake, WokenConns, WokenUps

\* Woken uploads keep their type.
LEMMA WokenUploads ==
  ASSUME NEW pool, NEW ups, Wake(pool, ups), \A u \in Uploaders : ups[u] \in Uploads
  PROVE  up' \in [Uploaders -> Uploads]
<1>1. \A r \in Uploads : [r EXCEPT !.pc = "woken"] \in Uploads
  BY ZenonT(30), RecordTypes
<1>2. up' = [u \in Uploaders |-> IF ups[u].pc = "wait" THEN [ups[u] EXCEPT !.pc = "woken"] ELSE ups[u]]
  BY ZenonT(30) DEF Wake, WokenUps
<1>3. QED
  BY ZenonT(30), <1>1, <1>2

\* A thread that only goes to another place keeps the rest of its request.
LEMMA Gone ==
  ASSUME Types, NEW c \in Conns, NEW pc \in Stages, Goto(c, pc)
  PROVE  /\ conn' = [conn EXCEPT ![c] = [conn[c] EXCEPT !.pc = pc]]
         /\ [conn[c] EXCEPT !.pc = pc] \in Threads
         /\ Others(c) /\ conn' = [e \in Conns |-> conn'[e]]
         /\ conn'[c].pc = pc
         /\ \A f \in {"op", "keys", "gen", "size", "read", "kind", "seen", "found", "late", "frame",
                      "client", "ok"} : conn'[c][f] = conn[c][f]
<1>1. conn[c] \in Threads
  BY ZenonT(30) DEF Types
<1>2. [conn[c] EXCEPT !.pc = pc] \in Threads
  BY ZenonT(30), <1>1 DEF Threads
<1>3. conn' = [conn EXCEPT ![c] = [conn[c] EXCEPT !.pc = pc]]
  BY ZenonT(30) DEF Goto
<1>4. QED
  BY ZenonT(30), <1>1, <1>2, <1>3, Moves DEF Types, Threads

\* What a call of the backend leaves of a request.
LEMMA AnsweredThread ==
  ASSUME NEW c \in Conns, NEW ok \in BOOLEAN, conn[c] \in Threads, ThreadOK(conn[c]),
         back \in [Keys -> Nat], conn[c].pc = "backend"
  PROVE  /\ Answered(c, ok) \in Threads /\ ThreadOK(Answered(c, ok))
         /\ Answered(c, ok).pc \in {"respond", "hydrate", "liststore", "listed"}
         /\ Answered(c, ok).pc # "wait"
         /\ \A f \in {"op", "keys", "gen", "size", "kind", "seen", "frame", "client"} :
              Answered(c, ok)[f] = conn[c][f]
<1>a. conn[c].op \in {"get", "list"}
  BY ZenonT(30) DEF ThreadOK
<1>1. CASE conn[c].op = "get"
  <2> DEFINE pc == IF ok THEN "hydrate" ELSE "respond"
             read == IF ok THEN back[CHOOSE k \in Keys : k \in conn[c].keys] ELSE 0
             r == [conn[c] EXCEPT !.pc = pc, !.ok = ok, !.read = read]
  <2>1. Answered(c, ok) = r
    BY ZenonT(30), <1>1 DEF Answered
  <2>2. (CHOOSE k \in Keys : k \in conn[c].keys) \in Keys
    <3>1. \E k \in Keys : k \in conn[c].keys
      BY ZenonT(30), <1>1 DEF ThreadOK
    <3>2. QED
      BY ZenonT(30), <3>1
  <2>3. read \in Nat
    BY <2>2
  <2>4. pc \in {"hydrate", "respond"}
    BY ZenonT(30)
  <2> HIDE DEF pc, read
  <2>5. r \in Threads
    BY ZenonT(30), <2>3, <2>4 DEF Threads, Stages
  <2>6. r.pc = pc /\ \A f \in {"op", "keys", "gen", "size", "kind", "seen", "found", "frame", "client"} :
                      r[f] = conn[c][f]
    BY ZenonT(30) DEF Threads
  <2>7. ThreadOK(r)
    <3> HIDE DEF r
    <3> QED BY ZenonT(30), <1>1, <2>4, <2>6 DEF ThreadOK
  <2> HIDE DEF r
  <2>8. QED
    BY ZenonT(30), <2>1, <2>4, <2>5, <2>6, <2>7
<1>2. CASE conn[c].op = "list"
  <2> DEFINE pc == IF conn[c].kind = "sizes" THEN "liststore" ELSE "listed"
             found == IF ok THEN conn[c].found \cup (Uploaded \ conn[c].seen) ELSE conn[c].found
             late == IF ok THEN conn[c].late ELSE conn[c].late \cup Missed(c)
             r == [conn[c] EXCEPT !.pc = pc, !.ok = FALSE, !.found = found, !.late = late]
  <2>1. Answered(c, ok) = r
    BY ZenonT(30), <1>2 DEF Answered
  <2>2. found \subseteq Keys /\ late \subseteq Keys
    BY ZenonT(30) DEF Threads, Uploaded, Missed
  <2>3. pc \in {"liststore", "listed"}
    BY ZenonT(30)
  <2> HIDE DEF pc, found, late
  <2>4. r \in Threads
    BY ZenonT(30), <2>2, <2>3 DEF Threads, Stages
  <2>5. r.pc = pc /\ ~r.ok /\ \A f \in {"op", "keys", "gen", "size", "kind", "seen", "frame", "client"} :
                              r[f] = conn[c][f]
    BY ZenonT(30) DEF Threads
  <2>6. ThreadOK(r)
    <3> HIDE DEF r
    <3> QED BY ZenonT(30), <1>2, <2>3, <2>5 DEF ThreadOK
  <2> HIDE DEF r
  <2>7. QED
    BY ZenonT(30), <2>1, <2>3, <2>4, <2>5, <2>6
<1>3. QED
  BY ZenonT(30), <1>a, <1>1, <1>2

\* Every step of the threads keeps their types and places.
LEMMA ThreadStep == Types /\ ThreadInv /\ Next => conn' \in [Conns -> Threads] /\ ThreadInv'
<1> SUFFICES ASSUME Types, ThreadInv, Next PROVE conn' \in [Conns -> Threads] /\ ThreadInv'
  BY ZenonT(30)
<1> DEFINE Goal == conn' \in [Conns -> Threads] /\ ThreadInv'
<1>a. \A c \in Conns : conn[c] \in Threads /\ ThreadOK(conn[c])
  BY ZenonT(30) DEF Types, ThreadInv
<1>b. /\ inst.conns \subseteq Conns /\ inst.keys \subseteq Keys /\ inst.requests \in Nat
      /\ inst.ops \subseteq Ops /\ inst.kinds \subseteq Kinds /\ inst.sizes \subseteq Nat
      /\ requests \in Nat /\ hidden \subseteq Keys /\ back \in [Keys -> Nat]
  BY ZenonT(30), FrontAssumption DEF Types, Ops, Kinds
<1>1. ASSUME NEW c \in Conns, Send(c) PROVE Goal
  <2>1. PICK op \in inst.ops, K \in SUBSET inst.keys, d \in inst.kinds \cup {Default}, size \in inst.sizes :
          /\ conn' = [conn EXCEPT ![c] = Request(op, K, d, size)]
          /\ op \in {"delete", "get"} => \E k \in inst.keys : K = {k}
    BY ZenonT(30), <1>1 DEF Send
  <2>2. inst' = inst /\ requests < inst.requests
    BY ZenonT(30), <1>1 DEF Send, server
  <2> DEFINE g == IF op \in {"put", "delete"} THEN requests + 2 ELSE 0
             r == [pc |-> "sent", op |-> op, keys |-> K, gen |-> g, size |-> size, read |-> 0,
                   kind |-> d, seen |-> {}, found |-> {}, late |-> {}, frame |-> FALSE, client |-> TRUE,
                   ok |-> FALSE]
  <2>a. g \in Nat /\ (op \in {"put", "delete"} => g > 0 /\ g <= inst.requests + 1)
    BY <1>b, <2>2
  <2>b. Request(op, K, d, size) = r
    BY ZenonT(30) DEF Request
  <2> HIDE DEF g
  <2>c. op \in Ops /\ K \in SUBSET Keys /\ d \in Kinds /\ size \in Nat
    BY ZenonT(30), <1>b DEF Default, Kinds
  <2>d. op = "get" => \E k \in Keys : K = {k}
    BY ZenonT(30), <1>b, <2>1
  <2>3. Request(op, K, d, size) \in Threads
    BY <2>a, <2>b, <2>c DEF Threads, Stages
  <2>4. ThreadOK(Request(op, K, d, size))
    <3> HIDE DEF r
    <3>1. /\ r.pc = "sent" /\ r.op = op /\ r.keys = K /\ r.gen = g /\ r.found = {}
          /\ ~r.frame /\ ~r.ok
      BY ZenonT(30) DEF r
    <3>2. QED
      BY ZenonT(30), <2>a, <2>b, <2>d, <3>1 DEF ThreadOK
  <2>5. QED
    BY ZenonT(30), <2>1, <2>2, <2>3, <2>4, Moves, OneThread
<1>2. ASSUME NEW c \in Conns, ClientTimeout(c) PROVE Goal
  <2> DEFINE r == [conn[c] EXCEPT !.client = FALSE]
  <2>1. conn' = [conn EXCEPT ![c] = r] /\ inst' = inst
    BY ZenonT(30), <1>2 DEF ClientTimeout, server
  <2>2. r \in Threads
    BY ZenonT(30), <1>a DEF Threads
  <2>3. ThreadOK(r)
    BY ZenonT(30), <1>a DEF ThreadOK, Threads
  <2> HIDE DEF r
  <2>4. QED
    BY ZenonT(30), <2>1, <2>2, <2>3, Moves, OneThread
<1>3. ASSUME NEW c \in Conns, Accept(c) PROVE Goal
  <2>1. Goto(c, "admitted") /\ inst' = inst /\ conn[c].pc = "sent"
    BY ZenonT(30), <1>3 DEF Accept
  <2>2. ThreadOK([conn[c] EXCEPT !.pc = "admitted"])
    BY ZenonT(30), <1>a, <2>1 DEF ThreadOK, Threads
  <2>3. /\ conn' = [conn EXCEPT ![c] = [conn[c] EXCEPT !.pc = "admitted"]]
        /\ [conn[c] EXCEPT !.pc = "admitted"] \in Threads
    BY ZenonT(30), <2>1, Gone DEF Stages
  <2>4. QED
    BY ZenonT(30), <2>1, <2>2, <2>3, Moves, OneThread
<1>4. ASSUME NEW c \in Conns, Refuse(c) \/ Close(c) PROVE Goal
  <2>1. conn' = [conn EXCEPT ![c] = Free] /\ inst' = inst
    BY ZenonT(30), <1>4 DEF Refuse, Close, server
  <2>2. QED
    BY ZenonT(30), <2>1, RecordTypes, Moves, OneThread
<1>5. ASSUME NEW c \in Conns, ReadFrame(c) PROVE Goal
  <2> DEFINE r == [conn[c] EXCEPT !.pc = "framed", !.frame = TRUE]
  <2>1. conn' = [conn EXCEPT ![c] = r] /\ inst' = inst /\ conn[c].pc = "admitted"
    BY ZenonT(30), <1>5 DEF ReadFrame
  <2>2. r \in Threads
    BY ZenonT(30), <1>a DEF Threads, Stages
  <2>3. ThreadOK(r)
    BY ZenonT(30), <1>a, <2>1 DEF ThreadOK, Threads
  <2> HIDE DEF r
  <2>4. QED
    BY ZenonT(30), <2>1, <2>2, <2>3, Moves, OneThread
<1>6. ASSUME NEW c \in Conns, ReadFrameFails(c) \/ Reject(c) PROVE Goal
  <2>1. Goto(c, "respond") /\ inst' = inst /\ conn[c].pc \in {"admitted", "framed"}
    BY ZenonT(30), <1>6 DEF ReadFrameFails, Reject, server
  <2>2. ThreadOK([conn[c] EXCEPT !.pc = "respond"])
    BY ZenonT(30), <1>a, <2>1 DEF ThreadOK, Threads
  <2>3. /\ conn' = [conn EXCEPT ![c] = [conn[c] EXCEPT !.pc = "respond"]]
        /\ [conn[c] EXCEPT !.pc = "respond"] \in Threads
    BY ZenonT(30), <2>1, Gone DEF Stages
  <2>4. QED
    BY ZenonT(30), <2>1, <2>2, <2>3, Moves, OneThread
<1>7. ASSUME NEW c \in Conns, Dispatch(c) PROVE Goal
  <2> DEFINE pc == Route(c)
             ok == conn[c].op \in {"capabilities", "get"} \/ Cached(c)
  <2>1. conn' = [conn EXCEPT ![c].pc = pc, ![c].ok = ok]
    BY ZenonT(30), <1>7 DEF Dispatch
  <2>2. inst' = inst /\ conn[c].pc = "framed" /\ conn[c].op \in Ops \ {"bad"}
    BY ZenonT(30), <1>7, <1>a DEF Dispatch, server, Threads
  <2>3. /\ conn[c].op \in {"put", "delete"} => pc = "lock"
        /\ conn[c].op = "list" => pc \in {"respond", "listing"}
        /\ conn[c].op = "get" => pc \in {"respond", "acquire"}
        /\ conn[c].op = "capabilities" => pc = "respond"
    BY ZenonT(30), <2>2 DEF Ops, Route
  <2>4. ok \in BOOLEAN
    BY Zenon DEF Cached
  <2>5. conn[c].op \in {"put", "delete"} => ~ok
    BY ZenonT(30) DEF Cached
  <2> HIDE DEF pc, ok
  <2> DEFINE r == [conn[c] EXCEPT !.pc = pc, !.ok = ok]
  <2>6. conn' = [conn EXCEPT ![c] = r]
    BY ZenonT(30), <2>1
  <2>7. pc \in Stages
    BY ZenonT(30), <2>2, <2>3 DEF Ops, Stages
  <2>8. r \in Threads
    BY ZenonT(30), <1>a, <2>4, <2>7 DEF Threads
  <2>9. /\ r.pc = pc /\ r.ok = ok /\ r.op = conn[c].op /\ r.gen = conn[c].gen
        /\ r.frame = conn[c].frame /\ r.found = {} /\ r.keys = conn[c].keys
    BY ZenonT(30), <1>a, <2>2 DEF Threads, ThreadOK
  <2>10. ThreadOK(r)
    <3> HIDE DEF r
    <3> QED BY ZenonT(30), <1>a, <2>2, <2>3, <2>5, <2>9 DEF ThreadOK, Ops
  <2> HIDE DEF r
  <2>11. QED
    BY ZenonT(30), <2>2, <2>6, <2>8, <2>10, Moves, OneThread
<1>8. ASSUME NEW c \in Conns, NEW K, NEW ok \in BOOLEAN, Applied(c, K, ok), inst' = inst,
             conn[c].pc = "lock"
      PROVE  Goal
  <2> DEFINE pc == IF ok THEN "uncached" ELSE "respond"
             r == [conn[c] EXCEPT !.pc = pc, !.ok = ok]
  <2>1. conn' = [conn EXCEPT ![c] = r]
    BY ZenonT(30), <1>8 DEF Applied
  <2>2. r \in Threads
    BY ZenonT(30), <1>a DEF Threads, Stages
  <2>3. ThreadOK(r)
    BY <1>a, <1>8 DEF ThreadOK, Threads
  <2> HIDE DEF r
  <2>4. QED
    BY ZenonT(30), <1>8, <2>1, <2>2, <2>3, Moves, OneThread
<1>9. ASSUME NEW c \in Conns, UpdateCache(c) PROVE Goal
  <2>1. conn[c].pc = "uncached" /\ inst' = inst
    BY ZenonT(30), <1>9 DEF UpdateCache, server
  <2>2. conn' = [e \in Conns |->
          IF e = c THEN [conn[c] EXCEPT !.pc = "respond"]
          ELSE IF conn[e].pc \in Listing /\ conn[e].op = "list"
               THEN [conn[e] EXCEPT !.late = @ \cup conn[c].keys] ELSE conn[e]]
    BY ZenonT(30), <1>9 DEF UpdateCache, Listing
  <2>3. ASSUME NEW e \in Conns PROVE conn'[e] \in Threads /\ ThreadOK(conn'[e])
    <3>1. CASE e = c
      BY <1>a, <2>1, <2>2, <3>1 DEF Threads, Stages, ThreadOK
    <3>2. CASE e # c /\ conn'[e] = [conn[e] EXCEPT !.late = @ \cup conn[c].keys]
      <4>1. conn[e] \in Threads /\ ThreadOK(conn[e]) /\ conn[c].keys \subseteq Keys
        BY ZenonT(30), <1>a DEF Threads
      <4>2. conn'[e] \in Threads
        BY ZenonT(30), <3>2, <4>1 DEF Threads
      <4>3. QED
        BY ZenonT(30), <3>2, <4>1, <4>2 DEF Threads, ThreadOK
    <3>3. CASE e # c /\ conn'[e] = conn[e]
      BY ZenonT(30), <1>a, <3>3
    <3>4. QED
      BY ZenonT(30), <2>2, <3>1, <3>2, <3>3
  <2>4. \A e \in Conns : ThreadOK(conn[e])'
    BY ZenonT(30), <2>1, <2>3 DEF ThreadOK
  <2>5. QED
    BY ZenonT(30), <2>2, <2>3, <2>4 DEF ThreadInv
<1>10. ASSUME NEW c \in Conns, ListHidden(c) PROVE Goal
  <2> DEFINE pc == IF conn[c].kind = "sizes" THEN "acquire" ELSE "liststore"
             seen == IF conn[c].kind = "prefixes" THEN {} ELSE hidden
             r == [conn[c] EXCEPT !.pc = pc, !.seen = seen, !.late = {}]
  <2>1. conn' = [conn EXCEPT ![c] = r] /\ inst' = inst /\ conn[c].pc = "listing"
    BY ZenonT(30), <1>10 DEF ListHidden, server
  <2>2. pc \in {"acquire", "liststore"} /\ seen \subseteq Keys
    BY ZenonT(30), <1>b
  <2> HIDE DEF pc, seen
  <2>3. r \in Threads
    BY ZenonT(30), <1>a, <2>2 DEF Threads, Stages
  <2>4. ThreadOK(r)
    BY ZenonT(30), <1>a, <2>1, <2>2 DEF ThreadOK, Threads
  <2> HIDE DEF r
  <2>5. QED
    BY ZenonT(30), <2>1, <2>3, <2>4, Moves, OneThread
<1>11. ASSUME NEW c \in Conns, ListStore(c) PROVE Goal
  <2> DEFINE pc == IF conn[c].kind = "sizes" THEN "listed" ELSE "acquire"
             r == [conn[c] EXCEPT !.pc = pc, !.found = @ \cup (Stored \ conn[c].seen)]
  <2>1. conn' = [conn EXCEPT ![c] = r] /\ inst' = inst /\ conn[c].pc = "liststore"
    BY ZenonT(30), <1>11 DEF ListStore, server
  <2>2. pc \in {"listed", "acquire"} /\ Stored \subseteq Keys
    BY ZenonT(30) DEF Stored
  <2> HIDE DEF pc
  <2>3. r \in Threads
    BY ZenonT(30), <1>a, <2>2 DEF Threads, Stages
  <2>4. ThreadOK(r)
    BY ZenonT(30), <1>a, <2>1, <2>2 DEF ThreadOK, Threads
  <2> HIDE DEF r
  <2>5. QED
    BY ZenonT(30), <2>1, <2>3, <2>4, Moves, OneThread
<1>12. ASSUME NEW c \in Conns, ListDone(c) PROVE Goal
  <2> DEFINE r == [conn[c] EXCEPT !.pc = "respond", !.ok = TRUE, !.seen = {}, !.found = {}, !.late = {}]
  <2>1. conn' = [conn EXCEPT ![c] = r] /\ inst' = inst /\ conn[c].pc = "listed"
    BY ZenonT(30), <1>12 DEF ListDone, server
  <2>3. r \in Threads
    BY ZenonT(30), <1>a DEF Threads, Stages
  <2>4. ThreadOK(r)
    BY ZenonT(30), <1>a, <2>1 DEF ThreadOK, Threads
  <2> HIDE DEF r
  <2>5. QED
    BY ZenonT(30), <2>1, <2>3, <2>4, Moves, OneThread
<1>13. ASSUME NEW c \in Conns, Enter(c) PROVE Goal
  <2>1. PICK pc \in {"wait", "backend"} : Goto(c, pc)
    BY ZenonT(30), <1>13 DEF Enter
  <2>2. inst' = inst /\ conn[c].pc \in {"acquire", "woken"}
    BY ZenonT(30), <1>13 DEF Enter, server
  <2>3. ThreadOK([conn[c] EXCEPT !.pc = pc])
    BY ZenonT(30), <1>a, <2>1, <2>2 DEF ThreadOK, Threads
  <2>4. /\ conn' = [conn EXCEPT ![c] = [conn[c] EXCEPT !.pc = pc]]
        /\ [conn[c] EXCEPT !.pc = pc] \in Threads
    BY ZenonT(30), <2>1, Gone DEF Stages
  <2>5. QED
    BY ZenonT(30), <2>2, <2>3, <2>4, Moves, OneThread
<1>14. ASSUME NEW c \in Conns, Leave(c) PROVE Goal
  <2>1. PICK ok \in BOOLEAN : Wake([conn EXCEPT ![c] = Answered(c, ok)], up)
    BY ZenonT(30), <1>14 DEF Leave
  <2>2. inst' = inst /\ conn[c].pc = "backend"
    BY ZenonT(30), <1>14 DEF Leave, server
  <2> DEFINE r == Answered(c, ok)
             pool == [conn EXCEPT ![c] = r]
  <2>3. Wake(pool, up)
    BY ZenonT(30), <2>1
  <2>6. r \in Threads /\ ThreadOK(r) /\ r.pc # "wait"
    BY ZenonT(30), <1>a, <1>b, <2>2, AnsweredThread
  <2>7. ThreadOK(r) /\ r.pc # "wait"
    BY ZenonT(30), <2>6
  <2> HIDE DEF r
  <2>8. pool[c] = r /\ \A e \in Conns \ {c} : pool[e] = conn[e]
    BY ZenonT(30) DEF Types
  <2> HIDE DEF pool
  <2>a. /\ conn' = [e \in Conns |-> conn'[e]]
        /\ \A e \in Conns : conn'[e] = IF pool[e].pc = "wait"
                                       THEN [pool[e] EXCEPT !.pc = "woken"] ELSE pool[e]
    BY ZenonT(30), <2>3, Woken
  <2>9. conn' = [e \in Conns |-> conn'[e]] /\ conn'[c] = r /\ Others(c)
    BY ZenonT(30), <2>a, <2>7, <2>8 DEF Others
  <2>10. QED
    BY ZenonT(30), <2>2, <2>6, <2>7, <2>9, OneThread
<1>15. ASSUME NEW u \in Uploaders, UploadLeave(u) PROVE Goal
  <2>1. Wake(conn, [up EXCEPT ![u] = Idle]) /\ inst' = inst
    BY ZenonT(30), <1>15 DEF UploadLeave, server
  <2>2. \A e \in Conns : conn'[e] \in Threads /\ ThreadOK(conn'[e])
    BY ZenonT(30), <1>a, <2>1, Woken, RecordTypes
  <2>3. \A e \in Conns : ThreadOK(conn[e])'
    BY ZenonT(30), <2>1, <2>2 DEF ThreadOK
  <2>4. QED
    BY ZenonT(30), <2>1, <2>2, <2>3, Woken DEF ThreadInv
<1>16. ASSUME NEW c \in Conns, Respond(c) PROVE Goal
  <2> DEFINE r == [Free EXCEPT !.pc = "closing", !.frame = conn[c].frame, !.size = conn[c].size]
  <2>1. conn' = [conn EXCEPT ![c] = r] /\ inst' = inst
    BY ZenonT(30), <1>16 DEF Respond, server
  <2>2. r \in Threads
    BY ZenonT(30), <1>a DEF Threads, Stages, Free, Ops, Kinds, Default
  <2>3. ThreadOK(r)
    BY ZenonT(30) DEF ThreadOK, Free
  <2> HIDE DEF r
  <2>4. QED
    BY ZenonT(30), <2>1, <2>2, <2>3, Moves, OneThread
<1>23. ASSUME NEW c \in Conns, Hydrate(c) PROVE Goal
  <2> DEFINE r == [conn[c] EXCEPT !.pc = "respond", !.read = 0]
  <2>1. conn' = [conn EXCEPT ![c] = r] /\ inst' = inst /\ conn[c].pc = "hydrate"
    BY ZenonT(30), <1>23 DEF Hydrate, server
  <2>2. r \in Threads
    BY ZenonT(30), <1>a DEF Threads, Stages
  <2>3. ThreadOK(r)
    BY ZenonT(30), <1>a, <2>1 DEF ThreadOK, Threads
  <2> HIDE DEF r
  <2>4. QED
    BY ZenonT(30), <2>1, <2>2, <2>3, Moves, OneThread
<1>17. CASE Restart
  <2>1. conn' = [c \in Conns |-> Free] /\ inst' = inst
    BY ZenonT(30), <1>17 DEF Restart
  <2>2. \A e \in Conns : ThreadOK(conn[e])'
    BY ZenonT(30), <2>1, RecordTypes DEF ThreadOK
  <2>3. QED
    BY ZenonT(30), <2>1, <2>2, RecordTypes DEF ThreadInv
<1>18. ASSUME UNCHANGED <<conn, inst>> PROVE Goal
  BY ZenonT(30), <1>18 DEF Types, ThreadInv, ThreadOK
<1>19. ASSUME NEW c \in Conns, Apply(c) \/ ApplyFails(c) PROVE Goal
  BY ZenonT(30), <1>8, <1>19 DEF Apply, ApplyFails, server
<1>20. ASSUME NEW u \in Uploaders, UploadTake(u) \/ UploadEnter(u) PROVE Goal
  BY ZenonT(30), <1>18, <1>20 DEF UploadTake, UploadEnter, server
<1>21. ASSUME NEW d \in Kinds, Expire(d) PROVE Goal
  BY ZenonT(30), <1>18, <1>21 DEF Expire, server
<1>24. ASSUME NEW k \in Keys, LocalGc(k) PROVE Goal
  BY ZenonT(30), <1>18, <1>24 DEF LocalGc, server
<1>22. QED
  BY ZenonT(30), <1>1, <1>2, <1>3, <1>4, <1>5, <1>6, <1>7, <1>9, <1>10, <1>11, <1>12, <1>13,
     <1>14, <1>15,
     <1>16, <1>17, <1>19, <1>20, <1>21, <1>23, <1>24 DEF Next, Serve, UploadStep

\* Every step keeps the types of the master's state and of the ghosts.
LEMMA TypesStep == Types /\ ThreadInv /\ Next => Types'
<1> SUFFICES ASSUME Types, ThreadInv, Next PROVE Types'
  BY ZenonT(30)
<1> USE DEF server, data, ghosts
<1>a. conn' \in [Conns -> Threads]
  BY ZenonT(30), ThreadStep
<1>b. /\ \A c \in Conns : conn[c] \in Threads /\ ThreadOK(conn[c])
      /\ inst.keys \subseteq Keys /\ inst.requests \in Nat /\ inst.limits \subseteq Nat
      /\ limit \in Int /\ requests \in Nat /\ faults \in Nat
  BY FrontAssumption DEF Types, ThreadInv
<1>c. ASSUME UNCHANGED <<inst, limit, up, clients, inflight, gate, data, cache, ghosts>> PROVE Types'
  BY ZenonT(30), <1>a, <1>c DEF Types
<1>1. ASSUME NEW c \in Conns, Send(c) PROVE Types'
  <2>1. want' \in [Keys -> Unknown..(inst.requests + 1)] /\ disturbed' \subseteq Keys
    <3>1. PICK op \in inst.ops, K \in SUBSET inst.keys :
            Known(op, K)
      BY ZenonT(30), <1>1 DEF Send
    <3>2. Unknown \in Unknown..(inst.requests + 1)
      BY <1>b DEF Unknown
    <3>3. UNION {conn[e].keys \cap K : e \in {e \in Conns : Running(e) /\ Mutates(e)}} \subseteq Keys
      BY ZenonT(30), <1>b
    <3>4. QED
      BY ZenonT(30), <3>1, <3>2, <3>3 DEF Types, Known
  <2>2. QED
    BY <1>1, <1>a, <1>b, <2>1 DEF Send, Types
<1>2. ASSUME NEW c \in Conns, ClientTimeout(c) PROVE Types'
  BY <1>2, <1>a, <1>b DEF ClientTimeout, Types
<1>3. ASSUME NEW c \in Conns, Accept(c) PROVE Types'
  BY <1>3, <1>a DEF Accept, Types
<1>4. ASSUME NEW c \in Conns,
             Refuse(c) \/ ReadFrameFails(c) \/ Reject(c) \/ ListHidden(c) \/ ListStore(c)
      PROVE  Types'
  BY ZenonT(30), <1>4, <1>c DEF Refuse, ReadFrameFails, Reject, ListHidden, ListStore
<1>5. ASSUME NEW c \in Conns, ReadFrame(c) PROVE Types'
  <2>1. inflight' \in Int
    BY <1>5, <1>b DEF ReadFrame, Threads, Types
  <2>2. QED
    BY ZenonT(30), <1>5, <1>a, <2>1 DEF ReadFrame, Types
<1>6. ASSUME NEW c \in Conns, Dispatch(c) PROVE Types'
  <2>1. cache' \in [Kinds -> Entries]
    BY ZenonT(30), <1>6, <1>b DEF Dispatch, Types, NoEntry, Entries, Threads
  <2>2. QED
    BY ZenonT(30), <1>6, <1>a, <2>1 DEF Dispatch, Types
<1>7. ASSUME NEW c \in Conns, NEW K \in SUBSET conn[c].keys, NEW ok \in BOOLEAN, Applied(c, K, ok),
             conn[c].pc = "lock"
      PROVE  /\ store' \in [Keys -> Nat] /\ hidden' \subseteq Keys
             /\ queue' \in [Keys -> Items] /\ revived' \subseteq Keys
  <2>1. conn[c].op \in {"put", "delete"} /\ conn[c].gen \in Nat /\ K \subseteq Keys
    BY ZenonT(30), <1>7, <1>b DEF ThreadOK, Threads
  <2>2. store' \in [Keys -> Nat]
    BY ZenonT(30), <1>7, <2>1 DEF Applied, Types
  <2>3. hidden' \subseteq Keys
    BY ZenonT(30), <1>7, <2>1 DEF Applied, HiddenAfter, Types
  <2>4. [op |-> conn[c].op, gen |-> conn[c].gen] \in Items
    BY ZenonT(30), <2>1 DEF Items
  <2>5. queue' \in [Keys -> Items]
    BY ZenonT(30), <1>7, <2>4 DEF Applied, Types
  <2>6. revived' \subseteq Keys
    BY ZenonT(30), <1>7 DEF Applied, Types
  <2>7. QED
    BY ZenonT(30), <2>2, <2>3, <2>5, <2>6
<1>8. ASSUME NEW c \in Conns, Apply(c) PROVE Types'
  BY ZenonT(30), <1>8, <1>7, <1>a DEF Apply, Types
<1>9. ASSUME NEW c \in Conns, ApplyFails(c) PROVE Types'
  <2>1. PICK K \in SUBSET conn[c].keys : Applied(c, K, FALSE)
    BY ZenonT(30), <1>9 DEF ApplyFails
  <2>2. /\ store' \in [Keys -> Nat] /\ hidden' \subseteq Keys
        /\ queue' \in [Keys -> Items] /\ revived' \subseteq Keys
    BY ZenonT(30), <1>9, <2>1, <1>7 DEF ApplyFails
  <2>3. QED
    BY <1>9, <2>2, <1>a, <1>b DEF ApplyFails, Types
<1>10. ASSUME NEW c \in Conns, UpdateCache(c) PROVE Types'
  <2>1. ASSUME NEW d \in Kinds PROVE EntryAfter(cache[d], d, conn[c].keys, conn[c].op) \in Entries
    <3>1. cache[d] \in Entries /\ conn[c].keys \subseteq Keys
      BY ZenonT(30), <1>b DEF Types, Threads
    <3>2. QED
      BY ZenonT(30), <3>1 DEF EntryAfter, NoEntry, Entries
  <2>2. QED
    BY ZenonT(30), <1>10, <1>a, <2>1 DEF UpdateCache, Types
<1>11. ASSUME NEW c \in Conns, ListDone(c) PROVE Types'
  <2>1. [keys |-> conn[c].found, late |-> conn[c].late, state |-> "fresh"] \in Entries
    BY ZenonT(30), <1>b DEF Entries, Threads
  <2>2. QED
    BY ZenonT(30), <1>11, <1>a, <2>1 DEF ListDone, Types
<1>12. ASSUME NEW d \in Kinds, Expire(d) PROVE Types'
  <2>1. cache' \in [Kinds -> Entries]
    BY <1>12 DEF Expire, Types, Entries
  <2>2. QED
    BY ZenonT(30), <1>12, <1>a, <2>1 DEF Expire, Types
<1>13. ASSUME NEW c \in Conns, Enter(c) PROVE Types'
  <2>1. gate' \in [active : Int, fg : Int]
    BY <1>13 DEF Enter, Types
  <2>2. QED
    BY ZenonT(30), <1>13, <1>a, <2>1 DEF Enter, Types
<1>14. ASSUME NEW c \in Conns, Leave(c) PROVE Types'
  <2>1. gate' \in [active : Int, fg : Int]
    BY <1>14 DEF Leave, Types
  <2>2. PICK ok \in BOOLEAN : Wake([conn EXCEPT ![c] = Answered(c, ok)], up)
    BY ZenonT(30), <1>14 DEF Leave
  <2>3. up' \in [Uploaders -> Uploads]
    BY ZenonT(30), <2>2, WokenUploads DEF Types
  <2>4. faults' \in Nat
    BY <1>14, <1>b DEF Leave
  <2>5. QED
    BY ZenonT(30), <1>14, <1>a, <2>1, <2>3, <2>4 DEF Leave, Types
<1>15. ASSUME NEW u \in Uploaders, UploadTake(u) PROVE Types'
  <2>1. up' \in [Uploaders -> Uploads]
    <3>1. PICK k \in Keys : up' = [up EXCEPT ![u] = [pc |-> "acquire", key |-> k, item |-> queue[k]]]
      BY ZenonT(30), <1>15 DEF UploadTake
    <3>2. [pc |-> "acquire", key |-> k, item |-> queue[k]] \in Uploads
      BY ZenonT(30) DEF Types, Uploads
    <3>3. QED
      BY ZenonT(30), <3>1, <3>2 DEF Types
  <2>2. QED
    BY ZenonT(30), <1>15, <1>a, <2>1 DEF UploadTake, Types
<1>16. ASSUME NEW u \in Uploaders, UploadEnter(u) PROVE Types'
  <2>1. up' \in [Uploaders -> Uploads]
    <3>1. PICK pc \in {"wait", "backend"} : up' = [up EXCEPT ![u].pc = pc]
      BY ZenonT(30), <1>16 DEF UploadEnter
    <3>2. [up[u] EXCEPT !.pc = pc] \in Uploads
      BY DEF Types, Uploads
    <3>3. QED
      BY ZenonT(30), <3>1, <3>2 DEF Types
  <2>2. gate' \in [active : Int, fg : Int]
    BY <1>16 DEF UploadEnter, Types
  <2>3. QED
    BY ZenonT(30), <1>16, <1>a, <2>1, <2>2 DEF UploadEnter, Types
<1>17. ASSUME NEW u \in Uploaders, UploadLeave(u) PROVE Types'
  <2>1. gate' \in [active : Int, fg : Int]
    BY <1>17 DEF UploadLeave, Types
  <2>2. up' \in [Uploaders -> Uploads]
    <3>1. Wake(conn, [up EXCEPT ![u] = Idle])
      BY ZenonT(30), <1>17 DEF UploadLeave
    <3>2. \A v \in Uploaders : [up EXCEPT ![u] = Idle][v] \in Uploads
      BY ZenonT(30), RecordTypes DEF Types
    <3>3. QED
      BY ZenonT(30), <3>1, <3>2, WokenUploads
  <2>3. back' \in [Keys -> Nat] /\ queue' \in [Keys -> Items] /\ faults' \in Nat /\ hidden' \subseteq Keys
    <3>1. up[u].key \in Keys /\ NoItem \in Items /\ up[u].item.gen \in Nat
      BY ZenonT(30) DEF Types, Uploads, NoItem, Items
    <3>2. QED
      BY <1>17, <1>b, <3>1 DEF UploadLeave, Types
  <2>4. QED
    BY ZenonT(30), <1>17, <1>a, <2>1, <2>2, <2>3 DEF UploadLeave, Types
<1>18. ASSUME NEW c \in Conns, Respond(c) PROVE Types'
  <2>1. caps' \in inst.limits \cup {0}
    BY ZenonT(30), <1>18 DEF Respond, Types
  <2>2. want' \in [Keys -> Unknown..(inst.requests + 1)]
    <3>1. Mutates(c) => conn[c].gen \in Unknown..(inst.requests + 1)
      BY <1>b DEF Mutates, ThreadOK, Threads, Unknown
    <3>2. 0 \in Unknown..(inst.requests + 1)
      BY <1>b DEF Unknown
    <3>3. QED
      BY ZenonT(30), <1>18, <3>1, <3>2 DEF Respond, Types
  <2>3. QED
    BY ZenonT(30), <1>18, <1>a, <2>1, <2>2 DEF Respond, Types
<1>19. ASSUME NEW c \in Conns, Close(c) PROVE Types'
  <2>1. inflight' \in Int /\ clients' \in Int
    BY <1>19, <1>b DEF Close, Returned, Types, Threads
  <2>2. QED
    BY ZenonT(30), <1>19, <1>a, <2>1 DEF Close, Types
<1>22. ASSUME NEW c \in Conns, Hydrate(c) PROVE Types'
  <2>1. conn[c].read \in Nat /\ conn[c].keys \subseteq Keys
    BY ZenonT(30), <1>b DEF Threads
  <2>2. store' \in [Keys -> Nat] /\ revived' \subseteq Keys
    BY ZenonT(30), <1>22, <2>1 DEF Hydrate, Types
  <2>3. QED
    BY ZenonT(30), <1>22, <1>a, <2>2 DEF Hydrate, Types
<1>23. ASSUME NEW k \in Keys, LocalGc(k) PROVE Types'
  <2>1. store' \in [Keys -> Nat] /\ hidden' \subseteq Keys
    BY <1>23 DEF LocalGc, Types
  <2>2. QED
    BY ZenonT(30), <1>23, <1>a, <2>1 DEF LocalGc, Types
<1>20. CASE Restart
  <2>1. up' \in [Uploaders -> Uploads] /\ gate' \in [active : Int, fg : Int]
    BY <1>20, RecordTypes DEF Restart
  <2>2. cache' \in [Kinds -> Entries]
    BY ZenonT(30), <1>20 DEF Restart, NoEntry, Entries
  <2>3. QED
    BY <1>20, <1>a, <1>b, <2>1, <2>2 DEF Restart, Types
<1>21. QED
  BY ZenonT(30), <1>1, <1>2, <1>3, <1>4, <1>5, <1>6, <1>8, <1>9, <1>10, <1>11, <1>12, <1>13,
     <1>14, <1>15,
     <1>16, <1>17, <1>18, <1>19, <1>20, <1>22, <1>23 DEF Next, Serve, UploadStep

-----------------------------------------------------------------------------
(* Permits *)

Busy == {c \in Conns : conn[c].pc \notin {"free", "sent"}}
Calling == {c \in Conns : conn[c].pc = "backend"}
Waiting == {c \in Conns : conn[c].pc \in {"wait", "woken"}}
UpCalling == {u \in Uploaders : up[u].pc = "backend"}

\* The counters are what the threads hold, within their limits.
PermitInv ==
  /\ clients = Cardinality(Busy) /\ clients <= MaxClients
  /\ IsFiniteSet(FrameBytes) /\ inflight = Cardinality(FrameBytes) /\ inflight <= limit
  /\ gate.active = Cardinality(Calling) + Cardinality(UpCalling) /\ gate.active <= Concurrency
  /\ gate.fg = Cardinality(Waiting)

\* A thread as the counters see it: it stays, or is woken.
Kept(e) ==
  /\ conn'[e].frame = conn[e].frame /\ conn'[e].size = conn[e].size
  /\ conn'[e].pc = conn[e].pc \/ (conn[e].pc = "wait" /\ conn'[e].pc = "woken")
UpKept(u) == up'[u].pc = up[u].pc \/ (up[u].pc = "wait" /\ up'[u].pc = "woken")

One(b) == IF b THEN 1 ELSE 0

\* The sets that are counted are finite.
LEMMA CountedSets ==
  /\ \A S \in SUBSET Conns : IsFiniteSet(S) /\ Cardinality(S) \in Nat
                             /\ Cardinality(S) <= Cardinality(Conns)
  /\ \A S \in SUBSET Uploaders : IsFiniteSet(S) /\ Cardinality(S) \in Nat
  /\ Busy \subseteq Conns /\ Calling \subseteq Conns /\ Waiting \subseteq Conns
  /\ UpCalling \subseteq Uploaders
BY ZenonT(30), FrontAssumption, FS_Subset, FS_CardinalityType DEF Busy, Calling, Waiting, UpCalling

\* A set of threads of which one comes or goes.
LEMMA CountOne ==
  ASSUME NEW S, IsFiniteSet(S), NEW T, NEW x, \A e : e # x => (e \in T <=> e \in S)
  PROVE  Cardinality(T) = Cardinality(S) + One(x \in T) - One(x \in S)
<1>1. Cardinality(S) \in Nat
  BY ZenonT(30), FS_CardinalityType
<1>2. CASE x \in T
  <2>1. T = S \cup {x}
    BY ZenonT(30), <1>2
  <2>2. QED
    BY <1>1, <1>2, <2>1, FS_AddElement DEF One
<1>3. CASE x \notin T
  <2>1. T = S \ {x}
    BY ZenonT(30), <1>3
  <2>2. QED
    BY <1>1, <1>3, <2>1, FS_RemoveElement DEF One
<1>4. QED
  BY ZenonT(30), <1>2, <1>3

\* What one thread's step does to the counts.
LEMMA CountThread ==
  ASSUME NEW c \in Conns, \A e \in Conns \ {c} : Kept(e)
  PROVE  /\ Cardinality(Busy') = Cardinality(Busy) + One(conn'[c].pc \notin {"free", "sent"})
                                 - One(conn[c].pc \notin {"free", "sent"})
         /\ Cardinality(Calling') = Cardinality(Calling) + One(conn'[c].pc = "backend")
                                    - One(conn[c].pc = "backend")
         /\ Cardinality(Waiting') = Cardinality(Waiting) + One(conn'[c].pc \in {"wait", "woken"})
                                    - One(conn[c].pc \in {"wait", "woken"})
<1>1. IsFiniteSet(Busy) /\ IsFiniteSet(Calling) /\ IsFiniteSet(Waiting)
  BY ZenonT(30), CountedSets
<1>2. \A e : e # c => (e \in Busy' <=> e \in Busy)
  BY ZenonT(30) DEF Busy, Kept
<1>3. \A e : e # c => (e \in Calling' <=> e \in Calling)
  BY ZenonT(30) DEF Calling, Kept
<1>4. \A e : e # c => (e \in Waiting' <=> e \in Waiting)
  BY ZenonT(30) DEF Waiting, Kept
<1>5. /\ c \in Busy' <=> conn'[c].pc \notin {"free", "sent"}
      /\ c \in Busy <=> conn[c].pc \notin {"free", "sent"}
      /\ c \in Calling' <=> conn'[c].pc = "backend"
      /\ c \in Calling <=> conn[c].pc = "backend"
      /\ c \in Waiting' <=> conn'[c].pc \in {"wait", "woken"}
      /\ c \in Waiting <=> conn[c].pc \in {"wait", "woken"}
  BY ZenonT(30) DEF Busy, Calling, Waiting
<1>6. Cardinality(Busy') = Cardinality(Busy) + One(c \in Busy') - One(c \in Busy)
  BY ZenonT(30), <1>1, <1>2, CountOne
<1>7. Cardinality(Calling') = Cardinality(Calling) + One(c \in Calling') - One(c \in Calling)
  BY ZenonT(30), <1>1, <1>3, CountOne
<1>8. Cardinality(Waiting') = Cardinality(Waiting) + One(c \in Waiting') - One(c \in Waiting)
  BY ZenonT(30), <1>1, <1>4, CountOne
<1>9. QED
  BY ZenonT(30), <1>5, <1>6, <1>7, <1>8 DEF One

\* What one upload thread's step does to the count.
LEMMA CountUpload ==
  ASSUME NEW u \in Uploaders, \A v \in Uploaders \ {u} : UpKept(v)
  PROVE  Cardinality(UpCalling') = Cardinality(UpCalling) + One(up'[u].pc = "backend")
                                   - One(up[u].pc = "backend")
<1>1. IsFiniteSet(UpCalling)
  BY ZenonT(30), CountedSets
<1>2. \A v : v # u => (v \in UpCalling' <=> v \in UpCalling)
  BY ZenonT(30) DEF UpCalling, UpKept
<1>3. Cardinality(UpCalling') = Cardinality(UpCalling) + One(u \in UpCalling') - One(u \in UpCalling)
  BY ZenonT(30), <1>1, <1>2, CountOne
<1>4. (u \in UpCalling' <=> up'[u].pc = "backend") /\ (u \in UpCalling <=> up[u].pc = "backend")
  BY ZenonT(30) DEF UpCalling
<1>5. QED
  BY ZenonT(30), <1>3, <1>4 DEF One

\* The same sets when no thread changes its place, except for being woken.
LEMMA CountKept ==
  /\ (\A e \in Conns : Kept(e)) => Busy' = Busy /\ Calling' = Calling /\ Waiting' = Waiting
  /\ (\A u \in Uploaders : UpKept(u)) => UpCalling' = UpCalling
BY ZenonT(30) DEF Kept, UpKept, Busy, Calling, Waiting, UpCalling

\* A frame of n bytes has n of them.
LEMMA FrameSize ==
  ASSUME NEW c, NEW n \in Nat
  PROVE  IsFiniteSet({c} \X (1..n)) /\ Cardinality({c} \X (1..n)) = n
<1>1. IsFiniteSet({c}) /\ Cardinality({c}) = 1
  BY ZenonT(30), FS_Singleton
<1>2. IsFiniteSet(1..n) /\ Cardinality(1..n) = n
  BY FS_Interval
<1>3. /\ IsFiniteSet({c} \X (1..n))
      /\ Cardinality({c} \X (1..n)) = Cardinality({c}) * Cardinality(1..n)
  BY ZenonT(30), <1>1, <1>2, FS_Product
<1>4. QED
  BY <1>1, <1>2, <1>3

\* Without a change of frames the bytes in flight are the same.
LEMMA FramesKept ==
  ASSUME \A e \in Conns : Kept(e) \/ (conn'[e].frame = conn[e].frame /\ conn'[e].size = conn[e].size)
  PROVE  FrameBytes' = FrameBytes
<1>1. \A e \in Conns : conn'[e].frame = conn[e].frame /\ conn'[e].size = conn[e].size
  BY ZenonT(30) DEF Kept
<1>2. {e \in Conns : conn'[e].frame} = {e \in Conns : conn[e].frame}
  BY ZenonT(30), <1>1
<1>3. QED
  BY ZenonT(30), <1>1, <1>2 DEF FrameBytes

\* A thread without a frame changes nothing in them, whatever its size.
LEMMA FramesApart ==
  ASSUME NEW c \in Conns, \A e \in Conns \ {c} : Kept(e), ~conn[c].frame, ~conn'[c].frame
  PROVE  FrameBytes' = FrameBytes
<1>1. {e \in Conns : conn'[e].frame} = {e \in Conns : conn[e].frame}
  BY ZenonT(30) DEF Kept
<1>2. \A e \in {a \in Conns : conn[a].frame} : conn'[e].size = conn[e].size
  BY ZenonT(30) DEF Kept
<1>3. QED
  BY ZenonT(30), <1>1, <1>2 DEF FrameBytes

\* try_reserve: a frame that is read adds its bytes.
LEMMA FrameRead ==
  ASSUME NEW c \in Conns, \A e \in Conns \ {c} : Kept(e), IsFiniteSet(FrameBytes),
         ~conn[c].frame, conn'[c].frame, conn[c].size \in Nat, conn'[c].size = conn[c].size
  PROVE  IsFiniteSet(FrameBytes') /\ Cardinality(FrameBytes') = Cardinality(FrameBytes) + conn[c].size
<1> DEFINE F == {c} \X (1..conn[c].size)
<1>1. FrameBytes' = FrameBytes \cup F
  BY DEF FrameBytes, Kept
<1>2. FrameBytes \cap F = {}
  BY DEF FrameBytes
<1>3. IsFiniteSet(F) /\ Cardinality(F) = conn[c].size
  BY ZenonT(30), FrameSize
<1>4. Cardinality(FrameBytes) \in Nat
  BY ZenonT(30), FS_CardinalityType
<1> HIDE DEF F
<1>5. /\ IsFiniteSet(FrameBytes \cup F)
      /\ Cardinality(FrameBytes \cup F) = Cardinality(FrameBytes) + Cardinality(F) - Cardinality({})
  BY <1>2, <1>3, FS_Union
<1>6. QED
  BY <1>1, <1>3, <1>4, <1>5, FS_EmptySet

\* FrameBudgetPermit::drop: a frame that is dropped gives them back.
LEMMA FrameDropped ==
  ASSUME NEW c \in Conns, \A e \in Conns \ {c} : Kept(e), IsFiniteSet(FrameBytes),
         conn[c].frame, ~conn'[c].frame, conn[c].size \in Nat
  PROVE  IsFiniteSet(FrameBytes') /\ Cardinality(FrameBytes') = Cardinality(FrameBytes) - conn[c].size
<1> DEFINE F == {c} \X (1..conn[c].size)
<1>1. FrameBytes = FrameBytes' \cup F
  BY DEF FrameBytes, Kept
<1>2. FrameBytes' \cap F = {}
  BY DEF FrameBytes
<1>3. IsFiniteSet(F) /\ Cardinality(F) = conn[c].size
  BY ZenonT(30), FrameSize
<1>4. IsFiniteSet(FrameBytes')
  BY <1>1, FS_Subset
<1>5. Cardinality(FrameBytes') \in Nat
  BY ZenonT(30), <1>4, FS_CardinalityType
<1> HIDE DEF F
<1>6. Cardinality(FrameBytes) = Cardinality(FrameBytes') + Cardinality(F) - Cardinality({})
  BY <1>1, <1>2, <1>3, <1>4, FS_Union
<1>7. QED
  BY <1>3, <1>4, <1>5, <1>6, FS_EmptySet

\* Threads and uploads that stay or are woken are kept.
LEMMA OthersKept ==
  ASSUME Types, NEW c \in Conns, Others(c)
  PROVE  \A e \in Conns \ {c} : Kept(e)
<1> SUFFICES ASSUME NEW e \in Conns \ {c} PROVE Kept(e)
  BY ZenonT(30)
<1>1. CASE conn'[e] = conn[e]
  BY ZenonT(30), <1>1 DEF Kept
<1>2. CASE conn[e].pc = "wait" /\ conn'[e] = [conn[e] EXCEPT !.pc = "woken"]
  <2>1. conn[e] \in Threads
    BY ZenonT(30) DEF Types
  <2>2. QED
    BY ZenonT(30), <1>2, <2>1 DEF Kept, Threads
<1>3. QED
  BY ZenonT(30), <1>1, <1>2 DEF Others

\* Who holds what
SameHolding(p, q) ==
  /\ p \in {"free", "sent"} <=> q \in {"free", "sent"}
  /\ p = "backend" <=> q = "backend"
  /\ p \in {"wait", "woken"} <=> q \in {"wait", "woken"}

\* A step of a thread that takes and gives back nothing.
LEMMA PermitsIdle ==
  ASSUME PermitInv, NEW c \in Conns, \A e \in Conns \ {c} : Kept(e),
         SameHolding(conn'[c].pc, conn[c].pc),
         conn'[c].frame <=> conn[c].frame, conn[c].frame => conn'[c].size = conn[c].size,
         UNCHANGED <<clients, inflight, limit, gate, up>>
  PROVE  PermitInv'
<1>1. Busy' = Busy /\ Calling' = Calling /\ Waiting' = Waiting
  BY DEF Busy, Calling, Waiting, Kept, SameHolding
<1>2. UpCalling' = UpCalling
  BY ZenonT(30) DEF UpCalling
<1>3. FrameBytes' = FrameBytes
  BY DEF FrameBytes, Kept
<1>4. QED
  BY ZenonT(30), <1>1, <1>2, <1>3 DEF PermitInv

\* Every step keeps the counters exact: each permit taken is counted and given
\* back once, on every path.
LEMMA PermitStep == Types /\ ThreadInv /\ PermitInv /\ Next => PermitInv'
<1> SUFFICES ASSUME Types, ThreadInv, PermitInv, Next PROVE PermitInv'
  BY ZenonT(30)
<1> USE DEF server, data, ghosts
<1>a. \A c \in Conns : conn[c] \in Threads /\ ThreadOK(conn[c])
  BY ZenonT(30) DEF Types, ThreadInv
<1>b. /\ MaxClients \in Nat /\ Concurrency \in Nat /\ limit \in Nat
      /\ clients \in Int /\ inflight \in Int /\ gate \in [active : Int, fg : Int]
  BY ZenonT(30), FrontAssumption DEF Types
<1>c. /\ Cardinality(Busy) \in Nat /\ Cardinality(Calling) \in Nat /\ Cardinality(Waiting) \in Nat
      /\ Cardinality(UpCalling) \in Nat
  BY ZenonT(30), CountedSets
<1>1. ASSUME NEW c \in Conns, Send(c) PROVE PermitInv'
  <2>1. PICK op \in inst.ops, K \in SUBSET inst.keys, d \in inst.kinds \cup {Default}, size \in inst.sizes :
          conn' = [conn EXCEPT ![c] = Request(op, K, d, size)]
    BY ZenonT(30), <1>1 DEF Send
  <2>a. Request(op, K, d, size).pc = "sent" /\ ~Request(op, K, d, size).frame
    BY ZenonT(30) DEF Request
  <2>2. conn[c].pc = "free" /\ ~conn[c].frame
    BY ZenonT(30), <1>1, <1>a DEF Send, Running, ThreadOK
  <2>3. /\ \A e \in Conns \ {c} : Kept(e)
        /\ conn'[c].pc = "sent" /\ ~conn'[c].frame
    BY ZenonT(30), <2>1, <2>a DEF Kept, Types
  <2>4. SameHolding(conn'[c].pc, conn[c].pc) /\ (conn'[c].frame <=> conn[c].frame)
    BY ZenonT(30), <2>2, <2>3 DEF SameHolding
  <2>5. QED
    BY ZenonT(30), <1>1, <2>2, <2>3, <2>4, PermitsIdle DEF Send
<1>2. ASSUME NEW c \in Conns, ClientTimeout(c) PROVE PermitInv'
  <2>1. Kept(c) /\ \A e \in Conns \ {c} : Kept(e)
    BY <1>2, <1>a DEF ClientTimeout, Kept, Types, Threads
  <2>2. conn'[c].pc = conn[c].pc
    BY ZenonT(30), <1>2, <1>a DEF ClientTimeout, Types, Threads
  <2>3. QED
    BY <1>2, <2>1, <2>2, PermitsIdle DEF ClientTimeout, Kept, SameHolding
<1>3. ASSUME NEW c \in Conns, Accept(c) PROVE PermitInv'
  <2>1. /\ \A e \in Conns \ {c} : Kept(e)
        /\ conn'[c].pc = "admitted" /\ conn[c].pc = "sent"
        /\ conn'[c].frame = conn[c].frame /\ conn'[c].size = conn[c].size
    BY ZenonT(30), <1>3, Gone, OthersKept DEF Accept, Stages
  <2>2. FrameBytes' = FrameBytes
    BY ZenonT(30), <2>1, FramesKept
  <2>3. UpCalling' = UpCalling
    BY ZenonT(30), <1>3 DEF Accept, UpCalling
  <2>4. /\ Cardinality(Busy') = Cardinality(Busy) + 1 /\ Cardinality(Calling') = Cardinality(Calling)
        /\ Cardinality(Waiting') = Cardinality(Waiting)
    BY SMTT(20), <1>c, <2>1, CountThread DEF One
  <2>5. QED
    BY SMTT(20), <1>3, <1>b, <1>c, <2>2, <2>3, <2>4 DEF Accept, PermitInv
<1>4. ASSUME NEW c \in Conns, Refuse(c) PROVE PermitInv'
  <2>1. \A e \in Conns \ {c} : Kept(e)
    BY ZenonT(30), <1>4 DEF Refuse, Types, Kept
  <2>2. conn[c].pc = "sent" /\ ~conn[c].frame /\ conn'[c] = Free
    BY ZenonT(30), <1>4, <1>a DEF Refuse, Types, ThreadOK
  <2>3. SameHolding(conn'[c].pc, conn[c].pc) /\ (conn'[c].frame <=> conn[c].frame)
    BY SMTT(20), <2>2, <1>a DEF Free, SameHolding, Threads
  <2>4. QED
    BY ZenonT(30), <1>4, <2>1, <2>2, <2>3, PermitsIdle DEF Refuse
<1>5. ASSUME NEW c \in Conns, ReadFrame(c) PROVE PermitInv'
  <2>1. conn' = [conn EXCEPT ![c] = [conn[c] EXCEPT !.pc = "framed", !.frame = TRUE]]
    BY ZenonT(30), <1>5 DEF ReadFrame
  <2>2. \A e \in Conns \ {c} : Kept(e)
    BY ZenonT(30), <2>1 DEF Kept, Types
  <2>3. /\ conn[c].pc = "admitted" /\ ~conn[c].frame /\ conn[c].size \in Nat
        /\ conn'[c].pc = "framed" /\ conn'[c].frame /\ conn'[c].size = conn[c].size
    BY <1>5, <1>a, <2>1 DEF ReadFrame, Types, ThreadOK, Threads
  <2>4. IsFiniteSet(FrameBytes') /\ Cardinality(FrameBytes') = Cardinality(FrameBytes) + conn[c].size
    BY ZenonT(30), <2>2, <2>3, FrameRead DEF PermitInv
  <2>5. UpCalling' = UpCalling
    BY ZenonT(30), <1>5 DEF ReadFrame, UpCalling
  <2>6. /\ Cardinality(Busy') = Cardinality(Busy) /\ Cardinality(Calling') = Cardinality(Calling)
        /\ Cardinality(Waiting') = Cardinality(Waiting)
    BY <1>c, <2>2, <2>3, CountThread DEF One
  <2>7. inflight' = inflight + conn[c].size /\ inflight + conn[c].size <= limit
        /\ UNCHANGED <<clients, limit, gate>>
    BY ZenonT(30), <1>5 DEF ReadFrame, Fits
  <2>8. QED
    BY ZenonT(30), <1>b, <1>c, <2>4, <2>5, <2>6, <2>7 DEF PermitInv
<1>6. ASSUME NEW c \in Conns, ReadFrameFails(c) \/ Reject(c) PROVE PermitInv'
  <2>1. Goto(c, "respond") /\ conn[c].pc \in {"admitted", "framed"}
        /\ UNCHANGED <<clients, inflight, limit, gate, up>>
    BY ZenonT(30), <1>6 DEF ReadFrameFails, Reject
  <2>2. /\ \A e \in Conns \ {c} : Kept(e)
        /\ conn'[c].pc = "respond" /\ conn'[c].frame = conn[c].frame /\ conn'[c].size = conn[c].size
    BY ZenonT(30), <2>1, Gone, OthersKept DEF Stages
  <2>3. QED
    BY ZenonT(30), <2>1, <2>2, PermitsIdle DEF SameHolding
<1>7. ASSUME NEW c \in Conns, Dispatch(c) PROVE PermitInv'
  <2>1. conn' = [conn EXCEPT ![c].pc = Route(c),
                   ![c].ok = conn[c].op \in {"capabilities", "get"} \/ Cached(c)]
    BY ZenonT(30), <1>7 DEF Dispatch
  <2>2. Route(c) \in {"respond", "lock", "acquire", "listing"} /\ conn[c].pc = "framed"
    BY ZenonT(30), <1>7, <1>a DEF Dispatch, Route, Threads, Ops
  <2>3. /\ \A e \in Conns \ {c} : Kept(e)
        /\ conn'[c].pc = Route(c) /\ conn'[c].frame = conn[c].frame /\ conn'[c].size = conn[c].size
    BY <1>a, <2>1 DEF Kept, Types, Threads
  <2>4. UNCHANGED <<clients, inflight, limit, gate, up>>
    BY ZenonT(30), <1>7 DEF Dispatch
  <2>5. SameHolding(conn'[c].pc, conn[c].pc)
    BY ZenonT(30), <2>2, <2>3 DEF SameHolding
  <2>6. QED
    BY ZenonT(30), <2>3, <2>4, <2>5, PermitsIdle
<1>8. ASSUME NEW c \in Conns, NEW K, NEW ok \in BOOLEAN, Applied(c, K, ok), conn[c].pc = "lock",
             UNCHANGED <<clients, inflight, limit, gate, up>>
      PROVE  PermitInv'
  <2>1. PICK pc \in {"uncached", "respond"} :
          conn' = [conn EXCEPT ![c] = [conn[c] EXCEPT !.pc = pc, !.ok = ok]]
    BY ZenonT(30), <1>8 DEF Applied
  <2>2. /\ \A e \in Conns \ {c} : Kept(e)
        /\ conn'[c].pc = pc /\ conn'[c].frame = conn[c].frame /\ conn'[c].size = conn[c].size
    BY <1>a, <2>1 DEF Kept, Types, Threads
  <2>3. QED
    BY ZenonT(30), <1>8, <2>2, PermitsIdle DEF SameHolding
<1>9. ASSUME NEW c \in Conns, UpdateCache(c) PROVE PermitInv'
  <2>1. /\ \A e \in Conns \ {c} : Kept(e) /\ conn[c].pc = "uncached"
        /\ conn'[c].pc = "respond" /\ conn'[c].frame = conn[c].frame /\ conn'[c].size = conn[c].size
    BY <1>9, <1>a DEF UpdateCache, Kept, Types, Threads
  <2>2. QED
    BY <1>9, <2>1, PermitsIdle DEF UpdateCache, SameHolding
<1>10. ASSUME NEW c \in Conns, ListHidden(c) \/ ListStore(c) \/ ListDone(c) PROVE PermitInv'
  <2>1. UNCHANGED <<clients, inflight, limit, gate, up>>
    BY ZenonT(30), <1>10 DEF ListHidden, ListStore, ListDone
  <2>2. \A e \in Conns \ {c} : Kept(e)
    BY <1>10 DEF ListHidden, ListStore, ListDone, Kept, Types
  <2>3. /\ conn[c].pc \in {"listing", "liststore", "listed"}
        /\ conn'[c].pc \in {"acquire", "liststore", "listed", "respond"}
        /\ conn'[c].frame = conn[c].frame /\ conn'[c].size = conn[c].size
    BY <1>10, <1>a DEF ListHidden, ListStore, ListDone, Types, Threads
  <2>4. QED
    BY ZenonT(30), <2>1, <2>2, <2>3, PermitsIdle DEF SameHolding
<1>11. ASSUME NEW c \in Conns, Enter(c) PROVE PermitInv'
  <2>1. conn[c].pc \in {"acquire", "woken"} /\ UNCHANGED <<clients, inflight, limit, up>>
    BY ZenonT(30), <1>11 DEF Enter
  <2>2. PICK pc \in {"wait", "backend"} : Goto(c, pc)
    BY ZenonT(30), <1>11 DEF Enter
  <2>3. /\ \A e \in Conns \ {c} : Kept(e)
        /\ conn'[c].pc = pc /\ conn'[c].frame = conn[c].frame /\ conn'[c].size = conn[c].size
    BY ZenonT(30), <2>2, Gone, OthersKept DEF Stages
  <2>4. FrameBytes' = FrameBytes
    BY ZenonT(30), <2>3, FramesKept
  <2>5. UpCalling' = UpCalling
    BY ZenonT(30), <2>1 DEF UpCalling
  <2>6. /\ Cardinality(Busy') = Cardinality(Busy)
        /\ Cardinality(Calling') = Cardinality(Calling) + One(pc = "backend")
        /\ Cardinality(Waiting') = Cardinality(Waiting) + One(pc = "wait") - One(conn[c].pc = "woken")
    BY <1>c, <2>1, <2>3, CountThread DEF One
  <2>7. /\ gate'.active = gate.active + One(pc = "backend") /\ gate'.active <= Concurrency
        /\ gate'.fg = gate.fg + One(conn[c].pc = "acquire") - One(pc = "backend")
    <3>1. gate.active <= Concurrency
      BY ZenonT(30) DEF PermitInv
    <3>2. CASE gate.active >= Concurrency
      <4>1. conn'[c].pc = "wait"
        BY ZenonT(30), <1>11, <1>a, <3>2, Gone DEF Enter, Stages
      <4>2. QED
        BY <1>11, <1>b, <2>1, <2>3, <3>1, <3>2, <4>1 DEF Enter, One
    <3>3. CASE ~(gate.active >= Concurrency)
      <4>1. conn'[c].pc = "backend"
        BY ZenonT(30), <1>11, <1>a, <3>3, Gone DEF Enter, Stages
      <4>2. QED
        BY <1>11, <1>b, <2>1, <2>3, <3>1, <3>3, <4>1 DEF Enter, One
    <3>4. QED
      BY ZenonT(30), <3>2, <3>3
  <2>8. QED
    BY <1>b, <1>c, <2>1, <2>4, <2>5, <2>6, <2>7 DEF PermitInv, One
<1>12. ASSUME NEW c \in Conns, Leave(c) PROVE PermitInv'
  <2>1. PICK ok \in BOOLEAN : Wake([conn EXCEPT ![c] = Answered(c, ok)], up)
    BY ZenonT(30), <1>12 DEF Leave
  <2> DEFINE r == Answered(c, ok)
             pool == [conn EXCEPT ![c] = r]
             pc == r.pc
  <2>2. /\ r.pc \in {"respond", "hydrate", "liststore", "listed"}
        /\ r.frame = conn[c].frame /\ r.size = conn[c].size
    BY ZenonT(30), <1>12, <1>a, AnsweredThread DEF Leave, Types
  <2>3. pool[c] = r /\ \A e \in Conns \ {c} : pool[e] = conn[e]
    BY ZenonT(30) DEF Types
  <2>4. Wake(pool, up)
    BY ZenonT(30), <2>1
  <2> HIDE DEF r, pool
  <2>5. conn'[c] = r /\ Others(c) /\ \A u \in Uploaders : UpKept(u)
    <3>1. /\ \A e \in Conns : conn'[e] = IF pool[e].pc = "wait"
                                         THEN [pool[e] EXCEPT !.pc = "woken"] ELSE pool[e]
          /\ \A u \in Uploaders : up'[u] = IF up[u].pc = "wait"
                                           THEN [up[u] EXCEPT !.pc = "woken"] ELSE up[u]
      BY <2>4, Woken
    <3>2. conn'[c] = r /\ Others(c)
      BY ZenonT(30), <2>2, <2>3, <3>1 DEF Others
    <3>3. \A u \in Uploaders : UpKept(u)
      BY ZenonT(30), <3>1 DEF UpKept, Types, Uploads
    <3>4. QED
      BY ZenonT(30), <3>2, <3>3
  <2>6. \A e \in Conns \ {c} : Kept(e)
    BY ZenonT(30), <2>5, OthersKept
  <2>7. FrameBytes' = FrameBytes
    BY ZenonT(30), <2>2, <2>5, <2>6, FramesKept
  <2>8. UpCalling' = UpCalling
    BY ZenonT(30), <2>5, CountKept
  <2>9. conn[c].pc = "backend"
    BY ZenonT(30), <1>12 DEF Leave
  <2>10. /\ Cardinality(Busy') = Cardinality(Busy) /\ Cardinality(Calling') = Cardinality(Calling) - 1
         /\ Cardinality(Waiting') = Cardinality(Waiting)
    BY <1>c, <2>2, <2>5, <2>6, <2>9, CountThread DEF One
  <2>11. gate'.active = gate.active - 1 /\ gate'.fg = gate.fg /\ UNCHANGED <<clients, inflight, limit>>
    BY ZenonT(30), <1>12, <1>b DEF Leave
  <2>12. QED
    BY <1>b, <1>c, <2>7, <2>8, <2>10, <2>11 DEF PermitInv
<1>13. ASSUME NEW u \in Uploaders, UploadTake(u) PROVE PermitInv'
  <2>1. UpCalling' = UpCalling
    BY <1>13 DEF UploadTake, UpCalling, Types
  <2>2. UNCHANGED <<Busy, Calling, Waiting, FrameBytes>>
    BY <1>13 DEF UploadTake, Busy, Calling, Waiting, FrameBytes
  <2>3. QED
    BY ZenonT(30), <1>13, <2>1, <2>2 DEF UploadTake, PermitInv
<1>14. ASSUME NEW u \in Uploaders, UploadEnter(u) PROVE PermitInv'
  <2>1. UNCHANGED <<Busy, Calling, Waiting, FrameBytes>>
    BY ZenonT(30), <1>14 DEF UploadEnter, Busy, Calling, Waiting, FrameBytes
  <2>2. /\ up[u].pc \in {"acquire", "woken"} /\ UNCHANGED <<clients, inflight, limit>>
        /\ \A v \in Uploaders \ {u} : UpKept(v)
    BY ZenonT(30), <1>14 DEF UploadEnter, UpKept, Types
  <2>3. Cardinality(UpCalling') = Cardinality(UpCalling) + One(up'[u].pc = "backend")
    BY <1>c, <2>2, CountUpload DEF One
  <2>4. CASE BackgroundWaits
    <3>1. up'[u].pc = "wait" /\ gate' = gate
      BY <1>14, <2>4 DEF UploadEnter, Types, Uploads
    <3>2. QED
      BY <1>c, <2>1, <2>2, <2>3, <3>1 DEF PermitInv, One
  <2>5. CASE ~BackgroundWaits
    <3>1. up'[u].pc = "backend" /\ gate'.active = gate.active + 1 /\ gate'.fg = gate.fg
      BY <1>14, <1>b, <2>5 DEF UploadEnter, Types, Uploads
    <3>2. gate.active < Concurrency
      BY <1>b, <2>5 DEF BackgroundWaits
    <3>3. QED
      BY <1>b, <1>c, <2>1, <2>2, <2>3, <3>1, <3>2 DEF PermitInv, One
  <2>6. QED
    BY ZenonT(30), <2>4, <2>5
<1>15. ASSUME NEW u \in Uploaders, UploadLeave(u) PROVE PermitInv'
  <2>1. Wake(conn, [up EXCEPT ![u] = Idle]) /\ up[u].pc = "backend"
    BY ZenonT(30), <1>15 DEF UploadLeave
  <2>a. /\ \A e \in Conns : conn'[e] = IF conn[e].pc = "wait"
                                       THEN [conn[e] EXCEPT !.pc = "woken"] ELSE conn[e]
    BY ZenonT(30), <2>1, Woken
  <2>2. \A e \in Conns : Kept(e)
    BY ZenonT(30), <2>a, <1>a DEF Kept, Threads
  <2> DEFINE ups == [up EXCEPT ![u] = Idle]
  <2>3. ups[u] = Idle /\ \A v \in Uploaders \ {u} : ups[v] = up[v]
    BY ZenonT(30) DEF Types
  <2>4. Wake(conn, ups)
    BY ZenonT(30), <2>1
  <2> HIDE DEF ups
  <2>b. \A v \in Uploaders : up'[v] = IF ups[v].pc = "wait"
                                     THEN [ups[v] EXCEPT !.pc = "woken"] ELSE ups[v]
    BY <2>4, Woken
  <2>5. up'[u] = Idle /\ \A v \in Uploaders \ {u} : UpKept(v)
    <3>a. Idle.pc = "idle"
      BY ZenonT(30) DEF Idle
    <3>1. up'[u] = Idle
      BY ZenonT(30), <2>3, <2>b, <3>a
    <3>2. ASSUME NEW v \in Uploaders \ {u} PROVE UpKept(v)
      <4>1. up[v] \in Uploads /\ ups[v] = up[v]
        BY ZenonT(30), <2>3 DEF Types
      <4>2. QED
        BY ZenonT(30), <2>b, <4>1 DEF UpKept, Uploads
    <3>3. QED
      BY ZenonT(30), <3>1, <3>2
  <2>6. Cardinality(UpCalling') = Cardinality(UpCalling) - 1
    BY <1>c, <2>1, <2>5, CountUpload DEF One, Idle
  <2>7. UNCHANGED <<Busy, Calling, Waiting>>
    BY ZenonT(30), <2>2, CountKept
  <2>8. FrameBytes' = FrameBytes
    BY ZenonT(30), <2>2, FramesKept
  <2>9. gate'.active = gate.active - 1 /\ gate'.fg = gate.fg /\ UNCHANGED <<clients, inflight, limit>>
    BY ZenonT(30), <1>15, <1>b DEF UploadLeave
  <2>10. QED
    BY <1>b, <1>c, <2>6, <2>7, <2>8, <2>9 DEF PermitInv
<1>16. ASSUME NEW c \in Conns, Respond(c) PROVE PermitInv'
  <2>1. conn' = [conn EXCEPT ![c] = [Free EXCEPT !.pc = "closing", !.frame = conn[c].frame,
                                                  !.size = conn[c].size]]
    BY ZenonT(30), <1>16 DEF Respond
  <2>2. /\ \A e \in Conns \ {c} : Kept(e)
        /\ conn'[c].pc = "closing" /\ conn'[c].frame = conn[c].frame /\ conn'[c].size = conn[c].size
    BY ZenonT(30), <2>1 DEF Kept, Types, Free
  <2>3. conn[c].pc = "respond"
    BY ZenonT(30), <1>16 DEF Respond
  <2>4. QED
    BY ZenonT(30), <1>16, <2>2, <2>3, PermitsIdle DEF Respond, SameHolding
<1>17. ASSUME NEW c \in Conns, Close(c) PROVE PermitInv'
  <2>1. \A e \in Conns \ {c} : Kept(e)
    BY ZenonT(30), <1>17 DEF Close, Types, Kept
  <2>2. conn[c].pc = "closing" /\ conn'[c] = Free /\ conn[c].frame \in BOOLEAN /\ conn[c].size \in Nat
    BY ZenonT(30), <1>17, <1>a DEF Close, Types, Threads
  <2>3. /\ Cardinality(Busy') = Cardinality(Busy) - 1 /\ Cardinality(Calling') = Cardinality(Calling)
        /\ Cardinality(Waiting') = Cardinality(Waiting)
    BY SMTT(20), <1>c, <2>1, <2>2, CountThread DEF One, Free
  <2>4. IsFiniteSet(FrameBytes') /\ Cardinality(FrameBytes') = Cardinality(FrameBytes) - Returned(c)
    <3>1. IsFiniteSet(FrameBytes) /\ Cardinality(FrameBytes) \in Int
      BY ZenonT(30), <1>b DEF PermitInv
    <3>0. ~conn'[c].frame
      BY <2>2 DEF Free
    <3>2. CASE conn[c].frame
      <4>1. Returned(c) = conn[c].size
        BY ZenonT(30), <3>2 DEF Returned
      <4>2. QED
        BY ZenonT(30), <2>1, <2>2, <3>0, <3>1, <3>2, <4>1, FrameDropped
    <3>3. CASE ~conn[c].frame
      <4>1. FrameBytes' = FrameBytes
        BY ZenonT(30), <2>1, <3>0, <3>3, FramesApart
      <4>2. Returned(c) = 0
        BY ZenonT(30), <3>3 DEF Returned
      <4>3. QED
        BY <3>1, <4>1, <4>2
    <3>4. QED
      BY ZenonT(30), <3>2, <3>3
  <2>5. Returned(c) \in Nat
    BY ZenonT(30), <2>2 DEF Returned
  <2>6. UpCalling' = UpCalling
    BY ZenonT(30), <1>17 DEF Close, UpCalling
  <2>7. clients' = clients - 1 /\ inflight' = inflight - Returned(c) /\ UNCHANGED <<limit, gate>>
    BY ZenonT(30), <1>17 DEF Close
  <2>8. QED
    BY <1>b, <1>c, <2>3, <2>4, <2>5, <2>6, <2>7 DEF PermitInv
<1>18. CASE Restart
  <2>1. Busy' = {} /\ Calling' = {} /\ Waiting' = {} /\ FrameBytes' = {}
    BY ZenonT(30), <1>18 DEF Restart, Busy, Calling, Waiting, FrameBytes, Free
  <2>2. UpCalling' = {}
    BY ZenonT(30), <1>18 DEF Restart, UpCalling, Idle
  <2>3. clients' = 0 /\ inflight' = 0 /\ gate'.active = 0 /\ gate'.fg = 0 /\ limit' \in Nat
    BY ZenonT(30), <1>18, FrontAssumption DEF Restart, Types
  <2>4. QED
    BY <1>b, <2>1, <2>2, <2>3, FS_EmptySet DEF PermitInv
<1>19. ASSUME NEW d \in Kinds, Expire(d) PROVE PermitInv'
  <2>1. UNCHANGED <<Busy, Calling, Waiting, UpCalling, FrameBytes>>
    BY ZenonT(30), <1>19 DEF Expire, Busy, Calling, Waiting, UpCalling, FrameBytes
  <2>2. QED
    BY ZenonT(30), <1>19, <2>1 DEF Expire, PermitInv
<1>20. ASSUME NEW c \in Conns, Apply(c) \/ ApplyFails(c) PROVE PermitInv'
  BY ZenonT(30), <1>8, <1>20 DEF Apply, ApplyFails
<1>22. ASSUME NEW c \in Conns, Hydrate(c) PROVE PermitInv'
  <2>1. conn' = [conn EXCEPT ![c] = [conn[c] EXCEPT !.pc = "respond", !.read = 0]]
    BY ZenonT(30), <1>22 DEF Hydrate
  <2>2. /\ \A e \in Conns \ {c} : Kept(e)
        /\ conn'[c].pc = "respond" /\ conn'[c].frame = conn[c].frame /\ conn'[c].size = conn[c].size
    BY ZenonT(30), <1>a, <2>1 DEF Kept, Types, Threads
  <2>3. conn[c].pc = "hydrate"
    BY ZenonT(30), <1>22 DEF Hydrate
  <2>4. QED
    BY ZenonT(30), <1>22, <2>2, <2>3, PermitsIdle DEF Hydrate, SameHolding
<1>23. ASSUME NEW k \in Keys, LocalGc(k) PROVE PermitInv'
  <2>1. UNCHANGED <<Busy, Calling, Waiting, UpCalling, FrameBytes>>
    BY ZenonT(30), <1>23 DEF LocalGc, Busy, Calling, Waiting, UpCalling, FrameBytes
  <2>2. QED
    BY ZenonT(30), <1>23, <2>1 DEF LocalGc, PermitInv
<1>21. QED
  BY ZenonT(30), <1>1, <1>2, <1>3, <1>4, <1>5, <1>6, <1>7, <1>9, <1>10, <1>11, <1>12, <1>13,
     <1>14, <1>15,
     <1>16, <1>17, <1>18, <1>19, <1>20, <1>22, <1>23 DEF Next, Serve, UploadStep
=============================================================================
