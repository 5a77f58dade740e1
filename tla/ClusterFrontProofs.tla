------------------------- MODULE ClusterFrontProofs -------------------------
(* The permits of the request front are exact, what a host was told stands,  *)
(* and a cached listing is current, for any number of connections, upload    *)
(* threads and keys and for all limits.                                      *)
EXTENDS ClusterFrontPermitProofs

-----------------------------------------------------------------------------
(* What a host was told *)

\* The outcome of a request that was carried out.
Outcome(c, k) == Visible(k) = IF conn[c].op = "put" THEN conn[c].gen ELSE 0

\* Keys of which nothing is promised.
Excepted == disturbed \cup revived

\* Two requests that change a key at the same time, the first of them given up by
\* its client, disturb it; the host knows nothing of a key it has a request for; and
\* what a request reports is so.
ChangeInv ==
  /\ \A c, e \in Conns : c # e /\ Mutates(c) /\ Mutates(e) => conn[c].keys \cap conn[e].keys \subseteq disturbed
  /\ \A c \in Conns : Mutates(c) => \A k \in conn[c].keys \ disturbed : want[k] = Unknown
  /\ \A c \in Conns : Mutates(c) /\ conn[c].ok => \A k \in conn[c].keys \ Excepted : Outcome(c, k)

\* The host knows, or is about to be told, that its PUT or DELETE of k is done.
Reports(c, op, k) == conn[c].pc = "respond" /\ conn[c].ok /\ conn[c].op = op /\ k \in conn[c].keys
ToldPut(k) == want[k] > 0 \/ \E c \in Conns : Reports(c, "put", k)
ToldDelete(k) == want[k] = 0 \/ \E c \in Conns : Reports(c, "delete", k)

Lists(c) == conn[c].op = "list" /\ conn[c].pc \in Listing
AtGate == {"acquire", "wait", "woken", "backend"}

\* No trace is left of k; only the backend has k, and no upload will touch it.
NoTrace(k) == k \notin hidden /\ store[k] = 0 /\ back[k] = 0
Archived(k) == back[k] # 0 /\ queue[k] = NoItem

\* The listing has found k, or is still to come by where k is.
Finds(c, k) ==
  \/ k \in conn[c].found
  \/ conn[c].kind = "sizes" /\ conn[c].pc \in AtGate
  \/ conn[c].kind = "sizes" /\ conn[c].pc = "liststore" /\ store[k] # 0
  \/ conn[c].kind # "sizes" /\ conn[c].pc = "liststore"
  \/ conn[c].kind # "sizes" /\ conn[c].pc \in AtGate /\ Archived(k)

\* A listing under way has what it should have so far, except for the keys whose
\* change it does not hear of.
ListOK(c, k) ==
  /\ ToldPut(k) => k \notin conn[c].seen /\ Finds(c, k)
  /\ ToldDelete(k) /\ conn[c].kind # "prefixes" =>
       (k \in conn[c].seen \/ NoTrace(k)) /\ k \notin conn[c].found

ListInv == \A c \in Conns : Lists(c) => \A k \in Keys \ (Excepted \cup conn[c].late) : ListOK(c, k)

CacheInv ==
  \A d \in Kinds : cache[d].state = "fresh" => \A k \in Keys \ (Excepted \cup cache[d].late) :
    /\ ToldPut(k) => k \in cache[d].keys
    /\ ToldDelete(k) /\ d # "prefixes" => k \notin cache[d].keys

Uploading(u, k) == up[u].pc # "idle" /\ up[u].key = k

\* A PUT that is queued or being uploaded has its bytes in the store, what is being
\* uploaded is queued, a queued DELETE hides its key and a queued PUT does not, a
\* tombstone is left when the backend has the key no more, and a GET that found a key
\* only in the backend holds what the backend still has.
KeyOK(k) ==
  /\ store[k] = 0 => /\ queue[k].op # "put"
                     /\ \A u \in Uploaders : Uploading(u, k) => up[u].item.op # "put"
  /\ k \in hidden /\ queue[k] = NoItem => back[k] = 0
  /\ queue[k].op = "put" => k \notin hidden
  /\ queue[k].op = "delete" => k \in hidden
  /\ queue[k].op = "none" => queue[k] = NoItem
  /\ \A u \in Uploaders : Uploading(u, k) => queue[k] # NoItem
  /\ \A u, v \in Uploaders : Uploading(u, k) /\ Uploading(v, k) => u = v

ReadOK(c) ==
  conn[c].pc = "hydrate" => \A k \in conn[c].keys : store[k] = 0 /\ back[k] # 0 => conn[c].read = back[k]

FileInv == (\A k \in Keys : KeyOK(k)) /\ (\A c \in Conns : ReadOK(c))

DataInv == ChangeInv /\ AckedStands /\ ListInv /\ CacheInv

\* A thread whose step does not matter here.
Inert(e) ==
  \/ conn'[e].op = "bad"
  \/ /\ conn'[e].op = conn[e].op /\ conn'[e].keys = conn[e].keys /\ conn'[e].gen = conn[e].gen
     /\ Mutates(e) => /\ conn'[e].ok => conn[e].ok
                      /\ conn'[e].pc = "respond" /\ conn'[e].ok => conn[e].pc = "respond"
     /\ conn'[e].op = "list" /\ conn'[e].pc \in Listing =>
          /\ conn[e].pc \in Listing /\ conn'[e].seen = conn[e].seen /\ conn'[e].late = conn[e].late
          /\ conn'[e].kind = conn[e].kind /\ conn'[e].found = conn[e].found
          /\ conn'[e].pc = conn[e].pc \/ {conn'[e].pc, conn[e].pc} \subseteq AtGate

\* A key of which a step changes nothing that a host or a listing sees.
Same(k) ==
  /\ Visible(k)' = Visible(k)
  /\ NoTrace(k) => NoTrace(k)'
  /\ Archived(k) => Archived(k)'
  /\ k \notin hidden /\ store[k] # 0 => store'[k] # 0

\* What the host knows is unchanged, and so is every key of which something is
\* promised.
Settled ==
  /\ UNCHANGED <<want, disturbed>> /\ revived \subseteq revived'
  /\ \A k \in Keys \ Excepted' : Same(k)

\* Steps that leave the data are such steps.
LEMMA DataStays ==
  ASSUME UNCHANGED <<store, hidden, back, queue, want, disturbed, revived>>
  PROVE  Settled
BY ZenonT(30) DEF Settled, Same, Visible, NoTrace, Archived

\* Threads that stay or are woken do not matter.
LEMMA OthersInert ==
  ASSUME Types, NEW c \in Conns, Others(c)
  PROVE  \A e \in Conns \ {c} : Inert(e)
<1> SUFFICES ASSUME NEW e \in Conns \ {c} PROVE Inert(e)
  BY ZenonT(30)
<1>1. CASE conn'[e] = conn[e]
  BY ZenonT(30), <1>1 DEF Inert
<1>2. CASE conn[e].pc = "wait" /\ conn'[e] = [conn[e] EXCEPT !.pc = "woken"]
  <2>1. conn[e] \in Threads
    BY ZenonT(30) DEF Types
  <2>2. /\ conn'[e].pc = "woken"
        /\ \A f \in {"op", "keys", "gen", "kind", "seen", "late", "found", "ok"} : conn'[e][f] = conn[e][f]
    BY ZenonT(30), <1>2, <2>1 DEF Threads
  <2>3. QED
    BY ZenonT(30), <1>2, <2>2 DEF Inert, Listing, AtGate
<1>3. QED
  BY ZenonT(30), <1>1, <1>2 DEF Others

\* A thread without a request that changes keys, before and after the step, matters
\* for listings only.
Apart(e) == ~Mutates(e) /\ ~Mutates(e)'

\* Nothing is told by a step in which no thread begins to report.
LEMMA ToldFrame ==
  ASSUME want' = want, NEW k \in Keys, \A e \in Conns : Inert(e) \/ Apart(e)
  PROVE  (ToldPut(k)' => ToldPut(k)) /\ (ToldDelete(k)' => ToldDelete(k))
<1>1. ASSUME NEW e \in Conns, NEW op \in {"put", "delete"}, Reports(e, op, k)' PROVE Reports(e, op, k)
  <2>1. Mutates(e)' /\ conn'[e].pc = "respond" /\ conn'[e].ok /\ conn'[e].op = op /\ k \in conn'[e].keys
    BY ZenonT(30), <1>1 DEF Reports, Mutates
  <2>2. Inert(e)
    BY ZenonT(30), <2>1 DEF Apart
  <2>3. QED
    BY ZenonT(30), <2>1, <2>2 DEF Inert, Reports, Mutates
<1>2. QED
  BY ZenonT(30), <1>1 DEF ToldPut, ToldDelete

\* Nor does such a step disturb the requests under way.
LEMMA ChangeFrame ==
  ASSUME Types, ChangeInv, \A e \in Conns : Inert(e) \/ Apart(e), Settled
  PROVE  ChangeInv'
<1>1. ASSUME NEW e \in Conns, Mutates(e)'
      PROVE  /\ Mutates(e) /\ conn'[e].op = conn[e].op /\ conn'[e].keys = conn[e].keys
             /\ conn'[e].gen = conn[e].gen /\ (conn'[e].ok => conn[e].ok)
  BY ZenonT(30), <1>1 DEF Inert, Apart, Mutates
<1>2. \A c, e \in Conns : c # e /\ Mutates(c)' /\ Mutates(e)' => conn'[c].keys \cap conn'[e].keys \subseteq disturbed'
  BY ZenonT(30), <1>1 DEF ChangeInv, Settled
<1>3. \A c \in Conns : Mutates(c)' => \A k \in conn'[c].keys \ disturbed' : want'[k] = Unknown
  BY ZenonT(30), <1>1 DEF ChangeInv, Settled
<1>4. ASSUME NEW c \in Conns, Mutates(c)', conn'[c].ok, NEW k \in conn'[c].keys \ Excepted' PROVE Outcome(c, k)'
  <2>1. k \in Keys \ Excepted' /\ k \in conn[c].keys \ Excepted
    BY ZenonT(30), <1>1, <1>4 DEF Types, Threads, Settled, Excepted
  <2>2. Outcome(c, k)
    BY ZenonT(30), <1>1, <1>4, <2>1 DEF ChangeInv
  <2>3. Visible(k)' = Visible(k)
    BY ZenonT(30), <2>1 DEF Settled, Same
  <2>4. QED
    BY ZenonT(30), <1>1, <1>4, <2>2, <2>3 DEF Outcome
<1>5. QED
  BY ZenonT(30), <1>2, <1>3, <1>4 DEF ChangeInv

\* A key that a request is changing is one the host has not been told about.
LEMMA NotTold ==
  ASSUME ChangeInv, NEW c \in Conns, Mutates(c), conn[c].pc # "respond", NEW k \in conn[c].keys \ disturbed
  PROVE  ~ToldPut(k) /\ ~ToldDelete(k)
<1>1. want[k] = Unknown
  BY ZenonT(30) DEF ChangeInv
<1>2. ASSUME NEW e \in Conns, Mutates(e), k \in conn[e].keys PROVE e = c
  BY ZenonT(30), <1>2 DEF ChangeInv
<1>3. QED
  BY <1>1, <1>2 DEF ToldPut, ToldDelete, Reports, Mutates, Unknown

\* What the host is told of a key is so.
LEMMA ToldIsSo ==
  ASSUME Types, ThreadInv, DataInv, NEW k \in Keys \ Excepted
  PROVE  /\ ToldPut(k) => k \notin hidden /\ (store[k] # 0 \/ back[k] # 0)
         /\ ToldDelete(k) => k \in hidden \/ NoTrace(k)
<1>1. want[k] # Unknown => want[k] = Visible(k)
  BY ZenonT(30) DEF DataInv, AckedStands, Excepted
<1>2. ASSUME NEW c \in Conns, Reports(c, "put", k) PROVE Visible(k) # 0
  <2>1. Outcome(c, k) /\ conn[c].op = "put"
    BY ZenonT(30), <1>2 DEF DataInv, ChangeInv, Reports, Mutates
  <2>2. conn[c].gen > 0 /\ conn[c].gen \in Nat
    BY ZenonT(30), <2>1 DEF ThreadInv, ThreadOK, Types, Threads
  <2>3. QED
    BY <2>1, <2>2 DEF Outcome
<1>3. ASSUME NEW c \in Conns, Reports(c, "delete", k) PROVE Visible(k) = 0
  BY ZenonT(30), <1>3 DEF DataInv, ChangeInv, Reports, Mutates, Outcome
<1>4. want[k] \in Int
  BY FrontAssumption DEF Types, Unknown
<1>5. /\ ToldPut(k) => Visible(k) # 0
      /\ ToldDelete(k) => Visible(k) = 0
  BY <1>1, <1>2, <1>3, <1>4 DEF ToldPut, ToldDelete, Unknown
<1>6. QED
  BY ZenonT(30), <1>5 DEF Visible, NoTrace

\* A listing that stays in its place keeps what it should have.
LEMMA ListFrame ==
  ASSUME Types, ThreadInv, DataInv, Settled, NEW c \in Conns, Lists(c)', Inert(c),
         NEW k \in Keys \ (Excepted' \cup conn'[c].late),
         (ToldPut(k)' => ToldPut(k)) /\ (ToldDelete(k)' => ToldDelete(k))
  PROVE  ListOK(c, k)'
<1>1. /\ Lists(c) /\ conn'[c].seen = conn[c].seen /\ conn'[c].late = conn[c].late
      /\ conn'[c].kind = conn[c].kind /\ conn'[c].found = conn[c].found
      /\ conn'[c].pc = conn[c].pc \/ {conn'[c].pc, conn[c].pc} \subseteq AtGate
  BY ZenonT(30) DEF Inert, Lists
<1>2. k \in Keys \ (Excepted \cup conn[c].late) /\ Same(k)
  BY ZenonT(30), <1>1 DEF Settled, Excepted
<1>3. ListOK(c, k)
  BY ZenonT(30), <1>1, <1>2 DEF DataInv, ListInv
<1>4. ToldPut(k) => k \notin hidden
  BY ZenonT(30), <1>2, ToldIsSo
<1>5. ASSUME ToldPut(k), Finds(c, k) PROVE Finds(c, k)'
  <2>1. (Archived(k) => Archived(k)') /\ (store[k] # 0 => store'[k] # 0)
    BY ZenonT(30), <1>2, <1>4, <1>5 DEF Same
  <2>2. "liststore" \notin AtGate
    BY ZenonT(30) DEF AtGate
  <2>3. QED
    BY ZenonT(30), <1>1, <1>5, <2>1, <2>2 DEF Finds
<1>6. NoTrace(k) => NoTrace(k)'
  BY ZenonT(30), <1>2 DEF Same
<1>7. QED
  BY ZenonT(30), <1>1, <1>3, <1>5, <1>6 DEF ListOK

\* Steps that change nothing the host knows and no listing.
LEMMA DataFrame ==
  ASSUME Types, ThreadInv, DataInv, \A e \in Conns : Inert(e), Settled,
         \A d \in Kinds : cache'[d] = cache[d] \/ cache'[d].state # "fresh"
  PROVE  DataInv'
<1>1. ChangeInv'
  BY ZenonT(30), ChangeFrame DEF DataInv
<1>2. AckedStands'
  BY ZenonT(30) DEF DataInv, AckedStands, Settled, Same, Excepted
<1>3. \A k \in Keys : (ToldPut(k)' => ToldPut(k)) /\ (ToldDelete(k)' => ToldDelete(k))
  BY ZenonT(30), ToldFrame DEF Settled
<1>4. ListInv'
  <2> SUFFICES ASSUME NEW c \in Conns, Lists(c)', NEW k \in Keys \ (Excepted' \cup conn'[c].late)
      PROVE  ListOK(c, k)'
    BY ZenonT(30) DEF ListInv
  <2>1. QED
    BY ZenonT(30), <1>3, ListFrame
<1>5. CacheInv'
  BY ZenonT(30), <1>3 DEF DataInv, CacheInv, Settled, Excepted
<1>6. QED
  BY ZenonT(30), <1>1, <1>2, <1>4, <1>5 DEF DataInv

\* Steps of one thread that leave the data, what the host knows and the cache, but
\* for entries that go or expire.
LEMMA DataOne ==
  ASSUME Types, ThreadInv, DataInv, NEW c \in Conns, Others(c), Inert(c), Settled,
         \A d \in Kinds : cache'[d] = cache[d] \/ cache'[d].state # "fresh"
  PROVE  DataInv'
BY ZenonT(30), OthersInert, DataFrame

\* A request that is sent makes what the host knew of its keys unknown.
LEMMA DataSend ==
  ASSUME Types, ThreadInv, DataInv, NEW c \in Conns, Send(c)
  PROVE  DataInv'
<1>1. PICK op \in inst.ops, K \in SUBSET inst.keys, d \in inst.kinds \cup {Default}, size \in inst.sizes :
        /\ conn' = [conn EXCEPT ![c] = Request(op, K, d, size)]
        /\ Known(op, K)
  BY ZenonT(30) DEF Send
<1>2. UNCHANGED <<store, hidden, back, queue, cache, revived>> /\ ~Running(c)
  BY ZenonT(30) DEF Send, data
<1>a. \A k : /\ Visible(k)' = Visible(k) /\ (NoTrace(k)' <=> NoTrace(k))
             /\ Archived(k)' <=> Archived(k)
  BY ZenonT(30), <1>2 DEF Visible, NoTrace, Archived
<1>3. conn'[c] = Request(op, K, d, size) /\ \A e \in Conns \ {c} : conn'[e] = conn[e]
  BY ZenonT(30), <1>1 DEF Types
<1>4. conn'[c].op = op /\ conn'[c].keys = K /\ conn'[c].pc = "sent" /\ ~conn'[c].ok
  BY <1>3 DEF Request
<1> HIDE DEF Request
<1>5. disturbed \subseteq disturbed' /\ Excepted \subseteq Excepted'
  BY ZenonT(30), <1>1, <1>2 DEF Known, Excepted
<1>6. \A k \in Keys : want'[k] = want[k] \/ (want'[k] = Unknown /\ op \in {"put", "delete"} /\ k \in K)
  BY ZenonT(30), <1>1 DEF Types, Known
<1>7. \A e \in Conns : Mutates(e) => Running(e)
  BY ZenonT(30) DEF Mutates, Running, ThreadInv, ThreadOK
<1>8. ChangeInv'
  <2>1. ASSUME NEW e \in Conns \ {c}, Mutates(e), op \in {"put", "delete"}
        PROVE  conn[e].keys \cap K \subseteq disturbed'
    BY ZenonT(30), <1>1, <1>7, <2>1 DEF Known
  <2>2. \A a, e \in Conns : a # e /\ Mutates(a)' /\ Mutates(e)' => conn'[a].keys \cap conn'[e].keys \subseteq disturbed'
    BY ZenonT(30), <1>3, <1>4, <1>5, <2>1 DEF DataInv, ChangeInv, Mutates
  <2>3. ASSUME NEW e \in Conns, Mutates(e)', NEW k \in conn'[e].keys \ disturbed' PROVE want'[k] = Unknown
    <3>1. CASE e = c
      <4>1. op \in {"put", "delete"} /\ k \in K /\ K \subseteq Keys
        BY ZenonT(30), <1>4, <2>3, <3>1, FrontAssumption DEF Mutates, Types
      <4>2. QED
        BY ZenonT(30), <1>1, <4>1 DEF Known
    <3>2. CASE e # c
      <4>1. k \in Keys /\ want[k] = Unknown
        BY ZenonT(30), <1>3, <1>5, <2>3, <3>2 DEF DataInv, ChangeInv, Mutates, Types, Threads
      <4>2. QED
        BY ZenonT(30), <1>6, <4>1
    <3>3. QED
      BY ZenonT(30), <3>1, <3>2
  <2>4. \A e \in Conns : Mutates(e)' /\ conn'[e].ok => \A k \in conn'[e].keys \ Excepted' : Outcome(e, k)'
    BY ZenonT(30), <1>a, <1>3, <1>4, <1>5 DEF DataInv, ChangeInv, Mutates, Outcome
  <2>5. QED
    BY ZenonT(30), <2>2, <2>3, <2>4 DEF ChangeInv
<1>9. AckedStands'
  BY ZenonT(30), <1>2, <1>a, <1>5, <1>6 DEF DataInv, AckedStands
<1>10. ASSUME NEW k \in Keys PROVE (ToldPut(k)' => ToldPut(k)) /\ (ToldDelete(k)' => ToldDelete(k))
  BY SMTT(20), <1>3, <1>4, <1>6 DEF ToldPut, ToldDelete, Reports, Unknown
<1>11. ListInv'
  <2> SUFFICES ASSUME NEW e \in Conns, Lists(e)', NEW k \in Keys \ (Excepted' \cup conn'[e].late)
      PROVE  ListOK(e, k)'
    BY ZenonT(30) DEF ListInv
  <2>1. e # c
    BY ZenonT(30), <1>4 DEF Lists, Listing
  <2>2. conn'[e] = conn[e] /\ Lists(e)
    BY ZenonT(30), <1>3, <2>1 DEF Lists
  <2>3. ListOK(e, k)
    BY ZenonT(30), <1>5, <2>2 DEF DataInv, ListInv
  <2>4. QED
    BY ZenonT(30), <1>2, <1>a, <1>10, <2>2, <2>3 DEF ListOK, Finds
<1>12. CacheInv'
  BY ZenonT(30), <1>2, <1>5, <1>10 DEF DataInv, CacheInv
<1>13. QED
  BY ZenonT(30), <1>8, <1>9, <1>11, <1>12 DEF DataInv

\* A change of the store touches only keys of which the host knows nothing.
LEMMA DataApplied ==
  ASSUME Types, ThreadInv, DataInv, NEW c \in Conns, conn[c].pc = "lock",
         NEW K \in SUBSET conn[c].keys, NEW ok \in BOOLEAN, ok => K = conn[c].keys, Applied(c, K, ok),
         UNCHANGED <<back, cache, want, disturbed>>
  PROVE  DataInv'
<1>1. Mutates(c) /\ conn[c] \in Threads /\ conn[c].keys \subseteq Keys
  BY ZenonT(30) DEF ThreadInv, ThreadOK, Mutates, Types, Threads
<1>2. conn' = [conn EXCEPT ![c].pc = IF ok THEN "uncached" ELSE "respond", ![c].ok = ok]
  BY ZenonT(30) DEF Applied
<1>3. /\ \A e \in Conns \ {c} : conn'[e] = conn[e]
      /\ conn'[c].op = conn[c].op /\ conn'[c].keys = conn[c].keys /\ conn'[c].gen = conn[c].gen
      /\ conn'[c].ok = ok /\ conn'[c].pc = IF ok THEN "uncached" ELSE "respond"
  BY ZenonT(30), <1>1, <1>2 DEF Types, Threads
<1>4. \A k \in Keys \ K : store'[k] = store[k] /\ (k \in hidden' <=> k \in hidden) /\ queue'[k] = queue[k]
  BY ZenonT(30) DEF Applied, HiddenAfter
<1>a. \A k \in Keys \ K : /\ Visible(k)' = Visible(k) /\ (NoTrace(k)' <=> NoTrace(k))
                          /\ Archived(k)' <=> Archived(k)
  BY ZenonT(30), <1>4 DEF Visible, NoTrace, Archived
<1>b. \A k \in Keys \ K : k \in Excepted' <=> k \in Excepted
  BY ZenonT(30) DEF Applied, Excepted
<1>c. conn[c].op \in {"put", "delete"} /\ conn[c].gen > 0 /\ conn[c].gen \in Nat
  BY ZenonT(30), <1>1 DEF ThreadInv, ThreadOK, Mutates, Threads
<1>5. ASSUME NEW k \in K PROVE Visible(k)' = IF conn[c].op = "put" THEN conn[c].gen ELSE 0
  <2>1. conn[c].op = "put" => store'[k] = conn[c].gen /\ k \notin hidden'
    BY ZenonT(30), <1>1 DEF Applied, HiddenAfter
  <2>2. conn[c].op # "put" => k \in hidden'
    BY ZenonT(30), <1>1 DEF Applied, HiddenAfter
  <2>3. QED
    BY <1>c, <2>1, <2>2 DEF Visible
<1>6. ASSUME NEW e \in Conns \ {c}, Mutates(e), NEW k \in conn[e].keys \ disturbed PROVE k \in Keys \ K
  <2>1. k \in Keys
    BY ZenonT(30) DEF Types, Threads
  <2>2. QED
    BY ZenonT(30), <1>1, <1>6, <2>1 DEF DataInv, ChangeInv
<1>7. ChangeInv'
  <2>1. \A a, e \in Conns : a # e /\ Mutates(a)' /\ Mutates(e)' => conn'[a].keys \cap conn'[e].keys \subseteq disturbed'
    BY SMTT(20), <1>3 DEF DataInv, ChangeInv, Mutates
  <2>2. \A e \in Conns : Mutates(e)' => \A k \in conn'[e].keys \ disturbed' : want'[k] = Unknown
    BY ZenonT(30), <1>3 DEF DataInv, ChangeInv, Mutates
  <2>3. ASSUME NEW e \in Conns, Mutates(e)', conn'[e].ok, NEW k \in conn'[e].keys \ Excepted'
        PROVE  Outcome(e, k)'
    <3>1. CASE e = c
      BY ZenonT(30), <1>1, <1>3, <1>5, <2>3, <3>1 DEF Outcome
    <3>2. CASE e # c
      <4>1. conn'[e] = conn[e] /\ Mutates(e) /\ k \in Keys \ K
        BY ZenonT(30), <1>3, <1>6, <2>3, <3>2 DEF Mutates, Excepted
      <4>2. Outcome(e, k)
        BY ZenonT(30), <1>b, <2>3, <4>1 DEF DataInv, ChangeInv
      <4>3. Visible(k)' = Visible(k)
        BY ZenonT(30), <1>a, <4>1
      <4>4. QED
        BY ZenonT(30), <4>1, <4>2, <4>3 DEF Outcome
    <3>3. QED
      BY ZenonT(30), <3>1, <3>2
  <2>4. QED
    BY ZenonT(30), <2>1, <2>2, <2>3 DEF ChangeInv
<1>8. \A k \in K \ disturbed : want[k] = Unknown /\ ~ToldPut(k) /\ ~ToldDelete(k)
  BY ZenonT(30), <1>1, NotTold DEF DataInv, ChangeInv
<1>9. AckedStands'
  <2> SUFFICES ASSUME NEW k \in Keys \ Excepted', want[k] # Unknown PROVE want[k] = Visible(k)'
    BY ZenonT(30) DEF AckedStands, Excepted
  <2>1. k \in Keys \ K
    BY ZenonT(30), <1>8 DEF Excepted
  <2>2. k \in Keys \ Excepted /\ Visible(k)' = Visible(k)
    BY ZenonT(30), <1>a, <1>b, <2>1
  <2>3. want[k] = Visible(k)
    BY ZenonT(30), <2>2 DEF DataInv, AckedStands, Excepted
  <2>4. QED
    BY ZenonT(30), <2>2, <2>3
<1>10. ASSUME NEW k \in Keys PROVE (ToldPut(k)' => ToldPut(k)) /\ (ToldDelete(k)' => ToldDelete(k))
  BY ZenonT(30), <1>3 DEF ToldPut, ToldDelete, Reports
<1>11. ListInv'
  <2> SUFFICES ASSUME NEW e \in Conns, Lists(e)', NEW k \in Keys \ (Excepted' \cup conn'[e].late)
      PROVE  ListOK(e, k)'
    BY ZenonT(30) DEF ListInv
  <2>1. conn'[e] = conn[e] /\ Lists(e)
    BY ZenonT(30), <1>1, <1>3 DEF Lists, Mutates
  <2>2. CASE k \in K
    BY ZenonT(30), <1>8, <1>10, <2>2 DEF ListOK, Excepted
  <2>3. CASE k \notin K
    <3>1. ListOK(e, k)
      BY ZenonT(30), <1>b, <2>1, <2>3 DEF DataInv, ListInv
    <3>2. store'[k] = store[k] /\ (Archived(k)' <=> Archived(k)) /\ (NoTrace(k)' <=> NoTrace(k))
      BY ZenonT(30), <1>4, <1>a, <2>3
    <3>3. Finds(e, k)' <=> Finds(e, k)
      BY ZenonT(30), <2>1, <3>2 DEF Finds
    <3>4. QED
      BY ZenonT(30), <1>10, <2>1, <3>1, <3>2, <3>3 DEF ListOK
  <2>4. QED
    BY ZenonT(30), <2>2, <2>3
<1>12. CacheInv'
  <2> SUFFICES ASSUME NEW d \in Kinds, cache'[d].state = "fresh", NEW k \in Keys \ (Excepted' \cup cache'[d].late)
      PROVE  /\ ToldPut(k)' => k \in cache'[d].keys
             /\ ToldDelete(k)' /\ d # "prefixes" => k \notin cache'[d].keys
    BY ZenonT(30) DEF CacheInv
  <2>1. CASE k \in K
    BY ZenonT(30), <1>8, <1>10, <2>1 DEF Excepted
  <2>2. CASE k \notin K
    BY ZenonT(30), <1>b, <1>10, <2>2 DEF DataInv, CacheInv
  <2>3. QED
    BY ZenonT(30), <2>1, <2>2
<1>13. QED
  BY ZenonT(30), <1>7, <1>9, <1>11, <1>12 DEF DataInv

\* The cache is brought up to date before a request reports; listings under way are
\* not, and take note of its keys.
LEMMA DataUpdateCache ==
  ASSUME Types, ThreadInv, DataInv, NEW c \in Conns, UpdateCache(c)
  PROVE  DataInv'
<1>1. /\ Mutates(c) /\ conn[c].ok /\ conn[c].pc = "uncached"
      /\ conn[c] \in Threads /\ conn[c].keys \subseteq Keys
  BY ZenonT(30) DEF ThreadInv, ThreadOK, Mutates, Types, Threads, UpdateCache
<1>2. UNCHANGED <<store, hidden, back, queue, want, disturbed, revived>> /\ Excepted' = Excepted
  BY ZenonT(30) DEF UpdateCache, data, ghosts, Excepted
<1>d. \A k : /\ Visible(k)' = Visible(k) /\ (NoTrace(k)' <=> NoTrace(k))
             /\ Archived(k)' <=> Archived(k)
  BY ZenonT(30), <1>2 DEF Visible, NoTrace, Archived
<1>3. /\ conn'[c] = [conn[c] EXCEPT !.pc = "respond"]
      /\ \A e \in Conns \ {c} :
           conn'[e] = IF Lists(e) THEN [conn[e] EXCEPT !.late = @ \cup conn[c].keys] ELSE conn[e]
  BY ZenonT(30) DEF UpdateCache, Lists, Listing
<1>4. /\ conn'[c].op = conn[c].op /\ conn'[c].keys = conn[c].keys /\ conn'[c].gen = conn[c].gen
      /\ (conn'[c].ok <=> conn[c].ok) /\ conn'[c].pc = "respond"
  BY <1>1, <1>3 DEF Threads
<1>5. ASSUME NEW e \in Conns \ {c}
      PROVE  /\ conn'[e].pc = conn[e].pc /\ conn'[e].op = conn[e].op /\ conn'[e].keys = conn[e].keys
             /\ conn'[e].gen = conn[e].gen /\ (conn'[e].ok <=> conn[e].ok) /\ conn'[e].kind = conn[e].kind
             /\ conn'[e].seen = conn[e].seen /\ conn'[e].found = conn[e].found
             /\ conn'[e].late = IF Lists(e) THEN conn[e].late \cup conn[c].keys ELSE conn[e].late
  <2>1. conn[e] \in Threads
    BY ZenonT(30) DEF Types
  <2>2. QED
    BY ZenonT(30), <1>3, <2>1 DEF Threads
<1>a. ASSUME NEW e \in Conns
      PROVE  /\ Mutates(e)' <=> Mutates(e)
             /\ conn'[e].keys = conn[e].keys /\ (conn'[e].ok <=> conn[e].ok)
             /\ \A k : Outcome(e, k)' <=> Outcome(e, k)
  <2>1. /\ conn'[e].op = conn[e].op /\ conn'[e].keys = conn[e].keys
        /\ conn'[e].gen = conn[e].gen /\ (conn'[e].ok <=> conn[e].ok)
    BY ZenonT(30), <1>4, <1>5
  <2>2. QED
    BY ZenonT(30), <1>d, <2>1 DEF Mutates, Outcome
<1>b. \A e \in Conns \ {c} : \A op, k : Reports(e, op, k)' <=> Reports(e, op, k)
  <2> SUFFICES ASSUME NEW e \in Conns \ {c}, NEW op, NEW k PROVE Reports(e, op, k)' <=> Reports(e, op, k)
    BY ZenonT(30)
  <2>1. conn'[e].pc = conn[e].pc /\ conn'[e].op = conn[e].op /\ conn'[e].keys = conn[e].keys /\ (conn'[e].ok <=> conn[e].ok)
    BY ZenonT(30), <1>5
  <2>2. QED
    BY ZenonT(30), <2>1 DEF Reports
<1>c. \A op, k : Reports(c, op, k)' => op = conn[c].op /\ k \in conn[c].keys
  BY ZenonT(30), <1>4 DEF Reports
<1>6. ChangeInv'
  BY ZenonT(30), <1>2, <1>a DEF DataInv, ChangeInv
<1>7. AckedStands'
  BY ZenonT(30), <1>2, <1>d DEF DataInv, AckedStands
<1>8. ASSUME NEW k \in Keys, k \notin conn[c].keys
      PROVE  (ToldPut(k)' => ToldPut(k)) /\ (ToldDelete(k)' => ToldDelete(k))
  BY ZenonT(30), <1>2, <1>8, <1>b, <1>c DEF ToldPut, ToldDelete
<1>9. ASSUME NEW k \in conn[c].keys \ disturbed
      PROVE  (ToldPut(k)' => conn[c].op = "put") /\ (ToldDelete(k)' => conn[c].op = "delete")
  <2>1. want[k] = Unknown /\ \A e \in Conns \ {c} : Mutates(e) => k \notin conn[e].keys
    BY ZenonT(30), <1>1 DEF DataInv, ChangeInv
  <2>2. QED
    <3>1. \A e \in Conns, op \in {"put", "delete"} : Reports(e, op, k)' => op = conn[c].op
      BY <1>b, <1>c, <2>1 DEF Reports, Mutates
    <3>2. QED
      BY SMTT(20), <1>2, <2>1, <3>1 DEF ToldPut, ToldDelete, Unknown
<1>10. ListInv'
  <2> SUFFICES ASSUME NEW e \in Conns, Lists(e)', NEW k \in Keys \ (Excepted' \cup conn'[e].late)
      PROVE  ListOK(e, k)'
    BY ZenonT(30) DEF ListInv
  <2>1. e # c
    BY ZenonT(30), <1>4 DEF Lists, Listing
  <2>2. Lists(e) /\ k \notin conn[c].keys /\ k \notin conn[e].late
    BY ZenonT(30), <1>5, <2>1 DEF Lists
  <2>3. ListOK(e, k)
    BY ZenonT(30), <1>2, <2>2 DEF DataInv, ListInv
  <2>4. conn'[e].pc = conn[e].pc /\ conn'[e].kind = conn[e].kind
        /\ conn'[e].seen = conn[e].seen /\ conn'[e].found = conn[e].found
    BY ZenonT(30), <1>5, <2>1
  <2>5. Finds(e, k)' <=> Finds(e, k)
    BY ZenonT(30), <1>2, <1>d, <2>4 DEF Finds
  <2>6. QED
    BY ZenonT(30), <1>d, <1>8, <2>2, <2>3, <2>4, <2>5 DEF ListOK
<1>11. CacheInv'
  <2> SUFFICES ASSUME NEW d \in Kinds, cache'[d].state = "fresh", NEW k \in Keys \ (Excepted' \cup cache'[d].late)
      PROVE  /\ ToldPut(k)' => k \in cache'[d].keys
             /\ ToldDelete(k)' /\ d # "prefixes" => k \notin cache'[d].keys
    BY ZenonT(30) DEF CacheInv
  <2>1. cache'[d] = EntryAfter(cache[d], d, conn[c].keys, conn[c].op) /\ cache[d] \in Entries
    BY ZenonT(30) DEF UpdateCache, Types
  <2>2. conn[c].op # "delete" /\ cache'[d] = [cache[d] EXCEPT !.keys = @ \cup conn[c].keys]
    BY <2>1 DEF EntryAfter, NoEntry
  <2>3. cache[d].state = "fresh" /\ cache'[d].late = cache[d].late /\ cache'[d].keys = cache[d].keys \cup conn[c].keys
    BY ZenonT(30), <2>1, <2>2 DEF Entries
  <2>4. CASE k \in conn[c].keys
    BY ZenonT(30), <1>2, <1>9, <2>2, <2>3, <2>4 DEF Excepted
  <2>5. CASE k \notin conn[c].keys
    BY ZenonT(30), <1>2, <1>8, <2>3, <2>5 DEF DataInv, CacheInv
  <2>6. QED
    BY ZenonT(30), <2>4, <2>5
<1>12. QED
  BY ZenonT(30), <1>6, <1>7, <1>10, <1>11 DEF DataInv

\* A step of a listing: the other threads and the data stay, and the listing has
\* what it should have.
LEMMA DataListing ==
  ASSUME Types, ThreadInv, DataInv, NEW c \in Conns, Others(c), conn[c].op = "list", conn'[c].op = "list",
         UNCHANGED <<store, hidden, back, queue, want, disturbed, revived, cache>>,
         \A k \in Keys \ (Excepted \cup conn'[c].late) :
           /\ ToldPut(k) => k \notin conn'[c].seen /\ Finds(c, k)'
           /\ ToldDelete(k) /\ conn'[c].kind # "prefixes" =>
                (k \in conn'[c].seen \/ NoTrace(k)) /\ k \notin conn'[c].found
  PROVE  DataInv'
<1>1. \A e \in Conns \ {c} : Inert(e)
  BY ZenonT(30), OthersInert
<1>2. ~Mutates(c) /\ ~Mutates(c)'
  BY ZenonT(30) DEF Mutates
<1>a. Settled
  BY ZenonT(30), DataStays
<1>b. Excepted' = Excepted
  BY ZenonT(30) DEF Excepted
<1>3. ChangeInv'
  BY ZenonT(30), <1>1, <1>2, <1>a, ChangeFrame DEF DataInv, Apart
<1>4. AckedStands'
  BY ZenonT(30), <1>a DEF DataInv, AckedStands, Settled, Same, Excepted
<1>5. ASSUME NEW k \in Keys PROVE (ToldPut(k)' => ToldPut(k)) /\ (ToldDelete(k)' => ToldDelete(k))
  BY ZenonT(30), <1>1, <1>2, ToldFrame DEF Apart
<1>6. ListInv'
  <2> SUFFICES ASSUME NEW e \in Conns, Lists(e)', NEW k \in Keys \ (Excepted' \cup conn'[e].late)
      PROVE  ListOK(e, k)'
    BY ZenonT(30) DEF ListInv
  <2>1. CASE e = c
    <3>1. NoTrace(k)' <=> NoTrace(k)
      BY ZenonT(30) DEF NoTrace
    <3>2. QED
      BY ZenonT(30), <1>5, <1>b, <2>1, <3>1 DEF ListOK
  <2>2. CASE e # c
    BY ZenonT(30), <1>1, <1>5, <1>a, <2>2, ListFrame
  <2>3. QED
    BY ZenonT(30), <2>1, <2>2
<1>7. CacheInv'
  BY ZenonT(30), <1>5, <1>b DEF DataInv, CacheInv
<1>8. QED
  BY ZenonT(30), <1>3, <1>4, <1>6, <1>7 DEF DataInv

\* An answer that reaches the host tells it what is so.
LEMMA DataRespond ==
  ASSUME Types, ThreadInv, DataInv, NEW c \in Conns, Respond(c)
  PROVE  DataInv'
<1>1. conn[c] \in Threads /\ conn[c].pc = "respond"
  BY ZenonT(30) DEF Types, Respond
<1>2. UNCHANGED <<store, hidden, back, queue, disturbed, revived, cache>> /\ Excepted' = Excepted
  BY ZenonT(30) DEF Respond, data, Excepted
<1>a. \A k : /\ Visible(k)' = Visible(k) /\ (NoTrace(k)' <=> NoTrace(k))
             /\ Archived(k)' <=> Archived(k)
  BY ZenonT(30), <1>2 DEF Visible, NoTrace, Archived
<1>3. conn'[c].op = "bad" /\ \A e \in Conns \ {c} : conn'[e] = conn[e]
  BY ZenonT(30) DEF Respond, Types, Free
<1>4. ASSUME NEW k \in Keys
      PROVE  \/ want'[k] = want[k]
             \/ /\ Mutates(c) /\ conn[c].ok /\ k \in conn[c].keys
                /\ want'[k] = IF conn[c].op = "put" THEN conn[c].gen ELSE 0
  BY ZenonT(30) DEF Respond, Types
<1>5. ASSUME NEW e \in Conns \ {c}, Mutates(e), NEW k \in conn[e].keys \ disturbed PROVE want'[k] = Unknown
  <2>1. k \in Keys /\ want[k] = Unknown
    BY ZenonT(30), <1>5 DEF Types, Threads, DataInv, ChangeInv
  <2>2. Mutates(c) => k \notin conn[c].keys
    BY ZenonT(30), <1>5 DEF DataInv, ChangeInv
  <2>3. QED
    BY ZenonT(30), <1>4, <2>1, <2>2
<1>6. ChangeInv'
  <2>1. ~Mutates(c)'
    BY ZenonT(30), <1>3 DEF Mutates
  <2>2. \A e \in Conns \ {c} : (Mutates(e)' <=> Mutates(e)) /\ \A k : Outcome(e, k)' <=> Outcome(e, k)
    BY ZenonT(30), <1>a, <1>3 DEF Mutates, Outcome
  <2>3. QED
    BY ZenonT(30), <1>2, <1>3, <1>5, <2>1, <2>2 DEF DataInv, ChangeInv
<1>7. AckedStands'
  <2> SUFFICES ASSUME NEW k \in Keys \ Excepted, want'[k] # Unknown PROVE want'[k] = Visible(k)
    BY ZenonT(30), <1>2, <1>a DEF AckedStands, Excepted
  <2>1. CASE want'[k] = want[k]
    BY ZenonT(30), <2>1 DEF DataInv, AckedStands, Excepted
  <2>2. CASE want'[k] # want[k]
    <3>1. /\ Mutates(c) /\ conn[c].ok /\ k \in conn[c].keys
          /\ want'[k] = IF conn[c].op = "put" THEN conn[c].gen ELSE 0
      BY ZenonT(30), <1>4, <2>2
    <3>2. Outcome(c, k)
      BY ZenonT(30), <3>1 DEF DataInv, ChangeInv
    <3>3. QED
      BY ZenonT(30), <3>1, <3>2 DEF Outcome, Mutates
  <2>3. QED
    BY ZenonT(30), <2>1, <2>2
<1>8. ASSUME NEW k \in Keys PROVE (ToldPut(k)' => ToldPut(k)) /\ (ToldDelete(k)' => ToldDelete(k))
  <2>1. \A op \in {"put", "delete"}, e \in Conns : Reports(e, op, k)' => Reports(e, op, k)
    BY ZenonT(30), <1>3 DEF Reports
  <2>2. CASE want'[k] = want[k]
    BY ZenonT(30), <2>1, <2>2 DEF ToldPut, ToldDelete
  <2>3. CASE want'[k] # want[k]
    <3>1. /\ Mutates(c) /\ conn[c].ok /\ k \in conn[c].keys
          /\ want'[k] = IF conn[c].op = "put" THEN conn[c].gen ELSE 0
      BY ZenonT(30), <1>4, <2>3
    <3>2. Reports(c, conn[c].op, k) /\ (conn[c].op = "put" => conn[c].gen > 0 /\ conn[c].gen \in Nat)
      BY ZenonT(30), <1>1, <3>1 DEF Reports, ThreadInv, ThreadOK, Threads
    <3>3. QED
      BY SMTT(20), <2>1, <3>1, <3>2 DEF ToldPut, ToldDelete, Mutates
  <2>4. QED
    BY ZenonT(30), <2>2, <2>3
<1>9. ListInv'
  <2> SUFFICES ASSUME NEW e \in Conns, Lists(e)', NEW k \in Keys \ (Excepted' \cup conn'[e].late)
      PROVE  ListOK(e, k)'
    BY ZenonT(30) DEF ListInv
  <2>1. conn'[e] = conn[e] /\ Lists(e)
    BY ZenonT(30), <1>3 DEF Lists
  <2>2. ListOK(e, k)
    BY ZenonT(30), <1>2, <2>1 DEF DataInv, ListInv
  <2>3. QED
    BY ZenonT(30), <1>2, <1>a, <1>8, <2>1, <2>2 DEF ListOK, Finds
<1>10. CacheInv'
  BY ZenonT(30), <1>2, <1>8 DEF DataInv, CacheInv
<1>11. QED
  BY ZenonT(30), <1>6, <1>7, <1>9, <1>10 DEF DataInv

\* An upload that ends changes nothing a host or a listing sees: the DELETE of a key
\* that is not hidden any more finds the newer PUT in the store.
LEMMA UploadSettled ==
  ASSUME Types, FileInv, NEW u \in Uploaders, UploadLeave(u)
  PROVE  Settled
<1> DEFINE k == up[u].key
           i == up[u].item
<1>1. UNCHANGED <<store, want, disturbed, revived>> /\ up[u].pc = "backend"
  BY ZenonT(30) DEF UploadLeave
<1>2. \/ UNCHANGED <<back, queue, hidden>>
      \/ /\ back' = [back EXCEPT ![k] = IF i.op = "put" THEN i.gen ELSE 0]
         /\ queue' = IF queue[k] = i THEN [queue EXCEPT ![k] = NoItem] ELSE queue
         /\ hidden' = IF queue[k] = i /\ i.op = "delete" /\ store[k] = 0 THEN hidden \ {k} ELSE hidden
  BY ZenonT(30) DEF UploadLeave
<1>3. k \in Keys /\ i.op \in {"none", "put", "delete"} /\ Uploading(u, k)
  BY ZenonT(30), <1>1 DEF Types, Uploads, Items, Uploading
<1>4. /\ queue[k] # NoItem /\ (store[k] = 0 => queue[k].op # "put" /\ i.op # "put")
      /\ queue[k].op = "delete" => k \in hidden
      /\ queue[k].op = "none" => queue[k] = NoItem
  BY ZenonT(30), <1>3 DEF FileInv, KeyOK
<1>5. queue[k].op \in {"put", "delete"}
  BY ZenonT(30), <1>3, <1>4 DEF Types, Items
<1> HIDE DEF k, i
<1>6. CASE UNCHANGED <<back, queue, hidden>>
  BY ZenonT(30), <1>1, <1>6, DataStays
<1>7. ASSUME ~UNCHANGED <<back, queue, hidden>>, NEW x \in Keys PROVE Same(x)
  <2>1. /\ back' = [back EXCEPT ![k] = IF i.op = "put" THEN i.gen ELSE 0]
        /\ queue' = IF queue[k] = i THEN [queue EXCEPT ![k] = NoItem] ELSE queue
        /\ hidden' = IF queue[k] = i /\ i.op = "delete" /\ store[k] = 0 THEN hidden \ {k} ELSE hidden
    BY ZenonT(30), <1>2, <1>7
  <2>2. CASE x # k
    <3>1. back'[x] = back[x] /\ queue'[x] = queue[x] /\ (x \in hidden' <=> x \in hidden)
      BY ZenonT(30), <2>1, <2>2 DEF Types
    <3>2. QED
      BY ZenonT(30), <1>1, <3>1 DEF Same, Visible, NoTrace, Archived
  <2>3. CASE x = k
    <3>1. back'[k] = IF i.op = "put" THEN i.gen ELSE 0
      BY ZenonT(30), <1>3, <2>1 DEF Types
    <3>2. CASE store[k] # 0
      <4>1. hidden' = hidden
        BY ZenonT(30), <2>1, <3>2
      <4>2. QED
        BY ZenonT(30), <1>1, <1>4, <2>3, <3>2, <4>1 DEF Same, Visible, NoTrace, Archived
    <3>3. CASE store[k] = 0
      <4>1. k \in hidden /\ back'[k] = 0
        BY ZenonT(30), <1>4, <1>5, <3>1, <3>3
      <4>2. QED
        BY ZenonT(30), <1>1, <1>4, <2>3, <3>3, <4>1 DEF Same, Visible, NoTrace, Archived
    <3>4. QED
      BY ZenonT(30), <3>2, <3>3
  <2>4. QED
    BY ZenonT(30), <2>2, <2>3
<1>8. QED
  BY ZenonT(30), <1>1, <1>6, <1>7 DEF Settled

\* A GET that fills the store shows what the backend shows already, unless the key was
\* deleted meanwhile.
LEMMA HydrateSettled ==
  ASSUME Types, FileInv, NEW c \in Conns, Hydrate(c)
  PROVE  Settled
<1>1. UNCHANGED <<hidden, back, queue, want, disturbed>> /\ conn[c].pc = "hydrate"
      /\ conn[c].keys \subseteq Keys
  BY ZenonT(30) DEF Hydrate, Types, Threads
<1>2. CASE UNCHANGED <<store, revived>>
  BY ZenonT(30), <1>1, <1>2, DataStays
<1>3. ASSUME NEW k \in conn[c].keys, store[k] = 0, conn[c].read # 0,
             store' = [store EXCEPT ![k] = conn[c].read],
             revived' = IF k \in hidden \/ back[k] # 0 THEN revived ELSE revived \cup {k}
      PROVE  Settled
  <2>1. k \in Keys /\ store'[k] = conn[c].read /\ \A x \in Keys \ {k} : store'[x] = store[x]
    BY ZenonT(30), <1>1, <1>3 DEF Types
  <2>2. back[k] # 0 => conn[c].read = back[k]
    BY ZenonT(30), <1>1, <1>3 DEF FileInv, ReadOK
  <2>3. ASSUME NEW x \in Keys \ Excepted' PROVE Same(x)
    <3>1. CASE x # k
      <4>1. store'[x] = store[x]
        BY ZenonT(30), <2>1, <3>1
      <4>2. QED
        BY ZenonT(30), <1>1, <4>1 DEF Same, Visible, NoTrace, Archived
    <3>2. CASE x = k
      <4>1. k \in hidden \/ back[k] # 0
        BY ZenonT(30), <1>3, <2>3, <3>2 DEF Excepted
      <4>2. QED
        BY ZenonT(30), <1>1, <1>3, <2>1, <2>2, <3>2, <4>1 DEF Same, Visible, NoTrace, Archived
    <3>3. QED
      BY ZenonT(30), <3>1, <3>2
  <2>4. revived \subseteq revived'
    BY ZenonT(30), <1>3
  <2>5. QED
    BY ZenonT(30), <1>1, <2>3, <2>4 DEF Settled
<1>4. QED
  BY ZenonT(30), <1>2, <1>3 DEF Hydrate

\* The local GC removes what was hidden, and nothing shows through.
LEMMA GcSettled ==
  ASSUME Types, FileInv, NEW k \in Keys, LocalGc(k)
  PROVE  Settled
<1>1. /\ UNCHANGED <<back, queue, want, disturbed, revived>> /\ k \in hidden /\ queue[k] = NoItem
      /\ store' = [store EXCEPT ![k] = 0] /\ hidden' = hidden \ {k}
  BY ZenonT(30) DEF LocalGc, ghosts
<1>2. back[k] = 0 /\ store'[k] = 0 /\ \A x \in Keys \ {k} : store'[x] = store[x]
  BY ZenonT(30), <1>1 DEF FileInv, KeyOK, Types
<1>3. ASSUME NEW x \in Keys PROVE Same(x)
  <2>1. CASE x # k
    <3>1. store'[x] = store[x] /\ (x \in hidden' <=> x \in hidden)
      BY ZenonT(30), <1>1, <1>2, <2>1
    <3>2. QED
      BY ZenonT(30), <1>1, <3>1 DEF Same, Visible, NoTrace, Archived
  <2>2. CASE x = k
    BY ZenonT(30), <1>1, <1>2, <2>2 DEF Same, Visible, NoTrace, Archived
  <2>3. QED
    BY ZenonT(30), <2>1, <2>2
<1>4. QED
  BY ZenonT(30), <1>1, <1>3 DEF Settled

\* Every step keeps what the host was told true, and the listings current.
LEMMA DataStep == Types /\ ThreadInv /\ FileInv /\ DataInv /\ Next => DataInv'
<1> SUFFICES ASSUME Types, ThreadInv, FileInv, DataInv, Next PROVE DataInv'
  BY ZenonT(30)
<1> USE DEF data, ghosts
<1>a. \A c \in Conns : conn[c] \in Threads /\ ThreadOK(conn[c])
  BY ZenonT(30) DEF Types, ThreadInv
<1>b. \A k \in Keys \ Excepted : /\ ToldPut(k) => k \notin hidden /\ (store[k] # 0 \/ back[k] # 0)
                                 /\ ToldDelete(k) => k \in hidden \/ NoTrace(k)
  BY ZenonT(30), ToldIsSo
<1>d. UNCHANGED <<store, hidden, back, queue, want, disturbed, revived>> => Settled
  BY ZenonT(30), DataStays
<1>c. \A d \in Kinds : cache[d] \in Entries
  BY ZenonT(30) DEF Types
<1>1. ASSUME NEW c \in Conns, Send(c) PROVE DataInv'
  BY ZenonT(30), <1>1, DataSend
<1>2. ASSUME NEW c \in Conns, ClientTimeout(c) PROVE DataInv'
  <2>1. conn' = [conn EXCEPT ![c] = [conn[c] EXCEPT !.client = FALSE]]
    BY ZenonT(30), <1>2 DEF ClientTimeout
  <2>2. Others(c) /\ conn'[c] = [conn[c] EXCEPT !.client = FALSE]
    BY ZenonT(30), <2>1 DEF Others, Types
  <2>3. Inert(c)
    BY ZenonT(30), <1>a, <2>2 DEF Inert, Threads
  <2>4. QED
    BY ZenonT(30), <1>2, <2>2, <2>3, <1>d, DataOne DEF ClientTimeout
<1>3. ASSUME NEW c \in Conns, NEW pc \in Stages, Goto(c, pc),
             UNCHANGED <<store, hidden, back, queue, want, disturbed, revived, cache>>,
             pc = "respond" => conn[c].pc \in {"admitted", "framed"},
             pc \in Listing => pc \in AtGate /\ conn[c].pc \in AtGate
      PROVE  DataInv'
  <2>1. /\ Others(c) /\ conn'[c].pc = pc
        /\ \A f \in {"op", "keys", "gen", "kind", "seen", "found", "late", "ok"} : conn'[c][f] = conn[c][f]
    <3>1. /\ Others(c) /\ conn'[c].pc = pc
          /\ \A f \in {"op", "keys", "gen", "size", "read", "kind", "seen", "found", "late", "frame",
                       "client", "ok"} : conn'[c][f] = conn[c][f]
      BY ZenonT(30), <1>3, Gone
    <3>2. QED
      BY ZenonT(30), <3>1
  <2>2. conn[c].pc \in {"admitted", "framed"} /\ Mutates(c) => ~conn[c].ok
    BY ZenonT(30), <1>a DEF ThreadOK, Mutates
  <2>3. Inert(c)
    <3>1. conn'[c].pc = "respond" /\ Mutates(c) => ~conn'[c].ok
      BY ZenonT(30), <1>3, <2>1, <2>2
    <3>2. AtGate \subseteq Listing
      BY ZenonT(30) DEF AtGate, Listing
    <3>3. pc \in Listing => conn[c].pc \in Listing /\ {conn'[c].pc, conn[c].pc} \subseteq AtGate
      BY ZenonT(30), <1>3, <2>1, <3>2
    <3>4. QED
      BY ZenonT(30), <2>1, <3>1, <3>3 DEF Inert
  <2>4. QED
    BY ZenonT(30), <1>3, <2>1, <2>3, <1>d, DataOne
<1>4. ASSUME NEW c \in Conns, Accept(c) PROVE DataInv'
  BY ZenonT(30), <1>3, <1>4 DEF Accept, Stages, Listing, AtGate
<1>5. ASSUME NEW c \in Conns, ReadFrameFails(c) \/ Reject(c) PROVE DataInv'
  BY ZenonT(30), <1>3, <1>5 DEF ReadFrameFails, Reject, Stages, Listing, AtGate
<1>6. ASSUME NEW c \in Conns, Enter(c) PROVE DataInv'
  <2>1. conn[c].pc \in {"acquire", "woken"} /\ UNCHANGED <<store, hidden, back, queue, want, disturbed, revived, cache>>
    BY ZenonT(30), <1>6 DEF Enter
  <2>2. PICK pc \in {"wait", "backend"} : Goto(c, pc)
    BY ZenonT(30), <1>6 DEF Enter
  <2>3. QED
    BY ZenonT(30), <1>3, <2>1, <2>2 DEF Stages, AtGate
<1>7. ASSUME NEW c \in Conns, Refuse(c) \/ Close(c) PROVE DataInv'
  <2>1. conn' = [conn EXCEPT ![c] = Free] /\ UNCHANGED <<store, hidden, back, queue, want, disturbed, revived, cache>>
    BY ZenonT(30), <1>7 DEF Refuse, Close
  <2>2. Others(c) /\ Inert(c)
    BY ZenonT(30), <2>1 DEF Others, Types, Inert, Free
  <2>3. QED
    BY ZenonT(30), <2>1, <2>2, <1>d, DataOne
<1>8. ASSUME NEW c \in Conns, ReadFrame(c) PROVE DataInv'
  <2>1. /\ conn' = [conn EXCEPT ![c] = [conn[c] EXCEPT !.pc = "framed", !.frame = TRUE]]
        /\ UNCHANGED <<store, hidden, back, queue, want, disturbed, revived, cache>>
    BY ZenonT(30), <1>8 DEF ReadFrame
  <2>2. Others(c) /\ conn'[c] = [conn[c] EXCEPT !.pc = "framed", !.frame = TRUE]
    BY ZenonT(30), <2>1 DEF Others, Types
  <2>3. Inert(c)
    BY ZenonT(30), <1>a, <2>2 DEF Inert, Threads, Listing
  <2>4. QED
    BY ZenonT(30), <2>1, <2>2, <2>3, <1>d, DataOne
<1>9. ASSUME NEW c \in Conns, Dispatch(c) PROVE DataInv'
  <2>1. /\ conn' = [conn EXCEPT ![c].pc = Route(c),
                      ![c].ok = conn[c].op \in {"capabilities", "get"} \/ Cached(c)]
        /\ UNCHANGED <<store, hidden, back, queue, want, disturbed, revived>> /\ conn[c].pc = "framed" /\ conn[c].op # "bad"
    BY ZenonT(30), <1>9 DEF Dispatch
  <2>2. \A d \in Kinds : cache'[d] = cache[d] \/ cache'[d].state # "fresh"
    BY ZenonT(30), <1>9 DEF Dispatch, NoEntry, Types
  <2>3. /\ Others(c) /\ conn'[c].pc = Route(c) /\ conn'[c].op = conn[c].op
        /\ conn'[c].keys = conn[c].keys /\ conn'[c].gen = conn[c].gen
    BY ZenonT(30), <1>a, <2>1 DEF Others, Types, Threads
  <2>4. conn'[c].ok <=> (conn[c].op \in {"capabilities", "get"} \/ Cached(c))
    BY ZenonT(30), <1>a, <2>1 DEF Types, Threads
  <2>5. (Mutates(c) => ~conn'[c].ok) /\ (conn[c].op = "list" => Route(c) \notin Listing)
    BY ZenonT(30), <2>4 DEF Mutates, Cached, Route, Listing
  <2>6. Inert(c)
    BY ZenonT(30), <2>3, <2>5 DEF Inert
  <2>7. QED
    BY ZenonT(30), <2>1, <2>2, <2>3, <2>6, <1>d, DataOne
<1>10. ASSUME NEW c \in Conns, Apply(c) PROVE DataInv'
  BY ZenonT(30), <1>10, DataApplied DEF Apply
<1>11. ASSUME NEW c \in Conns, ApplyFails(c) PROVE DataInv'
  <2>1. PICK K \in SUBSET conn[c].keys : Applied(c, K, FALSE)
    BY ZenonT(30), <1>11 DEF ApplyFails
  <2>2. QED
    BY ZenonT(30), <1>11, <2>1, DataApplied DEF ApplyFails
<1>12. ASSUME NEW c \in Conns, UpdateCache(c) PROVE DataInv'
  BY ZenonT(30), <1>12, DataUpdateCache
<1>13. ASSUME NEW c \in Conns, ListHidden(c) PROVE DataInv'
  <2> DEFINE pc == IF conn[c].kind = "sizes" THEN "acquire" ELSE "liststore"
             seen == IF conn[c].kind = "prefixes" THEN {} ELSE hidden
  <2>1. /\ conn' = [conn EXCEPT ![c] = [conn[c] EXCEPT !.pc = pc, !.seen = seen, !.late = {}]]
        /\ UNCHANGED <<store, hidden, back, queue, want, disturbed, revived, cache>> /\ conn[c].op = "list" /\ conn[c].found = {}
    BY ZenonT(30), <1>13, <1>a DEF ListHidden, ThreadOK
  <2>2. /\ Others(c) /\ conn'[c].pc = pc /\ conn'[c].seen = seen /\ conn'[c].late = {}
        /\ conn'[c].op = "list" /\ conn'[c].kind = conn[c].kind /\ conn'[c].found = {}
    BY ZenonT(30), <1>a, <2>1 DEF Others, Types, Threads
  <2>3. \A k \in Keys : Finds(c, k)'
    <3>1. CASE conn[c].kind = "sizes"
      BY ZenonT(30), <2>2, <3>1 DEF Finds, AtGate
    <3>2. CASE conn[c].kind # "sizes"
      BY ZenonT(30), <2>2, <3>2 DEF Finds
    <3>3. QED
      BY ZenonT(30), <3>1, <3>2
  <2>4. \A k \in Keys \ Excepted :
          /\ ToldPut(k) => k \notin conn'[c].seen
          /\ ToldDelete(k) /\ conn'[c].kind # "prefixes" => k \in conn'[c].seen \/ NoTrace(k)
    BY ZenonT(30), <1>b, <2>2
  <2>5. QED
    BY ZenonT(30), <2>1, <2>2, <2>3, <2>4, DataListing
<1>14. ASSUME NEW c \in Conns, ListStore(c) PROVE DataInv'
  <2> DEFINE pc == IF conn[c].kind = "sizes" THEN "listed" ELSE "acquire"
             found == conn[c].found \cup (Stored \ conn[c].seen)
  <2>1. /\ conn' = [conn EXCEPT ![c] = [conn[c] EXCEPT !.pc = pc, !.found = found]]
        /\ UNCHANGED <<store, hidden, back, queue, want, disturbed, revived, cache>> /\ Lists(c)
    BY ZenonT(30), <1>14, <1>a DEF ListStore, ThreadOK, Lists, Listing
  <2> HIDE DEF pc, found
  <2>a. Others(c) /\ conn'[c] = [conn[c] EXCEPT !.pc = pc, !.found = found]
    BY ZenonT(30), <2>1 DEF Others, Types
  <2>2. /\ Others(c) /\ conn'[c].seen = conn[c].seen /\ conn'[c].late = conn[c].late
        /\ conn'[c].op = "list" /\ conn'[c].kind = conn[c].kind /\ conn'[c].found = found
    <3>1. conn[c] \in Threads /\ conn[c].op = "list"
      BY ZenonT(30), <1>a, <2>1 DEF Lists
    <3>2. conn'[c].seen = conn[c].seen /\ conn'[c].late = conn[c].late
      BY ZenonT(30), <3>1, <2>a DEF Threads
    <3>3. conn'[c].op = conn[c].op /\ conn'[c].kind = conn[c].kind
      BY ZenonT(30), <3>1, <2>a DEF Threads
    <3>4. conn'[c].found = found
      BY ZenonT(30), <3>1, <2>a DEF Threads
    <3>5. QED
      BY ZenonT(30), <2>a, <3>1, <3>2, <3>3, <3>4
  <2>3. conn'[c].pc = pc /\ conn[c].pc = "liststore"
    <3>1. conn'[c].pc = pc
      BY ZenonT(30), <1>a, <2>a DEF Threads
    <3>2. conn[c].pc = "liststore"
      BY ZenonT(30), <1>14 DEF ListStore
    <3>3. QED
      BY ZenonT(30), <3>1, <3>2
  <2>4. ASSUME NEW k \in Keys \ (Excepted \cup conn[c].late)
        PROVE  /\ ToldPut(k) => k \notin conn[c].seen /\ Finds(c, k)'
               /\ ToldDelete(k) /\ conn[c].kind # "prefixes" =>
                    (k \in conn[c].seen \/ NoTrace(k)) /\ k \notin found
    <3>1. ListOK(c, k)
      BY ZenonT(30), <2>1, <2>4 DEF DataInv, ListInv
    <3>2. ASSUME ToldPut(k) PROVE Finds(c, k)'
      <4>1. /\ k \notin conn[c].seen /\ Finds(c, k) /\ k \notin hidden
            /\ store[k] # 0 \/ back[k] # 0
        <5>1. k \notin conn[c].seen /\ Finds(c, k)
          BY ZenonT(30), <3>1, <3>2 DEF ListOK
        <5>2. k \in Keys \ Excepted
          BY ZenonT(30), <2>4
        <5>3. QED
          BY ZenonT(30), <1>b, <3>2, <5>1, <5>2
      <4>2. CASE store[k] # 0
        <5>1. k \in found
          BY ZenonT(30), <4>1, <4>2 DEF Stored, found
        <5>2. QED
          BY ZenonT(30), <2>2, <5>1 DEF Finds
      <4>3. CASE store[k] = 0
        <5>1. Archived(k)
          <6>1. queue[k].op \in {"none", "put", "delete"}
            BY ZenonT(30) DEF Types, Items
          <6>2. QED
            BY ZenonT(30), <4>1, <4>3, <6>1 DEF FileInv, KeyOK, Archived
        <5>2. Archived(k)'
          BY ZenonT(30), <2>1, <5>1 DEF Archived
        <5>3. conn[c].kind = "sizes" => k \in conn[c].found
          BY ZenonT(30), <2>3, <4>1, <4>3 DEF Finds, AtGate
        <5>4. QED
          BY ZenonT(30), <2>2, <2>3, <5>2, <5>3 DEF Finds, AtGate, pc, found
      <4>4. QED
        BY ZenonT(30), <4>2, <4>3
    <3>3. QED
      BY ZenonT(30), <3>1, <3>2 DEF ListOK, NoTrace, Stored, found
  <2>5. QED
    BY ZenonT(30), <2>1, <2>2, <2>4, DataListing DEF Lists
<1>15. ASSUME NEW c \in Conns, Leave(c) PROVE DataInv'
  <2>1. PICK ok \in BOOLEAN : Wake([conn EXCEPT ![c] = Answered(c, ok)], up)
    BY ZenonT(30), <1>15 DEF Leave
  <2>2. conn[c].pc = "backend" /\ UNCHANGED <<store, hidden, back, queue, want, disturbed, revived, cache>>
    BY ZenonT(30), <1>15 DEF Leave
  <2> DEFINE r == Answered(c, ok)
             pool == [conn EXCEPT ![c] = r]
  <2>3. /\ r.pc \in {"respond", "hydrate", "liststore", "listed"} /\ r.pc # "wait" /\ r.op = conn[c].op
        /\ r.kind = conn[c].kind /\ r.keys = conn[c].keys /\ r.gen = conn[c].gen
        /\ r.seen = conn[c].seen
    BY ZenonT(30), <1>a, <2>2, AnsweredThread DEF Types
  <2>4. conn[c].op = "list" =>
          /\ r.found = IF ok THEN conn[c].found \cup (Uploaded \ conn[c].seen) ELSE conn[c].found
          /\ r.late = IF ok THEN conn[c].late ELSE conn[c].late \cup Missed(c)
          /\ r.pc = IF conn[c].kind = "sizes" THEN "liststore" ELSE "listed"
    BY ZenonT(30), <1>a DEF Answered, Threads
  <2>5. pool[c] = r /\ (\A e \in Conns \ {c} : pool[e] = conn[e]) /\ Wake(pool, up)
    BY ZenonT(30), <2>1 DEF Types
  <2> HIDE DEF r, pool
  <2>6. conn'[c] = r /\ Others(c)
    <3>1. \A e \in Conns : conn'[e] = IF pool[e].pc = "wait"
                                      THEN [pool[e] EXCEPT !.pc = "woken"] ELSE pool[e]
      BY ZenonT(30), <2>5, Woken
    <3>2. QED
      BY ZenonT(30), <2>3, <2>5, <3>1 DEF Others
  <2>7. CASE conn[c].op = "get"
    <3>1. Inert(c)
      BY ZenonT(30), <2>3, <2>6, <2>7 DEF Inert, Mutates
    <3>2. QED
      BY ZenonT(30), <2>2, <2>6, <3>1, <1>d, DataOne
  <2>8. CASE conn[c].op = "list"
    <3>1. Lists(c)
      BY ZenonT(30), <2>2, <2>8 DEF Lists, Listing
    <3>2. ASSUME NEW k \in Keys \ (Excepted \cup r.late)
          PROVE  /\ ToldPut(k) => k \notin conn[c].seen /\ Finds(c, k)'
                 /\ ToldDelete(k) /\ conn[c].kind # "prefixes" =>
                      (k \in conn[c].seen \/ NoTrace(k)) /\ k \notin r.found
      <4>1. k \notin conn[c].late
        BY ZenonT(30), <2>4, <2>8, <3>2
      <4>2. ListOK(c, k)
        BY ZenonT(30), <3>1, <3>2, <4>1 DEF DataInv, ListInv
      <4>3. ASSUME ToldPut(k) PROVE Finds(c, k)'
        <5>1. /\ k \notin conn[c].seen /\ Finds(c, k)
              /\ store[k] # 0 \/ back[k] # 0
          <6>1. k \notin conn[c].seen /\ Finds(c, k)
            BY ZenonT(30), <4>2, <4>3 DEF ListOK
          <6>2. k \in Keys \ Excepted
            BY ZenonT(30), <3>2
          <6>3. QED
            BY ZenonT(30), <1>b, <4>3, <6>1, <6>2
        <5>2. CASE conn[c].kind = "sizes"
          <6>1. k \in r.found \/ store[k] # 0
            BY ZenonT(30), <2>4, <2>8, <3>2, <5>1, <5>2 DEF Uploaded, Missed, Stored
          <6>2. QED
            BY ZenonT(30), <2>2, <2>3, <2>4, <2>6, <2>8, <5>2, <6>1 DEF Finds
        <5>3. CASE conn[c].kind # "sizes"
          <6>1. k \in conn[c].found \/ back[k] # 0
            BY ZenonT(30), <2>2, <5>1, <5>3 DEF Finds, Archived
          <6>2. k \in r.found
            BY ZenonT(30), <2>4, <2>8, <3>2, <5>1, <5>3, <6>1 DEF Uploaded, Missed
          <6>3. QED
            BY ZenonT(30), <2>6, <6>2 DEF Finds
        <5>4. QED
          BY ZenonT(30), <5>2, <5>3
      <4>4. NoTrace(k) => k \notin Uploaded
        BY ZenonT(30) DEF NoTrace, Uploaded
      <4>5. QED
        BY ZenonT(30), <2>4, <2>8, <4>2, <4>3, <4>4 DEF ListOK
    <3>3. QED
      BY ZenonT(30), <2>2, <2>3, <2>6, <2>8, <3>2, DataListing
  <2>9. QED
    BY ZenonT(30), <1>a, <2>2, <2>7, <2>8 DEF ThreadOK
<1>16. ASSUME NEW c \in Conns, ListDone(c) PROVE DataInv'
  <2>1. /\ conn' = [conn EXCEPT ![c] = [conn[c] EXCEPT !.pc = "respond", !.ok = TRUE, !.seen = {},
                                         !.found = {}, !.late = {}]]
        /\ UNCHANGED <<store, hidden, back, queue, want, disturbed, revived>> /\ conn[c].pc = "listed" /\ conn[c].op = "list"
    BY ZenonT(30), <1>16, <1>a DEF ListDone, ThreadOK
  <2>2. Others(c) /\ conn'[c].pc = "respond" /\ conn'[c].op = conn[c].op
        /\ conn'[c].keys = conn[c].keys /\ conn'[c].gen = conn[c].gen
    BY ZenonT(30), <1>a, <2>1 DEF Others, Types, Threads
  <2>3. Inert(c)
    BY ZenonT(30), <2>1, <2>2 DEF Inert, Mutates, Listing
  <2>4. \A e \in Conns : Inert(e)
    BY ZenonT(30), <2>2, <2>3, OthersInert
  <2> DEFINE m == conn[c].kind
             new == [keys |-> conn[c].found, late |-> conn[c].late, state |-> "fresh"]
  <2>5. cache'[m] = new /\ \A d \in Kinds \ {m} : cache'[d] = cache[d]
    BY ZenonT(30), <1>16, <1>a DEF ListDone, Types, Threads
  <2>6. \A k \in Keys : (ToldPut(k)' => ToldPut(k)) /\ (ToldDelete(k)' => ToldDelete(k))
    BY ZenonT(30), <2>1, <2>4, ToldFrame
  <2>7. Lists(c) /\ \A k \in Keys : Finds(c, k) => k \in conn[c].found
    BY ZenonT(30), <2>1 DEF Lists, Listing, Finds, AtGate
  <2>a. Excepted' = Excepted /\ Settled
    BY ZenonT(30), <1>d, <2>1 DEF Excepted
  <2>8. CacheInv'
    <3> SUFFICES ASSUME NEW d \in Kinds, cache'[d].state = "fresh",
                        NEW k \in Keys \ (Excepted' \cup cache'[d].late)
        PROVE  /\ ToldPut(k)' => k \in cache'[d].keys
               /\ ToldDelete(k)' /\ d # "prefixes" => k \notin cache'[d].keys
      BY ZenonT(30) DEF CacheInv
    <3>1. CASE d = m
      <4>1. cache'[d].keys = conn[c].found /\ cache'[d].late = conn[c].late
        BY <2>5, <3>1
      <4>2. ListOK(c, k)
        BY ZenonT(30), <2>7, <2>a, <4>1 DEF DataInv, ListInv
      <4>3. QED
        BY ZenonT(30), <2>6, <2>7, <3>1, <4>1, <4>2 DEF ListOK
    <3>2. CASE d # m
      BY ZenonT(30), <2>a, <2>5, <2>6, <3>2 DEF DataInv, CacheInv
    <3>3. QED
      BY ZenonT(30), <3>1, <3>2
  <2>9. ChangeInv'
    BY ZenonT(30), <2>4, <2>a, ChangeFrame DEF DataInv
  <2>10. AckedStands'
    BY ZenonT(30), <2>1, <2>a DEF DataInv, AckedStands, Settled, Same, Excepted
  <2>11. ListInv'
    <3> SUFFICES ASSUME NEW e \in Conns, Lists(e)', NEW k \in Keys \ (Excepted' \cup conn'[e].late)
        PROVE  ListOK(e, k)'
      BY ZenonT(30) DEF ListInv
    <3>1. QED
      BY ZenonT(30), <2>4, <2>6, <2>a, ListFrame
  <2>12. QED
    BY ZenonT(30), <2>8, <2>9, <2>10, <2>11 DEF DataInv
<1>17. ASSUME NEW u \in Uploaders, UploadTake(u) \/ UploadEnter(u) PROVE DataInv'
  <2>1. UNCHANGED <<conn, store, hidden, back, queue, want, disturbed, revived, cache>>
    BY ZenonT(30), <1>17 DEF UploadTake, UploadEnter
  <2>2. \A e \in Conns : Inert(e)
    BY ZenonT(30), <2>1 DEF Inert, AtGate, Listing
  <2>3. QED
    BY ZenonT(30), <2>1, <2>2, <1>d, DataFrame
<1>18. ASSUME NEW u \in Uploaders, UploadLeave(u) PROVE DataInv'
  <2>1. Wake(conn, [up EXCEPT ![u] = Idle]) /\ UNCHANGED cache
    BY ZenonT(30), <1>18 DEF UploadLeave
  <2>2. \A e \in Conns : conn'[e] = IF conn[e].pc = "wait"
                                    THEN [conn[e] EXCEPT !.pc = "woken"] ELSE conn[e]
    BY ZenonT(30), <2>1, Woken
  <2>3. ASSUME NEW e \in Conns PROVE Inert(e)
    <3>1. conn[e] \in Threads
      BY ZenonT(30), <1>a
    <3>2. /\ conn'[e].pc = IF conn[e].pc = "wait" THEN "woken" ELSE conn[e].pc
          /\ \A f \in {"op", "keys", "gen", "kind", "seen", "late", "found", "ok"} : conn'[e][f] = conn[e][f]
      BY ZenonT(30), <2>2, <3>1 DEF Threads
    <3>3. QED
      BY ZenonT(30), <3>2 DEF Inert, Listing, AtGate
  <2>4. Settled
    BY ZenonT(30), <1>18, UploadSettled
  <2>5. QED
    BY ZenonT(30), <2>1, <2>3, <2>4, DataFrame
<1>23. ASSUME NEW c \in Conns, Hydrate(c) PROVE DataInv'
  <2>1. /\ conn' = [conn EXCEPT ![c] = [conn[c] EXCEPT !.pc = "respond", !.read = 0]]
        /\ conn[c].op = "get" /\ UNCHANGED cache
    BY ZenonT(30), <1>23, <1>a DEF Hydrate, ThreadOK
  <2>2. /\ Others(c) /\ conn'[c].op = conn[c].op /\ conn'[c].keys = conn[c].keys
        /\ conn'[c].gen = conn[c].gen
    BY ZenonT(30), <1>a, <2>1 DEF Others, Types, Threads
  <2>3. Inert(c)
    BY ZenonT(30), <2>1, <2>2 DEF Inert, Mutates
  <2>4. Settled
    BY ZenonT(30), <1>23, HydrateSettled
  <2>5. QED
    BY ZenonT(30), <2>1, <2>2, <2>3, <2>4, DataOne
<1>24. ASSUME NEW k \in Keys, LocalGc(k) PROVE DataInv'
  <2>1. UNCHANGED <<conn, cache>>
    BY ZenonT(30), <1>24 DEF LocalGc
  <2>2. \A e \in Conns : Inert(e)
    BY ZenonT(30), <2>1 DEF Inert
  <2>3. Settled
    BY ZenonT(30), <1>24, GcSettled
  <2>4. QED
    BY ZenonT(30), <2>1, <2>2, <2>3, DataFrame
<1>19. ASSUME NEW c \in Conns, Respond(c) PROVE DataInv'
  BY ZenonT(30), <1>19, DataRespond
<1>20. ASSUME NEW d \in Kinds, Expire(d) PROVE DataInv'
  <2>1. UNCHANGED <<conn, store, hidden, back, queue, want, disturbed, revived>>
    BY ZenonT(30), <1>20 DEF Expire
  <2>2. \A e \in Conns : Inert(e)
    BY ZenonT(30), <2>1 DEF Inert, AtGate, Listing
  <2>3. \A g \in Kinds : cache'[g] = cache[g] \/ cache'[g].state # "fresh"
    BY ZenonT(30), <1>20, <1>c DEF Expire, Types, Entries
  <2>4. QED
    BY ZenonT(30), <2>1, <2>2, <2>3, <1>d, DataFrame
<1>21. CASE Restart
  <2>1. UNCHANGED <<store, hidden, back, queue, want, disturbed, revived>>
    BY ZenonT(30), <1>21 DEF Restart
  <2>2. \A e \in Conns : Inert(e)
    BY ZenonT(30), <1>21 DEF Restart, Inert, Free
  <2>3. \A g \in Kinds : cache'[g].state # "fresh"
    BY ZenonT(30), <1>21 DEF Restart, NoEntry
  <2>4. QED
    BY ZenonT(30), <2>1, <2>2, <2>3, <1>d, DataFrame
<1>22. QED
  BY ZenonT(30), <1>1, <1>2, <1>4, <1>5, <1>6, <1>7, <1>8, <1>9, <1>10, <1>11, <1>12, <1>13,
     <1>14, <1>15,
     <1>16, <1>17, <1>18, <1>19, <1>20, <1>21, <1>23, <1>24 DEF Next, Serve, UploadStep

\* What an upload thread holds of a key.
Carries(u) == (up'[u].pc # "idle" => up[u].pc # "idle") /\ up'[u].key = up[u].key /\ up'[u].item = up[u].item
Reads(c) == conn'[c].pc = "hydrate" =>
              conn[c].pc = "hydrate" /\ conn'[c].keys = conn[c].keys /\ conn'[c].read = conn[c].read

\* Steps that leave the data, begin no upload and end no GET.
LEMMA FileFrame ==
  ASSUME FileInv, UNCHANGED <<store, hidden, back, queue>>, \A u \in Uploaders : Carries(u),
         \A c \in Conns : Reads(c)
  PROVE  FileInv'
<1>1. \A u \in Uploaders, k \in Keys : Uploading(u, k)' => Uploading(u, k)
  BY ZenonT(30) DEF Carries, Uploading
<1>2. ASSUME NEW k \in Keys PROVE KeyOK(k)'
  <2>1. KeyOK(k)
    BY ZenonT(30) DEF FileInv
  <2>2. QED
    BY ZenonT(30), <1>1, <2>1 DEF KeyOK, Carries
<1>3. ASSUME NEW c \in Conns PROVE ReadOK(c)'
  BY ZenonT(30) DEF FileInv, ReadOK, Reads
<1>4. QED
  BY ZenonT(30), <1>2, <1>3 DEF FileInv

\* The bytes of a queued PUT are in the store, a tombstone means that the backend has
\* the key no more, and a GET under way holds what the backend has.
LEMMA FileStep == Types /\ ThreadInv /\ FileInv /\ Next => FileInv'
<1> SUFFICES ASSUME Types, ThreadInv, FileInv, Next PROVE FileInv'
  BY ZenonT(30)
<1> USE DEF data
<1>a. \A c \in Conns : conn[c] \in Threads /\ ThreadOK(conn[c])
  BY ZenonT(30) DEF Types, ThreadInv
<1>b. \A k \in Keys : KeyOK(k)
  BY ZenonT(30) DEF FileInv
<1>1. ASSUME UNCHANGED <<store, hidden, back, queue, up>>, \A c \in Conns : Reads(c) PROVE FileInv'
  BY ZenonT(30), <1>1, FileFrame DEF Carries
<1>2. ASSUME NEW c \in Conns, NEW K \in SUBSET conn[c].keys, NEW ok \in BOOLEAN, Applied(c, K, ok),
             conn[c].pc = "lock", UNCHANGED <<back, up>>
      PROVE  FileInv'
  <2>1. conn[c].op \in {"put", "delete"} /\ conn[c].gen > 0 /\ conn[c].gen \in Nat
    BY ZenonT(30), <1>2, <1>a DEF ThreadOK, Threads
  <2>2. \A k \in Keys : /\ store'[k] = IF conn[c].op = "put" /\ k \in K THEN conn[c].gen ELSE store[k]
                        /\ queue'[k] = IF k \in K THEN [op |-> conn[c].op, gen |-> conn[c].gen] ELSE queue[k]
    BY ZenonT(30), <1>2 DEF Applied
  <2>3. hidden' = IF conn[c].op = "put" THEN hidden \ K ELSE hidden \cup K
    BY ZenonT(30), <1>2 DEF Applied, HiddenAfter
  <2>4. conn[c].gen # 0
    BY <2>1
  <2>5. \A u \in Uploaders, k \in Keys : Uploading(u, k)' <=> Uploading(u, k)
    BY ZenonT(30), <1>2 DEF Uploading
  <2>6. ASSUME NEW k \in Keys PROVE KeyOK(k)'
    <3>1. CASE k \in K
      <4>1. queue'[k].op = conn[c].op /\ queue'[k] # NoItem
        BY <2>1, <2>2, <3>1 DEF NoItem
      <4>2. k \in hidden' <=> conn[c].op # "put"
        BY ZenonT(30), <2>3, <3>1
      <4>3. store'[k] = IF conn[c].op = "put" THEN conn[c].gen ELSE store[k]
        BY ZenonT(30), <2>2, <3>1
      <4>4. store'[k] = 0 => conn[c].op = "delete" /\ store[k] = 0
        BY ZenonT(30), <2>1, <2>4, <4>3
      <4>5. store'[k] = 0 => \A u \in Uploaders : Uploading(u, k)' => up'[u].item.op # "put"
        BY ZenonT(30), <1>2, <1>b, <2>5, <4>4 DEF KeyOK
      <4>6. \A u, v \in Uploaders : Uploading(u, k)' /\ Uploading(v, k)' => u = v
        BY ZenonT(30), <1>b, <2>5 DEF KeyOK
      <4>7. conn[c].op = "put" \/ conn[c].op = "delete"
        BY ZenonT(30), <2>1
      <4>8. QED
        BY ZenonT(30), <4>1, <4>2, <4>4, <4>5, <4>6, <4>7 DEF KeyOK
    <3>2. CASE k \notin K
      <4>1. store'[k] = store[k] /\ queue'[k] = queue[k] /\ (k \in hidden' <=> k \in hidden)
        BY ZenonT(30), <2>2, <2>3, <3>2
      <4>2. KeyOK(k)
        BY ZenonT(30), <1>b
      <4>3. QED
        BY ZenonT(30), <1>2, <2>5, <4>1, <4>2 DEF KeyOK
    <3>3. QED
      BY ZenonT(30), <3>1, <3>2
  <2>7. ASSUME NEW e \in Conns PROVE ReadOK(e)'
    <3> SUFFICES ASSUME conn'[e].pc = "hydrate", NEW k \in conn'[e].keys, store'[k] = 0, back[k] # 0
        PROVE  conn'[e].read = back[k]
      BY ZenonT(30), <1>2 DEF ReadOK
    <3>1. conn' = [conn EXCEPT ![c] = [conn[c] EXCEPT !.pc = IF ok THEN "uncached" ELSE "respond", !.ok = ok]]
      BY ZenonT(30), <1>2 DEF Applied
    <3>2. conn'[c].pc # "hydrate"
      BY ZenonT(30), <1>a, <3>1 DEF Types, Threads
    <3>3. conn'[e] = conn[e]
      BY ZenonT(30), <3>1, <3>2 DEF Types
    <3>4. k \in Keys
      BY ZenonT(30), <1>a, <3>3 DEF Threads
    <3>5. store[k] = 0
      BY ZenonT(30), <2>2, <2>4, <3>4
    <3>6. QED
      BY ZenonT(30), <3>3, <3>5 DEF FileInv, ReadOK
  <2>8. QED
    BY ZenonT(30), <2>6, <2>7 DEF FileInv
<1>3. ASSUME NEW c \in Conns, Leave(c) PROVE FileInv'
  <2>1. PICK ok \in BOOLEAN : Wake([conn EXCEPT ![c] = Answered(c, ok)], up)
    BY ZenonT(30), <1>3 DEF Leave
  <2>2. UNCHANGED <<store, hidden, back, queue>>
    BY ZenonT(30), <1>3 DEF Leave
  <2>3. \A u \in Uploaders : up'[u] = IF up[u].pc = "wait"
                                      THEN [up[u] EXCEPT !.pc = "woken"] ELSE up[u]
    BY ZenonT(30), <2>1, Woken
  <2>4. \A u \in Uploaders : Carries(u)
    BY ZenonT(30), <2>3 DEF Types, Uploads, Carries
  <2> DEFINE r == Answered(c, ok)
             pool == [conn EXCEPT ![c] = r]
  <2>5. pool[c] = r /\ (\A e \in Conns \ {c} : pool[e] = conn[e]) /\ Wake(pool, up)
    BY ZenonT(30), <2>1 DEF Types
  <2>6. r.pc # "wait" /\ r.keys = conn[c].keys
    <3>1. conn[c].pc = "backend"
      BY ZenonT(30), <1>3 DEF Leave
    <3>2. QED
      BY ZenonT(30), <1>a, <3>1, AnsweredThread DEF Types
  <2>7. r.pc = "hydrate" => \E k \in Keys : conn[c].keys = {k} /\ r.read = back[k]
    <3> SUFFICES ASSUME r.pc = "hydrate" PROVE \E k \in Keys : conn[c].keys = {k} /\ r.read = back[k]
      BY ZenonT(30)
    <3>1. conn[c].op = "get"
      <4>1. CASE conn[c].op # "get"
        <5>1. r.pc = IF conn[c].kind = "sizes" THEN "liststore" ELSE "listed"
          BY ZenonT(30), <1>a, <4>1 DEF Answered, Threads
        <5>2. QED
          BY ZenonT(30), <5>1
      <4>2. QED
        BY ZenonT(30), <4>1
    <3>2. r.pc = (IF ok THEN "hydrate" ELSE "respond")
          /\ r.read = IF ok THEN back[CHOOSE k \in Keys : k \in conn[c].keys] ELSE 0
      BY ZenonT(30), <1>a, <3>1 DEF Answered, Threads
    <3>3. ok
      BY ZenonT(30), <3>2
    <3>4. PICK k \in Keys : conn[c].keys = {k}
      BY ZenonT(30), <1>a, <3>1 DEF ThreadOK
    <3>5. (CHOOSE x \in Keys : x \in conn[c].keys) = k
      BY ZenonT(30), <3>4
    <3>6. QED
      BY ZenonT(30), <3>2, <3>3, <3>4, <3>5
  <2> HIDE DEF r, pool
  <2>8. \A e \in Conns : conn'[e] = IF pool[e].pc = "wait"
                                    THEN [pool[e] EXCEPT !.pc = "woken"] ELSE pool[e]
    BY ZenonT(30), <2>5, Woken
  <2>9. conn'[c] = r /\ \A e \in Conns \ {c} : Reads(e)
    <3>1. conn'[c] = r
      BY ZenonT(30), <2>5, <2>6, <2>8
    <3>2. ASSUME NEW e \in Conns \ {c} PROVE Reads(e)
      <4>1. conn'[e] = IF conn[e].pc = "wait" THEN [conn[e] EXCEPT !.pc = "woken"] ELSE conn[e]
        BY ZenonT(30), <2>5, <2>8
      <4>2. QED
        BY ZenonT(30), <1>a, <4>1 DEF Reads, Threads
    <3>3. QED
      BY ZenonT(30), <3>1, <3>2
  <2>10. ASSUME NEW k \in Keys PROVE KeyOK(k)'
    <3>1. \A u \in Uploaders : Uploading(u, k)' => Uploading(u, k)
      BY ZenonT(30), <2>4 DEF Carries, Uploading
    <3>2. QED
      BY ZenonT(30), <1>b, <2>2, <2>4, <3>1 DEF KeyOK, Carries
  <2>11. ASSUME NEW e \in Conns PROVE ReadOK(e)'
    <3>1. CASE e = c
      BY ZenonT(30), <2>2, <2>6, <2>7, <2>9, <3>1 DEF ReadOK
    <3>2. CASE e # c
      BY ZenonT(30), <2>2, <2>9, <3>2 DEF FileInv, ReadOK, Reads
    <3>3. QED
      BY ZenonT(30), <3>1, <3>2
  <2>12. QED
    BY ZenonT(30), <2>10, <2>11 DEF FileInv
<1>4. ASSUME NEW u \in Uploaders, UploadTake(u) PROVE FileInv'
  <2>1. UNCHANGED <<conn, store, hidden, back, queue>>
    BY ZenonT(30), <1>4 DEF UploadTake
  <2>2. PICK k \in Keys : /\ queue[k] # NoItem
                          /\ \A v \in Uploaders : up[v].pc # "idle" => up[v].key # k
                          /\ up' = [up EXCEPT ![u] = [pc |-> "acquire", key |-> k, item |-> queue[k]]]
    BY ZenonT(30), <1>4 DEF UploadTake
  <2>3. /\ up'[u].key = k /\ up'[u].item = queue[k]
        /\ \A v \in Uploaders \ {u} : up'[v] = up[v]
    BY ZenonT(30), <2>2 DEF Types
  <2>4. ASSUME NEW x \in Keys PROVE KeyOK(x)'
    <3>1. \A v \in Uploaders \ {u} : Uploading(v, x)' <=> Uploading(v, x)
      BY ZenonT(30), <2>3 DEF Uploading
    <3>2. Uploading(u, x)' => x = k
      BY ZenonT(30), <2>3 DEF Uploading
    <3>3. x = k => \A v \in Uploaders : ~Uploading(v, x)
      BY ZenonT(30), <2>2 DEF Uploading
    <3>4. KeyOK(x)
      BY ZenonT(30), <1>b
    <3>5. \A v, w \in Uploaders : Uploading(v, x)' /\ Uploading(w, x)' => v = w
      BY ZenonT(30), <3>1, <3>2, <3>3, <3>4 DEF KeyOK
    <3>6. \A v \in Uploaders : Uploading(v, x)' => queue[x] # NoItem
      BY ZenonT(30), <2>2, <3>1, <3>2, <3>4 DEF KeyOK
    <3>7. store[x] = 0 => \A v \in Uploaders : Uploading(v, x)' => up'[v].item.op # "put"
      BY ZenonT(30), <2>3, <3>1, <3>2, <3>4 DEF KeyOK
    <3>8. QED
      BY ZenonT(30), <2>1, <3>4, <3>5, <3>6, <3>7 DEF KeyOK
  <2>5. \A c \in Conns : ReadOK(c)'
    BY ZenonT(30), <2>1 DEF FileInv, ReadOK
  <2>6. QED
    BY ZenonT(30), <2>4, <2>5 DEF FileInv
<1>5. ASSUME NEW u \in Uploaders, UploadEnter(u) PROVE FileInv'
  <2>1. \A v \in Uploaders : Carries(v)
    <3>1. PICK pc \in {"wait", "backend"} : up' = [up EXCEPT ![u] = [up[u] EXCEPT !.pc = pc]]
      BY ZenonT(30), <1>5 DEF UploadEnter
    <3>2. up[u].pc \in {"acquire", "woken"}
      BY ZenonT(30), <1>5 DEF UploadEnter
    <3>3. up'[u].key = up[u].key /\ up'[u].item = up[u].item /\ \A v \in Uploaders \ {u} : up'[v] = up[v]
      BY ZenonT(30), <3>1 DEF Types, Uploads
    <3>4. QED
      BY ZenonT(30), <3>2, <3>3 DEF Carries
  <2>2. UNCHANGED <<conn, store, hidden, back, queue>>
    BY ZenonT(30), <1>5 DEF UploadEnter
  <2>3. QED
    BY ZenonT(30), <2>1, <2>2, FileFrame DEF Reads
<1>6. ASSUME NEW u \in Uploaders, UploadLeave(u) PROVE FileInv'
  <2> DEFINE ups == [up EXCEPT ![u] = Idle]
  <2>0. PICK k \in Keys, i \in Items : up[u].key = k /\ up[u].item = i
    BY ZenonT(30) DEF Types, Uploads
  <2>1. Wake(conn, ups) /\ store' = store /\ up[u].pc = "backend"
    BY ZenonT(30), <1>6 DEF UploadLeave
  <2>2. ups[u] = Idle /\ \A v \in Uploaders \ {u} : ups[v] = up[v]
    BY ZenonT(30) DEF Types
  <2>a. k \in Keys /\ Uploading(u, k)
    BY ZenonT(30), <2>0, <2>1 DEF Uploading
  <2>b. \/ UNCHANGED <<back, queue, hidden>>
        \/ /\ back' = [back EXCEPT ![k] = IF i.op = "put" THEN i.gen ELSE 0]
           /\ queue' = IF queue[k] = i THEN [queue EXCEPT ![k] = NoItem] ELSE queue
           /\ hidden' = IF queue[k] = i /\ i.op = "delete" /\ store[k] = 0 THEN hidden \ {k} ELSE hidden
    BY ZenonT(30), <1>6, <2>0 DEF UploadLeave
  <2> HIDE DEF ups
  <2>3. \A v \in Uploaders : up'[v] = IF ups[v].pc = "wait"
                                      THEN [ups[v] EXCEPT !.pc = "woken"] ELSE ups[v]
    BY <2>1, Woken
  <2>4. up'[u].pc = "idle" /\ \A v \in Uploaders \ {u} : Carries(v)
    <3>a. Idle.pc = "idle"
      BY ZenonT(30) DEF Idle
    <3>1. up'[u].pc = "idle"
      BY ZenonT(30), <2>2, <2>3, <3>a
    <3>2. ASSUME NEW v \in Uploaders \ {u} PROVE Carries(v)
      <4>1. ups[v] = up[v] /\ up[v] \in Uploads
        BY ZenonT(30), <2>2, <3>2 DEF Types
      <4>2. QED
        BY ZenonT(30), <2>3, <4>1 DEF Uploads, Carries
    <3>3. QED
      BY ZenonT(30), <3>1, <3>2
  <2>5. \A v \in Uploaders, x \in Keys : Uploading(v, x)' => Uploading(v, x) /\ v # u
    BY ZenonT(30), <2>4 DEF Carries, Uploading
  <2>6. \A e \in Conns : conn'[e] = IF conn[e].pc = "wait"
                                    THEN [conn[e] EXCEPT !.pc = "woken"] ELSE conn[e]
    BY ZenonT(30), <2>1, Woken
  <2>7. \A e \in Conns : Reads(e)
    BY ZenonT(30), <1>a, <2>6 DEF Reads, Threads
  <2>8. KeyOK(k) /\ (i.op = "put" => store[k] # 0)
    BY ZenonT(30), <1>b, <2>0, <2>a DEF KeyOK
  <2>9. ASSUME NEW x \in Keys PROVE KeyOK(x)'
    <3>1. KeyOK(x)
      BY ZenonT(30), <1>b
    <3>2. /\ \A v, w \in Uploaders : Uploading(v, x)' /\ Uploading(w, x)' => v = w
          /\ store'[x] = 0 => \A v \in Uploaders : Uploading(v, x)' => up'[v].item.op # "put"
          /\ \A v \in Uploaders : Uploading(v, x)' => queue[x] # NoItem
      BY ZenonT(30), <2>1, <2>4, <2>5, <3>1 DEF KeyOK, Carries
    <3>3. CASE UNCHANGED <<back, queue, hidden>>
      BY ZenonT(30), <2>1, <3>1, <3>2, <3>3 DEF KeyOK
    <3>4. CASE x # k /\ ~UNCHANGED <<back, queue, hidden>>
      <4>1. back'[x] = back[x] /\ queue'[x] = queue[x] /\ (x \in hidden' <=> x \in hidden)
        BY ZenonT(30), <2>b, <3>4 DEF Types
      <4>2. QED
        BY ZenonT(30), <2>1, <3>1, <3>2, <4>1 DEF KeyOK
    <3>5. CASE x = k /\ ~UNCHANGED <<back, queue, hidden>>
      <4>1. \A v \in Uploaders : ~Uploading(v, k)'
        BY ZenonT(30), <2>5, <2>8, <2>a DEF KeyOK
      <4>2. CASE queue[k] = i
        <5>1. queue'[k] = NoItem /\ NoItem.op = "none"
          BY ZenonT(30), <2>b, <2>a, <3>5, <4>2 DEF Types, NoItem
        <5>2. back'[k] = IF i.op = "put" THEN i.gen ELSE 0
          BY ZenonT(30), <2>b, <2>a, <3>5 DEF Types
        <5>3. k \in hidden' => k \in hidden
          BY ZenonT(30), <2>b, <3>5
        <5>4. k \in hidden' => back'[k] = 0
          BY ZenonT(30), <2>8, <4>2, <5>2, <5>3 DEF KeyOK
        <5>5. QED
          BY ZenonT(30), <3>5, <4>1, <5>1, <5>4 DEF KeyOK
      <4>3. CASE queue[k] # i
        <5>1. queue' = queue /\ hidden' = hidden
          BY ZenonT(30), <2>b, <3>5, <4>3
        <5>2. queue[k] # NoItem
          BY ZenonT(30), <2>8, <2>a DEF KeyOK
        <5>3. QED
          BY ZenonT(30), <2>1, <3>1, <3>2, <3>5, <5>1, <5>2 DEF KeyOK
      <4>4. QED
        BY ZenonT(30), <4>2, <4>3
    <3>6. QED
      BY ZenonT(30), <3>3, <3>4, <3>5
  <2>10. ASSUME NEW e \in Conns PROVE ReadOK(e)'
    <3> SUFFICES ASSUME conn'[e].pc = "hydrate", NEW x \in conn'[e].keys, store'[x] = 0, back'[x] # 0
        PROVE  conn'[e].read = back'[x]
      BY ZenonT(30) DEF ReadOK
    <3>1. conn[e].pc = "hydrate" /\ conn'[e].keys = conn[e].keys /\ conn'[e].read = conn[e].read
      BY ZenonT(30), <2>7 DEF Reads
    <3>2. x \in Keys
      BY ZenonT(30), <1>a, <3>1 DEF Threads
    <3>3. back'[x] = back[x]
      <4>1. CASE x = k
        <5>1. i.op # "put"
          BY ZenonT(30), <2>1, <2>8, <4>1
        <5>2. back'[x] = back[x] \/ back'[x] = 0
          BY ZenonT(30), <2>b, <2>a, <4>1, <5>1 DEF Types
        <5>3. QED
          BY ZenonT(30), <5>2
      <4>2. CASE x # k
        BY ZenonT(30), <2>b, <3>2, <4>2 DEF Types
      <4>3. QED
        BY ZenonT(30), <4>1, <4>2
    <3>4. QED
      BY ZenonT(30), <2>1, <3>1, <3>3 DEF FileInv, ReadOK
  <2>11. QED
    BY ZenonT(30), <2>9, <2>10 DEF FileInv
<1>7. CASE Restart
  <2>1. UNCHANGED <<store, hidden, back, queue>>
    BY ZenonT(30), <1>7 DEF Restart
  <2>2. /\ \A u \in Uploaders : up'[u].pc = "idle"
        /\ \A c \in Conns : conn'[c].pc = "free"
    BY ZenonT(30), <1>7 DEF Restart, Idle, Free
  <2>3. \A u \in Uploaders, k \in Keys : ~Uploading(u, k)'
    BY ZenonT(30), <2>2 DEF Uploading
  <2>4. \A k \in Keys : KeyOK(k)'
    BY ZenonT(30), <1>b, <2>1, <2>3 DEF KeyOK
  <2>5. \A c \in Conns : ReadOK(c)'
    BY ZenonT(30), <2>2 DEF ReadOK
  <2>6. QED
    BY ZenonT(30), <2>4, <2>5 DEF FileInv
<1>8. ASSUME NEW c \in Conns, Apply(c) \/ ApplyFails(c) PROVE FileInv'
  <2>1. conn[c].pc = "lock" /\ UNCHANGED <<back, up>>
    BY ZenonT(30), <1>8 DEF Apply, ApplyFails
  <2>2. PICK K \in SUBSET conn[c].keys, ok \in BOOLEAN : Applied(c, K, ok)
    BY ZenonT(30), <1>8 DEF Apply, ApplyFails
  <2>3. QED
    BY ZenonT(30), <1>2, <2>1, <2>2
<1>9. ASSUME NEW c \in Conns,
             \/ Send(c) \/ ClientTimeout(c) \/ Accept(c) \/ Refuse(c) \/ ReadFrame(c)
             \/ ReadFrameFails(c) \/ Reject(c) \/ Dispatch(c) \/ UpdateCache(c) \/ ListHidden(c)
             \/ ListStore(c) \/ ListDone(c) \/ Enter(c) \/ Respond(c) \/ Close(c)
      PROVE  FileInv'
  <2>1. UNCHANGED <<store, hidden, back, queue, up>>
    BY <1>9, Zenon DEF Send, ClientTimeout, Accept, Refuse, ReadFrame, ReadFrameFails, Reject,
       Dispatch, UpdateCache, ListHidden, ListStore, ListDone, Enter, Respond, Close
  <2>2. \A e \in Conns : Reads(e)
    <3>1. CASE Send(c)
      <4>1. PICK r : conn' = [conn EXCEPT ![c] = r] /\ r.pc = "sent"
        <5>1. PICK op, K, d, size : conn' = [conn EXCEPT ![c] = Request(op, K, d, size)]
          BY ZenonT(30), <3>1 DEF Send
        <5>2. Request(op, K, d, size).pc = "sent"
          BY ZenonT(30) DEF Request
        <5>3. QED
          BY ZenonT(30), <5>1, <5>2
      <4>2. QED
        BY ZenonT(30), <4>1 DEF Types, Reads
    <3>2. CASE ClientTimeout(c)
      <4>1. conn' = [conn EXCEPT ![c] = [conn[c] EXCEPT !.client = FALSE]]
        BY ZenonT(30), <3>2 DEF ClientTimeout
      <4>2. QED
        BY ZenonT(30), <1>a, <4>1 DEF Types, Threads, Reads
    <3>3. ASSUME NEW pc, Goto(c, pc), pc # "hydrate" PROVE \A e \in Conns : Reads(e)
      <4>1. conn' = [conn EXCEPT ![c] = [conn[c] EXCEPT !.pc = pc]]
        BY ZenonT(30), <3>3 DEF Goto
      <4>2. conn'[c].pc = pc /\ \A e \in Conns \ {c} : conn'[e] = conn[e]
        BY ZenonT(30), <1>a, <4>1 DEF Types, Threads
      <4>3. QED
        BY ZenonT(30), <3>3, <4>2 DEF Reads
    <3>4. CASE Accept(c) \/ ReadFrameFails(c) \/ Reject(c) \/ Enter(c)
      BY ZenonT(30), <3>3, <3>4 DEF Accept, ReadFrameFails, Reject, Enter
    <3>5. CASE Refuse(c) \/ Close(c)
      <4>1. conn' = [conn EXCEPT ![c] = Free]
        BY ZenonT(30), <3>5 DEF Refuse, Close
      <4>2. QED
        BY ZenonT(30), <4>1 DEF Types, Free, Reads
    <3>6. CASE ReadFrame(c)
      <4>1. conn' = [conn EXCEPT ![c] = [conn[c] EXCEPT !.pc = "framed", !.frame = TRUE]]
        BY ZenonT(30), <3>6 DEF ReadFrame
      <4>2. conn'[c].pc = "framed" /\ \A e \in Conns \ {c} : conn'[e] = conn[e]
        BY ZenonT(30), <1>a, <4>1 DEF Types, Threads
      <4>3. QED
        BY ZenonT(30), <4>2 DEF Reads
    <3>7. CASE Dispatch(c)
      <4>1. PICK ok : conn' = [conn EXCEPT ![c] = [conn[c] EXCEPT !.pc = Route(c), !.ok = ok]]
        BY ZenonT(30), <3>7 DEF Dispatch
      <4>2. conn'[c].pc = Route(c) /\ \A e \in Conns \ {c} : conn'[e] = conn[e]
        BY ZenonT(30), <1>a, <4>1 DEF Types, Threads
      <4>3. Route(c) # "hydrate"
        BY ZenonT(30) DEF Route
      <4>4. QED
        BY ZenonT(30), <4>2, <4>3 DEF Reads
    <3>8. CASE UpdateCache(c)
      <4>1. ASSUME NEW e \in Conns PROVE Reads(e)
        <5>1. \/ conn'[e] = conn[e]
              \/ conn'[e] = [conn[e] EXCEPT !.pc = "respond"]
              \/ conn'[e] = [conn[e] EXCEPT !.late = @ \cup conn[c].keys]
          BY ZenonT(30), <3>8 DEF UpdateCache
        <5>2. QED
          BY ZenonT(30), <1>a, <5>1 DEF Reads, Threads
      <4>2. QED
        BY ZenonT(30), <4>1
    <3>9. CASE ListHidden(c) \/ ListStore(c) \/ ListDone(c) \/ Respond(c)
      <4>1. PICK r : conn' = [conn EXCEPT ![c] = r] /\ r.pc # "hydrate"
        <5>1. CASE ListHidden(c)
          <6> DEFINE r == [conn[c] EXCEPT !.pc = IF conn[c].kind = "sizes" THEN "acquire" ELSE "liststore",
                              !.seen = IF conn[c].kind = "prefixes" THEN {} ELSE hidden, !.late = {}]
          <6>1. conn' = [conn EXCEPT ![c] = r]
            BY ZenonT(30), <5>1 DEF ListHidden
          <6>2. r.pc = IF conn[c].kind = "sizes" THEN "acquire" ELSE "liststore"
            BY ZenonT(30), <1>a DEF Threads
          <6> HIDE DEF r
          <6>3. r.pc # "hydrate"
            BY <6>2
          <6>4. QED
            BY ZenonT(30), <6>1, <6>3
        <5>2. CASE ListStore(c)
          <6> DEFINE r == [conn[c] EXCEPT !.pc = IF conn[c].kind = "sizes" THEN "listed" ELSE "acquire",
                              !.found = @ \cup (Stored \ conn[c].seen)]
          <6>1. conn' = [conn EXCEPT ![c] = r]
            BY ZenonT(30), <5>2 DEF ListStore
          <6>2. r.pc = IF conn[c].kind = "sizes" THEN "listed" ELSE "acquire"
            BY ZenonT(30), <1>a DEF Threads
          <6> HIDE DEF r
          <6>3. r.pc # "hydrate"
            BY <6>2
          <6>4. QED
            BY ZenonT(30), <6>1, <6>3
        <5>3. CASE ListDone(c)
          <6> DEFINE r == [conn[c] EXCEPT !.pc = "respond", !.ok = TRUE, !.seen = {}, !.found = {}, !.late = {}]
          <6>1. conn' = [conn EXCEPT ![c] = r]
            BY ZenonT(30), <5>3 DEF ListDone
          <6>2. r.pc = "respond"
            BY ZenonT(30), <1>a DEF Threads
          <6>3. QED
            BY ZenonT(30), <6>1, <6>2
        <5>4. CASE Respond(c)
          <6> DEFINE r == [Free EXCEPT !.pc = "closing", !.frame = conn[c].frame, !.size = conn[c].size]
          <6>1. conn' = [conn EXCEPT ![c] = r]
            BY ZenonT(30), <5>4 DEF Respond
          <6>2. r.pc = "closing"
            BY ZenonT(30) DEF Free
          <6>3. QED
            BY ZenonT(30), <6>1, <6>2
        <5>5. QED
          BY ZenonT(30), <3>9, <5>1, <5>2, <5>3, <5>4
      <4>2. QED
        BY ZenonT(30), <4>1 DEF Types, Reads
    <3>10. QED
      BY ZenonT(30), <1>9, <3>1, <3>2, <3>4, <3>5, <3>6, <3>7, <3>8, <3>9
  <2>3. QED
    BY ZenonT(30), <1>1, <2>1, <2>2
<1>10. ASSUME NEW d \in Kinds, Expire(d) PROVE FileInv'
  BY ZenonT(30), <1>1, <1>10 DEF Expire, Reads
<1>12. ASSUME NEW c \in Conns, Hydrate(c) PROVE FileInv'
  <2>1. /\ conn' = [conn EXCEPT ![c] = [conn[c] EXCEPT !.pc = "respond", !.read = 0]]
        /\ UNCHANGED <<hidden, back, queue, up>>
    BY ZenonT(30), <1>12 DEF Hydrate
  <2>2. conn'[c].pc = "respond" /\ \A e \in Conns \ {c} : conn'[e] = conn[e]
    BY ZenonT(30), <1>a, <2>1 DEF Types, Threads
  <2>3. ASSUME NEW k \in Keys PROVE store'[k] = 0 => store[k] = 0
    BY ZenonT(30), <1>12 DEF Hydrate, Types
  <2>4. \A u \in Uploaders, k \in Keys : Uploading(u, k)' <=> Uploading(u, k)
    BY ZenonT(30), <2>1 DEF Uploading
  <2>5. ASSUME NEW k \in Keys PROVE KeyOK(k)'
    <3>1. KeyOK(k)
      BY ZenonT(30), <1>b
    <3>2. QED
      BY ZenonT(30), <2>1, <2>3, <2>4, <3>1 DEF KeyOK
  <2>6. ASSUME NEW e \in Conns PROVE ReadOK(e)'
    <3> SUFFICES ASSUME conn'[e].pc = "hydrate", NEW x \in conn'[e].keys, store'[x] = 0, back'[x] # 0
        PROVE  conn'[e].read = back'[x]
      BY ZenonT(30) DEF ReadOK
    <3>1. conn'[e] = conn[e]
      BY ZenonT(30), <2>2
    <3>2. x \in Keys
      BY ZenonT(30), <1>a, <3>1 DEF Threads
    <3>3. QED
      BY ZenonT(30), <2>1, <2>3, <3>1, <3>2 DEF FileInv, ReadOK
  <2>7. QED
    BY ZenonT(30), <2>5, <2>6 DEF FileInv
<1>13. ASSUME NEW k \in Keys, LocalGc(k) PROVE FileInv'
  <2>1. /\ \A u \in Uploaders : up[u].pc = "idle"
        /\ k \in hidden /\ queue[k] = NoItem
        /\ store' = [store EXCEPT ![k] = 0] /\ hidden' = hidden \ {k}
        /\ UNCHANGED <<conn, up, back, queue>>
    BY ZenonT(30), <1>13 DEF LocalGc
  <2>2. store'[k] = 0 /\ \A x \in Keys \ {k} : store'[x] = store[x]
    BY ZenonT(30), <2>1 DEF Types
  <2>3. \A u \in Uploaders, x \in Keys : ~Uploading(u, x)'
    BY ZenonT(30), <2>1 DEF Uploading
  <2>4. NoItem.op = "none"
    BY ZenonT(30) DEF NoItem
  <2>5. back[k] = 0
    BY ZenonT(30), <1>b, <2>1 DEF KeyOK
  <2>6. ASSUME NEW x \in Keys PROVE KeyOK(x)'
    <3>1. KeyOK(x)
      BY ZenonT(30), <1>b
    <3>2. CASE x = k
      BY ZenonT(30), <2>1, <2>3, <2>4, <2>5, <3>2 DEF KeyOK
    <3>3. CASE x # k
      <4>1. store'[x] = store[x] /\ (x \in hidden' <=> x \in hidden)
        BY ZenonT(30), <2>1, <2>2, <3>3
      <4>2. QED
        BY ZenonT(30), <2>1, <2>3, <3>1, <4>1 DEF KeyOK
    <3>4. QED
      BY ZenonT(30), <3>2, <3>3
  <2>7. ASSUME NEW e \in Conns PROVE ReadOK(e)'
    <3> SUFFICES ASSUME conn[e].pc = "hydrate", NEW x \in conn[e].keys, store'[x] = 0, back[x] # 0
        PROVE  conn[e].read = back[x]
      BY ZenonT(30), <2>1 DEF ReadOK
    <3>1. x \in Keys /\ x # k
      BY ZenonT(30), <1>a, <2>5 DEF Threads
    <3>2. store[x] = 0
      BY ZenonT(30), <2>2, <3>1
    <3>3. QED
      BY ZenonT(30), <3>2 DEF FileInv, ReadOK
  <2>8. QED
    BY ZenonT(30), <2>6, <2>7 DEF FileInv
<1>11. QED
  BY ZenonT(30), <1>3, <1>4, <1>5, <1>6, <1>7, <1>8, <1>9, <1>10, <1>12, <1>13 DEF Next, Serve, UploadStep

-----------------------------------------------------------------------------
(* The theorems *)

FrontInv == Types /\ ThreadInv /\ PermitInv /\ FileInv /\ DataInv

\* An empty master with the keys stored and uploaded before.
LEMMA FrontInit == Init => FrontInv
<1> SUFFICES ASSUME Init PROVE FrontInv
  BY ZenonT(30)
<1>1. /\ inst \in Instances /\ limit \in inst.limits /\ caps \in inst.limits \cup {0}
      /\ inst.keys \subseteq Keys /\ inst.requests \in Nat /\ limit \in Nat
  BY ZenonT(30), FrontAssumption DEF Init
<1>2. /\ \A c \in Conns : conn[c] = Free
      /\ \A u \in Uploaders : up[u] = Idle
      /\ \A d \in Kinds : cache[d] = NoEntry
      /\ \A k \in Keys : queue[k] = NoItem
      /\ \A k \in Keys : want[k] = back[k] /\ (store[k] = back[k] \/ store[k] = 0)
      /\ hidden = {} /\ disturbed = {} /\ revived = {} /\ want = back
  BY ZenonT(30), <1>1 DEF Init
<1>3. Types
  <2>1. conn \in [Conns -> Threads] /\ up \in [Uploaders -> Uploads]
    BY ZenonT(30), RecordTypes DEF Init
  <2>2. queue \in [Keys -> Items] /\ cache \in [Kinds -> Entries]
    BY ZenonT(30) DEF Init, Items, NoItem, Entries, NoEntry
  <2>3. back \in [Keys -> {0, 1}]
    BY ZenonT(30), <1>1 DEF Init
  <2>5. store \in [Keys -> {0, 1}]
    BY ZenonT(30), <1>1, <2>3 DEF Init
  <2>6. {0, 1} \subseteq Nat /\ {0, 1} \subseteq Unknown..(inst.requests + 1)
    BY SMTT(20), <1>1 DEF Unknown
  <2>7. store \in [Keys -> Nat] /\ back \in [Keys -> Nat] /\ want \in [Keys -> Unknown..(inst.requests + 1)]
    BY ZenonT(30), <1>2, <2>3, <2>5, <2>6
  <2>4. QED
    BY SMTT(20), <1>1, <1>2, <2>1, <2>2, <2>7 DEF Init, Types
<1>4. ThreadInv
  BY ZenonT(30), <1>2, RecordTypes DEF ThreadInv
<1>5. PermitInv
  <2>1. Busy = {} /\ Calling = {} /\ Waiting = {} /\ FrameBytes = {} /\ UpCalling = {}
    <3>1. Free.pc = "free" /\ ~Free.frame /\ Idle.pc = "idle"
      BY ZenonT(30) DEF Free, Idle
    <3>2. {c \in Conns : conn[c].frame} = {}
      BY ZenonT(30), <1>2, <3>1
    <3>3. QED
      BY ZenonT(30), <1>2, <3>1, <3>2 DEF Busy, Calling, Waiting, FrameBytes, UpCalling
  <2>2. QED
    BY SMTT(20), <1>1, <2>1, FS_EmptySet, FrontAssumption DEF Init, PermitInv
<1>6. FileInv
  <2>1. NoItem.op = "none" /\ Idle.pc = "idle" /\ Free.pc = "free"
    BY ZenonT(30) DEF NoItem, Idle, Free
  <2>2. \A u \in Uploaders, k \in Keys : ~Uploading(u, k)
    BY ZenonT(30), <1>2, <2>1 DEF Uploading
  <2>3. \A k \in Keys : KeyOK(k)
    BY ZenonT(30), <1>2, <2>1, <2>2 DEF KeyOK
  <2>4. \A c \in Conns : ReadOK(c)
    BY ZenonT(30), <1>2, <2>1 DEF ReadOK
  <2>5. QED
    BY ZenonT(30), <2>3, <2>4 DEF FileInv
<1>7. ChangeInv
  BY SMTT(20), <1>2 DEF ChangeInv, Mutates, Free
<1>8. AckedStands
  BY ZenonT(30), <1>2 DEF AckedStands, Visible
<1>9. ListInv /\ CacheInv
  <2>1. Free.op # "list" /\ NoEntry.state # "fresh"
    BY ZenonT(30) DEF Free, NoEntry
  <2>2. ASSUME NEW c \in Conns PROVE ~Lists(c)
    BY ZenonT(30), <1>2, <2>1 DEF Lists
  <2>3. ASSUME NEW d \in Kinds PROVE cache[d].state # "fresh"
    BY ZenonT(30), <1>2, <2>1
  <2>4. QED
    BY Zenon, <2>2, <2>3 DEF ListInv, CacheInv
<1>10. QED
  BY ZenonT(30), <1>3, <1>4, <1>5, <1>6, <1>7, <1>8, <1>9 DEF FrontInv, DataInv

\* Together the invariants are inductive.
LEMMA FrontStep == FrontInv /\ [Next]_vars => FrontInv'
<1>1. FrontInv /\ Next => FrontInv'
  BY ZenonT(30), ThreadStep, TypesStep, PermitStep, FileStep, DataStep DEF FrontInv
<1>2. ASSUME FrontInv, UNCHANGED vars PROVE FrontInv'
  <2>1. Types' /\ ThreadInv'
    BY ZenonT(30), <1>2 DEF FrontInv, vars, Types, ThreadInv, ThreadOK
  <2>a. FileInv'
    BY ZenonT(30), <1>2, FileFrame DEF FrontInv, vars, Carries, Reads
  <2>2. PermitInv'
    BY ZenonT(30), <1>2 DEF FrontInv, vars, PermitInv, Busy, Calling, Waiting, UpCalling, FrameBytes
  <2>3. \A e \in Conns : Inert(e)
    BY ZenonT(30), <1>2 DEF vars, Inert
  <2>b. Settled
    BY ZenonT(30), <1>2, DataStays DEF vars
  <2>4. DataInv'
    BY ZenonT(30), <1>2, <2>3, <2>b, DataFrame DEF FrontInv, vars
  <2>5. QED
    BY ZenonT(30), <2>1, <2>a, <2>2, <2>4 DEF FrontInv
<1>3. QED
  BY ZenonT(30), <1>1, <1>2

\* The counters' bounds and the rest of the type invariant follow.
LEMMA Exact == FrontInv => PermitsAreExact
<1> SUFFICES ASSUME FrontInv PROVE PermitsAreExact
  BY ZenonT(30)
<1>1. /\ Cardinality(Busy) \in Nat /\ Cardinality(Calling) \in Nat /\ Cardinality(Waiting) \in Nat
      /\ Cardinality(UpCalling) \in Nat /\ Cardinality(Waiting) <= Cardinality(Conns)
      /\ Cardinality(Conns) \in Nat
  BY ZenonT(30), CountedSets, FS_Subset, FS_CardinalityType, FrontAssumption DEF Waiting
<1>2. Cardinality(FrameBytes) \in Nat
  BY ZenonT(30), FS_CardinalityType DEF FrontInv, PermitInv
<1>3. MaxClients \in Nat /\ Concurrency \in Nat /\ limit \in Nat
  BY ZenonT(30), FrontAssumption DEF FrontInv, Types
<1>4. clients \in 0..MaxClients /\ inflight \in 0..limit
  BY <1>1, <1>2, <1>3 DEF FrontInv, PermitInv
<1>5. gate \in [active : 0..Concurrency, fg : 0..Cardinality(Conns)]
  <2>1. gate \in [active : Int, fg : Int]
    BY ZenonT(30) DEF FrontInv, Types
  <2>2. gate.active \in 0..Concurrency /\ gate.fg \in 0..Cardinality(Conns)
    BY <1>1, <1>3 DEF FrontInv, PermitInv
  <2>3. QED
    BY ZenonT(30), <2>1, <2>2
<1>6. TypeOK
  <2>1. \A c \in Conns : conn[c].keys \subseteq Keys /\ conn[c].found \subseteq Keys
    BY ZenonT(30) DEF FrontInv, Types, Threads
  <2>2. \A u \in Uploaders : up[u].key \in Keys
    BY ZenonT(30) DEF FrontInv, Types, Uploads
  <2>3. QED
    BY ZenonT(30), <1>4, <1>5, <2>1, <2>2 DEF TypeOK, FrontInv, Types
<1>7. QED
  BY ZenonT(30), <1>6 DEF FrontInv, PermitInv, PermitsAreExact, Busy, Calling, Waiting, UpCalling

\* The permits of ClientLimiter, FrameBudget and BackendGate are exact on every path
\* through handle_connection, and the counters stay within their limits.
THEOREM PermitsExact == Spec => []PermitsAreExact
<1>1. Init => FrontInv
  BY ZenonT(30), FrontInit
<1>2. FrontInv /\ [Next]_vars => FrontInv'
  BY ZenonT(30), FrontStep
<1>3. FrontInv => PermitsAreExact
  BY ZenonT(30), Exact
<1>4. QED
  BY <1>1, <1>2, <1>3, PTL DEF Spec

\* What process_puts and durable_delete acknowledged is what master_get_optional returns,
\* from the store or the backend, until the host asks for another change of the key:
\* through uploads, GETs that fill the store, the local GC and restarts.  Excepted are
\* keys with a request overtaken after its timeout, and keys whose bytes a GET read before
\* and stored after their DELETE.
THEOREM AckedStandsAlways == Spec => []AckedStands
<1>1. Init => FrontInv
  BY ZenonT(30), FrontInit
<1>2. FrontInv /\ [Next]_vars => FrontInv'
  BY ZenonT(30), FrontStep
<1>3. FrontInv => AckedStands
  BY ZenonT(30) DEF FrontInv, DataInv
<1>4. QED
  BY <1>1, <1>2, <1>3, PTL DEF Spec

\* What the list cache serves has every change the host was told of.  Excepted are those
\* that came while the listing was made (write_list_cache), keys only in the backend when
\* its LIST failed, and the keys AckedStands excepts.
THEOREM ListCacheCurrent == Spec => []CachedListIsCurrent
<1>1. Init => FrontInv
  BY ZenonT(30), FrontInit
<1>2. FrontInv /\ [Next]_vars => FrontInv'
  BY ZenonT(30), FrontStep
<1>3. FrontInv => CachedListIsCurrent
  BY ZenonT(30) DEF FrontInv, DataInv, CacheInv, CachedListIsCurrent, ToldPut, ToldDelete, Excepted
<1>4. QED
  BY <1>1, <1>2, <1>3, PTL DEF Spec
=============================================================================
