----------------------------- MODULE RemoteStore -----------------------------
(* The client library of the object store (src/src/remote_store.rs): a directory
   ("file") or an S3 bucket ("s3"), used by several threads at once.

   A file remote publishes an object by writing a temporary file and then linking
   or renaming it; when the link fails, a lock file stands in, for that call only.
   A sync of the directory of an object makes its entries durable, not the
   directory: one that a put had to create may be lost with all that is in it.
   An S3 remote sends every request up to Attempts times.  A request takes effect
   at the server in Serve and its answer reaches the thread in Reply: an answer
   may be lost after the request took effect.  Threads of an S3 client are one
   process and share the cache of keys known to be absent; threads of a file
   remote are processes of their own, possibly on several machines. *)
EXTENDS Naturals, FiniteSets

CONSTANTS Threads,
          Keys,      \* object keys, numbers in the order of their names
          Parts,     \* the parts of a large object
          Parallel,  \* parts uploaded at a time
          Attempts,  \* s3_retry_attempts
          LockTries, \* FILE_REMOTE_LOCK_RETRIES
          Scenes     \* instances: store, outcomes of a link, directories, commands and bounds

None == "none"
NoObj == [by |-> <<>>, parts |-> {}]
NoId == <<>>

VARIABLES scene,
          obj,       \* the objects: who wrote the one at a key, and which parts it has
          disk,      \* file: the entries that survive a power loss, and the directories
          tmps,      \* file: temporary files
          lock,      \* file: keys with a lock file
          uploads,   \* s3: open multipart uploads
          neg,       \* s3: keys the process remembers as absent
          th,        \* the threads
          used,      \* operations each thread has begun
          spent,     \* crashes and power losses
          kept,      \* ghost: keys with a put that returned Ok and no later delete
          hit,       \* ghost: threads whose put met a delete of its key
          won,       \* ghost: conditional puts that returned true
          rough,     \* ghost: keys that saw a delete, a plain put, a multipart put, a link beside a
                     \*   rename, or the loss of their directory
          raced,     \* ghost: keys remembered as absent while a put of them was under way
          leaked,    \* ghost: uploads whose owner cannot abort them any more
          seen       \* ghost: keys present during all, and during some, of a listing

svars == <<scene, obj, disk, tmps, lock, uploads, neg, th, used, spent, kept, hit, won, rough,
           raced, leaked, seen>>

Puts == {"put", "absent"}
Removes == {"delete", "batch"}
Lists == {"list", "prefixes"}
File == scene.kind = "file"

Quiet == [pc |-> "idle", op |-> None, key |-> 0, big |-> FALSE, try |-> 0, res |-> None,
          left |-> {}, batch |-> {}, sent |-> {}, bad |-> FALSE, up |-> NoId, found |-> {},
          ans |-> None]

By(t) == <<t, used[t]>>
Tmp(t) == <<t, used[t], th[t].key>>
Present(o) == {k \in Keys : o[k] # NoObj}
Dir(k) == (k + 1) \div 2
Busy(u) == th[u].pc # "idle"
Touches(u, k) == th[u].key = k \/ th[u].op = "batch"

SInit ==
  /\ scene \in Scenes
  /\ obj = [k \in Keys |-> IF k \in scene.stored THEN [by |-> NoId, parts |-> Parts] ELSE NoObj]
  /\ disk = [ent |-> obj, lock |-> {}, tmps |-> {}, fresh |-> {},
             old |-> scene.dirs \cup {Dir(k) : k \in scene.stored}]
  /\ tmps = {} /\ lock = {} /\ uploads = {} /\ neg = {}
  /\ th = [t \in Threads |-> Quiet] /\ used = [t \in Threads |-> 0]
  /\ spent = [crash |-> 0, power |-> 0]
  /\ kept = {} /\ hit = {} /\ won = [k \in Keys |-> {}] /\ rough = {} /\ raced = {} /\ leaked = {}
  /\ seen = [t \in Threads |-> [always |-> {}, ever |-> {}]]

-----------------------------------------------------------------------------
(* What happens to the objects, and what the ghosts note of it *)

Store(o) ==
  /\ obj' = o
  /\ seen' = [t \in Threads |->
                IF th[t].op \in Lists /\ Busy(t)
                THEN [always |-> seen[t].always \cap Present(o), ever |-> seen[t].ever \cup Present(o)]
                ELSE seen[t]]
SameStore == UNCHANGED <<obj, seen>>

Value(t) == [by |-> By(t), parts |-> th[t].sent]
Step(t, r) == th' = [th EXCEPT ![t] = r]
Go(t, pc) == Step(t, [th[t] EXCEPT !.pc = pc, !.try = 0, !.res = None])

Writing(u) == Busy(u) /\ th[u].op \in Puts
Removing(k) == \E u \in Threads : Busy(u) /\ th[u].op \in Removes /\ Touches(u, k)
\* a false answer says that the object is there, not that its entry was synced
Sure(t, a) == th[t].op \in Puts /\ a \in {"true", "false"} /\ (File /\ a = "false" => disk.ent[th[t].key] # NoObj)

\* the operation returns a
Done(t, r, a) ==
  /\ Step(t, [Quiet EXCEPT !.op = r.op, !.key = r.key, !.found = r.found, !.ans = a])
  /\ kept' = IF Sure(t, a) /\ t \notin hit THEN kept \cup {r.key} ELSE kept
  /\ won' = IF r.op = "absent" /\ a = "true" THEN [won EXCEPT ![r.key] = @ \cup {By(t)}] ELSE won
Pending == UNCHANGED <<kept, won>>
Returns(t, a) == Done(t, th[t], a)

-----------------------------------------------------------------------------
(* The cache of absent keys: entries go when they expire or when the cache is
   full (Expire), and when the process learns better. *)

\* Fault: what was learned absent stays absent until it expires.
InvalidatedNever(K) == neg

\* invalidate_s3_negative_exists
Invalidated(K) == neg \ K

Learn(K) == neg' = Invalidated(K) /\ raced' = raced \cap neg'
Putting(k, t) == \E u \in Threads \ {t} : Writing(u) /\ th[u].key = k
\* remember_s3_negative_exists
Remember(t, k) ==
  /\ neg' = neg \cup {k}
  /\ raced' = IF obj[k] # NoObj \/ Putting(k, t) THEN raced \cup {k} ELSE raced
SameCache == UNCHANGED <<neg, raced>>

Expire(k) ==
  /\ k \in neg
  /\ neg' = neg \ {k} /\ raced' = raced \ {k}
  /\ UNCHANGED <<scene, obj, disk, tmps, lock, uploads, th, used, spent, kept, hit, won, rough, leaked, seen>>

-----------------------------------------------------------------------------
(* RemoteStore::put, put_if_absent, get, exists, delete, delete_batch, list *)

\* should_use_multipart; a large conditional put asks first whether the object exists
FirstPut(op, big) ==
  CASE File -> "create"
    [] ~File /\ ~big -> "send"
    [] ~File /\ big -> IF op = "absent" THEN "ask" ELSE "initiate"
First(op, big) ==
  CASE op \in Puts -> FirstPut(op, big)
    [] op \in Lists -> IF File THEN "walk" ELSE "page"
    [] op = "exists" -> IF File THEN "look" ELSE "ask"
    [] OTHER -> IF File THEN "look" ELSE op

Begin(t, op, k, big) ==
  /\ ~Busy(t) /\ used[t] < scene.budget[t] /\ op \in scene.ops[t] /\ k \in scene.keys
  /\ big => scene.big /\ op \in Puts
  /\ op \in {"batch"} \cup Lists => k = 1
  /\ used' = [used EXCEPT ![t] = @ + 1]
  /\ IF ~File /\ op \in Puts THEN Learn({k}) ELSE SameCache
  /\ Step(t, [Quiet EXCEPT !.pc = First(op, big), !.op = op, !.key = k, !.big = big,
                           !.left = IF op = "batch" THEN scene.keys ELSE {}])
  /\ kept' = CASE op = "delete" -> kept \ {k} [] op = "batch" -> {} [] OTHER -> kept
  /\ hit' = CASE op \in Removes -> hit \cup {u \in Threads : Writing(u) /\ (op = "batch" \/ th[u].key = k)}
              [] op \in Puts -> IF Removing(k) THEN hit \cup {t} ELSE hit \ {t}
              [] OTHER -> hit
  /\ rough' = CASE op = "batch" -> Keys
                [] op \in {"delete", "put"} \/ big -> rough \cup {k}
                [] OTHER -> rough
  /\ seen' = IF op \in Lists THEN [seen EXCEPT ![t] = [always |-> Present(obj), ever |-> Present(obj)]]
             ELSE seen
  /\ UNCHANGED <<scene, obj, disk, tmps, lock, uploads, spent, won, leaked>>

-----------------------------------------------------------------------------
(* S3: one request at the server *)

Answer(t, res) == Step(t, [th[t] EXCEPT !.res = res])
UploadOf(t) == {u \in uploads : u.id = th[t].up}
\* an upload is named after its put and the attempt that opened it
NewUpload(t) == [id |-> <<By(t), th[t].try>>, parts |-> {}]
Rest(k) == {j \in Present(obj) : j > k}
After(t) == IF th[t].found = {} THEN 0 ELSE CHOOSE k \in th[t].found : \A j \in th[t].found : j <= k
Page(t) == {k \in Rest(After(t)) : \A j \in Rest(After(t)) : k <= j}

\* the request of thread t takes effect; the server would answer res
Effect(t, res) ==
  LET k == th[t].key IN
  CASE th[t].pc = "send" ->
         /\ IF th[t].op = "absent" /\ obj[k] # NoObj
            THEN res = "exists" /\ SameStore
            ELSE res = "ok" /\ Store([obj EXCEPT ![k] = [by |-> By(t), parts |-> Parts]])
         /\ UNCHANGED uploads
    [] th[t].pc \in {"head", "get"} ->
         /\ res = IF obj[k] = NoObj THEN "missing" ELSE "ok"
         /\ SameStore /\ UNCHANGED uploads
    [] th[t].pc = "delete" ->
         /\ res = "ok" /\ Store([obj EXCEPT ![k] = NoObj]) /\ UNCHANGED uploads
    [] th[t].pc = "initiate" ->
         /\ res = "ok" /\ uploads' = uploads \cup {NewUpload(t)} /\ SameStore
    [] th[t].pc = "complete" ->
         /\ IF UploadOf(t) = {}
            THEN res = "missing" /\ SameStore
            ELSE res = "ok" /\ Store([obj EXCEPT ![k] = Value(t)])
         /\ uploads' = uploads \ UploadOf(t)
    [] th[t].pc = "abort" ->
         /\ res = "ok" /\ uploads' = uploads \ UploadOf(t) /\ SameStore
    [] th[t].pc = "page" ->
         /\ res = IF Rest(After(t)) = Page(t) THEN "last" ELSE "ok"
         /\ SameStore /\ UNCHANGED uploads

Requests == {"send", "head", "get", "delete", "initiate", "complete", "abort", "page"}
\* what the answer brings besides its status
Brought(t, res) ==
  CASE th[t].pc = "initiate" -> [th[t] EXCEPT !.res = res, !.up = NewUpload(t).id]
    [] th[t].pc = "page" -> [th[t] EXCEPT !.res = res, !.batch = Page(t)]
    [] OTHER -> [th[t] EXCEPT !.res = res]

Same == UNCHANGED <<scene, disk, tmps, lock, used, spent, kept, hit, won, rough, leaked>>

Serve(t) ==
  /\ th[t].pc \in Requests /\ th[t].res = None
  /\ \E res \in {"ok", "last", "exists", "missing"} : Effect(t, res) /\ Step(t, Brought(t, res))
  /\ Same /\ SameCache

\* the request takes effect, but its answer is a transient error or never comes
ServeLost(t) ==
  /\ th[t].pc \in Requests /\ th[t].res = None
  /\ \E res \in {"ok", "last", "exists", "missing"} : Effect(t, res)
  /\ Answer(t, "transient")
  /\ leaked' = IF th[t].pc = "initiate" THEN leaked \cup {NewUpload(t).id} ELSE leaked
  /\ SameCache /\ UNCHANGED <<scene, disk, tmps, lock, used, spent, kept, hit, won, rough>>

\* the request has no effect: no connection, a transient status or another error
ServeNot(t) ==
  /\ th[t].pc \in Requests \cup {"batch"} /\ th[t].res = None
  /\ \E res \in {"transient", "refused"} : Answer(t, res)
  /\ SameStore /\ UNCHANGED uploads /\ Same /\ SameCache

\* the answer to a multi-object DELETE lists the keys that could not be deleted
Deleted(t, E) == th[t].left \ E
ServeBatch(t) ==
  /\ th[t].pc = "batch" /\ th[t].res = None
  /\ \E E \in SUBSET th[t].left, lost \in BOOLEAN :
       /\ Store([k \in Keys |-> IF k \in Deleted(t, E) THEN NoObj ELSE obj[k]])
       /\ Step(t, [th[t] EXCEPT !.res = IF lost THEN "transient" ELSE "ok", !.bad = E # {}, !.sent = Deleted(t, E)])
  /\ UNCHANGED uploads /\ Same /\ SameCache

-----------------------------------------------------------------------------
(* S3: the answer at the thread *)

Answered(t, res) == th[t].res = res
Rec == UNCHANGED <<scene, obj, seen, disk, tmps, lock, uploads, used, spent, hit, rough>>

\* send_s3_with_retry and the loops of put_object, put_file_object and delete
Retry(t) ==
  /\ th[t].res = "transient" /\ th[t].try + 1 < Attempts
  /\ Step(t, [th[t] EXCEPT !.try = @ + 1, !.res = None])
  /\ Pending /\ Rec /\ SameCache /\ UNCHANGED leaked

\* what abort_multipart cannot close stays open
GiveUp(t) ==
  /\ \/ th[t].res = "refused"
     \/ th[t].res = "transient" /\ th[t].try + 1 >= Attempts
     \/ th[t].pc = "complete" /\ th[t].res = "missing"
  /\ IF th[t].pc = "complete" THEN Go(t, "abort") /\ Pending ELSE Returns(t, "error")
  /\ leaked' = IF th[t].pc = "abort" THEN leaked \cup {th[t].up} ELSE leaked
  /\ Rec /\ SameCache

\* exists: an answer from the cache
Ask(t) ==
  /\ th[t].pc = "ask"
  /\ CASE th[t].key \notin neg -> Go(t, "head") /\ Pending /\ SameCache
       [] th[t].key \in neg /\ th[t].op = "exists" -> Returns(t, "false") /\ SameCache
       [] th[t].key \in neg /\ th[t].op = "absent" -> Go(t, "initiate") /\ Pending /\ Learn({th[t].key})
  /\ Rec /\ UNCHANGED leaked

ReplyPut(t) ==
  /\ th[t].pc = "send" /\ th[t].res \in {"ok", "exists"}
  /\ Returns(t, IF th[t].res = "ok" THEN "true" ELSE "false")
  /\ Rec /\ SameCache /\ UNCHANGED leaked

ReplyHead(t) ==
  /\ th[t].pc = "head" /\ th[t].res \in {"ok", "missing"}
  /\ CASE th[t].res = "ok" ->
            Learn({th[t].key}) /\ Returns(t, IF th[t].op = "exists" THEN "true" ELSE "false")
       [] th[t].res = "missing" /\ th[t].op = "exists" ->
            Remember(t, th[t].key) /\ Returns(t, "false")
       [] th[t].res = "missing" /\ th[t].op = "absent" ->
            Learn({th[t].key}) /\ Go(t, "initiate") /\ Pending
  /\ Rec /\ UNCHANGED leaked

ReplyGet(t) ==
  /\ th[t].pc = "get" /\ th[t].res \in {"ok", "missing"}
  /\ IF th[t].res = "ok" THEN Learn({th[t].key}) ELSE Remember(t, th[t].key)
  /\ Returns(t, th[t].res)
  /\ Rec /\ UNCHANGED leaked

ReplyDelete(t) ==
  /\ th[t].pc \in Removes /\ th[t].res = "ok"
  /\ Learn(IF th[t].pc = "batch" THEN th[t].sent ELSE {th[t].key})
  /\ Returns(t, "ok")
  /\ Rec /\ UNCHANGED leaked

ReplyList(t) ==
  LET r == [th[t] EXCEPT !.found = @ \cup th[t].batch, !.batch = {}, !.res = None, !.try = 0]
  IN
  /\ th[t].pc = "page" /\ th[t].res \in {"ok", "last"}
  /\ IF th[t].res = "ok" THEN Step(t, r) /\ Pending ELSE Done(t, r, "ok")
  /\ Rec /\ SameCache /\ UNCHANGED leaked

-----------------------------------------------------------------------------
(* S3: multipart upload *)

FirstOf(P) == {p \in P : Cardinality({q \in P : q < p}) < Parallel}

ReplyInitiate(t) ==
  /\ th[t].pc = "initiate" /\ th[t].res = "ok"
  /\ Step(t, [th[t] EXCEPT !.pc = "parts", !.res = None, !.try = 0,
                           !.batch = FirstOf(Parts), !.left = Parts \ FirstOf(Parts)])
  /\ Pending /\ Rec /\ SameCache /\ UNCHANGED leaked

\* a part is sent until its own attempts are used up; sending it twice changes nothing
Part(t, p, fails) ==
  /\ th[t].pc = "parts" /\ p \in th[t].batch
  /\ Step(t, [th[t] EXCEPT !.batch = @ \ {p}, !.bad = @ \/ fails,
                           !.sent = IF fails THEN @ ELSE @ \cup {p}])
  /\ \E stored \in BOOLEAN :
       /\ ~fails => stored
       /\ uploads' = IF stored
                     THEN {IF u.id = th[t].up THEN [u EXCEPT !.parts = @ \cup {p}] ELSE u : u \in uploads}
                     ELSE uploads
  /\ Pending /\ SameStore /\ Same /\ SameCache

\* the batch is joined as a whole; any failed part fails the upload
JoinBatch(t) ==
  /\ th[t].pc = "parts" /\ th[t].batch = {}
  /\ CASE th[t].bad -> Go(t, "abort")
       [] ~th[t].bad /\ th[t].left = {} -> Go(t, "complete")
       [] ~th[t].bad /\ th[t].left # {} ->
            Step(t, [th[t] EXCEPT !.batch = FirstOf(th[t].left), !.left = @ \ FirstOf(@)])
  /\ Pending /\ Rec /\ SameCache /\ UNCHANGED leaked

ReplyComplete(t) ==
  /\ th[t].pc = "complete" /\ th[t].res = "ok"
  /\ Returns(t, "true")
  /\ Rec /\ SameCache /\ UNCHANGED leaked

ReplyAbort(t) ==
  /\ th[t].pc = "abort" /\ th[t].res = "ok"
  /\ Returns(t, "error")
  /\ Rec /\ SameCache /\ UNCHANGED leaked

-----------------------------------------------------------------------------
(* A file remote *)

FileOnly == UNCHANGED <<scene, uploads, neg, raced, used, spent, hit, leaked>>
FileRec == FileOnly /\ UNCHANGED rough
NoTmp(t) == tmps' = tmps \ {Tmp(t)}

\* sync_parent_dir: the entries of one directory
Synced(d) ==
  [disk EXCEPT !.ent = [k \in Keys |-> IF Dir(k) = d THEN obj[k] ELSE @[k]],
               !.lock = {k \in @ : Dir(k) # d} \cup {k \in lock : Dir(k) = d},
               !.tmps = {x \in @ : Dir(x[3]) # d} \cup {x \in tmps : Dir(x[3]) = d}]

\* create_dir_all, then the temporary file
Create(t) ==
  /\ th[t].pc = "create"
  /\ disk' = [disk EXCEPT !.fresh = @ \cup ({Dir(th[t].key)} \ disk.old)]
  /\ tmps' = tmps \cup {Tmp(t)} /\ Go(t, "write")
  /\ Pending /\ SameStore /\ FileRec /\ UNCHANGED lock

\* the contents are written and synced before the object gets its name
Write(t) ==
  /\ th[t].pc = "write"
  /\ Step(t, [th[t] EXCEPT !.pc = "publish", !.sent = Parts])
  /\ Pending /\ SameStore /\ FileRec /\ UNCHANGED <<disk, tmps, lock>>

\* write_atomic: rename over whatever is there
Replace(t) ==
  /\ th[t].pc = "publish" /\ th[t].op = "put"
  /\ Store([obj EXCEPT ![th[t].key] = Value(t)]) /\ NoTmp(t) /\ Go(t, "fsync")
  /\ Pending /\ FileRec /\ UNCHANGED <<disk, lock>>

\* a thread on the lock path has found no object and is about to rename its own
Renaming(k) == \E u \in Threads : th[u].pc = "rename" /\ th[u].key = k

\* file_remote_put_if_absent_atomic: link, which fails when the name is taken
Link(t) ==
  /\ th[t].pc = "publish" /\ th[t].op = "absent" /\ TRUE \in scene.link
  /\ IF obj[th[t].key] = NoObj
     THEN /\ Store([obj EXCEPT ![th[t].key] = Value(t)])
          /\ rough' = IF Renaming(th[t].key) THEN rough \cup {th[t].key} ELSE rough
          /\ Go(t, "linked") /\ Pending /\ UNCHANGED tmps
     ELSE /\ SameStore /\ NoTmp(t) /\ Returns(t, "false")
          /\ UNCHANGED rough
  /\ FileOnly /\ UNCHANGED <<disk, lock>>
Linked(t) ==
  /\ th[t].pc = "linked"
  /\ NoTmp(t) /\ Go(t, "fsync")
  /\ Pending /\ SameStore /\ FileRec /\ UNCHANGED <<disk, lock>>

Fsync(t) ==
  /\ th[t].pc = "fsync"
  /\ disk' = Synced(Dir(th[t].key)) /\ Returns(t, "true")
  /\ SameStore /\ FileRec /\ UNCHANGED <<tmps, lock>>

\* any other error of the link: file_remote_put_if_absent_with_lock
NoLink(t) ==
  /\ th[t].pc = "publish" /\ th[t].op = "absent" /\ FALSE \in scene.link
  /\ Go(t, "lock")
  /\ Pending /\ SameStore /\ FileRec /\ UNCHANGED <<disk, tmps, lock>>

LockObject(t) ==
  /\ th[t].pc = "lock"
  /\ CASE th[t].key \notin lock ->
            lock' = lock \cup {th[t].key} /\ Go(t, "check") /\ Pending /\ UNCHANGED tmps
       [] th[t].key \in lock /\ obj[th[t].key] # NoObj ->
            NoTmp(t) /\ Returns(t, "false") /\ UNCHANGED lock
       [] th[t].key \in lock /\ obj[th[t].key] = NoObj /\ th[t].try + 1 < LockTries ->
            Step(t, [th[t] EXCEPT !.try = @ + 1]) /\ Pending /\ UNCHANGED <<tmps, lock>>
       [] th[t].key \in lock /\ obj[th[t].key] = NoObj /\ th[t].try + 1 = LockTries ->
            NoTmp(t) /\ Returns(t, "error") /\ UNCHANGED lock
  /\ SameStore /\ FileRec /\ UNCHANGED disk

CheckLocked(t) ==
  /\ th[t].pc = "check"
  /\ IF obj[th[t].key] # NoObj
     THEN NoTmp(t) /\ \E a \in {"false", "error"} : Step(t, [th[t] EXCEPT !.pc = "unlock", !.res = a])
     ELSE Go(t, "rename") /\ UNCHANGED tmps
  /\ Pending /\ SameStore /\ FileRec /\ UNCHANGED <<disk, lock>>
RenameLocked(t) ==
  /\ th[t].pc = "rename"
  /\ \/ Store([obj EXCEPT ![th[t].key] = Value(t)]) /\ NoTmp(t) /\ Go(t, "sync")
     \/ SameStore /\ UNCHANGED tmps /\ Step(t, [th[t] EXCEPT !.pc = "unlock", !.res = "error"])
  /\ Pending /\ FileRec /\ UNCHANGED <<disk, lock>>
SyncLocked(t) ==
  /\ th[t].pc = "sync"
  /\ \/ disk' = Synced(Dir(th[t].key)) /\ Step(t, [th[t] EXCEPT !.pc = "unlock", !.res = "true"])
     \/ disk' = disk /\ Step(t, [th[t] EXCEPT !.pc = "unlock", !.res = "error"])
  /\ Pending /\ SameStore /\ FileRec /\ UNCHANGED <<tmps, lock>>
Unlock(t) ==
  /\ th[t].pc = "unlock"
  /\ lock' = lock \ {th[t].key} /\ NoTmp(t) /\ Returns(t, th[t].res)
  /\ SameStore /\ FileRec /\ UNCHANGED disk

\* an I/O error, other than one of the link; the temporary file is removed if it can be
Fail(t) ==
  /\ th[t].pc \in {"write", "publish", "lock", "linked", "fsync"}
  /\ th[t].pc = "publish" /\ th[t].op = "absent" => obj[th[t].key] # NoObj
  /\ NoTmp(t) \/ UNCHANGED tmps
  /\ Returns(t, "error")
  /\ SameStore /\ FileRec /\ UNCHANGED <<disk, lock>>

\* exists and get, and the test before remove_file
Look(t) ==
  LET here == obj[th[t].key] # NoObj IN
  /\ th[t].pc = "look" /\ th[t].op # "batch"
  /\ CASE th[t].op = "delete" /\ here -> Go(t, "unlink") /\ Pending
       [] th[t].op = "delete" /\ ~here -> Returns(t, "ok")
       [] th[t].op = "exists" -> Returns(t, IF here THEN "true" ELSE "false")
       [] th[t].op = "get" -> Returns(t, IF here THEN "ok" ELSE "missing")
  /\ SameStore /\ FileRec /\ UNCHANGED <<disk, tmps, lock>>
LookNext(t) ==
  LET k == CHOOSE k \in th[t].left : \A j \in th[t].left : k <= j IN
  /\ th[t].pc = "look" /\ th[t].op = "batch"
  /\ CASE th[t].left = {} -> Returns(t, "ok")
       [] th[t].left # {} /\ obj[k] # NoObj ->
            Step(t, [th[t] EXCEPT !.pc = "unlink", !.key = k, !.left = @ \ {k}]) /\ Pending
       [] th[t].left # {} /\ obj[k] = NoObj -> Step(t, [th[t] EXCEPT !.left = @ \ {k}]) /\ Pending
  /\ SameStore /\ FileRec /\ UNCHANGED <<disk, tmps, lock>>
\* the file may be gone by now: that is an error, and it ends a batch
Unlink(t) ==
  /\ th[t].pc = "unlink"
  /\ Store([obj EXCEPT ![th[t].key] = NoObj])
  /\ CASE obj[th[t].key] = NoObj -> Returns(t, "error")
       [] obj[th[t].key] # NoObj /\ th[t].op = "delete" -> Returns(t, "ok")
       [] obj[th[t].key] # NoObj /\ th[t].op = "batch" -> Go(t, "look") /\ Pending
  /\ FileRec /\ UNCHANGED <<disk, tmps, lock>>

\* the directory is read at once, temporary files and locks included; the files are
\* examined one by one afterwards, and one that has vanished fails the listing
Walk(t) ==
  /\ th[t].pc = "walk"
  /\ Step(t, [th[t] EXCEPT !.pc = "stat", !.found = Present(obj), !.sent = tmps, !.left = lock])
  /\ Pending /\ SameStore /\ FileRec /\ UNCHANGED <<disk, tmps, lock>>
Intact(t) ==
  th[t].found \subseteq Present(obj) /\ th[t].sent \subseteq tmps /\ th[t].left \subseteq lock
Stat(t) ==
  /\ th[t].pc = "stat"
  /\ \E a \in {"ok", "error"} : (a = "error" => th[t].op = "list" /\ ~Intact(t)) /\ Returns(t, a)
  /\ SameStore /\ FileRec /\ UNCHANGED <<disk, tmps, lock>>

-----------------------------------------------------------------------------
(* Crashes *)

Open(T) == {th[t].up : t \in T} \ {NoId}

\* a process dies: one thread of a file remote, all threads of an S3 client
Crash(t) ==
  LET T == IF File THEN {t} ELSE Threads IN
  /\ spent.crash < scene.crash /\ spent' = [spent EXCEPT !.crash = @ + 1]
  /\ Busy(t)
  /\ th' = [u \in Threads |-> IF u \in T THEN Quiet ELSE th[u]]
  /\ leaked' = leaked \cup {u.id : u \in {v \in uploads : v.id[1][1] \in T}}
  /\ IF File THEN SameCache ELSE neg' = {} /\ raced' = {}
  /\ UNCHANGED <<scene, obj, disk, tmps, lock, uploads, used, kept, hit, won, rough, seen>>

\* the machine of a file remote loses power: changes of entries that were not synced may be
\* lost, and so may the directories of D, whose own entries no put synced
PowerLoss ==
  /\ File /\ spent.power < scene.power /\ spent' = [spent EXCEPT !.power = @ + 1]
  /\ \E lost \in SUBSET scene.keys, D \in SUBSET disk.fresh, L \in {lock, disk.lock}, X \in {tmps, disk.tmps} :
       /\ Store([k \in Keys |-> IF Dir(k) \in D THEN NoObj ELSE IF k \in lost THEN disk.ent[k] ELSE obj[k]])
       /\ lock' = {k \in L : Dir(k) \notin D} /\ tmps' = {x \in X : Dir(x[3]) \notin D}
       /\ disk' = [ent |-> obj', lock |-> lock', tmps |-> tmps', fresh |-> {},
                   old |-> disk.old \cup (disk.fresh \ D)]
       /\ kept' = {k \in kept : Dir(k) \notin D}
       /\ rough' = rough \cup {k \in Keys : Dir(k) \in D}
  /\ th' = [t \in Threads |-> Quiet]
  /\ UNCHANGED <<scene, uploads, neg, used, hit, won, raced, leaked>>

SNext ==
  \/ \E t \in Threads :
       \/ \E op \in scene.ops[t], k \in Keys, big \in BOOLEAN : Begin(t, op, k, big)
       \/ Serve(t) \/ ServeLost(t) \/ ServeNot(t) \/ ServeBatch(t)
       \/ Retry(t) \/ GiveUp(t) \/ Ask(t) \/ ReplyPut(t) \/ ReplyHead(t) \/ ReplyGet(t)
       \/ ReplyDelete(t) \/ ReplyList(t) \/ ReplyInitiate(t) \/ JoinBatch(t)
       \/ \E p \in Parts, fails \in BOOLEAN : Part(t, p, fails)
       \/ ReplyComplete(t) \/ ReplyAbort(t)
       \/ Create(t) \/ Write(t) \/ Replace(t) \/ Link(t) \/ Linked(t) \/ Fsync(t) \/ NoLink(t)
       \/ LockObject(t) \/ CheckLocked(t) \/ RenameLocked(t) \/ SyncLocked(t) \/ Unlock(t)
       \/ Fail(t) \/ Look(t) \/ LookNext(t) \/ Unlink(t) \/ Walk(t) \/ Stat(t)
       \/ Crash(t)
  \/ \E k \in Keys : Expire(k)
  \/ PowerLoss

SSpec == SInit /\ [][SNext]_svars

-----------------------------------------------------------------------------
(* Properties *)

\* Temporary files and locks exist only on a file remote, uploads and the cache only on S3.
StoreTypeOK ==
  /\ tmps \subseteq Threads \X Nat \X Keys /\ lock \subseteq Keys /\ neg \subseteq Keys
  /\ raced \subseteq neg /\ (File => neg = {} /\ uploads = {}) /\ (~File => tmps = {} /\ lock = {})

\* Under any name there is a whole object of one writer: a torn temporary file or an incomplete
\* multipart upload never shows (write_atomic_with, complete_multipart).
ObjectsAreWhole == \A k \in Keys : obj[k] # NoObj => obj[k].parts = Parts

\* Once a put returned Ok the object is there until a delete is called, whatever was retried,
\* crashed or lost power since, unless the power loss took a directory that a put had created
\* (put, put_if_absent, put_file_if_absent).
AckedIsStored == \A k \in kept : obj[k] # NoObj

\* Where nobody deletes or replaces, at most one put_if_absent of a small object returns true, and
\* the object stays its own (file_remote_put_if_absent_atomic, put_object with if-none-match);
\* unless one call linked its file while another, whose link had failed, was about to rename.
WinnerIsUnique ==
  \A k \in Keys \ rough :
    /\ Cardinality(won[k]) <= 1
    /\ won[k] # {} => obj[k] # NoObj /\ obj[k].by \in won[k]

\* An upload stays open only while its put works on it, unless the server never told its name,
\* refused the abort, or the process died (put_multipart, abort_multipart).
UploadsAreClosed ==
  \A u \in uploads : u.id \in leaked \/ \E t \in Threads : Busy(t) /\ u.id = th[t].up

\* A key whose put returned Ok is remembered as absent only if a lookup of the same process was
\* under way during the put (invalidate_s3_negative_exists, remember_s3_negative_exists).
AbsenceIsTrue == \A k \in neg \cap kept : k \in raced

\* A listing that returns has every object that was there all the time, and none that never was
\* there, however many pages it took and whatever was retried (list_with_sizes, list_common_prefixes).
ListIsComplete ==
  \A t \in Threads :
    ~Busy(t) /\ th[t].ans = "ok" =>
      /\ th[t].op = "list" => seen[t].always \subseteq th[t].found /\ th[t].found \subseteq seen[t].ever
      /\ th[t].op = "prefixes" =>
           /\ {Dir(k) : k \in seen[t].always} \subseteq {Dir(k) : k \in th[t].found}
           /\ {Dir(k) : k \in th[t].found} \subseteq {Dir(k) : k \in seen[t].ever}
=============================================================================
