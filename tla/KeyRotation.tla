----------------------------- MODULE KeyRotation -----------------------------
(* The master key of an encrypted home and its rotation, `mj key rotate'
   (src/src/key_runtime.rs, src/src/internal/majutsu_crypto.rs), with the commands
   that store, pack, publish, evict and collect objects meanwhile.

   Objects are content addressed: an object is its identity, the key its name is
   derived from and it is encrypted with, and the objects its content names.  The
   rotation takes no lock.  It reads everything, stores every object again under the
   new key, switches the rows in one transaction, and only then replaces the key
   file; two more key files let readers try the other key in between. *)
EXTENDS Naturals, FiniteSets

CONSTANTS KeySet,    \* master keys
          FirstKey,  \* the key of the beginning
          Scenes     \* instances: encryption, tree format and bounds

None == "none"
Gone == "gone"       \* the key of a pack entry whose pack row was deleted

VARIABLES kscene,
          keys,      \* the key files: master, pending, prev
          disk,      \* objects in the home
          remote,    \* objects in the remote
          up,        \* the remote can be reached
          rows,      \* blobs, the chunk, the large object and the snapshots in the database
          packed,    \* packed blobs, with the key of their pack entry
          rot,       \* the rotation
          shot,      \* a snapshot that has stored its objects
          synced,    \* remote_refs names the current snapshot
          spent,     \* commands so far, by kind
          blind,     \* ghost: snapshots rotated while their tree could not be read
          stacked,   \* ghost: a rotation overwrote the pending key that rows still needed
          overlap    \* ghost: a snapshot, a pack run or gc met a rotation half-way

kvars == <<kscene, keys, disk, remote, up, rows, packed, rot, shot, synced, spent, blind, stacked, overlap>>

Idle == [pc |-> "idle"]
Obj(o, k, refs) == [o |-> o, k |-> k, refs |-> refs]
Nodes == kscene.format = "v2"

\* what the snapshots hold: blobs and the large object "l" with its chunk "c"
Content == [first |-> {"a", "l"}, second |-> {"a", "b", "l"}]

Spend(c) == spent[c] < kscene.bound[c] /\ spent' = [spent EXCEPT ![c] = @ + 1]

-----------------------------------------------------------------------------
(* Reading *)

DecodesWithoutPending(k) == k \in IF kscene.age THEN KeySet ELSE {keys.master, keys.prev}
\* decode_object tries the key files in turn; age uses identities that no rotation changes
Decodes(k) == k \in IF kscene.age THEN KeySet ELSE {keys.master, keys.pending, keys.prev}

Found(x) == x \in disk \cup (IF up THEN remote ELSE {})
Reads(x) == Found(x) /\ Decodes(x.k)
\* read_blob_payload: the pack entry, or the object that the record names
BlobReads(x) == IF x.o \in DOMAIN packed THEN Decodes(packed[x.o]) ELSE Reads(x)

TreeOf(s) == CHOOSE t \in rows.snaps[s].refs : TRUE
HasTree(s) == rows.snaps[s].refs # {}
NodeOf(s) == CHOOSE n \in TreeOf(s).refs : TRUE
InNodes(s) == \E n \in TreeOf(s).refs : n.o = "node"
ListingOf(s) == IF ~HasTree(s) THEN {} ELSE IF InNodes(s) THEN NodeOf(s).refs ELSE TreeOf(s).refs
Holds(s) == {x.o : x \in ListingOf(s)}

TreeReads(s) == \A t \in rows.snaps[s].refs : Reads(t)
NodesRead(s) == \A n \in {x \in UNION {t.refs : t \in rows.snaps[s].refs} : x.o = "node"} : Reads(n)
Lists(s) == Reads(rows.snaps[s]) /\ TreeReads(s) /\ NodesRead(s)

-----------------------------------------------------------------------------
(* Storing *)

StoredTree(listing, k, nodeKey) ==
  Obj("tree", k, IF Nodes THEN {Obj("node", nodeKey, listing)} ELSE listing)
StoredSnap(s, tree, k) == Obj(s, k, tree)

Closure(x) ==
  {x} \cup x.refs \cup UNION {y.refs : y \in x.refs}
      \cup UNION {UNION {z.refs : z \in y.refs} : y \in x.refs}
      \cup UNION {UNION {UNION {w.refs : w \in z.refs} : z \in y.refs} : y \in x.refs}

FirstRows ==
  LET c == Obj("c", FirstKey, {})
      l == Obj("l", FirstKey, {c})
      a == Obj("a", FirstKey, {})
      t == StoredTree({a, l}, FirstKey, FirstKey)
  IN  [blobs |-> [o \in {"a"} |-> a], chunk |-> c, large |-> l,
       snaps |-> [s \in {"first"} |-> StoredSnap(s, {t}, FirstKey)]]

KeyInit ==
  /\ kscene \in Scenes
  /\ keys = [master |-> FirstKey, pending |-> None, prev |-> None]
  /\ rows = FirstRows
  /\ disk = Closure(FirstRows.snaps["first"])
  /\ remote = {} /\ up = TRUE /\ packed = <<>>
  /\ rot = Idle /\ shot = Idle /\ synced = FALSE
  /\ spent = [rot |-> 0, crash |-> 0, snap |-> 0, pack |-> 0, gc |-> 0, sync |-> 0, evict |-> 0, net |-> 0]
  /\ blind = {} /\ stacked = FALSE /\ overlap = FALSE

-----------------------------------------------------------------------------
(* Key rotation *)

Abort == rot' = Idle
Quiet == UNCHANGED <<kscene, up, remote, shot, synced>>

\* the key files and the payload rows; every payload is read into memory
RotList(k) ==
  /\ rot = Idle /\ k # keys.master /\ Spend("rot")
  /\ LET readable == /\ \A o \in DOMAIN rows.blobs : BlobReads(rows.blobs[o])
                     /\ Reads(rows.chunk) /\ Reads(rows.large)
     IN  rot' = IF readable
                THEN [pc |-> "snaps", old |-> keys.master, new |-> k, blobs |-> DOMAIN rows.blobs,
                      held |-> <<>>, made |-> <<>>]
                ELSE Idle
  /\ Quiet /\ UNCHANGED <<keys, disk, rows, packed, blind, stacked, overlap>>

\* a tree that cannot be read leaves the snapshot without records
HeldBy(s) == IF TreeReads(s) THEN Holds(s) ELSE {}

RotSnaps ==
  /\ rot.pc = "snaps"
  /\ LET ss == DOMAIN rows.snaps
         unseen == {s \in ss : ~TreeReads(s)}
     IN  IF \A s \in ss : Reads(rows.snaps[s]) /\ (TreeReads(s) => NodesRead(s))
         THEN /\ rot' = [rot EXCEPT !.pc = "prev", !.held = [s \in ss |-> HeldBy(s)]]
              /\ blind' = blind \cup unseen
         ELSE Abort /\ UNCHANGED blind
  /\ Quiet /\ UNCHANGED <<keys, disk, rows, packed, spent, stacked, overlap>>

RotPrev ==
  /\ rot.pc = "prev"
  /\ keys' = [keys EXCEPT !.prev = rot.old]
  /\ rot' = [rot EXCEPT !.pc = "pending"]
  /\ Quiet /\ UNCHANGED <<disk, rows, packed, spent, blind, stacked, overlap>>

UsedKeys == {x.k : x \in UNION {Closure(rows.snaps[s]) : s \in DOMAIN rows.snaps}}

RotPending ==
  /\ rot.pc = "pending"
  /\ keys' = [keys EXCEPT !.pending = rot.new]
  /\ stacked' = (stacked \/ UsedKeys \ {keys.master, keys.prev, rot.new} # {})
  /\ rot' = [rot EXCEPT !.pc = "store"]
  /\ Quiet /\ UNCHANGED <<disk, rows, packed, spent, blind, overlap>>

RotatedChunk(k) == Obj("c", k, {})
RotatedLarge(k) == Obj("l", k, {RotatedChunk(k)})
Rotated(o, k) == IF o = "l" THEN RotatedLarge(k) ELSE Obj(o, k, {})

\* rewrite_manifest_payload_keys; tree nodes are stored with the key file's key
RotatedSnap(s, held, k) ==
  IF held = {} THEN Obj(s, k, {})
  ELSE StoredSnap(s, {StoredTree({Rotated(o, k) : o \in held}, k, keys.master)}, k)

RotStore ==
  /\ rot.pc = "store"
  /\ IF \A s \in DOMAIN rot.held : rot.held[s] \ {"l"} \subseteq rot.blobs
     THEN LET made == [blobs |-> [o \in rot.blobs |-> Rotated(o, rot.new)],
                       chunk |-> RotatedChunk(rot.new), large |-> RotatedLarge(rot.new),
                       snaps |-> [s \in DOMAIN rot.held |-> RotatedSnap(s, rot.held[s], rot.new)]]
          IN  /\ disk' = disk \cup {made.blobs[o] : o \in rot.blobs} \cup {made.chunk, made.large}
                              \cup UNION {Closure(made.snaps[s]) : s \in DOMAIN made.snaps}
              /\ rot' = [rot EXCEPT !.pc = "commit", !.made = made]
     ELSE Abort /\ UNCHANGED disk
  /\ Quiet /\ UNCHANGED <<keys, rows, packed, spent, blind, stacked, overlap>>

\* one transaction: the listed rows, and no packs any more
RotCommit ==
  /\ rot.pc = "commit"
  /\ rows' = [blobs |-> [o \in DOMAIN rows.blobs |-> IF o \in rot.blobs THEN rot.made.blobs[o] ELSE rows.blobs[o]],
              chunk |-> rot.made.chunk, large |-> rot.made.large,
              snaps |-> [s \in DOMAIN rows.snaps |->
                           IF s \in DOMAIN rot.made.snaps THEN rot.made.snaps[s] ELSE rows.snaps[s]]]
  /\ packed' = [o \in DOMAIN packed \ rot.blobs |-> Gone]
  /\ rot' = [rot EXCEPT !.pc = "master", !.made = <<>>, !.held = <<>>]
  /\ Quiet /\ UNCHANGED <<keys, disk, spent, blind, stacked, overlap>>

RotMaster ==
  /\ rot.pc = "master"
  /\ keys' = [keys EXCEPT !.master = rot.new]
  /\ rot' = [rot EXCEPT !.pc = "clean"]
  /\ Quiet /\ UNCHANGED <<disk, rows, packed, spent, blind, stacked, overlap>>

\* the pending key first, then the previous one
RotClean ==
  /\ rot.pc \in {"clean", "clean2"}
  /\ IF rot.pc = "clean"
     THEN keys' = [keys EXCEPT !.pending = None] /\ rot' = [rot EXCEPT !.pc = "clean2"]
     ELSE keys' = [keys EXCEPT !.prev = None] /\ rot' = Idle
  /\ Quiet /\ UNCHANGED <<disk, rows, packed, spent, blind, stacked, overlap>>

-----------------------------------------------------------------------------
(* Other commands *)

Stored(o) == Obj(o, keys.master, {})

\* blobs are stored unless packed or published; the large object while its manifest is here
TakenBlob(o) ==
  IF o \in DOMAIN rows.blobs /\ (o \in DOMAIN packed \/ synced) THEN rows.blobs[o] ELSE Stored(o)
TakenChunk == IF rows.chunk \in disk \/ synced THEN rows.chunk ELSE Stored("c")
TakenLarge ==
  IF rows.large \in disk THEN rows.large ELSE Obj("l", keys.master, {TakenChunk})

\* the snapshot reads its parent, stores objects and replaces the large rows at once
SnapStore ==
  /\ shot = Idle /\ "second" \notin DOMAIN rows.snaps /\ Spend("snap")
  /\ Lists("first") /\ \A x \in {rows.large} \cap disk : Reads(x)
  /\ LET blobs == {TakenBlob("a"), TakenBlob("b")}
         tree == StoredTree(blobs \cup {TakenLarge}, keys.master, keys.master)
         snap == StoredSnap("second", {tree}, keys.master)
         reused == {rows.blobs[o] : o \in DOMAIN rows.blobs} \cup {rows.large, rows.chunk}
     IN  /\ shot' = [pc |-> "commit", snap |-> snap, blobs |-> blobs, pc0 |-> rot.pc, rots |-> spent.rot]
         /\ disk' = disk \cup (Closure(snap) \ reused)
         /\ rows' = IF rows.large \in disk THEN rows ELSE [rows EXCEPT !.large = TakenLarge, !.chunk = TakenChunk]
  /\ UNCHANGED <<kscene, keys, remote, up, packed, rot, synced, blind, stacked, overlap>>

\* a rotation that still has to list the snapshots will stop when it meets the new one
Undisturbed(w) ==
  IF w.pc0 \notin {"idle", "snaps"} THEN {}
  ELSE {<<w.pc0, w.rots>>} \cup (IF w.pc0 = "idle" THEN {<<"snaps", w.rots + 1>>} ELSE {})

\* insert or ignore: a row that is there keeps its object
SnapCommit ==
  /\ shot.pc = "commit"
  /\ rows' = [rows EXCEPT !.snaps = [s \in DOMAIN @ \cup {"second"} |-> IF s = "second" THEN shot.snap ELSE @[s]],
                          !.blobs = [o \in DOMAIN @ \cup {"a", "b"} |->
                                       IF o \in DOMAIN @ THEN @[o] ELSE CHOOSE x \in shot.blobs : x.o = o]]
  /\ overlap' = (overlap \/ <<rot.pc, spent.rot>> \notin Undisturbed(shot))
  /\ synced' = FALSE
  /\ shot' = Idle
  /\ UNCHANGED <<kscene, keys, disk, remote, up, packed, rot, spent, blind, stacked>>

Loose == {o \in DOMAIN rows.blobs \ DOMAIN packed : rows.blobs[o] \in disk}

Pack ==
  /\ Loose # {} /\ Spend("pack")
  /\ \A o \in Loose : Reads(rows.blobs[o])
  /\ packed' = [o \in DOMAIN packed \cup Loose |-> IF o \in Loose THEN keys.master ELSE packed[o]]
  /\ overlap' = (overlap \/ rot # Idle)
  /\ UNCHANGED <<kscene, keys, disk, remote, up, rows, rot, shot, synced, blind, stacked>>

\* local_object_keys: blobs by their row, everything else by what names it
Referenced ==
  UNION {{rows.snaps[s]} \cup rows.snaps[s].refs \cup (IF HasTree(s) /\ InNodes(s) THEN TreeOf(s).refs ELSE {})
         : s \in DOMAIN rows.snaps}
  \cup UNION {UNION {Closure(x) : x \in {y \in ListingOf(s) : y.o = "l"}} : s \in DOMAIN rows.snaps}
  \cup {rows.blobs[o] : o \in (DOMAIN rows.blobs \ DOMAIN packed) \cap UNION {Holds(s) : s \in DOMAIN rows.snaps}}
AllListed ==
  \A s \in DOMAIN rows.snaps : Lists(s) /\ \A x \in {y \in ListingOf(s) : y.o = "l"} : Reads(x)

Gc ==
  /\ Spend("gc")
  /\ AllListed
  /\ disk' = disk \cap Referenced
  /\ overlap' = (overlap \/ rot # Idle \/ shot # Idle)
  /\ UNCHANGED <<kscene, keys, remote, up, rows, packed, rot, shot, synced, blind, stacked>>

\* uploads, names the current snapshot in the remote, and removes what nothing names
Sync ==
  /\ up /\ Spend("sync")
  /\ AllListed /\ Referenced \subseteq disk \cup remote
  /\ remote' = Referenced
  /\ synced' = TRUE
  /\ UNCHANGED <<kscene, keys, disk, up, rows, packed, rot, shot, blind, stacked, overlap>>

\* what the remote has leaves the disk: blobs, the chunk, and trees
Evictable ==
  {rows.blobs[o] : o \in DOMAIN rows.blobs \ DOMAIN packed} \cup {rows.chunk}
  \cup UNION {rows.snaps[s].refs : s \in DOMAIN rows.snaps}

Evict ==
  /\ up /\ Evictable \cap remote \cap disk # {} /\ Spend("evict")
  /\ disk' = disk \ (Evictable \cap remote)
  /\ UNCHANGED <<kscene, keys, remote, up, rows, packed, rot, shot, synced, blind, stacked, overlap>>

Crash ==
  /\ <<rot, shot>> # <<Idle, Idle>>
  /\ Spend("crash")
  /\ rot' = Idle /\ shot' = Idle
  /\ UNCHANGED <<kscene, keys, disk, remote, up, rows, packed, synced, blind, stacked, overlap>>

Network ==
  /\ Spend("net")
  /\ up' = ~up
  /\ UNCHANGED <<kscene, keys, disk, remote, rows, packed, rot, shot, synced, blind, stacked, overlap>>

KeyNext ==
  \/ \E k \in KeySet : RotList(k)
  \/ RotSnaps \/ RotPrev \/ RotPending \/ RotStore \/ RotCommit \/ RotMaster \/ RotClean
  \/ SnapStore \/ SnapCommit \/ Pack \/ Gc \/ Sync \/ Evict \/ Crash \/ Network

KeySpec == KeyInit /\ [][KeyNext]_kvars

-----------------------------------------------------------------------------
(* Properties *)

\* The type invariant: which keys files, objects and packs may be under.
KeyTypeOK ==
  /\ keys \in [master : KeySet, pending : KeySet \cup {None}, prev : KeySet \cup {None}]
  /\ \A x \in disk \cup remote : x.k \in KeySet
  /\ \A o \in DOMAIN packed : packed[o] \in KeySet \cup {Gone}
  /\ DOMAIN packed \subseteq DOMAIN rows.blobs
  /\ rot.pc \in {"idle", "snaps", "prev", "pending", "store", "commit", "master", "clean", "clean2"}

\* the tree nodes of a rotated snapshot keep the old key
StaleNodes(s) == HasTree(s) /\ InNodes(s) /\ NodeOf(s).k # TreeOf(s).k
\* a record names a blob object that is not the one of the row
SplitBlob(s) == \E x \in ListingOf(s) : x.o \in DOMAIN rows.blobs /\ x # rows.blobs[x.o]
InReach(x) == (x \in disk \cup remote) /\ Decodes(x.k)
FileRestores(x) ==
  IF x.o = "l" THEN InReach(x) /\ \A c \in x.refs : InReach(c)
  ELSE IF x.o \in DOMAIN packed THEN Decodes(packed[x.o]) ELSE InReach(x)

(* Key rotation keeps history: wherever it is stopped and whatever is rotated after that, every
   snapshot still lists its files and every file can be read with the keys at hand.  Not covered, because the code
   does lose data there: snapshots, pack runs and gc that overlap a rotation, a second rotation to
   yet another key after one that stopped between its transaction and the key file, a
   snapshot whose tree was out of reach, nodes of v2 trees, and snapshots between
   the transaction and the key file, whose blobs gc does not know. *)
KeepsHistory ==
  \A s \in DOMAIN rows.snaps :
    \/ overlap \/ stacked \/ blind # {} \/ StaleNodes(s) \/ SplitBlob(s)
    \/ /\ Holds(s) = Content[s]
       /\ \A x \in {rows.snaps[s]} \cup rows.snaps[s].refs : InReach(x)
       /\ InNodes(s) => InReach(NodeOf(s))
       /\ \A x \in ListingOf(s) : FileRestores(x)

(* Once a rotation has removed its two spare keys nothing needs the old key: all that a
   snapshot names is stored under the key that `mj key export' prints. *)
OldKeyIsUnneeded ==
  (keys.pending = None /\ keys.prev = None /\ ~overlap /\ ~stacked) =>
    \A s \in DOMAIN rows.snaps :
      StaleNodes(s) \/ \A x \in Closure(rows.snaps[s]) : x.k = keys.master
=============================================================================
