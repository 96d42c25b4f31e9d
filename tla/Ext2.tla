-------------------------------- MODULE Ext2 --------------------------------
(***************************************************************************)
(* The write path of kernel/fs/ext2_vfs.c and what a power failure leaves  *)
(* of it: the dirty blocks of the block cache, the inodes whose new size   *)
(* is kept back (ext2_pending_inodes), the private inode of an open file,  *)
(* the order in which ext2_sync writes them, and the block device under    *)
(* them.  A device with a flush operation has a write cache that only      *)
(* blk_flush empties; one without keeps what it was given, which is the    *)
(* premise on which blk_flush returns 0 for it.                            *)
(*                                                                         *)
(* Every entry point holds the file-system lock (module Ext2Lock), so an   *)
(* operation is one step, except ext2_sync, which has a barrier in the     *)
(* middle.  Inside an operation nothing is flushed, so a failure in the    *)
(* middle leaves an image that a failure at its end may leave too; over a  *)
(* device without a cache it comes between operations or after a failed    *)
(* request.                                                                *)
(* A clean cache entry is a copy of the device's block and is not kept;    *)
(* files are whole blocks, all of them direct; the free counters of the    *)
(* superblock and of the group are left out, the bitmap is kept.           *)
(***************************************************************************)
EXTENDS Naturals, FiniteSets, Sequences, Functions, FiniteSetsExt, TLC

CONSTANTS
  Files,        \* inode numbers
  NoFile,       \* "writer" of a block that ext2_alloc_block zeroed
  DataBlocks,   \* numbers of the data blocks
  FileBlocks,   \* EXT2 i_block[]: direct blocks of a file
  CacheWays,    \* EXT2_BLOCK_CACHE_WAYS: blocks of the (one) cache set
  BatchBlocks,  \* EXT2_WRITEBACK_MAX_BLOCKS
  PendingMax,   \* EXT2_PENDING_INODE_COUNT
  Programs      \* what may happen: [calls, flush, writes, faults, crashes]: the
                \* calls beside open, write, sync and close, whether the device
                \* has a flush operation, and bounds on the writes, on failed
                \* requests and allocations, and on power failures

Bitmap == 0
Itable == 1
Blocks == {Bitmap, Itable} \cup DataBlocks

VARIABLES
  calls,        \* calls of the member of Programs this behaviour runs
  ops_flush,    \* dev->ops->flush is there, and VIRTIO offers the feature
  disk,         \* what the device answers to a read of a block
  after,        \* what the block may hold after a power failure
  dirty,        \* dirty entries of ext2_block_cache
  pending,      \* valid entries of ext2_pending_inodes
  ext2_dirty,   \* something was written since the last blk_flush
  alloc_hint,   \* ext2_alloc_bit_hint, as the block where the search starts
  file,         \* file->private_data of the file's open description
  pc,           \* where ext2_sync stands; "idle": the lock is free
  written,      \* what the calls that returned wrote, per file
  kept,         \* written, as the last successful ext2_sync saw it
  trusted,      \* no mount and no failed truncation found them disagree
  writes, faults, crashes   \* what is left of the program's bounds

program == <<calls, ops_flush>>
media == <<disk, after>>
memory == <<dirty, pending, ext2_dirty, alloc_hint, file>>
ghosts == <<written, kept, trusted>>
bounds == <<writes, faults, crashes>>
vars == <<program, media, memory, pc, ghosts, bounds>>

-----------------------------------------------------------------------------
Zero == <<NoFile, 0>>
Stamps(f) == {f} \X (1 .. Max({p.writes : p \in Programs}))
NoBlocks == [i \in 1 .. FileBlocks |-> 0]
EmptyInode == [i_size |-> 0, i_block |-> NoBlocks]
Closed == [open |-> FALSE, di |-> EmptyInode]
Unknown == [known |-> FALSE, data |-> <<>>]
Known(data) == [known |-> TRUE, data |-> data]

BlocksOf(inode) == Range(inode.i_block) \ {0}

(* Device, cache and fault count as an operation finds and leaves them. *)
Io == [disk |-> disk, after |-> after, dirty |-> dirty, mark |-> ext2_dirty,
       faults |-> faults, ok |-> TRUE]

(* s && F(s) of the C code, for every outcome s. *)
Then(S, F(_)) == UNION {IF s.ok THEN F(s) ELSE {s} : s \in S}

ext2_read_block(s, b) == IF b \in DOMAIN s.dirty THEN s.dirty[b] ELSE s.disk[b]

(* What may survive of a block that v was written to.  In a cache, a read  *)
(* sees v and a power failure may not.                                     *)
Survivors(old, v) == IF ops_flush THEN old \cup {v} ELSE {v}

(* A request that failed may have been carried out. *)
blk_write_sectors(s, b, v) ==
  LET done == [s EXCEPT !.disk[b] = v, !.after[b] = Survivors(@, v)]
      fails == IF s.faults > 0 THEN {s, done} ELSE {}
  IN  {done} \cup {[x EXCEPT !.ok = FALSE, !.faults = @ - 1] : x \in fails}

ext2_write_block(s, b, v) ==
  {IF x.ok THEN [x EXCEPT !.mark = TRUE, !.dirty = Restrict(@, DOMAIN @ \ {b})] ELSE x
     : x \in blk_write_sectors(s, b, v)}

\* Mutant: a full set gives up a dirty block to make room.
ext2_write_data_block_Evicts(s, b, v) ==
  LET stay == IF Cardinality(DOMAIN s.dirty \ {b}) < CacheWays THEN DOMAIN s.dirty
              ELSE DOMAIN s.dirty \ {Min(DOMAIN s.dirty \ {b})}
  IN  {[s EXCEPT !.mark = TRUE, !.dirty = (b :> v) @@ Restrict(@, stay)]}

(* ext2_block_cache_pick never gives up a dirty entry: when the set is     *)
(* full of them, or without memory for the entry, the block goes straight  *)
(* to the device.                                                          *)
ext2_write_data_block(s, b, v) ==
  (IF b \in DOMAIN s.dirty \/ Cardinality(DOMAIN s.dirty) < CacheWays
   THEN {[s EXCEPT !.mark = TRUE, !.dirty = (b :> v) @@ @]} ELSE {})
  \cup
  (IF b \in DOMAIN s.dirty THEN {}
   ELSE IF Cardinality(DOMAIN s.dirty) = CacheWays THEN ext2_write_block(s, b, v)
   ELSE IF s.faults = 0 THEN {}
   ELSE ext2_write_block([s EXCEPT !.faults = @ - 1], b, v))

(* The first free block from the hint on, or the first one. *)
Candidates(s) ==
  LET free == DataBlocks \ ext2_read_block(s, Bitmap)
      later == {b \in free : b >= alloc_hint}
  IN  IF free = {} THEN {} ELSE IF later = {} THEN {Min(free)} ELSE {Min(later)}

(* During a write the zeroed block and the bitmap stay in the cache too.   *)
(* The counters, written last, are left out: only that this may fail.      *)
ext2_alloc_block(s, b) ==
  LET AllocBit(x) == ext2_write_data_block(x, Bitmap, ext2_read_block(x, Bitmap) \cup {b})
      Counters(x) ==
        {x} \cup IF x.faults = 0 THEN {} ELSE {[x EXCEPT !.ok = FALSE, !.faults = @ - 1]}
  IN  Then(Then(ext2_write_data_block(s, b, Zero), AllocBit), Counters)

ext2_free_block_list(s, freed) ==
  LET bits == ext2_read_block(s, Bitmap)
  IN  IF bits \cap freed = {} THEN {s} ELSE ext2_write_block(s, Bitmap, bits \ freed)

(* The pending inode, or the one in the inode table. *)
ext2_read_disk_inode(f) ==
  IF f \in DOMAIN pending THEN pending[f] ELSE ext2_read_block(Io, Itable)[f]

write_inode(s, f, inode) ==
  ext2_write_block(s, Itable, [ext2_read_block(s, Itable) EXCEPT ![f] = inode])

\* The state an operation leaves on the device and in the cache.
Leave(s) ==
  /\ disk' = s.disk
  /\ after' = s.after
  /\ dirty' = s.dirty
  /\ ext2_dirty' = s.mark
  /\ faults' = s.faults

\* ext2_write_disk_inode drops the pending copy once the block is written.
DropPending(s, f) ==
  pending' = IF s.ok THEN Restrict(pending, DOMAIN pending \ {f}) ELSE pending

-----------------------------------------------------------------------------
(* No inode refers to a free block, no two to the same one. *)
Agree(inodes, bits) ==
  \A f \in Files :
    /\ BlocksOf(inodes[f]) \subseteq bits
    /\ \A g \in Files \ {f} : BlocksOf(inodes[f]) \cap BlocksOf(inodes[g]) = {}

Contents(inode, blocks) == [i \in 1 .. inode.i_size |-> blocks[inode.i_block[i]]]

Init ==
  /\ \E p \in Programs :
       /\ calls = p.calls /\ ops_flush = p.flush
       /\ writes = p.writes /\ faults = p.faults /\ crashes = p.crashes
  /\ disk = [b \in Blocks |-> CASE b = Bitmap -> {}
                                [] b = Itable -> [f \in Files |-> EmptyInode]
                                [] OTHER -> Zero]
  /\ after = [b \in Blocks |-> {disk[b]}]
  /\ dirty = <<>>
  /\ pending = <<>>
  /\ ext2_dirty = FALSE
  /\ alloc_hint = 0
  /\ file = [f \in Files |-> Closed]
  /\ pc = "idle"
  /\ written = [f \in Files |-> Known(<<>>)]
  /\ kept = written
  /\ trusted = TRUE

Open(f) ==
  /\ pc = "idle"
  /\ ~file[f].open
  /\ file' = [file EXCEPT ![f] = [open |-> TRUE, di |-> ext2_read_disk_inode(f)]]
  /\ UNCHANGED <<program, media, dirty, pending, ext2_dirty, alloc_hint, pc, ghosts, bounds>>

(* close(2): a file open for writing synchronises the file system. *)
Close(f) ==
  /\ pc = "idle"
  /\ file[f].open
  /\ file' = [file EXCEPT ![f] = Closed]
  /\ pc' = IF ext2_dirty THEN "flush" ELSE "idle"
  /\ UNCHANGED <<program, media, dirty, pending, ext2_dirty, alloc_hint, ghosts, bounds>>

InUse(f) == IF file[f].open THEN file[f].di ELSE ext2_read_disk_inode(f)

(* What the caller knows of f after a write of v to block i of it. *)
Note(f, i, v, ok) ==
  /\ written' = [written EXCEPT ![f] =
       IF ~ok \/ ~@.known THEN Unknown
       ELSE IF i <= Len(@.data) THEN Known([@.data EXCEPT ![i] = v])
       ELSE Known(Append(@.data, v))]
  /\ kept' = [kept EXCEPT ![f] = Unknown]

\* Mutant: the new size goes to the inode table at once.
ext2_queue_pending_inode_Eager(s, f, di) ==
  {[io |-> x, pending |-> pending, ok |-> x.ok] : x \in write_inode(s, f, di)}

(* A slot of the inode or a free one; with the table full the caller fails. *)
ext2_queue_pending_inode(s, f, di) ==
  LET room == f \in DOMAIN pending \/ Cardinality(DOMAIN pending) < PendingMax
  IN  {[io |-> s, ok |-> room, pending |-> IF room THEN (f :> di) @@ pending ELSE pending]}

(* write(2) of block i, which may be the one after the last.  The private  *)
(* inode takes the new block as soon as it is allocated, the new size when *)
(* the data is in the cache.                                               *)
Write(f, i) ==
  LET di == file[f].di
      v == <<f, writes>>
      fresh == di.i_block[i] = 0
  IN
  /\ pc = "idle"
  /\ file[f].open
  /\ writes > 0
  /\ i <= di.i_size + 1
  /\ writes' = writes - 1
  /\ \E b \in IF fresh THEN Candidates(Io) ELSE {di.i_block[i]} :
     \E s \in IF fresh THEN ext2_alloc_block(Io, b) ELSE {Io} :
     /\ alloc_hint' = IF fresh /\ s.ok THEN b + 1 ELSE alloc_hint
     /\
       \/ /\ ~s.ok
          /\ Leave(s)
          /\ Note(f, i, v, FALSE)
          /\ UNCHANGED <<file, pending>>
       \/ /\ s.ok
          /\ \E t \in ext2_write_data_block(s, b, v) :
               LET placed == [di EXCEPT !.i_block[i] = b]
                   grown == [placed EXCEPT !.i_size = Max({@, i})]
               IN  \/ /\ ~t.ok
                      /\ Leave(t)
                      /\ Note(f, i, v, FALSE)
                      /\ file' = [file EXCEPT ![f].di = placed]
                      /\ UNCHANGED pending
                   \/ /\ t.ok
                      /\ \E q \in ext2_queue_pending_inode(t, f, grown) :
                           /\ Leave(q.io)
                           /\ pending' = q.pending
                           /\ Note(f, i, v, q.ok)
                      /\ file' = [file EXCEPT ![f].di = grown]
  /\ UNCHANGED <<program, pc, trusted, crashes>>

(* ftruncate(2) to a smaller number of blocks: the blocks are freed on the *)
(* device, then the inode is written.  To nothing it works on the inode    *)
(* read back, otherwise on the private one, whose pointers go first.       *)
Truncate(f, n) ==
  LET di == file[f].di
      old == IF n = 0 THEN ext2_read_disk_inode(f) ELSE di
      cut == [old EXCEPT !.i_block = [i \in DOMAIN @ |-> IF i <= n THEN @[i] ELSE 0]]
      new == [cut EXCEPT !.i_size = n]
      WriteBack(s) == write_inode(s, f, new)
  IN
  /\ pc = "idle"
  /\ "truncate" \in calls
  /\ file[f].open
  /\ n < di.i_size
  /\ \E s \in Then(ext2_free_block_list(Io, BlocksOf(old) \ BlocksOf(cut)), WriteBack) :
       /\ Leave(s)
       /\ DropPending(s, f)
       /\ file' = [file EXCEPT ![f].di = IF s.ok THEN new ELSE IF n = 0 THEN @ ELSE cut]
       /\ written' = [written EXCEPT ![f] =
            IF ~s.ok THEN Unknown ELSE IF n = 0 THEN Known(<<>>)
            ELSE [@ EXCEPT !.data = SubSeq(@, 1, Min({n, Len(@)}))]]
       /\ kept' = [kept EXCEPT ![f] = Unknown]
  /\ trusted' = (trusted /\ Agree([g \in Files |-> InUse(g)'], ext2_read_block(Io, Bitmap)'))
  /\ UNCHANGED <<program, alloc_hint, pc, writes, crashes>>

(* chmod, chown, utimes: the inode, pending or not, is written at once. *)
ext2_update_inode_metadata(f) ==
  /\ pc = "idle"
  /\ "chmod" \in calls
  /\ \E s \in write_inode(Io, f, ext2_read_disk_inode(f)) :
       Leave(s) /\ DropPending(s, f)
  /\ UNCHANGED <<program, alloc_hint, file, pc, ghosts, writes, crashes>>

-----------------------------------------------------------------------------
\* ext2_sync, called by sync(2), fsync(2), a write with O_SYNC, and close(2).
SyncCall ==
  /\ pc = "idle"
  /\ pc' = "flush"
  /\ UNCHANGED <<program, media, memory, ghosts, bounds>>

\* Dirty blocks from the lowest one on, as long as they follow each other.
Batch ==
  LET first == Min(DOMAIN dirty)
  IN  {b \in DOMAIN dirty : b < first + BatchBlocks /\ first .. b \subseteq DOMAIN dirty}

(* One request of ext2_flush_dirty_blocks.  The blocks become clean when   *)
(* it succeeds; of a failed one any part may have been carried out.        *)
FlushBatch ==
  /\ pc = "flush"
  /\ dirty # <<>>
  /\ \E done \in IF faults > 0 THEN SUBSET Batch ELSE {Batch}, ok \in BOOLEAN :
       /\ ok => done = Batch
       /\ ~ok => faults > 0
       /\ disk' = Restrict(dirty, done) @@ disk
       /\ after' = [b \in Blocks |-> IF b \in done THEN Survivors(after[b], dirty[b]) ELSE after[b]]
       /\ dirty' = IF ok THEN Restrict(dirty, DOMAIN dirty \ done) ELSE dirty
       /\ faults' = IF ok THEN faults ELSE faults - 1
       /\ pc' = IF ok THEN "flush" ELSE "idle"
  /\ UNCHANGED <<program, pending, ext2_dirty, alloc_hint, file, ghosts, writes, crashes>>

(* The device empties its write cache, or the request fails; without a     *)
(* flush operation the call does nothing and succeeds.                     *)
blk_flush(onSuccess) ==
  \/ /\ after' = IF ops_flush THEN [b \in Blocks |-> {disk[b]}] ELSE after
     /\ onSuccess
     /\ UNCHANGED faults
  \/ /\ ops_flush
     /\ faults > 0
     /\ faults' = faults - 1
     /\ pc' = "idle"
     /\ UNCHANGED <<after, ext2_dirty, kept>>

\* Mutant: the inodes follow the data without a barrier.
Barrier_Missing ==
  /\ pc = "flush"
  /\ dirty = <<>>
  /\ pc' = IF pending = <<>> THEN "final" ELSE "inodes"
  /\ UNCHANGED <<program, media, memory, ghosts, bounds>>

(* With inodes to write, everything before them is made durable first.     *)
(* (The superblock, written just before, holds only counters.)             *)
Barrier ==
  /\ pc = "flush"
  /\ dirty = <<>>
  /\ \/ /\ pending = <<>>
        /\ pc' = "final"
        /\ UNCHANGED <<after, ext2_dirty, kept, faults>>
     \/ /\ pending # <<>>
        /\ blk_flush(pc' = "inodes" /\ UNCHANGED <<ext2_dirty, kept>>)
  /\ UNCHANGED <<program, disk, dirty, pending, alloc_hint, file, written, trusted, writes, crashes>>

\* ext2_flush_pending_inodes, one inode of it.
FlushInode(f) ==
  /\ pc = "inodes"
  /\ f \in DOMAIN pending
  /\ \E s \in write_inode(Io, f, pending[f]) :
       /\ Leave(s)
       /\ DropPending(s, f)
       /\ pc' = IF s.ok THEN "inodes" ELSE "idle"
  /\ UNCHANGED <<program, alloc_hint, file, ghosts, writes, crashes>>

InodesFlushed ==
  /\ pc = "inodes"
  /\ pending = <<>>
  /\ pc' = "final"
  /\ UNCHANGED <<program, media, memory, ghosts, bounds>>

\* Mutant: the call does not wait for the device's cache once more.
SyncReturns_NoFlush ==
  /\ pc = "final"
  /\ ext2_dirty' = FALSE
  /\ pc' = "idle"
  /\ kept' = written
  /\ UNCHANGED <<program, media, dirty, pending, alloc_hint, file, written, trusted, bounds>>

SyncReturns ==
  /\ pc = "final"
  /\ \/ /\ ext2_dirty
        /\ blk_flush(ext2_dirty' = FALSE /\ pc' = "idle" /\ kept' = written)
     \/ /\ ~ext2_dirty
        /\ pc' = "idle"
        /\ kept' = written
        /\ UNCHANGED <<after, ext2_dirty, faults>>
  /\ UNCHANGED <<program, disk, dirty, pending, alloc_hint, file, written, trusted, writes, crashes>>

(* What a power failure may leave: of each block one of its values. *)
Images ==
  {(Bitmap :> bits) @@ (Itable :> inodes) @@ data :
     bits \in after[Bitmap], inodes \in after[Itable],
     data \in {d \in [DataBlocks -> UNION {after[b] : b \in DataBlocks}] :
                 \A b \in DataBlocks : d[b] \in after[b]}}

(* Power failure and ext2_mount: every block has one of the values that    *)
(* could survive, memory starts empty, and nothing is repaired.            *)
Reboot ==
  /\ crashes > 0
  /\ crashes' = crashes - 1
  /\ \E image \in Images :
       /\ disk' = image
       /\ after' = [b \in Blocks |-> {image[b]}]
       /\ written' = [f \in Files |-> Known(Contents(image[Itable][f], image))]
       /\ trusted' = (trusted /\ Agree(image[Itable], image[Bitmap]))
  /\ kept' = written'
  /\ dirty' = <<>>
  /\ pending' = <<>>
  /\ ext2_dirty' = FALSE
  /\ alloc_hint' = 0
  /\ file' = [f \in Files |-> Closed]
  /\ pc' = "idle"
  /\ UNCHANGED <<program, writes, faults>>

Next ==
  \/ \E f \in Files :
       \/ Open(f)
       \/ Close(f)
       \/ \E i \in 1 .. FileBlocks : Write(f, i)
       \/ \E n \in 0 .. FileBlocks - 1 : Truncate(f, n)
       \/ ext2_update_inode_metadata(f)
       \/ FlushInode(f)
  \/ SyncCall
  \/ FlushBatch
  \/ Barrier
  \/ InodesFlushed
  \/ SyncReturns
  \/ Reboot

Spec == Init /\ [][Next]_vars

-----------------------------------------------------------------------------
Inodes == [i_size : 0 .. FileBlocks, i_block : [1 .. FileBlocks -> {0} \cup DataBlocks]]
Data == {Zero} \cup UNION {Stamps(f) : f \in Files}

TypeOK ==
  /\ \E p \in Programs : calls = p.calls /\ ops_flush = p.flush
  /\ disk[Bitmap] \subseteq DataBlocks
  /\ disk[Itable] \in [Files -> Inodes]
  /\ \A b \in DataBlocks : disk[b] \in Data
  /\ \A b \in Blocks : disk[b] \in after[b]
  /\ DOMAIN dirty \subseteq Blocks
  /\ Cardinality(DOMAIN dirty) <= CacheWays
  /\ DOMAIN pending \subseteq Files
  /\ Cardinality(DOMAIN pending) <= PendingMax
  /\ \A f \in DOMAIN pending : pending[f] \in Inodes
  /\ file \in [Files -> [open : BOOLEAN, di : Inodes]]
  /\ pc \in {"idle", "flush", "inodes", "final"}

(* A read returns what the last writes that succeeded put there, whether   *)
(* the blocks are still in the cache, went straight to the device, were    *)
(* written back, or were found there by ext2_mount after a power failure;  *)
(* and a file opened again has the size it was left with.                  *)
ReadsBack ==
  LET seen == [b \in Blocks |-> ext2_read_block(Io, b)]
  IN  trusted => \A f \in Files : written[f].known =>
        /\ Contents(ext2_read_disk_inode(f), seen) = written[f].data
        /\ file[f].open => Contents(file[f].di, seen) = written[f].data

(* Once ext2_sync has returned 0 a power failure cannot take back what it  *)
(* found written, until the file is written or truncated again: every      *)
(* image that may survive has the file's size and its data, whatever       *)
(* happens to the other files that share the bitmap and the inode table.   *)
SyncedSurvives ==
  trusted => \A f \in Files : kept[f].known =>
    \A inodes \in after[Itable] :
      /\ inodes[f].i_size = Len(kept[f].data)
      /\ \A i \in 1 .. inodes[f].i_size : after[inodes[f].i_block[i]] = {kept[f].data[i]}

(* "File-size updates must not reach disk before newly allocated data and  *)
(* allocation metadata" (ext2_sync): whatever a power failure leaves, an   *)
(* inode's blocks are marked in the bitmap and hold data of that file.     *)
SizeAfterData ==
  \A f \in Files, inodes \in after[Itable] : \A i \in 1 .. inodes[f].i_size :
    LET b == inodes[f].i_block[i]
    IN  /\ \A bits \in after[Bitmap] : b \in bits
        /\ after[b] \subseteq Stamps(f)

(* The same, for programs that only open, write, sync and close.  They     *)
(* never need a repair either.                                             *)
WritesOrdered == calls = {} => SizeAfterData /\ trusted
=============================================================================
