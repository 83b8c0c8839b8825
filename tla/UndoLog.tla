------------------------------ MODULE UndoLog ------------------------------
(***************************************************************************)
(* The undo log of e2fsck-patch (lib/ext2fs/undo_io.c) and the program     *)
(* that applies it (misc/e2undo.c).  Before a block of the device is       *)
(* overwritten, undo_write_tdb appends its contents to the undo file; the  *)
(* patch opens that file O_SYNC, so that a crash of the checker leaves a   *)
(* file from which e2undo restores the device.                             *)
(*                                                                         *)
(* The undo file is a function from positions to blocks: position 0 is the *)
(* header, position 1 the copy of the superblock, position 2 the first key *)
(* block; every key block is followed by the data blocks of its keys.  A   *)
(* checksum is represented by what it is taken over.  Block 0 of the       *)
(* device holds the superblock.  `file' is what reads of the undo file     *)
(* return and `stable' what a power loss leaves of it; `dev' is the device *)
(* as the checker reads it (unix_io cache over page cache) and `disk' what *)
(* a crash leaves of it.  A block reaches `disk' at any time after it is   *)
(* written, so the states a mere kill leaves are among those of a power    *)
(* loss.                                                                   *)
(***************************************************************************)
EXTENDS Naturals, Sequences, FiniteSets, FiniteSetsExt

CONSTANTS
    NBlocks,      \* blocks of the device; also of the undo log's numbering
    Val,          \* what the checker writes
    KPB,          \* KEYS_PER_BLOCK
    MaxExtent,    \* E2UNDO_MAX_EXTENT_BLOCKS
    MaxWrites,    \* bound: block writes of the checker
    MaxOpens,     \* bound: runs of the checker
    MaxUndos,     \* bound: runs of e2undo
    MaxCrashes    \* bound: crashes

Blk == 0 .. NBlocks - 1

ASSUME UndoLogAssumption ==
    /\ NBlocks \in Nat \ {0}
    /\ KPB \in Nat \ {0}
    /\ MaxExtent \in Nat
    /\ Val \subseteq Nat /\ Val \cap Blk = {}

VARIABLES
    dev, disk,    \* the device: as the checker sees it; after a crash
    file, stable, \* the undo file: as it is read; after a crash
    pc,           \* where the checker or e2undo is
    op,           \* the write in progress: its blocks, its value, the blocks still to save
    fin,          \* hdr.state: the undo file is being closed as FINISHED
    keyb,         \* data->keyb, the keys of the current key block
    kblk,         \* data->key_blk_num
    ublk,         \* data->undo_blk_num
    nkeys,        \* data->num_keys
    map,          \* data->written_block_map
    setup,        \* data->tdb_written
    reopened,     \* history: nothing was recorded since the file was reopened
    ucache,       \* the unix_io cache of the undo file, in slot order
    todo,         \* e2undo: the keys still to be replayed
    force,        \* e2undo: -f was given, or the undo file is incomplete
    res,          \* e2undo: what it reported
    damaged,      \* history: one of the two reopen accidents happened (below)
    count         \* the bounded counters

vars == <<dev, disk, file, stable, pc, op, fin, keyb, kblk, ublk, nkeys, map,
          setup, reopened, ucache, todo, force, res, damaged, count>>
log == <<fin, keyb, kblk, ublk, nkeys, map, setup, reopened, ucache>>
undo == <<todo, force, res>>
storage == <<dev, disk, file, stable>>

Old(b) == b                       \* the contents before the first run
Unclean(v) == v + 100             \* the superblock v with EXT2_VALID_FS cleared
Clean(v) == IF v >= 100 THEN v - 100 ELSE v

\* The kinds of block of the undo file.
Zero == [kind |-> "zero"]
Data(v) == [kind |-> "data", val |-> v]
Keys(ks) == [kind |-> "keys", keys |-> ks]
Super(v) == [kind |-> "super", val |-> v]
Header(n, bs, sb, f) == [kind |-> "header", num |-> n, sized |-> bs, sb |-> sb, finished |-> f]

Nothing == [x \in {} |-> Zero]
Count(x) == [count EXCEPT ![x] = @ + 1]
NoOp == [blks |-> {}, val |-> 0, save |-> {}]

-----------------------------------------------------------------------------
(* The unix_io channel of the undo file, opened O_SYNC.                      *)

\* pwrite on the O_SYNC descriptor: the block is in the file and on storage.
raw_write_unsynced(p, c) ==
    /\ file' = [q \in DOMAIN file \cup {p} |-> IF q = p THEN c ELSE file[q]]
    /\ UNCHANGED stable
raw_write(p, c) ==
    /\ file' = [q \in DOMAIN file \cup {p} |-> IF q = p THEN c ELSE file[q]]
    /\ stable' = file'

\* A read past the end is short; a hole reads as zeros.
Readable(f, p) == \E q \in DOMAIN f : q >= p
Read(f, p) == IF p \in DOMAIN f THEN f[p] ELSE Zero

\* A one-block write goes into the slot that holds the block or else into the
\* first unused one; slots in use form a prefix, and 8 of them are never used.
cached_last_slot(c, p, x, d) ==
    <<[pos |-> p, blk |-> x, dirty |-> d]>> \o SelectSeq(c, LAMBDA e : e.pos # p)
cached(c, p, x, d) ==
    IF \E i \in DOMAIN c : c[i].pos = p
    THEN [i \in DOMAIN c |-> IF c[i].pos = p THEN [pos |-> p, blk |-> x, dirty |-> d] ELSE c[i]]
    ELSE Append(c, [pos |-> p, blk |-> x, dirty |-> d])

Dirty == {i \in DOMAIN ucache : ucache[i].dirty}

-----------------------------------------------------------------------------
\* A process that ends leaves nothing of the channel's private data.
Forget == /\ fin' = FALSE /\ keyb' = <<>> /\ kblk' = 2 /\ ublk' = 3 /\ nkeys' = 0
          /\ map' = {} /\ setup' = FALSE /\ reopened' = FALSE /\ ucache' = <<>>

Init ==
    /\ dev = [b \in Blk |-> Old(b)] /\ disk = dev
    /\ file = Nothing /\ stable = Nothing
    /\ pc = "closed" /\ op = NoOp
    /\ fin = FALSE /\ keyb = <<>> /\ kblk = 2 /\ ublk = 3 /\ nkeys = 0
    /\ map = {} /\ setup = FALSE /\ reopened = FALSE /\ ucache = <<>>
    /\ todo = {} /\ force = FALSE /\ res = "none" /\ damaged = FALSE
    /\ count = [writes |-> 0, opens |-> 0, undos |-> 0, crashes |-> 0]

\* The keys of file f, as both readers of key blocks walk them: n keys are
\* left and the next key block is at p.  `at' is where a key's data starts.
RECURSIVE walk(_, _, _)
walk(f, n, p) ==
    LET m == IF n > KPB THEN KPB ELSE n
        ks == Read(f, p).keys
        at[i \in 1 .. m + 1] == IF i = 1 THEN p + 1 ELSE at[i - 1] + Len(ks[i - 1].crc)
        rest == walk(f, n - m, at[m + 1])
    IN  IF n = 0 THEN [ok |-> TRUE, keys |-> {}, kblk |-> 2, next |-> p, last |-> <<>>]
        ELSE IF Read(f, p).kind # "keys" THEN [ok |-> FALSE]
        ELSE IF Len(ks) < m THEN [ok |-> FALSE]
        ELSE IF ~rest.ok THEN rest
        ELSE [ok |-> TRUE,
              keys |-> {[fsblk |-> ks[i].fsblk, crc |-> ks[i].crc, at |-> at[i]] : i \in 1 .. m}
                           \cup rest.keys,
              kblk |-> IF n > m THEN rest.kblk ELSE p,
              next |-> rest.next,
              last |-> IF n > m THEN rest.last ELSE SubSeq(ks, 1, m)]

IsUndoFile(f) == Readable(f, 0) /\ Read(f, 0).kind = "header"
KeyWalk(f) == walk(f, f[0].num, 2)

\* check_filesystem: the superblock copy, its checksum in the header, and the
\* device agree.
check_filesystem(f, sb) == /\ Read(f, 1) = Super(sb)
                           /\ f[0].sb = sb

\* The blocks a key covers and the contents the undo file holds for one.
Covers(k) == k.fsblk .. k.fsblk + Len(k.crc) - 1
Held(f, k, b) == Read(f, k.at + (b - k.fsblk))

-----------------------------------------------------------------------------
(* The checker.                                                              *)

\* undo_open on a file that try_reopen_undo_file accepts, or on no file.  The
\* current key block has been read through the cache, and stays in its slot.
undo_open ==
    LET w == KeyWalk(file)
        fresh == file = Nothing
    IN  /\ pc = "closed" /\ count.opens < MaxOpens
        /\ count' = Count("opens") /\ res' = "none"
        /\ \/ /\ fresh
              /\ pc' = "idle"
              /\ UNCHANGED log
           \/ /\ ~fresh
              /\ IsUndoFile(file) /\ file[0].sized /\ check_filesystem(file, dev[0]) /\ w.ok
              /\ pc' = "idle" /\ setup' = TRUE /\ reopened' = TRUE
              /\ keyb' = w.last /\ kblk' = w.kblk /\ ublk' = w.next /\ nkeys' = file[0].num
              /\ map' = UNION {Covers(k) : k \in w.keys}
              /\ ucache' = cached(<<>>, w.kblk, Read(file, w.kblk), FALSE)
              /\ UNCHANGED fin
        /\ UNCHANGED <<storage, op, todo, force, damaged>>

\* undo_write_blk64: the blocks of the request that have no record are saved
\* first (undo_write_tdb), then the request goes to the device.
undo_write_blk64(b, n, v) ==
    /\ pc = "idle" /\ count.writes < MaxWrites /\ Len(keyb) <= KPB
    /\ b + n <= NBlocks
    /\ op' = [blks |-> b .. b + n - 1, val |-> v, save |-> (b .. b + n - 1) \ map]
    /\ pc' = "save" /\ count' = Count("writes")
    /\ UNCHANGED <<storage, log, undo, damaged>>

\* undo_setup_tdb on a new file: three zero blocks, flushed.
undo_setup_tdb ==
    /\ pc = "save" /\ ~setup
    /\ setup' = TRUE
    /\ file' = [p \in 0 .. 2 |-> Zero] /\ stable' = file'
    /\ ucache' = cached(<<>>, 2, Zero, FALSE)
    /\ UNCHANGED <<dev, disk, pc, op, fin, keyb, kblk, ublk, nkeys, map, reopened, undo, damaged,
                   count>>

\* The first half of write_undo_indexes: the key block ks goes to the cache;
\* a full one is left behind.  c is the cache and u the next free block.
put_keys_in_data(ks, c, u) ==
    /\ ucache' = IF ks = <<>> THEN c
                 ELSE cached(c, kblk, Keys(SubSeq(ks, 1, Min({Len(ks), KPB}))), TRUE)
    /\ IF Len(ks) = KPB
       THEN keyb' = <<>> /\ kblk' = u /\ ublk' = u
       ELSE keyb' = ks /\ kblk' = kblk /\ ublk' = u
put_keys(ks, c, u) ==
    /\ ucache' = IF ks = <<>> THEN c
                 ELSE cached(c, kblk, Keys(SubSeq(ks, 1, Min({Len(ks), KPB}))), TRUE)
    /\ IF Len(ks) = KPB
       THEN keyb' = <<>> /\ kblk' = u /\ ublk' = u + 1
       ELSE keyb' = ks /\ kblk' = kblk /\ ublk' = u

\* One turn of the loop of undo_write_tdb: block b is recorded by extending
\* the last key or by a new one, and its contents are appended.  A new key in
\* a full key block (which only a reopened file has) lies outside the block.
undo_write_tdb ==
    LET b == Min(op.save)
        n == Len(keyb)
        extend == /\ n > 0
                  /\ keyb[n].fsblk + Len(keyb[n].crc) = b
                  /\ MaxExtent > Len(keyb[n].crc) + 1
        ks == IF extend THEN [keyb EXCEPT ![n].crc = Append(@, dev[b])]
              ELSE Append(keyb, [fsblk |-> b, crc |-> <<dev[b]>>])
    IN  /\ pc = "save" /\ setup /\ op.save # {} /\ n <= KPB
        /\ op' = [op EXCEPT !.save = @ \ {b}]
        /\ map' = map \cup {b}
        /\ nkeys' = IF extend THEN nkeys ELSE nkeys + 1
        /\ put_keys(ks, cached(ucache, ublk, Data(dev[b]), TRUE), ublk + 1)
        /\ damaged' = (damaged \/ Len(ks) > KPB)
        /\ pc' = "flush"
        /\ UNCHANGED <<storage, fin, setup, reopened, undo, count>>

\* flush_cached_blocks before the odd-sized write of the header: the dirty
\* slots, in slot order.
flush_cached_blocks ==
    LET i == Min(Dirty)
    IN  /\ pc = "flush" /\ Dirty # {}
        /\ raw_write(ucache[i].pos, ucache[i].blk)
        /\ ucache' = [ucache EXCEPT ![i].dirty = FALSE]
        /\ UNCHANGED <<dev, disk, pc, op, fin, keyb, kblk, ublk, nkeys, map, setup, reopened,
                       undo, damaged, count>>

\* The second half of write_undo_indexes: the header with the checksum of the
\* device's superblock, then the copy of the superblock.
write_header ==
    /\ pc = "flush" /\ Dirty = {}
    /\ raw_write(0, Header(nkeys, setup, dev[0], fin))
    /\ ucache' = <<>> /\ reopened' = FALSE /\ pc' = "super"
    /\ UNCHANGED <<dev, disk, op, fin, keyb, kblk, ublk, nkeys, map, setup, undo, damaged, count>>

write_super ==
    /\ pc = "super"
    /\ raw_write(1, Super(dev[0]))
    /\ IF op.blks # {} THEN pc' = "save" /\ UNCHANGED log
       ELSE pc' = "closed" /\ Forget
    /\ UNCHANGED <<dev, disk, op, undo, damaged, count>>

\* The request itself, once its blocks are saved.
write_device ==
    /\ pc = "save" /\ op.save = {}
    /\ dev' = [b \in Blk |-> IF b \in op.blks THEN op.val ELSE dev[b]]
    /\ op' = NoOp /\ pc' = "idle"
    /\ UNCHANGED <<disk, file, stable, log, undo, damaged, count>>

undo_flush ==
    /\ pc = "idle" /\ disk' = dev
    /\ UNCHANGED <<dev, file, stable, pc, op, log, undo, damaged, count>>

\* undo_close marks the file FINISHED; undo_atexit, which runs when the program
\* exits without closing, does not.
end_of_run(f) ==
    /\ pc = "idle"
    /\ fin' = f /\ pc' = "flush"
    /\ put_keys(keyb, ucache, ublk)
    /\ UNCHANGED <<storage, op, nkeys, map, setup, reopened, undo, damaged, count>>

undo_close == end_of_run(TRUE)
undo_atexit == end_of_run(FALSE)

-----------------------------------------------------------------------------
(* e2undo.                                                                   *)

\* Every block of key k can be read and the key's checksum is theirs.
Sound(f, k) == \A i \in 1 .. Len(k.crc) :
                  Readable(f, k.at + i - 1) /\ Read(f, k.at + i - 1) = Data(k.crc[i])

\* main up to the sort: the header, the superblock and every key are checked;
\* -f goes on when the superblock or a checksum of the data does not match.
e2undo_load(f) ==
    LET w == KeyWalk(file)
        sound == \A k \in w.keys : Sound(file, k)
    IN  /\ pc = "closed" /\ count.undos < MaxUndos
        /\ IsUndoFile(file) /\ file[0].sized
        /\ f \/ check_filesystem(file, dev[0])
        /\ w.ok
        /\ f \/ sound
        /\ pc' = "undo" /\ todo' = w.keys /\ force' = (f \/ ~file[0].finished)
        /\ res' = IF sound THEN "ok" ELSE "errors"
        /\ count' = Count("undos")
        /\ UNCHANGED <<storage, op, log, damaged>>

Contents(x) == IF x.kind = "data" THEN x.val ELSE 0

\* One turn of the replay loop, in the order of the sorted keys.
e2undo_replay_one_block ==
    \E k \in todo :
        /\ pc = "undo" /\ \A j \in todo : k.fsblk <= j.fsblk
        /\ todo' = todo \ {k}
        /\ dev' = [dev EXCEPT ![k.fsblk] = Contents(Held(file, k, k.fsblk))]
        /\ UNCHANGED <<res, disk, file, stable, pc, op, log, force, damaged, count>>
e2undo_replay ==
    \E k \in todo :
        /\ pc = "undo" /\ \A j \in todo : k.fsblk <= j.fsblk
        /\ todo' = todo \ {k}
        /\ IF Readable(file, k.at + Len(k.crc) - 1)
           THEN /\ dev' = [b \in Blk |-> IF b \in Covers(k) THEN Contents(Held(file, k, b)) ELSE dev[b]]
                /\ UNCHANGED res
           ELSE res' = "errors" /\ UNCHANGED dev
        /\ UNCHANGED <<disk, file, stable, pc, op, log, force, damaged, count>>

\* The end of main: after problems the superblock is marked so that the file
\* system is checked, and flushed; otherwise nothing is synchronised.
e2undo_end ==
    /\ pc = "undo" /\ todo = {}
    /\ pc' = "closed" /\ force' = FALSE
    /\ IF force \/ res = "errors"
       THEN dev' = [dev EXCEPT ![0] = Unclean(Clean(@))] /\ disk' = dev'
       ELSE UNCHANGED <<dev, disk>>
    /\ UNCHANGED <<file, stable, op, log, todo, res, damaged, count>>

-----------------------------------------------------------------------------
(* The machine.                                                              *)

WriteBack(b) ==
    /\ disk[b] # dev[b]
    /\ disk' = [disk EXCEPT ![b] = dev[b]]
    /\ UNCHANGED <<dev, file, stable, pc, op, log, undo, damaged, count>>

\* Within the first record of a run on a reopened file, whose key block had a
\* slot before the data block got one: the key is on storage, its data is not.
TornRecord == /\ pc = "flush" /\ reopened
              /\ Dirty # {} /\ \A i \in Dirty : ucache[i].blk.kind = "data"

Crash ==
    /\ count.crashes < MaxCrashes
    /\ count' = Count("crashes")
    /\ dev' = disk /\ file' = stable
    /\ pc' = "closed" /\ op' = NoOp /\ Forget
    /\ todo' = {} /\ force' = FALSE /\ res' = "none"
    /\ damaged' = (damaged \/ TornRecord)
    /\ UNCHANGED <<disk, stable>>

Checker ==
    \/ undo_open
    \/ \E b \in Blk, n \in 1 .. 2, v \in Val : undo_write_blk64(b, n, v)
    \/ undo_setup_tdb \/ undo_write_tdb \/ flush_cached_blocks
    \/ write_header \/ write_super \/ write_device
    \/ undo_flush \/ undo_close \/ undo_atexit

E2undo ==
    \/ \E f \in BOOLEAN : e2undo_load(f)
    \/ e2undo_replay \/ e2undo_end

Next == Checker \/ E2undo \/ Crash \/ \E b \in Blk : WriteBack(b)

Spec == Init /\ [][Next]_vars

-----------------------------------------------------------------------------
(* Properties.                                                               *)

\* The types of the state, with the layout of the file: the key block and the
\* next free block of undo_private_data are positions of the file or next to it.
TypeOK ==
    /\ dev \in [Blk -> Nat] /\ disk \in [Blk -> Nat]
    /\ DOMAIN file \subseteq 0 .. 2 + 2 * NBlocks
    /\ DOMAIN stable \subseteq DOMAIN file
    /\ pc \in {"closed", "idle", "save", "flush", "super", "undo"}
    /\ op.blks \subseteq Blk /\ op.save \subseteq op.blks
    /\ map \subseteq Blk
    /\ 2 <= kblk /\ kblk < ublk /\ ublk <= 3 + 2 * NBlocks
    /\ Len(keyb) <= KPB + 1 /\ Len(keyb) <= nkeys
    /\ Len(ucache) <= 3
    /\ todo # {} => pc = "undo"
    /\ res \in {"none", "ok", "errors"}

\* The undo file f holds the contents block b had before the first run.
Saved(f, b) ==
    LET ks == {k \in KeyWalk(f).keys : b \in Covers(k)}
    IN  /\ IsUndoFile(f) /\ KeyWalk(f).ok
        /\ ks # {}
        /\ \A k \in ks : Clean(Contents(Held(f, k, b))) = Old(b)

Changed(b) == Clean(dev[b]) # Old(b) \/ Clean(disk[b]) # Old(b)

\* Write-ahead: whatever the checker, e2undo and crashes did, in however many
\* runs on one undo file, a block that has changed on the device has its first
\* contents in the undo file, on stable storage and within the keys that the
\* header counts (undo_write_tdb before io_channel_write_blk64, O_SYNC), unless
\* one of the two accidents of a reopened file has happened.
UndoAhead == ~damaged => \A b \in Blk : Changed(b) => Saved(stable, b)

\* An e2undo that reported no error has restored every block, whatever runs,
\* crashes and interrupted e2undo's came before (EXT2_VALID_FS of the
\* superblock apart, which e2undo clears itself).
Undone == pc = "closed" /\ res = "ok" /\ ~damaged => \A b \in Blk : Clean(dev[b]) = Old(b)

\* Whenever the checker stops, also by a crash between any two writes of the
\* undo file, what it leaves passes the checks of e2undo on the key blocks and
\* on the data (the order data, keys, header): only the superblock can be
\* refused.  A file that met one of the two accidents of a reopened file is
\* excluded, a record torn by a crash just after a reopen (TornRecord) among them.
AcceptedAfterCrash ==
    (pc = "closed" /\ ~damaged /\ IsUndoFile(stable) /\ stable[0].sized)
        => LET w == KeyWalk(stable) IN w.ok /\ \A k \in w.keys : Sound(stable, k)

\* The comment of undo_write_blk64, "First write the existing content into
\* database", without exception: what has changed can be restored.
ExistingContentFirst == \A b \in Blk : Changed(b) => Saved(stable, b)

=============================================================================
