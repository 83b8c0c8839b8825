------------------------------ MODULE RedoLog ------------------------------
(***************************************************************************)
(* The redo-logging library rfsck-lib (src/rfsck-lib/redo.c, redo.h).      *)
(*                                                                         *)
(* A checker opens a log, brackets its updates in transactions, writes     *)
(* them to the log instead of the device, marks the log FINISHED and       *)
(* replays it onto the device.  After an interruption the next rfsck_open  *)
(* replays a log that it finds FINISHED.                                   *)
(*                                                                         *)
(* Unit of space: one cell.  The header is a cell of its own (fh), a key   *)
(* block is one cell, a record of size s is s cells.  The log file and the *)
(* device have a page cache (log, fh, dev) and stable contents (logd, fhd, *)
(* devd); fsync copies one file's cache, write-back copies any cell at any *)
(* time, power loss discards the caches, death of the process does not.    *)
(* Checksums are left out: a mismatch of a transaction or record checksum  *)
(* changes nothing but a message, and the header's is the field `valid'.   *)
(***************************************************************************)
EXTENDS Integers, Sequences

CONSTANTS
    KPB,          \* KEYS_PER_BLOCK: tags in a key block (255 in the code)
    Val,          \* what a cell of a buffer can hold
    DevSize,      \* cells of the device
    MaxSize,      \* largest size of one rfsck_write
    Buffers(_),   \* the buffers that the n-th call may write
    Alias,        \* how a cell that is no key block reads as one
    UninitRet,    \* values of the uninitialized retval of rfsck_txn_begin
    MaxAddr,      \* bound: last cell of the log file
    MaxTags,      \* bound: calls of begin, write and end on one log
    MaxFaults,    \* bound: failing system calls
    MaxKills,     \* bound: deaths of the process
    MaxLosses,    \* bound: power losses
    MaxRuns,      \* bound: processes that use the log, one after the other
    MaxReplays    \* bound: replays by one process

Addr    == 1..MaxAddr
DevAddr == 0..(DevSize - 1)
Slot    == 0..(KPB - 1)

\* The offset of a transaction tag is none of the device's offsets: 0 in a
\* begin tag, the checksum in an end tag, TXN_REPLAYED_CNST once replayed.
CSUM     == -1
REPLAYED == -2

Tag  == [offset : Nat \cup {CSUM, REPLAYED}, size : Nat, blk_crc : Nat]
Tags == [Slot -> Tag]

Buf  == {b \in Seq(Val) : Len(b) \in 1..MaxSize}
Call == [op : {"B", "W", "E"}, off : Nat, buf : Seq(Val)]

ASSUME RedoLogAssumption ==
    /\ KPB \in Nat \ {0} /\ DevSize \in Nat /\ MaxSize \in Nat \ {0}
    /\ \A n \in 0..(MaxTags - 1) : Buffers(n) \subseteq Buf
    /\ Alias \in Tags /\ UninitRet \subseteq {0, 1}
    /\ MaxAddr \in Nat \ {0}
    /\ {MaxTags, MaxFaults, MaxKills, MaxLosses, MaxRuns, MaxReplays} \subseteq Nat

NoTag         == [offset |-> 0, size |-> 0, blk_crc |-> 0]
TxnTag(o, id) == [offset |-> o, size |-> 0, blk_crc |-> id]
\* blk_crc of a record is looked at only in tags of size 0
RecTag(o, s)  == [offset |-> o, size |-> s, blk_crc |-> 1]
NoTags        == [i \in Slot |-> NoTag]

Old     == [kind |-> "old"]    \* what the checker found on the device
Hole    == [kind |-> "hole"]   \* never written
Junk    == [kind |-> "junk"]   \* malloc'ed memory that nothing was read into
Data(v) == [kind |-> "data", val |-> v]
Keyb(t) == [kind |-> "keyb", tags |-> t]

Cell == {Old, Hole, Junk} \cup [kind : {"data"}, val : Val]
                          \cup [kind : {"keyb"}, tags : Tags]

\* struct redo_header; valid: its checksum matches
Header == [valid : BOOLEAN, num_keys : Nat, state : {0, 1}]
NoHdr  == [valid |-> FALSE, num_keys |-> 0, state |-> 0]

\* struct redo_private_data
RedoData == [keyb : Tags, keys_in_block : Nat, num_keys : Nat,
             redo_block_offset : Addr, log_offset : Nat \ {0}, txn_id : Nat,
             hdr : Header]

\* the locals of rfsck_replay; blks: keys_offset and replay_blocks, i.e. the
\* key blocks read so far; tags: keyb; count, i, j: the loops' indices
ReplayLocals == [num_keys : Nat, blks : Seq([at : Nat, tags : Tags]), tags : Tags,
                 count : 0..KPB, log_offset : Nat, replay_log_offset : Nat,
                 begin_blk : Nat, begin_idx : Slot, is_replayed : BOOLEAN,
                 i : Nat, j : 0..KPB]

VARIABLES
    pc,         \* where the process is
    from,       \* which caller rfsck_replay returns to: "open" or "call"
    md,         \* the argument of redo_mark_done
    rd,         \* *redo_data: state of the writer
    rp,         \* the locals of rfsck_replay
    log, logd,  \* log file behind the header: page cache, stable storage
    fh, fhd,    \* header of the log file: page cache, stable storage
    dev, devd,  \* device: page cache, stable storage
    faults, kills, losses, runs,      \* how often it happened
    replays,    \* replays by the running process
    hist,       \* history: the calls that built the current log, in order
    base,       \* history: the device when that log was started
    start,      \* history: the number of that log's first transaction
    early,      \* history: an rfsck_txn_begin returned its garbage retval
    finished    \* history: some header with state FINISHED was written

disk  == <<log, logd, fh, fhd, dev, devd>>
ghost == <<hist, base, start, early, finished>>
tally == <<faults, kills, losses, runs, replays>>
vars  == <<pc, from, md, rd, rp, disk, ghost, tally>>

-----------------------------------------------------------------------------
(* redo_setup: the state of a writer that starts a log.                    *)

Fresh == [keyb |-> NoTags, keys_in_block |-> 0, num_keys |-> 0,
          redo_block_offset |-> 1, log_offset |-> 2, txn_id |-> 1,
          hdr |-> [valid |-> TRUE, num_keys |-> 0, state |-> 0]]

\* what the locals of rfsck_replay hold before it reads the first key block
ReplayStart(n) ==
    [num_keys |-> n, blks |-> <<>>, tags |-> Alias, count |-> 0,
     log_offset |-> 1, replay_log_offset |-> 2, begin_blk |-> 0,
     begin_idx |-> 0, is_replayed |-> FALSE, i |-> 0, j |-> 0]

Init ==
    /\ pc = "dead" /\ from = "open" /\ md = 0
    /\ rd = Fresh /\ rp = ReplayStart(0)
    /\ log = [a \in Addr |-> Hole] /\ logd = log
    /\ fh = NoHdr /\ fhd = NoHdr
    /\ dev = [a \in DevAddr |-> Old] /\ devd = dev
    /\ faults = 0 /\ kills = 0 /\ losses = 0 /\ runs = 0 /\ replays = 0
    /\ hist = <<>> /\ base = dev /\ start = 1
    /\ early = FALSE /\ finished = FALSE

-----------------------------------------------------------------------------
(* System calls.                                                           *)

Fault   == faults < MaxFaults /\ faults' = faults + 1
NoFault == UNCHANGED faults

\* pwrite of one cell of the log file
Put(l, a, c) == [l EXCEPT ![a] = c]

\* cell a is behind the end of the log file
BeyondEof(a) == \A b \in Addr : b >= a => log[b] = Hole

FsyncLog == logd' = log /\ fhd' = fh

\* Setting tags[i]: the block has KPB tags, a later one lies behind it.
SetTag(t, i, x) == IF i \in Slot THEN [t EXCEPT ![i] = x] ELSE t

-----------------------------------------------------------------------------
(* The writer.                                                             *)

\* A full key block is replaced by an empty one at the end of the log.
NextBlock(r) ==
    IF r.keys_in_block = KPB
      THEN [r EXCEPT !.keyb = NoTags, !.keys_in_block = 0, !.num_keys = @ + 1,
                     !.redo_block_offset = r.log_offset, !.log_offset = @ + 1]
      ELSE r

\* The checkers write to a log only while it is not marked FINISHED, unless a
\* redo_mark_done(0) failed, whose result they ignore.
Writing ==
    /\ pc = "idle" /\ (rd.hdr.state = 0 \/ faults > 0)
    /\ Len(hist) < MaxTags /\ rd.log_offset + MaxSize <= MaxAddr

Called(o, off, buf) ==
    /\ hist' = Append(hist, [op |-> o, off |-> off, buf |-> buf])
    /\ IF hist = <<>> THEN base' = dev /\ start' = rd.txn_id
                      ELSE UNCHANGED <<base, start>>

WithTag(r, t) == [r EXCEPT !.keyb = SetTag(@, r.keys_in_block, t)]
Counted(r)    == [r EXCEPT !.keys_in_block = @ + 1]

\* int retval; ... if(retval) return retval;  before anything is written
rfsck_txn_begin_garbage ==
    /\ Writing /\ 1 \in UninitRet
    /\ rd' = WithTag(rd, TxnTag(0, rd.txn_id))
    /\ Called("B", 0, <<>>) /\ early' = TRUE
    /\ UNCHANGED <<pc, from, md, rp, disk, finished, tally>>

rfsck_txn_begin ==
    /\ Writing /\ 0 \in UninitRet
    /\ Called("B", 0, <<>>)
    /\ LET r == Counted(WithTag(rd, TxnTag(0, rd.txn_id)))
       IN  \/ /\ NoFault
              /\ log' = Put(log, r.redo_block_offset, Keyb(r.keyb))
              /\ rd' = NextBlock(r)
           \/ Fault /\ rd' = r /\ UNCHANGED log
    /\ UNCHANGED <<pc, from, md, rp, logd, fh, fhd, dev, devd, early, finished,
                   kills, losses, runs, replays>>

\* The record's cells are written at log_offset, then the key block.
rfsck_write(off, buf) ==
    /\ Writing
    /\ Called("W", off, buf)
    /\ LET n == Len(buf)
           t == WithTag(rd, RecTag(off, n))
           r == [t EXCEPT !.log_offset = @ + n]
           l == [a \in Addr |-> IF a \in rd.log_offset..(rd.log_offset + n - 1)
                                  THEN Data(buf[a - rd.log_offset + 1])
                                  ELSE log[a]]
       IN  \/ /\ NoFault
              /\ log' = Put(l, r.redo_block_offset, Keyb(r.keyb))
              /\ rd' = NextBlock(Counted(r))
           \/ Fault /\ rd' = t /\ UNCHANGED log     \* the record's write failed
           \/ Fault /\ rd' = r /\ log' = l          \* the key block's write failed
    /\ UNCHANGED <<pc, from, md, rp, logd, fh, fhd, dev, devd, early, finished,
                   kills, losses, runs, replays>>

\* The end tag, and the key-block write of the rfsck_flush that follows.
rfsck_txn_end ==
    /\ Writing
    /\ Called("E", 0, <<>>)
    /\ LET t == Counted(WithTag(rd, TxnTag(CSUM, rd.txn_id)))
           r == [t EXCEPT !.txn_id = @ + 1]
           n == NextBlock(r)
           l == Put(log, r.redo_block_offset, Keyb(r.keyb))
       IN  \/ Fault /\ rd' = r /\ UNCHANGED <<log, pc>>
           \/ NoFault /\ rd' = n /\ pc' = "sync"
              /\ log' = Put(l, n.redo_block_offset, Keyb(n.keyb))
           \/ Fault /\ rd' = n /\ log' = l /\ UNCHANGED pc   \* rfsck_flush failed
    /\ UNCHANGED <<from, md, rp, logd, fh, fhd, dev, devd, early, finished,
                   kills, losses, runs, replays>>

\* rfsck_flush called by the checker: the key block, then fsync
rfsck_flush ==
    /\ pc = "idle"
    /\ \/ /\ NoFault /\ pc' = "sync"
          /\ log' = Put(log, rd.redo_block_offset, Keyb(rd.keyb))
       \/ Fault /\ UNCHANGED <<log, pc>>
    /\ UNCHANGED <<from, md, rd, rp, logd, fh, fhd, dev, devd, ghost,
                   kills, losses, runs, replays>>

\* the fsync of rfsck_flush, whose result rfsck_txn_end ignores
fsync_log ==
    /\ pc = "sync" /\ pc' = "idle"
    /\ \/ NoFault /\ FsyncLog
       \/ Fault /\ UNCHANGED <<logd, fhd>>
    /\ UNCHANGED <<from, md, rd, rp, log, fh, dev, devd, ghost,
                   kills, losses, runs, replays>>

-----------------------------------------------------------------------------
(* redo_mark_done: key block, fsync, header, fsync.                        *)

redo_mark_done(m) ==
    /\ pc = "idle" /\ md' = m
    /\ \/ /\ NoFault /\ pc' = "md_sync"
          /\ log' = Put(log, rd.redo_block_offset, Keyb(rd.keyb))
       \/ Fault /\ UNCHANGED <<log, pc>>
    /\ UNCHANGED <<from, rd, rp, logd, fh, fhd, dev, devd, ghost,
                   kills, losses, runs, replays>>

\* mutant: the log is not flushed before the header is written
mark_done_header_unflushed ==
    LET h == [valid |-> TRUE, num_keys |-> rd.num_keys, state |-> md]
    IN  /\ pc = "md_sync" /\ pc' = "sync"
        /\ NoFault /\ rd' = [rd EXCEPT !.hdr = h] /\ fh' = h
        /\ finished' = (finished \/ md = 1)
        /\ UNCHANGED <<from, md, rp, log, logd, fhd, dev, devd, hist, base, start, early,
                       kills, losses, runs, replays>>

\* mutant: the header is not flushed after it was written
mark_done_header_volatile ==
    LET h == [valid |-> TRUE, num_keys |-> rd.num_keys, state |-> md]
    IN  /\ pc = "md_sync" /\ pc' = "idle"
        /\ FsyncLog
        /\ NoFault /\ rd' = [rd EXCEPT !.hdr = h] /\ fh' = h
        /\ finished' = (finished \/ md = 1)
        /\ UNCHANGED <<from, md, rp, log, dev, devd, hist, base, start, early,
                       kills, losses, runs, replays>>

mark_done_header ==
    LET h == [valid |-> TRUE, num_keys |-> rd.num_keys, state |-> md]
    IN  /\ pc = "md_sync"
        /\ \/ Fault /\ pc' = "idle" /\ UNCHANGED <<logd, fhd, fh, rd, finished>>
           \/ /\ FsyncLog /\ rd' = [rd EXCEPT !.hdr = h]
              /\ \/ NoFault /\ fh' = h /\ pc' = "sync"
                    /\ finished' = (finished \/ md = 1)
                 \/ Fault /\ pc' = "idle" /\ UNCHANGED <<fh, finished>>
        /\ UNCHANGED <<from, md, rp, log, dev, devd, hist, base, start, early,
                       kills, losses, runs, replays>>

-----------------------------------------------------------------------------
(* rfsck_replay.                                                           *)

\* a cell taken for a key block
TagsOf(c) == CASE c.kind = "keyb" -> c.tags
               [] c.kind = "hole" -> NoTags
               [] OTHER           -> Alias

\* pread of a data cell; behind the end of the file nothing is read
ReadData(a) == IF a \in Addr /\ ~BeyondEof(a) THEN log[a] ELSE Junk

\* pread of a key block: behind the end of the file the buffer stays as it is
ReadKeyb(a, buffer) ==
    IF a \in Addr /\ ~BeyondEof(a) THEN TagsOf(log[a]) ELSE buffer

\* mutant: the state check is left out, as in the library's copy for XFS
Finished_unchecked == fh.valid

Finished == fh.valid /\ fh.state = 1
AfterReplay == IF from = "open" THEN "open_hdr" ELSE "idle"

\* Called by the checker.  For a log that is not FINISHED, or whose header is
\* not valid, it returns 1 and changes nothing.
rfsck_replay ==
    /\ pc = "idle" /\ Finished
    /\ \/ /\ NoFault /\ replays < MaxReplays /\ replays' = replays + 1
          /\ pc' = "block" /\ from' = "call"
          /\ rd' = [rd EXCEPT !.txn_id = 0] /\ rp' = ReplayStart(fh.num_keys)
       \/ Fault /\ UNCHANGED <<pc, from, rd, rp, replays>>  \* the header is not read
    /\ UNCHANGED <<md, disk, ghost, kills, losses, runs>>

\* while(keyb_count <= hdr->num_keys): read the next key block
replay_block ==
    /\ pc = "block"
    /\ \/ /\ Len(rp.blks) <= rp.num_keys /\ NoFault
          /\ LET t == ReadKeyb(rp.log_offset, rp.tags)
             IN  rp' = [rp EXCEPT !.tags = t, !.count = 0, !.log_offset = @ + 1,
                          !.blks = Append(@, [at |-> rp.log_offset, tags |-> t])]
          /\ pc' = "tag"
       \/ Len(rp.blks) <= rp.num_keys /\ Fault /\ pc' = AfterReplay /\ UNCHANGED rp
       \/ Len(rp.blks) > rp.num_keys /\ NoFault /\ pc' = "sync_dev" /\ UNCHANGED rp
    /\ UNCHANGED <<from, md, rd, disk, ghost, kills, losses, runs, replays>>

\* one tag of the key block; keyb_count is Len(rp.blks) - 1
Step(r) == [r EXCEPT !.count = @ + 1, !.log_offset = @ + rp.tags[rp.count].size]
IsTxnTag(t) == t.size = 0 /\ t.blk_crc > 0

ReplayTag == pc = "tag" /\ rp.count < KPB

replay_next_block ==
    /\ pc = "tag" /\ rp.count = KPB
    /\ pc' = "block"
    /\ UNCHANGED <<from, md, rd, rp, disk, ghost, tally>>

\* mutant: the tag counter is not advanced
replay_skip_tag_stuck ==
    /\ ReplayTag /\ ~IsTxnTag(rp.tags[rp.count])
    /\ UNCHANGED vars

\* an unused tag, or a record: records are copied when their end tag is met
replay_skip_tag ==
    /\ ReplayTag /\ ~IsTxnTag(rp.tags[rp.count])
    /\ rp' = Step(rp)
    /\ UNCHANGED <<pc, from, md, rd, disk, ghost, tally>>

\* mutant: the index behind the begin tag is remembered
replay_begin_tag_next ==
    /\ ReplayTag /\ rd.txn_id = 0
    /\ LET t == rp.tags[rp.count]
       IN  /\ IsTxnTag(t)
           /\ rd' = [rd EXCEPT !.txn_id = t.blk_crc]
           /\ rp' = [Step(rp) EXCEPT !.is_replayed = (t.offset = REPLAYED),
                        !.begin_blk = Len(rp.blks) - 1, !.begin_idx = rp.count + 1]
    /\ UNCHANGED <<pc, from, md, disk, ghost, tally>>

\* mutant: a transaction is marked before its records are copied
replay_begin_tag_marks ==
    /\ ReplayTag /\ rd.txn_id = 0
    /\ LET t == rp.tags[rp.count]
           b == rp.blks[Len(rp.blks)]
       IN  /\ IsTxnTag(t)
           /\ rd' = [rd EXCEPT !.txn_id = t.blk_crc]
           /\ log' = Put(log, b.at, Keyb([b.tags EXCEPT ![rp.count].offset = REPLAYED]))
           /\ rp' = [Step(rp) EXCEPT !.is_replayed = (t.offset = REPLAYED),
                        !.begin_blk = Len(rp.blks) - 1, !.begin_idx = rp.count]
    /\ UNCHANGED <<pc, from, md, logd, fh, fhd, dev, devd, ghost, tally>>

replay_begin_tag ==
    /\ ReplayTag /\ rd.txn_id = 0
    /\ LET t == rp.tags[rp.count]
       IN  /\ IsTxnTag(t)
           /\ rd' = [rd EXCEPT !.txn_id = t.blk_crc]
           /\ IF t.offset = REPLAYED
                THEN rp' = [Step(rp) EXCEPT !.is_replayed = TRUE]
                ELSE rp' = [Step(rp) EXCEPT !.is_replayed = FALSE,
                              !.begin_blk = Len(rp.blks) - 1, !.begin_idx = rp.count]
    /\ UNCHANGED <<pc, from, md, disk, ghost, tally>>

replay_end_tag ==
    /\ ReplayTag /\ rd.txn_id # 0 /\ IsTxnTag(rp.tags[rp.count])
    /\ \/ /\ rp.is_replayed
          /\ rd' = [rd EXCEPT !.txn_id = 0] /\ rp' = Step(rp) /\ UNCHANGED pc
       \/ /\ ~rp.is_replayed
          /\ rp' = [rp EXCEPT !.i = rp.begin_blk, !.j = rp.begin_idx + 1,
                              !.tags[rp.count].offset = 0]
          /\ pc' = "copy" /\ UNCHANGED rd
    /\ UNCHANGED <<from, md, disk, ghost, tally>>

AtEndTag == rp.i = Len(rp.blks) - 1 /\ rp.j = rp.count

\* one record of the transaction: from the log to the device
replay_copy ==
    /\ pc = "copy" /\ rp.j < KPB /\ ~AtEndTag
    /\ LET t == rp.blks[rp.i + 1].tags[rp.j]
       IN  \/ /\ NoFault
              /\ dev' = [a \in DevAddr |->
                           IF t.offset <= a /\ a < t.offset + t.size
                             THEN ReadData(rp.replay_log_offset + a - t.offset)
                             ELSE dev[a]]
              /\ rp' = [rp EXCEPT !.j = @ + 1, !.replay_log_offset = @ + t.size]
              /\ UNCHANGED pc
           \/ Fault /\ pc' = AfterReplay /\ UNCHANGED <<dev, rp>>
    /\ UNCHANGED <<from, md, rd, log, logd, fh, fhd, devd, ghost,
                   kills, losses, runs, replays>>

\* on to the transaction's next key block, whose cell the data skips
replay_copy_next_block ==
    /\ pc = "copy" /\ rp.j >= KPB
    /\ rp' = [rp EXCEPT !.i = @ + 1, !.j = 0, !.replay_log_offset = @ + 1]
    /\ pc' = IF rp.i + 1 < Len(rp.blks) THEN "copy" ELSE "mark"
    /\ UNCHANGED <<from, md, rd, disk, ghost, tally>>

replay_copy_done ==
    /\ pc = "copy" /\ rp.j < KPB /\ AtEndTag
    /\ pc' = "mark"
    /\ UNCHANGED <<from, md, rd, rp, disk, ghost, tally>>

\* mutant: the transaction that was replayed stays open
replay_mark_open ==
    /\ pc = "mark"
    /\ LET b == [rp.blks[rp.begin_blk + 1] EXCEPT
                   !.tags[rp.begin_idx].offset = REPLAYED]
       IN  /\ \/ NoFault /\ b.at \in Addr /\ log' = Put(log, b.at, Keyb(b.tags))
              \/ Fault /\ UNCHANGED log
           /\ rp' = [Step(rp) EXCEPT !.blks[rp.begin_blk + 1] = b,
                                     !.begin_blk = 0, !.begin_idx = 0]
    /\ pc' = "tag"
    /\ UNCHANGED <<from, md, rd, logd, fh, fhd, dev, devd, ghost,
                   kills, losses, runs, replays>>

\* The begin tag is marked in the log; a failing write is not noticed.
replay_mark ==
    /\ pc = "mark"
    /\ LET b == [rp.blks[rp.begin_blk + 1] EXCEPT
                   !.tags[rp.begin_idx].offset = REPLAYED]
       IN  /\ \/ NoFault /\ b.at \in Addr /\ log' = Put(log, b.at, Keyb(b.tags))
              \/ Fault /\ UNCHANGED log
           /\ rp' = [Step(rp) EXCEPT !.blks[rp.begin_blk + 1] = b,
                                     !.begin_blk = 0, !.begin_idx = 0]
    /\ rd' = [rd EXCEPT !.txn_id = 0]
    /\ pc' = "tag"
    /\ UNCHANGED <<from, md, logd, fh, fhd, dev, devd, ghost,
                   kills, losses, runs, replays>>

\* if(flush) fsync(dev_fd): every caller in the repository passes flush = 1
replay_sync ==
    /\ pc = "sync_dev" /\ pc' = AfterReplay
    /\ \/ NoFault /\ devd' = dev
       \/ Fault /\ UNCHANGED devd
    /\ UNCHANGED <<from, md, rd, rp, log, logd, fh, fhd, dev, ghost,
                   kills, losses, runs, replays>>

-----------------------------------------------------------------------------
(* rfsck_open and rfsck_close.                                             *)

\* mutant: the header is used although it could not be read
rfsck_open_unread ==
    LET r == IF pc = "dead" THEN Fresh ELSE rd
        n == IF pc = "dead" THEN 0 ELSE replays
    IN  /\ \/ pc = "dead" /\ runs < MaxRuns /\ runs' = runs + 1
           \/ pc = "idle" /\ UNCHANGED runs
        /\ from' = "open"
        /\ \/ /\ Fault \/ (Finished /\ NoFault)
              /\ n < MaxReplays /\ replays' = n + 1 /\ pc' = "block"
              /\ rd' = [r EXCEPT !.txn_id = 0] /\ rp' = ReplayStart(fh.num_keys)
           \/ ~Finished /\ NoFault /\ pc' = "open_hdr"
              /\ rd' = r /\ replays' = n /\ UNCHANGED rp
        /\ UNCHANGED <<md, disk, ghost, kills, losses>>

\* The first rfsck_open of a process sets up redo_data, a later one (e2fsck
\* restarting) keeps it; both go on to rfsck_replay, whose result is ignored.
rfsck_open ==
    LET r == IF pc = "dead" THEN Fresh ELSE rd
        n == IF pc = "dead" THEN 0 ELSE replays
    IN  /\ \/ pc = "dead" /\ runs < MaxRuns /\ runs' = runs + 1
           \/ pc = "idle" /\ UNCHANGED runs
        /\ from' = "open"
        /\ \/ /\ Finished /\ NoFault
              /\ n < MaxReplays /\ replays' = n + 1
              /\ pc' = "block"
              /\ rd' = [r EXCEPT !.txn_id = 0] /\ rp' = ReplayStart(fh.num_keys)
           \/ /\ IF Finished THEN Fault ELSE NoFault    \* the header is not read
              /\ pc' = "open_hdr"
              /\ rd' = r /\ replays' = n /\ UNCHANGED rp
        /\ UNCHANGED <<md, disk, ghost, kills, losses>>

\* The header of the new log, not followed by an fsync.  If it cannot be
\* written, rfsck_open fails and the checker works without the library.
open_header ==
    /\ pc = "open_hdr"
    /\ \/ /\ NoFault /\ fh' = rd.hdr /\ pc' = "idle" /\ UNCHANGED rd
          /\ finished' = (finished \/ rd.hdr.state = 1)
          /\ hist' = IF rd.log_offset = 2 /\ rd.keys_in_block = 0 THEN <<>> ELSE hist
       \/ /\ Fault /\ pc' = "dead" /\ rd' = Fresh
          /\ UNCHANGED <<fh, hist, finished>>
    /\ UNCHANGED <<from, md, rp, log, logd, fhd, dev, devd, base, start, early,
                   kills, losses, runs, replays>>

Exit == pc' = "dead" /\ rd' = Fresh /\ rp' = ReplayStart(0)
        /\ UNCHANGED <<from, md>>

\* close(redo_fd), the last thing a checker does with the library
rfsck_close ==
    /\ pc = "idle" /\ Exit
    /\ UNCHANGED <<disk, ghost, tally>>

-----------------------------------------------------------------------------
(* The environment.                                                        *)

\* The process dies: fatal_error, a signal, a heap corruption.
Kill ==
    /\ pc # "dead" /\ kills < MaxKills /\ kills' = kills + 1
    /\ Exit
    /\ UNCHANGED <<disk, ghost, faults, losses, runs, replays>>

PowerLoss ==
    /\ losses < MaxLosses /\ losses' = losses + 1
    /\ log' = logd /\ fh' = fhd /\ dev' = devd
    /\ Exit
    /\ UNCHANGED <<logd, fhd, devd, ghost, faults, kills, runs, replays>>

\* The kernel writes back a cell when it likes; it matters only if a power
\* loss is still to come.
WriteBack ==
    /\ losses < MaxLosses
    /\ \/ \E a \in Addr : logd' = [logd EXCEPT ![a] = log[a]] /\ UNCHANGED <<fhd, devd>>
       \/ fhd' = fh /\ UNCHANGED <<logd, devd>>
       \/ \E a \in DevAddr : devd' = [devd EXCEPT ![a] = dev[a]] /\ UNCHANGED <<logd, fhd>>
    /\ UNCHANGED <<pc, from, md, rd, rp, log, fh, dev, ghost, tally>>

Writer ==
    \/ rfsck_txn_begin_garbage \/ rfsck_txn_begin \/ rfsck_txn_end
    \/ \E off \in DevAddr, buf \in Buffers(Len(hist)) :
          off + Len(buf) <= DevSize /\ rfsck_write(off, buf)
    \/ rfsck_flush \/ fsync_log
    \/ \E m \in {0, 1} : redo_mark_done(m)
    \/ mark_done_header

Replay ==
    \/ replay_block \/ replay_next_block \/ replay_skip_tag \/ replay_begin_tag
    \/ replay_end_tag \/ replay_copy \/ replay_copy_next_block \/ replay_copy_done
    \/ replay_mark \/ replay_sync

Next ==
    \/ rfsck_open \/ open_header \/ Writer \/ rfsck_replay \/ Replay \/ rfsck_close
    \/ Kill \/ PowerLoss \/ WriteBack

Spec     == Init /\ [][Next]_vars
FairSpec == Spec /\ WF_vars(Replay)

-----------------------------------------------------------------------------
(* Properties.                                                             *)

\* The program counter, *redo_data, the locals of rfsck_replay and both disks
\* stay in their ranges: a key block is written inside the log file, the tag
\* indices of the replay loops stay within a key block and their block indices
\* within the key blocks that were read.  That these fit in replay_blocks is not
\* claimed: it has num_keys elements (redo.c:425), and num_keys + 1 are read.
TypeOK ==
    /\ pc \in {"dead", "open_hdr", "idle", "sync", "md_sync", "block", "tag",
              "copy", "mark", "sync_dev"}
    /\ from \in {"open", "call"} /\ md \in {0, 1}
    /\ rd \in RedoData /\ rp \in ReplayLocals
    /\ log \in [Addr -> Cell] /\ logd \in [Addr -> Cell]
    /\ fh \in Header /\ fhd \in Header
    /\ dev \in [DevAddr -> Cell] /\ devd \in [DevAddr -> Cell]
    /\ {faults, kills, losses, runs, replays} \subseteq Nat
    /\ hist \in Seq(Call) /\ early \in BOOLEAN /\ finished \in BOOLEAN
    /\ pc \in {"tag", "copy", "mark"} => rp.begin_blk < Len(rp.blks)
    /\ pc = "copy" => rp.i < Len(rp.blks)

SameTag(t, u) ==
    /\ t.size = u.size /\ t.blk_crc = u.blk_crc
    /\ t.offset = u.offset \/ REPLAYED \in {t.offset, u.offset}

\* A key block that differs from its stable copy only by replay's marks, or a
\* hole in the log that replay took for a key block and wrote a mark into.
SameButMarks(c, d) ==
    /\ c.kind = "keyb"
    /\ \/ d = Hole /\ \E i \in Slot : c.tags[i].offset = REPLAYED
       \/ \A i \in Slot : SameTag(c.tags[i], TagsOf(d)[i])

LogFlushed == \A a \in Addr : log[a] = logd[a] \/ SameButMarks(log[a], logd[a])

\* redo.h: the state flag is "set to 1 to after all blocks flushed to redo
\* log".  As long as no system call fails, while the header says FINISHED every
\* key block and every record is on stable storage, but for what replay's marks
\* change (SameButMarks).
FinishedMeansFlushed == faults = 0 /\ Finished => LogFlushed

WriteAheadStep ==
    (faults = 0 /\ losses' = losses /\ dev' # dev)
    => Finished /\ LogFlushed /\ (kills = 0 => fhd = fh)

\* The write-ahead rule: replay puts an update on the device only while all of
\* the log is on stable storage and, unless a process was killed between
\* writing the header and flushing it, the FINISHED header is there too.  It is
\* about a disk whose calls succeed: rfsck_txn_end ignores the result of its
\* flush, and nothing is claimed of a flush that fails.
WriteAhead == [][WriteAheadStep]_vars

\* Until a FINISHED header has been written, an interruption at any point
\* leaves the device as the checker found it.
UntouchedUntilFinished ==
    ~finished => \A a \in DevAddr : dev[a] = Old /\ devd[a] = Old

-----------------------------------------------------------------------------
(* What the replay of a log should leave on the device.                    *)

\* begin, records, end; begin, records, end; ...
WellBracketed(h) ==
    \A i \in DOMAIN h :
        IF h[i].op = "B" THEN i = 1 \/ h[i - 1].op = "E"
                         ELSE i > 1 /\ h[i - 1].op # "E"

Ends(h) == {i \in DOMAIN h : h[i].op = "E"}

\* some transaction but the last one ends in the last tag of a key block
EndFillsBlock(h) == \E i \in Ends(h) : i % KPB = 0 /\ i < Len(h)

\* the records up to e that write cell a of the device
WritesOf(h, e, a) == {i \in 1..e : h[i].op = "W" /\ h[i].off <= a
                                               /\ a < h[i].off + Len(h[i].buf)}

\* the device after the transactions up to the end tag e, e = 0: none
After(h, e) ==
    [a \in DevAddr |->
       LET W == WritesOf(h, e, a)
       IN  IF W = {} THEN base[a]
           ELSE LET i == CHOOSE i \in W : \A k \in W : k <= i
                IN  Data(h[i].buf[a - h[i].off + 1])]

LastEnd(h) == CHOOSE e \in Ends(h) \cup {0} : \A k \in Ends(h) : k <= e

Sound == faults = 0 /\ ~early /\ WellBracketed(hist)

\* rfsck-lib README: rfsck_replay "is used to replay the updates from the log
\* to the device".  The first replay of a log that was started with
\* transaction 1, and in which no transaction but the last ends in the last
\* tag of a key block, puts exactly the updates of the ended transactions on
\* the device, in order, across key blocks.  Both conditions exclude what replay
\* does wrong: it leaves txn_id at 0 for the log that is started next, whose
\* first tags it then takes for unused, and it misses an end in a last tag.
ReplayFaithful ==
    (pc = "sync_dev" /\ from = "call" /\ replays = 1 /\ start = 1 /\ Sound
       /\ ~EndFillsBlock(hist))
    => dev = After(hist, LastEnd(hist))

\* A log of one transaction is recovered by the next rfsck_open whenever the
\* process was killed, be it in the middle of the replay or of a recovery.
RecoveryFaithful ==
    (pc = "sync_dev" /\ from = "open" /\ losses = 0 /\ start = 1 /\ Sound
       /\ Ends(hist) = {Len(hist)})
    => dev = After(hist, LastEnd(hist))

\* Every replay ends, unless the process dies in it.
ReplayEnds == (pc = "block") ~> (pc \in {"idle", "open_hdr", "dead"})

-----------------------------------------------------------------------------
(* What the documentation says without conditions.                         *)

\* rfsck-lib README: "All the updates that are written between transaction
\* begin and transaction end index will be treated as one atomic unit": when
\* rfsck_open has dealt with an interrupted log, the device holds the updates
\* of the first so many transactions and nothing else.
AtomicUnit ==
    (pc = "open_hdr" /\ Sound /\ start = 1)
    => \E e \in Ends(hist) \cup {0} : dev = After(hist, e)
=============================================================================
