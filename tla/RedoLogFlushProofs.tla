------------------------ MODULE RedoLogFlushProofs -------------------------
(***************************************************************************)
(* Proofs about RedoLog: a FINISHED log is on stable storage, and replay   *)
(* touches the device only then.                                           *)
(***************************************************************************)
EXTENDS RedoLogProofs

(***************************************************************************)
(* The FINISHED header and the log, as long as no system call has failed.  *)
(***************************************************************************)

\* the header in memory is the one in the file
HeaderInv ==
    /\ rd.hdr.state = 1 => fh = rd.hdr
    /\ pc \in {"idle", "sync", "md_sync"} => fh = rd.hdr
    /\ Replaying => Finished /\ (from = "call" => fh = rd.hdr)

\* the key block in memory is the one in the file, but for replay's marks
KeybInv ==
    /\ rd.hdr.state = 1 =>
         LET a == rd.redo_block_offset
         IN  /\ log[a].kind = "keyb"
             /\ \A i \in Slot : /\ SameTag(rd.keyb[i], log[a].tags[i])
                                /\ SameTag(rd.keyb[i], TagsOf(logd[a])[i])
    /\ pc = "md_sync" => log[rd.redo_block_offset] = Keyb(rd.keyb)

\* the key blocks that replay holds are the ones in the file
BlksInv ==
    Replaying =>
      \A k \in 1..Len(rp.blks) :
         LET a == rp.blks[k].at
         IN  /\ a < rp.log_offset
             /\ \A m \in 1..Len(rp.blks) : m < k => rp.blks[m].at < a
             /\ a \in Addr => log[a] = Hole \/ TagsOf(log[a]) = rp.blks[k].tags

\* the header is on stable storage, unless a process was killed before its fsync
StableInv == (kills = 0 /\ Finished /\ pc # "sync") => fhd = fh

FlushedIfFinished == Finished => LogFlushed

FlushParts == HeaderInv /\ KeybInv /\ BlksInv /\ StableInv /\ FlushedIfFinished

FlushInv == faults = 0 => FlushParts

-----------------------------------------------------------------------------
(* What the operators of the writer leave alone.                           *)

LEMMA SameTagRefl == \A t : SameTag(t, t)
  BY DEF SameTag

Writes == \/ rfsck_txn_begin_garbage \/ rfsck_txn_begin \/ rfsck_txn_end
          \/ \E off \in DevAddr, buf \in Buffers(Len(hist)) : rfsck_write(off, buf)

LEMMA NextBlockHdr ==
    ASSUME NEW r, NEW h, r.hdr = h, DOMAIN r = DOMAIN Fresh
    PROVE  NextBlock(r).hdr = h
  BY DEF NextBlock, Fresh

LEMMA HdrKept ==
    ASSUME rd \in RedoData, Writes PROVE rd'.hdr = rd.hdr
  <1>0. DOMAIN rd = DOMAIN Fresh
    BY DEF RedoData, Fresh
  <1>1. CASE rfsck_txn_begin_garbage
    BY <1>1 DEF rfsck_txn_begin_garbage, WithTag, RedoData
  <1>2. CASE rfsck_txn_begin
    <2> DEFINE r == Counted(WithTag(rd, TxnTag(0, rd.txn_id)))
    <2>1. r.hdr = rd.hdr /\ DOMAIN r = DOMAIN Fresh
      BY <1>0 DEF Counted, WithTag, RedoData
    <2> QED
      BY <1>2, <2>1, NextBlockHdr DEF rfsck_txn_begin
  <1>3. CASE rfsck_txn_end
    <2> DEFINE r == [Counted(WithTag(rd, TxnTag(CSUM, rd.txn_id))) EXCEPT !.txn_id = @ + 1]
    <2>1. r.hdr = rd.hdr /\ DOMAIN r = DOMAIN Fresh
      BY <1>0 DEF Counted, WithTag, RedoData
    <2> QED
      BY <1>3, <2>1, NextBlockHdr DEF rfsck_txn_end
  <1>4. ASSUME NEW off \in DevAddr, NEW buf \in Buffers(Len(hist)), rfsck_write(off, buf)
        PROVE  rd'.hdr = rd.hdr
    <2> DEFINE t == WithTag(rd, RecTag(off, Len(buf)))
    <2> DEFINE r == [t EXCEPT !.log_offset = @ + Len(buf)]
    <2>1. t.hdr = rd.hdr /\ DOMAIN t = DOMAIN Fresh
      BY <1>0 DEF WithTag, RedoData
    <2>2. r.hdr = rd.hdr /\ Counted(r).hdr = rd.hdr /\ DOMAIN Counted(r) = DOMAIN Fresh
      BY <2>1 DEF Counted, Fresh
    <2> QED
      BY <1>4, <2>1, <2>2, NextBlockHdr DEF rfsck_write
  <1> QED
    BY <1>1, <1>2, <1>3, <1>4 DEF Writes

\* While the log is written its header says that it is not FINISHED.
LEMMA FlushWriting ==
    ASSUME fh = rd.hdr, rd.hdr.state = 0, rd'.hdr = rd.hdr, fh' = fh,
           pc' \in {"idle", "sync"}
    PROVE  FlushParts'
  BY DEF FlushParts, HeaderInv, KeybInv, BlksInv, StableInv, FlushedIfFinished, Finished, Replaying

-----------------------------------------------------------------------------
(* Each step preserves FlushInv.  A step after which no call has failed is *)
(* one in which none fails.                                                *)

LEMMA NoFaultStep ==
    ASSUME TypeInv, [Next]_vars, faults' = 0 PROVE faults = 0 /\ ~Fault
  <1>1. faults \in Nat
    BY DEF TypeInv, TypeOK
  <1>2. ~Fault
    BY <1>1 DEF Fault
  <1>3. faults' = faults
    BY <1>2 DEF Next, Writer, Replay, NoFault, vars, tally, rfsck_open, open_header,
       rfsck_txn_begin_garbage, rfsck_txn_begin, rfsck_txn_end, rfsck_write,
       rfsck_flush, fsync_log, redo_mark_done, mark_done_header, rfsck_replay,
       replay_block, replay_next_block, replay_skip_tag, replay_begin_tag,
       replay_end_tag, replay_copy, replay_copy_next_block, replay_copy_done,
       replay_mark, replay_sync, rfsck_close, Kill, PowerLoss, WriteBack
  <1> QED
    BY <1>2, <1>3

\* the writer: the header is not FINISHED, or only the current key block changes
LEMMA FlushWriter ==
    ASSUME TypeInv, FlushParts, Writer, faults = 0, ~Fault PROVE FlushParts'
  <1>0. /\ rd \in RedoData /\ rd.redo_block_offset \in Addr /\ rd.keyb \in Tags
        /\ rd.hdr.state \in {0, 1} /\ log \in [Addr -> Cell] /\ logd \in [Addr -> Cell]
        /\ md \in {0, 1}
    BY DEF TypeInv, TypeOK, RedoData, Header
  <1>a. ~(faults > 0)
    BY faults = 0
  <1>1. CASE Writes
    <2>1. pc = "idle" /\ rd.hdr.state = 0 /\ fh' = fh /\ pc' \in {"idle", "sync"}
      BY <1>1, <1>a, ~Fault DEF Writes, Writing, rfsck_txn_begin_garbage, rfsck_txn_begin,
         rfsck_txn_end, rfsck_write, disk
    <2>2. fh = rd.hdr
      BY <2>1 DEF FlushParts, HeaderInv
    <2> QED
      BY <1>0, <1>1, <2>1, <2>2, HdrKept, FlushWriting
  <1>2. ASSUME pc = "idle", pc' \in {"sync", "md_sync"},
               log' = Put(log, rd.redo_block_offset, Keyb(rd.keyb)),
               UNCHANGED <<rd, rp, logd, fh, fhd, kills>>
        PROVE  FlushParts'
    <2>1. fh = rd.hdr
      BY <1>2 DEF FlushParts, HeaderInv
    <2>2. /\ log'[rd.redo_block_offset] = Keyb(rd.keyb)
          /\ \A a \in Addr \ {rd.redo_block_offset} : log'[a] = log[a]
      BY <1>0, <1>2 DEF Put
    <2>3. HeaderInv'
      BY <1>2, <2>1 DEF HeaderInv, Replaying, Finished
    <2>4. KeybInv'
      BY <1>2, <2>2, SameTagRefl DEF FlushParts, KeybInv, Keyb
    <2>5. BlksInv' /\ StableInv'
      BY <1>2 DEF FlushParts, BlksInv, StableInv, Replaying, Finished
    <2>6. FlushedIfFinished'
      <3> SUFFICES ASSUME Finished', NEW a \in Addr
                   PROVE  log'[a] = logd'[a] \/ SameButMarks(log'[a], logd'[a])
        BY DEF FlushedIfFinished, LogFlushed
      <3>1. Finished /\ rd.hdr.state = 1
        BY <1>2, <2>1 DEF Finished
      <3>2. CASE a = rd.redo_block_offset
        BY <1>2, <2>2, <3>1, <3>2 DEF FlushParts, KeybInv, SameButMarks, Keyb
      <3>3. CASE a # rd.redo_block_offset
        BY <1>2, <2>2, <3>1, <3>3 DEF FlushParts, FlushedIfFinished, LogFlushed
      <3> QED
        BY <3>2, <3>3
    <2> QED
      BY <2>3, <2>4, <2>5, <2>6 DEF FlushParts
  <1>3. CASE rfsck_flush
    BY <1>2, <1>3, ~Fault DEF rfsck_flush
  <1>4. CASE \E m \in {0, 1} : redo_mark_done(m)
    BY <1>2, <1>4, ~Fault DEF redo_mark_done
  <1>5. CASE fsync_log
    <2>1. logd' = log /\ fhd' = fh /\ pc = "sync" /\ pc' = "idle"
          /\ UNCHANGED <<rd, log, fh>>
      BY <1>5, ~Fault DEF fsync_log, FsyncLog
    <2>2. HeaderInv' /\ BlksInv' /\ StableInv'
      BY <2>1 DEF FlushParts, HeaderInv, BlksInv, StableInv, Replaying
    <2>3. KeybInv'
      BY <2>1 DEF FlushParts, KeybInv, TagsOf
    <2>4. FlushedIfFinished'
      BY <2>1 DEF FlushedIfFinished, LogFlushed
    <2> QED
      BY <2>2, <2>3, <2>4 DEF FlushParts
  <1>6. CASE mark_done_header
    <2> DEFINE h == [valid |-> TRUE, num_keys |-> rd.num_keys, state |-> md]
    <2>1. logd' = log /\ fh' = h /\ pc = "md_sync" /\ pc' = "sync"
          /\ rd' = [rd EXCEPT !.hdr = h] /\ UNCHANGED log
      BY <1>6, ~Fault DEF mark_done_header, FsyncLog
    <2>2. rd'.hdr = fh' /\ rd'.redo_block_offset = rd.redo_block_offset
          /\ rd'.keyb = rd.keyb
      BY <1>0, <2>1 DEF RedoData
    <2>3. HeaderInv' /\ BlksInv' /\ StableInv'
      BY <2>1, <2>2 DEF HeaderInv, BlksInv, StableInv, Replaying
    <2>4. log[rd.redo_block_offset] = Keyb(rd.keyb)
      BY <2>1 DEF FlushParts, KeybInv
    <2>5. KeybInv'
      BY <2>1, <2>2, <2>4, SameTagRefl DEF KeybInv, TagsOf, Keyb
    <2>6. FlushedIfFinished'
      BY <2>1 DEF FlushedIfFinished, LogFlushed
    <2> QED
      BY <2>3, <2>5, <2>6 DEF FlushParts
  <1> QED
    BY <1>1, <1>3, <1>4, <1>5, <1>6 DEF Writer, Writes


\* the log, its header and the writer's key block stay as they are
LEMMA FlushQuiet ==
    ASSUME FlushParts, UNCHANGED <<log, logd, fh, fhd, kills>>,
           rd'.hdr.state = 0 \/ (/\ rd'.hdr = rd.hdr /\ rd'.keyb = rd.keyb
                                 /\ rd'.redo_block_offset = rd.redo_block_offset),
           pc # "sync", pc' # "md_sync"
    PROVE  KeybInv' /\ StableInv' /\ FlushedIfFinished'
  <1>1. KeybInv'
    BY DEF FlushParts, KeybInv
  <1>2. StableInv'
    BY DEF FlushParts, StableInv, Finished
  <1>3. FlushedIfFinished'
    BY DEF FlushParts, FlushedIfFinished, LogFlushed, Finished
  <1> QED
    BY <1>1, <1>2, <1>3

LEMMA FlushOpen ==
    ASSUME TypeInv, FlushParts, rfsck_open \/ open_header \/ rfsck_replay, ~Fault
    PROVE  FlushParts'
  <1>0. rd \in RedoData
    BY DEF TypeInv, TypeOK
  <1>a. \A r \in RedoData :
           LET z == [r EXCEPT !.txn_id = 0]
           IN  /\ z.hdr = r.hdr /\ z.keyb = r.keyb
               /\ z.redo_block_offset = r.redo_block_offset
    BY DEF RedoData
  <1>b. \A n : Len(ReplayStart(n).blks) = 0
    BY DEF ReplayStart
  <1>1. CASE rfsck_open \/ rfsck_replay
    <2>1. /\ pc \in {"dead", "idle"} /\ pc' \in {"block", "open_hdr"}
          /\ UNCHANGED <<log, logd, fh, fhd, kills>>
          /\ (pc' = "block" => Finished /\ rp' = ReplayStart(fh.num_keys))
      BY <1>1, ~Fault DEF rfsck_open, rfsck_replay, disk
    <2>2. CASE pc = "dead"
      <3>1. from' = "open" /\ rd' \in {Fresh, [Fresh EXCEPT !.txn_id = 0]}
        BY <1>1, <2>2 DEF rfsck_open, rfsck_replay
      <3>2. rd'.hdr.state = 0
        BY <3>1, <1>a, StartTypes DEF Fresh
      <3>3. HeaderInv'
        BY <2>1, <3>1, <3>2 DEF HeaderInv, Replaying, Finished
      <3> QED
        BY <1>b, <2>1, <2>2, <3>2, <3>3, FlushQuiet DEF FlushParts, BlksInv, Replaying
    <2>3. CASE pc = "idle"
      <3>1. rd' \in {rd, [rd EXCEPT !.txn_id = 0]}
        BY <1>1, <2>3 DEF rfsck_open, rfsck_replay
      <3>2. rd'.hdr = rd.hdr /\ rd'.keyb = rd.keyb
            /\ rd'.redo_block_offset = rd.redo_block_offset
        BY <1>0, <1>a, <3>1
      <3>3. HeaderInv'
        BY <2>1, <2>3, <3>2 DEF FlushParts, HeaderInv, Replaying, Finished
      <3> QED
        BY <1>b, <2>1, <2>3, <3>2, <3>3, FlushQuiet DEF FlushParts, BlksInv, Replaying
    <2> QED
      BY <2>1, <2>2, <2>3
  <1>2. CASE open_header
    <2>1. /\ pc = "open_hdr" /\ pc' = "idle" /\ fh' = rd.hdr
          /\ UNCHANGED <<rd, log, logd, fhd, kills>>
      BY <1>2, ~Fault DEF open_header
    <2>2. rd.hdr.state = 1 => UNCHANGED fh
      BY <2>1 DEF FlushParts, HeaderInv
    <2>3. CASE rd.hdr.state = 1
      <3>1. KeybInv' /\ StableInv' /\ FlushedIfFinished'
        BY <2>1, <2>2, <2>3, FlushQuiet
      <3> QED
        BY <2>1, <3>1 DEF FlushParts, HeaderInv, BlksInv, Replaying
    <2>4. CASE rd.hdr.state # 1
      BY <2>1, <2>4 DEF FlushParts, HeaderInv, KeybInv, BlksInv, StableInv,
         FlushedIfFinished, Finished, Replaying
    <2> QED
      BY <2>3, <2>4
  <1> QED
    BY <1>1, <1>2

LEMMA FlushEnv ==
    ASSUME TypeInv, FlushParts, rfsck_close \/ Kill \/ PowerLoss \/ WriteBack
    PROVE  FlushParts'
  <1>0. /\ kills \in Nat /\ rd.redo_block_offset \in Addr
        /\ log \in [Addr -> Cell] /\ logd \in [Addr -> Cell]
    BY DEF TypeInv, TypeOK, RedoData
  <1>a. Exit => /\ rd'.hdr.state = 0 /\ pc' = "dead"
                /\ HeaderInv' /\ KeybInv' /\ BlksInv'
    BY SMTT(60) DEF Exit, Fresh, HeaderInv, KeybInv, BlksInv, Replaying
  <1>1. CASE rfsck_close
    BY <1>a, <1>1, FlushQuiet DEF rfsck_close, FlushParts, disk, tally
  <1>2. CASE Kill
    <2>1. StableInv'
      BY <1>0, <1>2 DEF Kill, StableInv
    <2> QED
      BY <1>a, <1>2, <2>1
      DEF Kill, FlushParts, FlushedIfFinished, LogFlushed, Finished, disk
  <1>3. CASE PowerLoss
    BY <1>a, <1>3 DEF PowerLoss, FlushParts, StableInv, FlushedIfFinished, LogFlushed
  <1>4. CASE WriteBack
    <2>1. UNCHANGED <<pc, from, rd, rp, log, fh, kills>>
      BY <1>4 DEF WriteBack, tally
    <2>2. fhd' \in {fh, fhd} /\ \A a \in Addr : logd'[a] \in {log[a], logd[a]}
      BY <1>0, <1>4 DEF WriteBack
    <2>3. HeaderInv' /\ BlksInv' /\ StableInv'
      BY <2>1, <2>2 DEF FlushParts, HeaderInv, BlksInv, StableInv, Replaying, Finished
    <2>4. KeybInv'
      BY <1>0, <2>1, <2>2 DEF FlushParts, KeybInv, TagsOf
    <2>5. FlushedIfFinished'
      BY <2>1, <2>2 DEF FlushParts, FlushedIfFinished, LogFlushed, Finished
    <2> QED
      BY <2>3, <2>4, <2>5 DEF FlushParts
  <1> QED
    BY <1>1, <1>2, <1>3, <1>4


-----------------------------------------------------------------------------
(* Replay: it appends to the key blocks it holds, or marks one of them.    *)

LEMMA StepGrows ==
    ASSUME rp \in ReplayLocals, rp.count < KPB
    PROVE  /\ rp.log_offset \in Nat /\ Step(rp).log_offset \in Nat
           /\ Step(rp).log_offset >= rp.log_offset
  <1>1. rp.count \in Slot /\ rp.log_offset \in Nat
    BY Constants DEF ReplayLocals, Slot
  <1>2. rp.tags[rp.count].size \in Nat
    BY <1>1 DEF ReplayLocals, Tags, Tag
  <1>3. Step(rp).log_offset = rp.log_offset + rp.tags[rp.count].size
    BY DEF Step, ReplayLocals
  <1> QED
    BY <1>1, <1>2, <1>3

\* the steps that read only the log
LEMMA FlushReplayRead ==
    ASSUME TypeInv, FlushParts, Replaying,
           UNCHANGED <<from, log, logd, fh, fhd, kills>>,
           rd' = rd \/ \E id : rd' = [rd EXCEPT !.txn_id = id],
           rp'.blks = rp.blks, rp'.log_offset >= rp.log_offset, rp'.log_offset \in Nat,
           pc' \in {"block", "tag", "copy", "mark", "sync_dev", AfterReplay}
    PROVE  FlushParts'
  <1>0. rd \in RedoData /\ rp \in ReplayLocals
    BY DEF TypeInv, TypeOK
  <1>1. rd'.hdr = rd.hdr /\ rd'.keyb = rd.keyb
        /\ rd'.redo_block_offset = rd.redo_block_offset
    BY <1>0 DEF RedoData
  <1>2. KeybInv' /\ StableInv' /\ FlushedIfFinished'
    BY <1>1, FlushQuiet DEF Replaying, AfterReplay
  <1>3. HeaderInv'
    <2>1. AfterReplay = "open_hdr" \/ (AfterReplay = "idle" /\ from = "call")
      BY DEF TypeInv, TypeOK, AfterReplay
    <2> QED
      BY <1>1, <2>1 DEF FlushParts, HeaderInv, Replaying, Finished
  <1>4. BlksInv'
    <2> SUFFICES ASSUME NEW k \in 1..Len(rp.blks) PROVE
           LET a == rp.blks[k].at
           IN  /\ a < rp'.log_offset
               /\ \A m \in 1..Len(rp.blks) : m < k => rp.blks[m].at < a
               /\ a \in Addr => log[a] = Hole \/ TagsOf(log[a]) = rp.blks[k].tags
      BY DEF BlksInv
    <2>1. rp.blks[k].at \in Nat /\ rp.log_offset \in Nat
      <3>1. rp.blks \in Seq(Blk) /\ rp.log_offset \in Nat
        BY <1>0 DEF ReplayLocals, Blk
      <3>2. rp.blks[k] \in Blk
        BY <3>1, BlkType, Constants
      <3> QED
        BY <3>1, <3>2 DEF Blk
    <2>2. /\ rp.blks[k].at < rp.log_offset
          /\ \A m \in 1..Len(rp.blks) : m < k => rp.blks[m].at < rp.blks[k].at
          /\ rp.blks[k].at \in Addr =>
               log[rp.blks[k].at] = Hole \/ TagsOf(log[rp.blks[k].at]) = rp.blks[k].tags
      BY DEF FlushParts, BlksInv
    <2> QED
      BY <2>1, <2>2
  <1> QED
    BY <1>2, <1>3, <1>4 DEF FlushParts

\* a key block is read: behind the end of the file there are only holes
LEMMA FlushReplayBlock ==
    ASSUME TypeInv, FlushParts, replay_block, ~Fault PROVE FlushParts'
  <1>0. rp \in ReplayLocals /\ rp.log_offset \in Nat /\ rp.blks \in Seq(Blk)
    BY DEF TypeInv, TypeOK, ReplayLocals, Blk
  <1>a. pc = "block" /\ Replaying /\ UNCHANGED <<from, rd, log, logd, fh, fhd, kills>>
    BY DEF replay_block, Replaying, disk
  <1>1. CASE pc' = "tag"
    <2> DEFINE t == ReadKeyb(rp.log_offset, rp.tags)
    <2> DEFINE e == [at |-> rp.log_offset, tags |-> t]
    <2>1. rp' = [rp EXCEPT !.tags = t, !.count = 0, !.log_offset = @ + 1,
                           !.blks = Append(@, e)]
      BY <1>1, ~Fault DEF replay_block
    <2>2. rp.log_offset \in Addr => log[rp.log_offset] = Hole \/ TagsOf(log[rp.log_offset]) = t
      BY <1>0 DEF ReadKeyb, BeyondEof, Addr
    <2> HIDE DEF t
    <2>3. rp'.blks = Append(rp.blks, e) /\ rp'.log_offset = rp.log_offset + 1
      BY <1>0, <2>1 DEF ReplayLocals
    <2>4. BlksInv'
      <3> DEFINE bs == Append(rp.blks, e)
      <3> DEFINE n == Len(rp.blks)
      <3>1. /\ n \in Nat /\ Len(bs) = n + 1 /\ bs[n + 1] = e
            /\ \A k \in 1..n : bs[k] = rp.blks[k]
        BY <1>0
      <3>2. \A k \in 1..n : rp.blks[k].at \in Nat /\ rp.blks[k].at < rp.log_offset
        <4>1. \A k \in 1..n : rp.blks[k] \in Blk
          BY <1>0
        <4> QED
          BY <1>a, <4>1 DEF FlushParts, BlksInv, Blk
      <3>3. /\ \A k, m \in 1..n : m < k => rp.blks[m].at < rp.blks[k].at
            /\ \A k \in 1..n : rp.blks[k].at \in Addr =>
                 log[rp.blks[k].at] = Hole \/ TagsOf(log[rp.blks[k].at]) = rp.blks[k].tags
        BY <1>a DEF FlushParts, BlksInv
      <3> HIDE DEF bs, n
      <3>4. \A k \in 1..(n + 1) : k \in 1..n \/ k = n + 1
        BY <3>1
      <3>5. \A k \in 1..(n + 1) : bs[k].at < rp.log_offset + 1
        BY <1>0, <3>1, <3>2, <3>4, SMTT(60)
      <3>6. \A k, m \in 1..(n + 1) : m < k => bs[m].at < bs[k].at
        BY <3>1, <3>2, <3>3, <3>4, SMTT(60)
      <3>7. \A k \in 1..(n + 1) : bs[k].at \in Addr =>
               log[bs[k].at] = Hole \/ TagsOf(log[bs[k].at]) = bs[k].tags
        BY <2>2, <3>1, <3>3, <3>4, SMTT(60)
      <3> QED
        BY <1>a, <2>3, <3>1, <3>5, <3>6, <3>7 DEF BlksInv, bs
    <2>5. HeaderInv'
      BY <1>a, <1>1 DEF FlushParts, HeaderInv, Replaying, Finished
    <2> QED
      BY <1>a, <1>1, <2>4, <2>5, FlushQuiet DEF FlushParts
  <1>2. CASE pc' # "tag"
    <2>1. pc' = "sync_dev" /\ UNCHANGED rp
      BY <1>2, ~Fault DEF replay_block
    <2> QED
      BY <1>0, <1>a, <2>1, FlushReplayRead
  <1> QED
    BY <1>1, <1>2

\* a cell that was never written is no key block
LEMMA HoleIsNoKeyb == Hole.kind # "keyb"
  BY DEF Hole

\* reading a key block back yields its tags
LEMMA TagsOfKeyb == ASSUME NEW c, c.kind = "keyb" PROVE TagsOf(c) = c.tags
  BY DEF TagsOf

\* a tag that was marked as replayed still has what it had in common
LEMMA SameTagMarked ==
    ASSUME NEW x, NEW y, NEW u, SameTag(x, y), u.size = y.size,
           u.blk_crc = y.blk_crc, u.offset \in {REPLAYED, y.offset}
    PROVE  SameTag(x, u)
  BY DEF SameTag

\* a transaction is marked: in the file and in the key blocks that replay holds
LEMMA FlushReplayMark ==
    ASSUME TypeInv, FlushParts, replay_mark, ~Fault PROVE FlushParts'
  <1> DEFINE k == rp.begin_blk + 1
  <1> DEFINE at == rp.blks[k].at
  <1> DEFINE t == [rp.blks[k].tags EXCEPT ![rp.begin_idx].offset = REPLAYED]
  <1>0. /\ rd \in RedoData /\ rp \in ReplayLocals /\ log \in [Addr -> Cell]
        /\ rp.blks \in Seq(Blk) /\ rp.begin_blk \in Nat /\ rp.begin_idx \in Slot
        /\ rp.count < KPB /\ rp.begin_blk < Len(rp.blks) /\ pc = "mark"
    BY DEF TypeInv, TypeOK, replay_mark, ReplayLocals, Blk
  <1>1. k \in 1..Len(rp.blks)
    BY <1>0
  <1>2. rp.blks[k] \in Blk /\ rp.blks[k].tags \in Tags
    BY <1>0, <1>1, BlkType, Constants DEF Blk
  <1>3. /\ at \in Addr /\ log' = Put(log, at, Keyb(t))
        /\ rp' = [Step(rp) EXCEPT !.blks[k] = [rp.blks[k] EXCEPT !.tags = t],
                                  !.begin_blk = 0, !.begin_idx = 0]
        /\ rd' = [rd EXCEPT !.txn_id = 0] /\ pc' = "tag"
        /\ UNCHANGED <<from, logd, fh, fhd, kills>>
    BY <1>2, ~Fault DEF replay_mark, Blk
  <1>4. /\ t[rp.begin_idx].offset = REPLAYED
        /\ \A i \in Slot : /\ t[i].size = rp.blks[k].tags[i].size
                           /\ t[i].blk_crc = rp.blks[k].tags[i].blk_crc
                           /\ t[i].offset \in {REPLAYED, rp.blks[k].tags[i].offset}
    BY <1>0, <1>2 DEF Tags, Tag
  <1>5. /\ rd'.hdr = rd.hdr /\ rd'.keyb = rd.keyb
        /\ rd'.redo_block_offset = rd.redo_block_offset
    BY <1>0, <1>3 DEF RedoData
  <1>6. /\ rp'.blks = [rp.blks EXCEPT ![k] = [@ EXCEPT !.tags = t]]
        /\ rp'.log_offset = Step(rp).log_offset
    BY <1>0, <1>3, StepType DEF ReplayLocals
  <1> HIDE DEF k, t
  <1>a. log'[at] = Keyb(t) /\ \A a \in Addr \ {at} : log'[a] = log[a]
    BY <1>0, <1>3 DEF Put
  <1>b. log'[at].kind = "keyb" /\ log'[at].tags = t
    BY <1>a DEF Keyb
  <1>7. HeaderInv'
    BY <1>0, <1>3, <1>5 DEF FlushParts, HeaderInv, Replaying, Finished
  <1>8. StableInv'
    BY <1>0, <1>3 DEF FlushParts, StableInv, Finished
  <1>9. FlushedIfFinished'
    <2>1. Finished /\ (log[at] = Hole \/ TagsOf(log[at]) = rp.blks[k].tags)
      BY <1>0, <1>1, <1>3 DEF FlushParts, HeaderInv, BlksInv, Replaying
    <2>2. log[at] = logd[at] \/ SameButMarks(log[at], logd[at])
      BY <1>3, <2>1 DEF FlushParts, FlushedIfFinished, LogFlushed
    <2>3. logd[at] = Hole \/ \A i \in Slot : SameTag(t[i], TagsOf(logd[at])[i])
      <3>1. CASE log[at] = Hole
        <4>1. ~SameButMarks(log[at], logd[at])
          BY <3>1, HoleIsNoKeyb, Zenon DEF SameButMarks
        <4> QED
          BY <2>2, <3>1, <4>1, Zenon
      <3>2. CASE TagsOf(log[at]) = rp.blks[k].tags /\ log[at] = logd[at]
        <4>1. TagsOf(logd[at]) = rp.blks[k].tags
          BY <3>2, Zenon
        <4>2. ASSUME NEW i \in Slot PROVE SameTag(t[i], rp.blks[k].tags[i])
          BY <1>4, SMTT(60) DEF SameTag
        <4> QED
          BY <4>1, <4>2, Zenon
      <3>3. CASE TagsOf(log[at]) = rp.blks[k].tags /\ SameButMarks(log[at], logd[at])
        <4>1. log[at].tags = rp.blks[k].tags
          BY <3>3 DEF SameButMarks, TagsOf
        <4>2. logd[at] = Hole
              \/ \A i \in Slot : SameTag(rp.blks[k].tags[i], TagsOf(logd[at])[i])
          BY <3>3, <4>1 DEF SameButMarks
        <4>3. \A i \in Slot : \A u : SameTag(rp.blks[k].tags[i], u) => SameTag(t[i], u)
          BY <1>4 DEF SameTag
        <4> QED
          BY <4>2, <4>3
      <3> QED
        BY <2>1, <2>2, <3>1, <3>2, <3>3
    <2>4. SameButMarks(log'[at], logd'[at])
      BY <1>0, <1>3, <1>4, <1>b, <2>3 DEF SameButMarks
    <2> QED
      BY <1>3, <1>a, <2>4 DEF FlushParts, FlushedIfFinished, LogFlushed, Finished
  <1>10. KeybInv'
    <2> SUFFICES ASSUME rd.hdr.state = 1
                 PROVE  LET a == rd.redo_block_offset
                        IN  /\ log'[a].kind = "keyb"
                            /\ \A i \in Slot : /\ SameTag(rd.keyb[i], log'[a].tags[i])
                                               /\ SameTag(rd.keyb[i], TagsOf(logd[a])[i])
      BY <1>3, <1>5 DEF KeybInv
    <2> DEFINE a == rd.redo_block_offset
    <2>1. /\ a \in Addr /\ log[a].kind = "keyb"
          /\ \A i \in Slot : /\ SameTag(rd.keyb[i], log[a].tags[i])
                             /\ SameTag(rd.keyb[i], TagsOf(logd[a])[i])
      BY <1>0 DEF FlushParts, KeybInv, RedoData
    <2>2. CASE a = at
      <3>0. log[a] = Hole \/ TagsOf(log[a]) = rp.blks[k].tags
        BY <1>0, <1>1, <2>1, <2>2 DEF FlushParts, BlksInv, Replaying
      <3>1. log[a].tags = rp.blks[k].tags
        BY <2>1, <3>0, HoleIsNoKeyb, TagsOfKeyb, Zenon
      <3>2. ASSUME NEW i \in Slot PROVE SameTag(rd.keyb[i], t[i])
        <4>1. SameTag(rd.keyb[i], rp.blks[k].tags[i])
          BY <2>1, <3>1, Zenon
        <4> QED
          BY <1>4, <4>1, SameTagMarked, Zenon
      <3> QED
        BY <1>b, <2>1, <2>2, <3>2
    <2>3. CASE a # at
      BY <1>a, <2>1, <2>3
    <2> QED
      BY <2>2, <2>3
  <1>11. BlksInv'
    <2> DEFINE bs == [rp.blks EXCEPT ![k] = [@ EXCEPT !.tags = t]]
    <2>1. /\ Len(bs) = Len(rp.blks)
          /\ \A m \in 1..Len(rp.blks) :
               bs[m].at = rp.blks[m].at /\ bs[m].tags = IF m = k THEN t ELSE rp.blks[m].tags
      BY <1>0, <1>1, <1>2, SMTT(60) DEF Blk
    <2> HIDE DEF bs
    <2>2. \A m \in 1..Len(rp.blks) :
            /\ rp.blks[m].at \in Nat /\ rp.blks[m].at < rp.log_offset
            /\ \A l \in 1..Len(rp.blks) : l < m => rp.blks[l].at < rp.blks[m].at
            /\ rp.blks[m].at \in Addr =>
                 log[rp.blks[m].at] = Hole \/ TagsOf(log[rp.blks[m].at]) = rp.blks[m].tags
      <3>1. \A m \in 1..Len(rp.blks) : rp.blks[m] \in Blk
        BY <1>0
      <3> QED
        BY <1>0, <3>1 DEF FlushParts, BlksInv, Replaying, Blk
    <2>3. \A m \in 1..Len(rp.blks) : rp.blks[m].at < rp'.log_offset
      <3>1. rp.log_offset \in Nat /\ rp'.log_offset \in Nat /\ rp'.log_offset >= rp.log_offset
        BY <1>0, <1>6, StepGrows
      <3> QED
        BY <2>2, <3>1
    <2>4. \A m \in 1..Len(rp.blks) : m # k => rp.blks[m].at # at
      BY <1>1, <2>2, SMTT(60)
    <2>5. ASSUME NEW m \in 1..Len(rp.blks), rp.blks[m].at \in Addr
          PROVE  log'[rp.blks[m].at] = Hole \/ TagsOf(log'[rp.blks[m].at]) = bs[m].tags
      <3>1. CASE m = k
        BY <1>b, <2>1, <3>1, TagsOfKeyb, Zenon
      <3>2. CASE m # k
        <4>1. rp.blks[m].at # at
          BY <2>4, <3>2
        <4>2. log'[rp.blks[m].at] = log[rp.blks[m].at]
          BY <1>a, <2>5, <4>1, Zenon
        <4> QED
          BY <2>1, <2>2, <2>5, <3>2, <4>2, Zenon
      <3> QED
        BY <3>1, <3>2
    <2> QED
      BY <1>6, <2>1, <2>2, <2>3, <2>5, SMTT(60) DEF BlksInv, bs
  <1> QED
    BY <1>7, <1>8, <1>9, <1>10, <1>11 DEF FlushParts


LEMMA FlushReplay ==
    ASSUME TypeInv, FlushParts, Replay, ~Fault PROVE FlushParts'
  <1>0. /\ rd \in RedoData /\ rp \in ReplayLocals
        /\ rp.log_offset \in Nat /\ rp.log_offset >= rp.log_offset
    <2>1. rd \in RedoData /\ rp \in ReplayLocals
      BY DEF TypeInv, TypeOK
    <2>2. rp.log_offset \in Nat
      BY <2>1 DEF ReplayLocals
    <2> QED
      BY <2>1, <2>2
  <1>a. ASSUME rp.count < KPB
        PROVE  /\ Step(rp).blks = rp.blks /\ Step(rp).log_offset \in Nat
               /\ Step(rp).log_offset >= rp.log_offset /\ Step(rp) \in ReplayLocals
    BY <1>0, <1>a, StepType, StepGrows
  <1>1. CASE replay_block
    BY <1>1, FlushReplayBlock
  <1>2. CASE replay_mark
    BY <1>2, FlushReplayMark
  <1>3. CASE replay_next_block \/ replay_copy_done \/ replay_sync
    <2>1. /\ Replaying /\ UNCHANGED <<from, rd, rp, log, logd, fh, fhd, kills>>
          /\ pc' \in {"block", "mark", AfterReplay}
      BY <1>3 DEF replay_next_block, replay_copy_done, replay_sync, Replaying, disk, tally
    <2> QED
      BY <1>0, <2>1, FlushReplayRead
  <1>4. CASE replay_skip_tag
    <2>1. /\ Replaying /\ UNCHANGED <<pc, from, rd, log, logd, fh, fhd, kills>>
          /\ pc = "tag" /\ rp.count < KPB /\ rp' = Step(rp)
      BY <1>4 DEF replay_skip_tag, ReplayTag, Replaying, disk, tally
    <2> QED
      BY <1>a, <2>1, FlushReplayRead
  <1>5. CASE replay_begin_tag
    <2>1. /\ Replaying /\ UNCHANGED <<pc, from, log, logd, fh, fhd, kills>>
          /\ pc = "tag" /\ rp.count < KPB /\ \E id : rd' = [rd EXCEPT !.txn_id = id]
          /\ \/ rp' = [Step(rp) EXCEPT !.is_replayed = TRUE]
             \/ rp' = [Step(rp) EXCEPT !.is_replayed = FALSE,
                         !.begin_blk = Len(rp.blks) - 1, !.begin_idx = rp.count]
      BY <1>5 DEF replay_begin_tag, ReplayTag, Replaying, disk, tally
    <2>2. rp'.blks = Step(rp).blks /\ rp'.log_offset = Step(rp).log_offset
      BY <1>a, <2>1 DEF ReplayLocals
    <2> QED
      BY <1>a, <2>1, <2>2, FlushReplayRead
  <1>6. CASE replay_end_tag
    <2>1. /\ Replaying /\ UNCHANGED <<from, log, logd, fh, fhd, kills>>
          /\ pc = "tag" /\ pc' \in {"tag", "copy"} /\ rp.count < KPB
          /\ rd' = rd \/ \E id : rd' = [rd EXCEPT !.txn_id = id]
          /\ \/ rp' = Step(rp)
             \/ rp' = [rp EXCEPT !.i = rp.begin_blk, !.j = rp.begin_idx + 1,
                                !.tags[rp.count].offset = 0]
      BY <1>6 DEF replay_end_tag, ReplayTag, Replaying, disk, tally
    <2>2. /\ rp'.blks = rp.blks
          /\ rp'.log_offset = Step(rp).log_offset \/ rp'.log_offset = rp.log_offset
      BY <1>0, <1>a, <2>1 DEF ReplayLocals
    <2> QED
      BY <1>0, <1>a, <2>1, <2>2, FlushReplayRead
  <1>7. CASE replay_copy \/ replay_copy_next_block
    <2>1. /\ Replaying /\ UNCHANGED <<from, rd, log, logd, fh, fhd, kills>>
          /\ pc' \in {"copy", "mark"}
          /\ \/ \E s : rp' = [rp EXCEPT !.j = @ + 1, !.replay_log_offset = @ + s]
             \/ rp' = [rp EXCEPT !.i = @ + 1, !.j = 0, !.replay_log_offset = @ + 1]
      BY <1>7, ~Fault DEF replay_copy, replay_copy_next_block, Replaying, disk, tally
    <2>2. rp'.blks = rp.blks /\ rp'.log_offset = rp.log_offset
      BY <1>0, <2>1 DEF ReplayLocals
    <2> QED
      BY <1>0, <2>1, <2>2, FlushReplayRead
  <1> QED
    BY <1>1, <1>2, <1>3, <1>4, <1>5, <1>6, <1>7 DEF Replay

-----------------------------------------------------------------------------
(* The theorems.                                                           *)

LEMMA FlushInit == Init => FlushInv
  <1> SUFFICES ASSUME Init PROVE FlushParts
    BY DEF FlushInv
  <1>1. pc = "dead" /\ rd.hdr.state = 0 /\ fh = NoHdr
    BY DEF Init, Fresh
  <1>2. ~Replaying /\ ~Finished
    BY <1>1 DEF Replaying, Finished, NoHdr
  <1> QED
    BY <1>1, <1>2 DEF FlushParts, HeaderInv, KeybInv, BlksInv, StableInv, FlushedIfFinished

LEMMA FlushStep == TypeInv /\ FlushInv /\ [Next]_vars => FlushInv'
  <1> SUFFICES ASSUME TypeInv, FlushInv, [Next]_vars, faults' = 0 PROVE FlushParts'
    BY DEF FlushInv
  <1>1. FlushParts /\ faults = 0 /\ ~Fault
    BY NoFaultStep DEF FlushInv
  <1>2. CASE UNCHANGED vars
    BY <1>1, <1>2 DEF vars, disk, ghost, tally, FlushParts, HeaderInv, KeybInv, BlksInv,
       StableInv, FlushedIfFinished, LogFlushed, Finished, Replaying
  <1>3. CASE Next
    BY <1>1, <1>3, FlushWriter, FlushOpen, FlushEnv, FlushReplay DEF Next
  <1> QED
    BY <1>2, <1>3

LEMMA FlushInvariant == Spec => []FlushInv
  BY FlushInit, FlushStep, TypeInvariant, PTL DEF Spec

\* redo.h's promise about the state flag, as long as no system call fails: in
\* every reachable state whose header says FINISHED, all of the log is on
\* stable storage but for what replay's marks change, through any processes,
\* kills, power losses and recoveries.
THEOREM FinishedFlushed == Spec => []FinishedMeansFlushed
  <1>1. FlushInv => FinishedMeansFlushed
    BY DEF FlushInv, FlushParts, FlushedIfFinished, FinishedMeansFlushed
  <1> QED
    BY <1>1, FlushInvariant, PTL

\* Replay obeys the write-ahead rule: it changes the device only while the log
\* that it replays is FINISHED and on stable storage.
THEOREM WritesAhead == Spec => WriteAhead
  <1>1. TypeInv /\ FlushInv /\ [Next]_vars => [WriteAheadStep]_vars
    <2> SUFFICES ASSUME TypeInv, FlushInv, Next, faults = 0, losses' = losses, dev' # dev
                 PROVE  Finished /\ LogFlushed /\ (kills = 0 => fhd = fh)
      BY DEF WriteAheadStep
    <2>1. losses + 1 # losses
      BY DEF TypeInv, TypeOK
    <2>2. ~PowerLoss
      BY <2>1 DEF PowerLoss
    <2>3. ~Writer
      BY DEF Writer, disk, rfsck_txn_begin_garbage, rfsck_txn_begin, rfsck_txn_end,
         rfsck_write, rfsck_flush, fsync_log, redo_mark_done, mark_done_header
    <2>4. Replay => replay_copy
      BY DEF Replay, disk, replay_block, replay_next_block, replay_skip_tag,
         replay_begin_tag, replay_end_tag, replay_copy_next_block, replay_copy_done,
         replay_mark, replay_sync
    <2>5. replay_copy
      BY <2>2, <2>3, <2>4 DEF Next, disk, rfsck_open, open_header, rfsck_replay,
         rfsck_close, Kill, WriteBack
    <2> QED
      BY <2>5 DEF replay_copy, FlushInv, FlushParts, HeaderInv, StableInv, Replaying,
         FlushedIfFinished
  <1> QED
    BY <1>1, TypeInvariant, FlushInvariant, PTL DEF Spec, WriteAhead

=============================================================================
