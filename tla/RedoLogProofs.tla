--------------------------- MODULE RedoLogProofs ---------------------------
(***************************************************************************)
(* Proofs about RedoLog, for every value of its constants.                 *)
(***************************************************************************)
EXTENDS RedoLog, TLAPS

Replaying == pc \in {"block", "tag", "copy", "mark", "sync_dev"}

(***************************************************************************)
(* Types.  The replay loops index rp.blks with begin_blk and i, and        *)
(* rp.tags with count: what keeps the indices in range is inductive only   *)
(* together with what is known between two key blocks.                     *)
(***************************************************************************)
TypeInv ==
    /\ TypeOK
    /\ rp.begin_blk = 0 \/ rp.begin_blk < Len(rp.blks)
    /\ pc \in {"copy", "mark"} => rp.count < KPB

(***************************************************************************)
(* The device before the first FINISHED header.                            *)
(***************************************************************************)
UntouchedInv ==
    ~finished => /\ fh.state = 0 /\ fhd.state = 0 /\ ~Replaying
                 /\ \A a \in DevAddr : dev[a] = Old /\ devd[a] = Old

-----------------------------------------------------------------------------
(* Types of the operators that the actions are built from.                 *)

\* the n cells from o on are numbered 1 to n
LEMMA Offsets ==
    ASSUME NEW o \in Nat, NEW n \in Nat, NEW b \in Nat, b \in o..(o + n - 1)
    PROVE  b - o + 1 \in 1..n
  OBVIOUS

LEMMA Constants ==
    /\ KPB \in Nat /\ KPB > 0 /\ MaxSize \in Nat /\ MaxAddr \in Nat /\ MaxAddr > 0
    /\ Alias \in Tags
  BY RedoLogAssumption

USE Constants

\* the initial contents of *redo_data and of the locals of rfsck_replay
LEMMA StartTypes ==
    /\ Fresh \in RedoData
    /\ \A n \in Nat : ReplayStart(n) \in ReplayLocals
  <1>1. NoTags \in Tags
    BY DEF NoTags, NoTag, Tags, Tag
  <1>2. Fresh \in RedoData
    BY <1>1 DEF Fresh, RedoData, Addr, Header
  <1>3. \A n \in Nat : ReplayStart(n) \in ReplayLocals
    BY DEF ReplayStart, ReplayLocals, Slot
  <1> QED
    BY <1>2, <1>3

LEMMA CountedType ==
    ASSUME NEW r \in RedoData
    PROVE  Counted(r) \in RedoData /\ Counted(r).log_offset = r.log_offset
  BY DEF Counted, RedoData

\* setting a tag, inside or behind the block, leaves a block of KPB tags
LEMMA WithTagType ==
    ASSUME NEW r \in RedoData, NEW t \in Tag
    PROVE  /\ WithTag(r, t) \in RedoData
           /\ Counted(WithTag(r, t)) \in RedoData
           /\ WithTag(r, t).log_offset = r.log_offset
           /\ WithTag(r, t).hdr = r.hdr
  <1>1. SetTag(r.keyb, r.keys_in_block, t) \in Tags
    BY DEF SetTag, Tags, RedoData
  <1>2. WithTag(r, t) \in RedoData
    BY <1>1 DEF WithTag, RedoData
  <1>4. WithTag(r, t).log_offset = r.log_offset /\ WithTag(r, t).hdr = r.hdr
    BY DEF WithTag, RedoData
  <1> QED
    BY <1>2, <1>4, CountedType

\* the next key block starts inside the log file
LEMMA NextBlockType ==
    ASSUME NEW r \in RedoData, r.log_offset <= MaxAddr
    PROVE  NextBlock(r) \in RedoData /\ NextBlock(r).hdr = r.hdr
  <1>1. NoTags \in Tags
    BY DEF NoTags, NoTag, Tags, Tag
  <1>2. r.log_offset \in Addr
    BY DEF RedoData, Addr
  <1>3. CASE r.keys_in_block = KPB
    <2>1. r.num_keys + 1 \in Nat /\ r.log_offset + 1 \in Nat \ {0}
      BY DEF RedoData
    <2> QED
      BY <1>1, <1>2, <1>3, <2>1 DEF NextBlock, RedoData
  <1> QED
    BY <1>3 DEF NextBlock

LEMMA TagTypes ==
    /\ \A id \in Nat : TxnTag(0, id) \in Tag /\ TxnTag(CSUM, id) \in Tag
    /\ \A o, s \in Nat : RecTag(o, s) \in Tag
  BY DEF TxnTag, RecTag, Tag, CSUM, REPLAYED

LEMMA PutType ==
    ASSUME NEW l \in [Addr -> Cell], NEW a \in Addr, NEW t \in Tags
    PROVE  Put(l, a, Keyb(t)) \in [Addr -> Cell]
  BY DEF Put, Keyb, Cell

LEMMA TagsOfType ==
    ASSUME NEW c \in Cell PROVE TagsOf(c) \in Tags
  <1>1. NoTags \in Tags
    BY DEF NoTags, NoTag, Tags, Tag
  <1> QED
    BY <1>1 DEF TagsOf, Cell, Old, Hole, Junk


\* a call is added to the history
LEMMA CalledType ==
    ASSUME NEW o \in {"B", "W", "E"}, NEW off \in Nat, NEW buf \in Seq(Val),
           hist \in Seq(Call), Called(o, off, buf)
    PROVE  hist' \in Seq(Call)
  BY DEF Called, Call

LEMMA CalledTxnType ==
    ASSUME NEW o \in {"B", "E"}, hist \in Seq(Call), Called(o, 0, <<>>)
    PROVE  hist' \in Seq(Call)
  <1>1. <<>> \in Seq(Val)
    OBVIOUS
  <1> QED
    BY <1>1, CalledType

LEMMA FaultTypes ==
    ASSUME faults \in Nat, Fault \/ NoFault PROVE faults' \in Nat
  BY DEF Fault, NoFault

LEMMA FsyncType ==
    ASSUME log \in [Addr -> Cell], fh \in Header, FsyncLog
    PROVE  logd' \in [Addr -> Cell] /\ fhd' \in Header
  BY DEF FsyncLog

-----------------------------------------------------------------------------
(* The type invariant.                                                     *)

LEMMA TypeInit == Init => TypeInv
  <1> SUFFICES ASSUME Init PROVE TypeInv
    OBVIOUS
  <1>1. rp = ReplayStart(0) /\ rp \in ReplayLocals /\ rd \in RedoData
    BY StartTypes DEF Init
  <1>2. rp.begin_blk = 0
    BY <1>1 DEF ReplayStart
  <1>3. NoHdr \in Header
    BY DEF NoHdr, Header
  <1> QED
    <2>1. log \in [Addr -> Cell] /\ logd \in [Addr -> Cell]
      BY DEF Init, Cell
    <2>2. dev \in [DevAddr -> Cell] /\ devd \in [DevAddr -> Cell]
      BY DEF Init, Cell
    <2>3. hist \in Seq(Call)
      BY DEF Init
    <2>a. pc = "dead" /\ from = "open" /\ md = 0 /\ fh \in Header /\ fhd \in Header
      BY <1>3 DEF Init
    <2>b. {faults, kills, losses, runs, replays} \subseteq Nat
      BY DEF Init
    <2>c. early \in BOOLEAN /\ finished \in BOOLEAN
      BY DEF Init
    <2>4. TypeOK
      BY <1>1, <2>1, <2>2, <2>3, <2>a, <2>b, <2>c DEF TypeOK
    <2> QED
      BY <1>2, <2>4 DEF Init, TypeInv

\* what a step of the writer has to preserve
LEMMA WriterFrame ==
    ASSUME TypeInv, pc' \in {"idle", "sync", "md_sync"}, md' \in {0, 1},
           rd' \in RedoData, log' \in [Addr -> Cell], logd' \in [Addr -> Cell],
           fh' \in Header, fhd' \in Header, faults' \in Nat, hist' \in Seq(Call),
           early' \in BOOLEAN, finished' \in BOOLEAN,
           UNCHANGED <<from, rp, dev, devd, kills, losses, runs, replays>>
    PROVE  TypeInv'
  BY DEF TypeInv, TypeOK

\* while the writer is called there is room for one more record
LEMMA Room ==
    ASSUME rd \in RedoData, Writing, NEW k \in 0..MaxSize
    PROVE  rd.log_offset \in Nat \ {0} /\ rd.log_offset + k <= MaxAddr
  <1>1. rd.log_offset \in Nat \ {0} /\ rd.log_offset + MaxSize <= MaxAddr
    BY DEF RedoData, Writing
  <1> QED
    BY <1>1

LEMMA TypeWriter == TypeInv /\ Writer => TypeInv'
  <1> SUFFICES ASSUME TypeInv, Writer PROVE TypeInv'
    OBVIOUS
  <1>0. /\ rd \in RedoData /\ rd.txn_id \in Nat /\ rd.redo_block_offset \in Addr
        /\ rd.keyb \in Tags /\ log \in [Addr -> Cell] /\ logd \in [Addr -> Cell]
        /\ fh \in Header /\ fhd \in Header /\ md \in {0, 1}
        /\ faults \in Nat /\ hist \in Seq(Call)
        /\ early \in BOOLEAN /\ finished \in BOOLEAN
    BY DEF TypeInv, TypeOK, RedoData
  <1>1. CASE rfsck_txn_begin_garbage
    <2>1. rd' \in RedoData
      BY <1>0, <1>1, WithTagType, TagTypes DEF rfsck_txn_begin_garbage
    <2>2. hist' \in Seq(Call)
      BY <1>0, <1>1, CalledTxnType DEF rfsck_txn_begin_garbage
    <2> QED
      BY <1>0, <1>1, <2>1, <2>2, WriterFrame
      DEF rfsck_txn_begin_garbage, Writing, disk, tally
  <1>2. CASE rfsck_txn_begin
    <2> DEFINE r == Counted(WithTag(rd, TxnTag(0, rd.txn_id)))
    <2>1. r \in RedoData /\ r.log_offset = rd.log_offset
          /\ r.redo_block_offset = rd.redo_block_offset /\ r.keyb \in Tags
      BY <1>0, WithTagType, TagTypes DEF Counted, WithTag, RedoData
    <2>2. rd' \in {r, NextBlock(r)}
      BY <1>2 DEF rfsck_txn_begin
    <2>a. r.log_offset <= MaxAddr
      BY <1>0, <1>2, <2>1, Room, 0 \in 0..MaxSize, rd.log_offset + 0 = rd.log_offset
      DEF rfsck_txn_begin
    <2>3. rd' \in RedoData
      BY <2>1, <2>2, <2>a, NextBlockType
    <2>4. log' \in [Addr -> Cell]
      BY <1>0, <1>2, <2>1, PutType DEF rfsck_txn_begin
    <2>5. hist' \in Seq(Call) /\ faults' \in Nat
      BY <1>0, <1>2, CalledTxnType, FaultTypes DEF rfsck_txn_begin
    <2> QED
      BY <1>0, <1>2, <2>3, <2>4, <2>5, WriterFrame DEF rfsck_txn_begin, Writing
  <1>3. CASE rfsck_txn_end
    <2> DEFINE t == Counted(WithTag(rd, TxnTag(CSUM, rd.txn_id)))
    <2> DEFINE r == [t EXCEPT !.txn_id = @ + 1]
    <2> DEFINE n == NextBlock(r)
    <2> DEFINE l == Put(log, r.redo_block_offset, Keyb(r.keyb))
    <2>1. t \in RedoData /\ t.log_offset = rd.log_offset
      BY <1>0, WithTagType, TagTypes DEF Counted, WithTag, RedoData
    <2>2. r \in RedoData /\ r.log_offset = rd.log_offset
      BY <2>1 DEF RedoData
    <2>3. r.log_offset <= MaxAddr
      BY <1>0, <1>3, <2>2, Room, 0 \in 0..MaxSize, rd.log_offset + 0 = rd.log_offset
      DEF rfsck_txn_end
    <2>4. n \in RedoData
      BY <2>2, <2>3, NextBlockType
    <2> HIDE DEF t, r, n
    <2>5. l \in [Addr -> Cell]
      BY <1>0, <2>2, PutType DEF RedoData
    <2> HIDE DEF l
    <2>6. Put(l, n.redo_block_offset, Keyb(n.keyb)) \in [Addr -> Cell]
      BY <2>4, <2>5, PutType DEF RedoData
    <2>7. /\ rd' \in {r, n} /\ pc' \in {pc, "sync"}
          /\ log' \in {log, l, Put(l, n.redo_block_offset, Keyb(n.keyb))}
      BY <1>3 DEF rfsck_txn_end, t, r, n, l
    <2>8. hist' \in Seq(Call) /\ faults' \in Nat
      BY <1>0, <1>3, CalledTxnType, FaultTypes DEF rfsck_txn_end
    <2>9. rd' \in RedoData /\ log' \in [Addr -> Cell]
      BY <1>0, <2>2, <2>4, <2>5, <2>6, <2>7
    <2> QED
      BY <1>0, <1>3, <2>7, <2>8, <2>9, WriterFrame DEF rfsck_txn_end, Writing
  <1>4. CASE rfsck_flush
    <2>1. log' \in [Addr -> Cell] /\ faults' \in Nat
      BY <1>0, <1>4, PutType, FaultTypes DEF rfsck_flush
    <2> QED
      BY <1>0, <1>4, <2>1, WriterFrame DEF rfsck_flush, ghost
  <1>5. CASE fsync_log
    <2>1. logd' \in [Addr -> Cell] /\ fhd' \in Header /\ faults' \in Nat
      BY <1>0, <1>5, FsyncType, FaultTypes DEF fsync_log
    <2> QED
      BY <1>0, <1>5, <2>1, WriterFrame DEF fsync_log, ghost
  <1>6. ASSUME NEW m \in {0, 1}, redo_mark_done(m) PROVE TypeInv'
    <2>1. log' \in [Addr -> Cell] /\ faults' \in Nat
      BY <1>0, <1>6, PutType, FaultTypes DEF redo_mark_done
    <2> QED
      BY <1>0, <1>6, <2>1, WriterFrame DEF redo_mark_done, ghost
  <1>7. CASE mark_done_header
    <2> DEFINE h == [valid |-> TRUE, num_keys |-> rd.num_keys, state |-> md]
    <2>1. h \in Header /\ [rd EXCEPT !.hdr = h] \in RedoData
      BY <1>0 DEF Header, RedoData
    <2> HIDE DEF h
    <2>2. rd' \in RedoData /\ fh' \in Header
      BY <1>0, <1>7, <2>1 DEF mark_done_header, h
    <2>3. logd' \in [Addr -> Cell] /\ fhd' \in Header /\ faults' \in Nat
      BY <1>0, <1>7, FsyncType, FaultTypes DEF mark_done_header
    <2>4. finished' \in BOOLEAN
      BY <1>0, <1>7 DEF mark_done_header
    <2> QED
      BY <1>0, <1>7, <2>2, <2>3, <2>4, WriterFrame DEF mark_done_header
  <1>8. ASSUME NEW off \in DevAddr, NEW buf \in Buffers(Len(hist)), rfsck_write(off, buf)
        PROVE  TypeInv'
    <2> DEFINE k == Len(buf)
    <2> DEFINE t == WithTag(rd, RecTag(off, k))
    <2> DEFINE r == [t EXCEPT !.log_offset = @ + k]
    <2> DEFINE l == [a \in Addr |-> IF a \in rd.log_offset..(rd.log_offset + k - 1)
                                     THEN Data(buf[a - rd.log_offset + 1])
                                     ELSE log[a]]
    <2>1. off \in Nat /\ buf \in Seq(Val) /\ k \in 1..MaxSize
      <3>1. Len(hist) \in 0..(MaxTags - 1)
        BY <1>0, <1>8, RedoLogAssumption DEF rfsck_write, Writing
      <3>2. buf \in Buf
        BY <3>1, RedoLogAssumption
      <3> QED
        BY <3>2 DEF Buf, DevAddr
    <2>2. t \in RedoData /\ t.log_offset = rd.log_offset
      <3>1. RecTag(off, k) \in Tag
        BY <2>1, TagTypes
      <3> QED
        BY <1>0, <3>1, WithTagType
    <2>a. rd.log_offset \in Nat \ {0} /\ rd.log_offset + k <= MaxAddr
      BY <1>0, <1>8, <2>1, k \in 0..MaxSize, Room DEF rfsck_write
    <2>3. r \in RedoData /\ r.log_offset = rd.log_offset + k
      <3> HIDE DEF t, k
      <3>1. t.log_offset + k \in Nat \ {0}
        BY <2>1, <2>2, <2>a
      <3> QED
        BY <2>2, <3>1 DEF RedoData
    <2>4. Counted(r) \in RedoData /\ Counted(r).log_offset = r.log_offset
      <3> HIDE DEF r
      <3> QED
        BY <2>3, CountedType
    <2>5. NextBlock(Counted(r)) \in RedoData
      BY <2>3, <2>4, <2>a, NextBlockType
    <2>6. l \in [Addr -> Cell]
      <3> SUFFICES ASSUME NEW a \in Addr, a \in rd.log_offset..(rd.log_offset + k - 1)
                   PROVE  Data(buf[a - rd.log_offset + 1]) \in Cell
        BY <1>0
      <3>1. a - rd.log_offset + 1 \in 1..Len(buf)
        <4>1. a \in Nat /\ k \in Nat /\ rd.log_offset \in Nat
          BY <2>1, <2>a DEF Addr
        <4> QED
          BY <4>1, Offsets
      <3>2. buf[a - rd.log_offset + 1] \in Val
        BY <2>1, <3>1
      <3> QED
        BY <3>2 DEF Data, Cell
    <2> HIDE DEF t, r, l
    <2>7. Put(l, r.redo_block_offset, Keyb(r.keyb)) \in [Addr -> Cell]
      BY <2>3, <2>6, PutType DEF RedoData
    <2>8. /\ rd' \in {t, r, NextBlock(Counted(r))}
          /\ log' \in {log, l, Put(l, r.redo_block_offset, Keyb(r.keyb))}
      BY <1>8 DEF rfsck_write, t, r, l
    <2>9. rd' \in RedoData /\ log' \in [Addr -> Cell]
      BY <1>0, <2>2, <2>3, <2>5, <2>6, <2>7, <2>8
    <2>10. hist' \in Seq(Call) /\ faults' \in Nat
      BY <1>0, <1>8, <2>1, CalledType, FaultTypes DEF rfsck_write
    <2> QED
      BY <1>0, <1>8, <2>9, <2>10, WriterFrame DEF rfsck_write, Writing
  <1> QED
    BY <1>1, <1>2, <1>3, <1>4, <1>5, <1>6, <1>7, <1>8 DEF Writer


-----------------------------------------------------------------------------
(* The type invariant, replay.                                             *)

LEMMA StepType ==
    ASSUME rp \in ReplayLocals, rp.count < KPB
    PROVE  /\ Step(rp) \in ReplayLocals
           /\ Step(rp).blks = rp.blks /\ Step(rp).begin_blk = rp.begin_blk
  <1>1. rp.count \in Slot /\ rp.count + 1 \in 0..KPB
    BY DEF ReplayLocals, Slot
  <1>2. rp.tags[rp.count].size \in Nat
    BY <1>1 DEF ReplayLocals, Tags, Tag
  <1>3. rp.log_offset + rp.tags[rp.count].size \in Nat
    BY <1>2 DEF ReplayLocals
  <1> QED
    BY <1>1, <1>3 DEF Step, ReplayLocals

Blk == [at : Nat, tags : Tags]

LEMMA BlkType ==
    ASSUME NEW s \in Seq(Blk), NEW k \in 1..Len(s), NEW t \in Tags
    PROVE  /\ s[k] \in Blk
           /\ [s EXCEPT ![k] = [@ EXCEPT !.tags = t]] \in Seq(Blk)
           /\ Len([s EXCEPT ![k] = [@ EXCEPT !.tags = t]]) = Len(s)
  <1>1. s[k] \in Blk
    OBVIOUS
  <1>2. [s[k] EXCEPT !.tags = t] \in Blk
    BY <1>1 DEF Blk
  <1> QED
    BY <1>1, <1>2

LEMMA ReadTypes ==
    ASSUME log \in [Addr -> Cell]
    PROVE  /\ \A a : ReadData(a) \in Cell
           /\ \A a : \A t \in Tags : ReadKeyb(a, t) \in Tags
  <1>1. \A a : ReadData(a) \in Cell
    BY DEF ReadData, Cell
  <1>2. \A a : \A t \in Tags : ReadKeyb(a, t) \in Tags
    BY TagsOfType DEF ReadKeyb
  <1> QED
    BY <1>1, <1>2

\* what a step of the replay has to preserve
LEMMA ReplayFrame ==
    ASSUME TypeInv,
           pc' \in {"block", "tag", "copy", "mark", "sync_dev", "idle", "open_hdr"},
           rd' \in RedoData, rp' \in ReplayLocals, log' \in [Addr -> Cell],
           dev' \in [DevAddr -> Cell], devd' \in [DevAddr -> Cell], faults' \in Nat,
           rp'.begin_blk = 0 \/ rp'.begin_blk < Len(rp'.blks),
           pc' \in {"tag", "copy", "mark"} => rp'.begin_blk < Len(rp'.blks),
           pc' \in {"copy", "mark"} => rp'.count < KPB,
           pc' = "copy" => rp'.i < Len(rp'.blks),
           UNCHANGED <<from, md, logd, fh, fhd, hist, early, finished,
                       kills, losses, runs, replays>>
    PROVE  TypeInv'
  BY DEF TypeInv, TypeOK

LEMMA TypeReplay == TypeInv /\ Replay => TypeInv'
  <1> SUFFICES ASSUME TypeInv, Replay PROVE TypeInv'
    OBVIOUS
  <1>0. /\ rd \in RedoData /\ rp \in ReplayLocals
        /\ log \in [Addr -> Cell] /\ dev \in [DevAddr -> Cell]
        /\ devd \in [DevAddr -> Cell] /\ faults \in Nat
        /\ rp.begin_blk = 0 \/ rp.begin_blk < Len(rp.blks)
        /\ pc \in {"tag", "copy", "mark"} => rp.begin_blk < Len(rp.blks)
        /\ pc \in {"copy", "mark"} => rp.count < KPB
        /\ pc = "copy" => rp.i < Len(rp.blks)
    BY DEF TypeInv, TypeOK
  <1>a. AfterReplay \in {"idle", "open_hdr"}
    BY DEF AfterReplay
  <1>b. /\ rp.blks \in Seq(Blk) /\ Len(rp.blks) \in Nat
        /\ rp.count \in 0..KPB /\ rp.tags \in Tags /\ rp.log_offset \in Nat
        /\ rp.replay_log_offset \in Nat /\ rp.begin_blk \in Nat
        /\ rp.begin_idx \in Slot /\ rp.i \in Nat /\ rp.j \in 0..KPB
    BY <1>0 DEF ReplayLocals, Blk
  <1>c. /\ [rd EXCEPT !.txn_id = 0] \in RedoData
        /\ \A id \in Nat : [rd EXCEPT !.txn_id = id] \in RedoData
    BY <1>0 DEF RedoData
  <1>1. CASE replay_block
    <2>1. CASE Len(rp.blks) <= rp.num_keys /\ NoFault /\ pc' = "tag"
      <3> DEFINE t == ReadKeyb(rp.log_offset, rp.tags)
      <3> DEFINE bs == Append(rp.blks, [at |-> rp.log_offset, tags |-> t])
      <3>1. t \in Tags
        BY <1>0, <1>b, ReadTypes
      <3> HIDE DEF t
      <3>2. bs \in Seq(Blk) /\ Len(bs) = Len(rp.blks) + 1
        BY <1>b, <3>1 DEF Blk
      <3> HIDE DEF bs
      <3>3. rp' = [rp EXCEPT !.tags = t, !.count = 0, !.log_offset = @ + 1, !.blks = bs]
        BY <1>1, <2>1, <1>a DEF replay_block, t, bs
      <3>4. rp.log_offset + 1 \in Nat /\ 0 \in 0..KPB
        BY <1>b
      <3>5. rp' \in ReplayLocals /\ rp'.blks = bs /\ rp'.begin_blk = rp.begin_blk
        BY <1>0, <3>1, <3>2, <3>3, <3>4 DEF ReplayLocals, Blk
      <3>6. rp.begin_blk < Len(bs)
        BY <1>0, <1>b, <3>2
      <3> QED
        BY <1>0, <1>1, <2>1, <3>5, <3>6, ReplayFrame DEF replay_block, NoFault, disk, ghost
    <2>2. CASE ~(Len(rp.blks) <= rp.num_keys /\ NoFault /\ pc' = "tag")
      <3>1. UNCHANGED rp /\ pc' \in {"idle", "open_hdr", "sync_dev"} /\ faults' \in Nat
        BY <1>0, <1>1, <1>a, <2>2, FaultTypes DEF replay_block
      <3> QED
        BY <1>0, <1>1, <3>1, ReplayFrame DEF replay_block, disk, ghost
    <2> QED
      BY <2>1, <2>2
  <1>2. CASE replay_next_block
    BY <1>0, <1>2, ReplayFrame DEF replay_next_block, disk, ghost, tally
  <1>3. CASE replay_skip_tag
    <2>1. rp.count < KPB
      BY <1>3 DEF replay_skip_tag, ReplayTag
    <2> QED
      BY <1>0, <1>3, <2>1, StepType, ReplayFrame
      DEF replay_skip_tag, ReplayTag, disk, ghost, tally
  <1>4. CASE replay_begin_tag
    <2>1. rp.count < KPB /\ rp.count \in Slot /\ pc = "tag"
      BY <1>b, <1>4 DEF replay_begin_tag, ReplayTag, Slot
    <2>2. rd' \in RedoData
      BY <1>b, <1>c, <1>4, <2>1 DEF replay_begin_tag, Tags, Tag
    <2>3. Len(rp.blks) - 1 \in Nat /\ Len(rp.blks) - 1 < Len(rp.blks)
      BY <1>0, <1>b, <2>1
    <2>4. \/ rp' = [Step(rp) EXCEPT !.is_replayed = TRUE]
          \/ rp' = [Step(rp) EXCEPT !.is_replayed = FALSE,
                      !.begin_blk = Len(rp.blks) - 1, !.begin_idx = rp.count]
      BY <1>4 DEF replay_begin_tag
    <2>5. rp' \in ReplayLocals /\ rp'.blks = rp.blks
          /\ rp'.begin_blk \in {rp.begin_blk, Len(rp.blks) - 1}
      BY <1>0, <2>1, <2>3, <2>4, StepType DEF ReplayLocals
    <2> QED
      BY <1>0, <1>4, <2>1, <2>2, <2>3, <2>5, ReplayFrame
      DEF replay_begin_tag, disk, ghost, tally
  <1>5. CASE replay_end_tag
    <2>1. rp.count < KPB /\ rp.count \in Slot /\ pc = "tag"
      BY <1>b, <1>5 DEF replay_end_tag, ReplayTag, Slot
    <2>2. CASE rp.is_replayed
      BY <1>0, <1>c, <1>5, <2>1, <2>2, StepType, ReplayFrame
      DEF replay_end_tag, disk, ghost, tally
    <2>3. CASE ~rp.is_replayed
      <3>1. [rp.tags EXCEPT ![rp.count].offset = 0] \in Tags
        BY <1>b, <2>1 DEF Tags, Tag
      <3>2. rp.begin_idx + 1 \in 0..KPB
        BY <1>b DEF Slot
      <3>3. /\ rp' \in ReplayLocals /\ rp'.blks = rp.blks /\ rp'.count = rp.count
            /\ rp'.begin_blk = rp.begin_blk /\ rp'.i = rp.begin_blk
        BY <1>0, <1>b, <1>5, <2>3, <3>1, <3>2 DEF replay_end_tag, ReplayLocals
      <3> QED
        BY <1>0, <1>5, <2>1, <2>3, <3>3, ReplayFrame DEF replay_end_tag, disk, ghost, tally
    <2> QED
      BY <2>2, <2>3
  <1>6. CASE replay_copy
    <2> DEFINE t == rp.blks[rp.i + 1].tags[rp.j]
    <2>0. rp.j < KPB /\ pc = "copy"
      BY <1>6 DEF replay_copy
    <2>1. t \in Tag
      <3>1. rp.i + 1 \in 1..Len(rp.blks) /\ rp.j \in Slot
        BY <1>0, <1>b, <2>0 DEF Slot
      <3>2. rp.blks[rp.i + 1] \in Blk
        BY <1>b, <3>1, BlkType
      <3> QED
        BY <3>1, <3>2 DEF Blk, Tags
    <2> HIDE DEF t
    <2>2. rp.replay_log_offset + t.size \in Nat /\ rp.j + 1 \in 0..KPB
      <3>1. t.size \in Nat
        BY <2>1 DEF Tag
      <3> QED
        BY <1>b, <2>0, <3>1
    <2>3. \/ rp' = rp
          \/ rp' = [rp EXCEPT !.j = @ + 1, !.replay_log_offset = @ + t.size]
      BY <1>6 DEF replay_copy, t
    <2>4. rp' \in ReplayLocals /\ rp'.blks = rp.blks /\ rp'.begin_blk = rp.begin_blk
          /\ rp'.count = rp.count /\ rp'.i = rp.i
      BY <1>0, <2>2, <2>3 DEF ReplayLocals
    <2>5. dev' \in [DevAddr -> Cell]
      <3>1. \/ dev' = dev
            \/ dev' = [a \in DevAddr |->
                         IF t.offset <= a /\ a < t.offset + t.size
                           THEN ReadData(rp.replay_log_offset + a - t.offset)
                           ELSE dev[a]]
        BY <1>6 DEF replay_copy, t
      <3> QED
        BY <1>0, <3>1, ReadTypes
    <2>6. faults' \in Nat /\ pc' \in {"copy", "idle", "open_hdr"}
      BY <1>0, <1>a, <1>6, FaultTypes DEF replay_copy
    <2> QED
      BY <1>0, <1>6, <2>4, <2>5, <2>6, ReplayFrame DEF replay_copy, ghost
  <1>7. CASE replay_copy_next_block
    <2>1. rp.i + 1 \in Nat /\ rp.replay_log_offset + 1 \in Nat /\ 0 \in 0..KPB
      BY <1>b
    <2>2. rp' \in ReplayLocals /\ rp'.blks = rp.blks /\ rp'.begin_blk = rp.begin_blk
          /\ rp'.count = rp.count /\ rp'.i = rp.i + 1
      BY <1>0, <1>7, <2>1 DEF replay_copy_next_block, ReplayLocals
    <2>3. pc' \in {"copy", "mark"} /\ (pc' = "copy" => rp.i + 1 < Len(rp.blks))
      BY <1>7 DEF replay_copy_next_block
    <2> QED
      BY <1>0, <1>7, <2>2, <2>3, ReplayFrame
      DEF replay_copy_next_block, disk, ghost, tally
  <1>8. CASE replay_copy_done
    BY <1>0, <1>8, ReplayFrame DEF replay_copy_done, disk, ghost, tally
  <1>9. CASE replay_mark
    <2> DEFINE k == rp.begin_blk + 1
    <2> DEFINE t == [rp.blks[k].tags EXCEPT ![rp.begin_idx].offset = REPLAYED]
    <2> DEFINE bs == [rp.blks EXCEPT ![k] = [@ EXCEPT !.tags = t]]
    <2>0. pc = "mark"
      BY <1>9 DEF replay_mark
    <2>1. k \in 1..Len(rp.blks) /\ rp.count < KPB
      BY <1>0, <1>b, <2>0
    <2> HIDE DEF k
    <2>2. rp.blks[k] \in Blk /\ rp.blks[k].tags \in Tags /\ t \in Tags
      <3>1. rp.blks[k] \in Blk /\ rp.blks[k].tags \in Tags
        BY <1>b, <2>1, BlkType, Constants DEF Blk
      <3> QED
        BY <1>b, <3>1 DEF Tags, Tag
    <2> HIDE DEF t
    <2>3. bs \in Seq(Blk) /\ Len(bs) = Len(rp.blks)
      BY <1>b, <2>1, <2>2, BlkType
    <2>4. rp' = [Step(rp) EXCEPT !.blks = bs, !.begin_blk = 0, !.begin_idx = 0]
      <3>1. [rp.blks[k] EXCEPT !.tags[rp.begin_idx].offset = REPLAYED]
              = [rp.blks[k] EXCEPT !.tags = t]
        BY DEF t
      <3>2. rp' = [Step(rp) EXCEPT !.blks[k] = [rp.blks[k] EXCEPT !.tags = t],
                                   !.begin_blk = 0, !.begin_idx = 0]
        BY <1>9, <3>1 DEF replay_mark, k
      <3> QED
        BY <1>0, <2>1, <3>2, StepType DEF ReplayLocals
    <2> HIDE DEF bs
    <2>a. 0 \in Slot /\ 0 \in Nat
      BY DEF Slot
    <2>5. rp' \in ReplayLocals /\ rp'.blks = bs /\ rp'.begin_blk = 0
      BY <1>0, <2>1, <2>3, <2>4, <2>a, StepType DEF ReplayLocals, Blk
    <2>6. log' \in [Addr -> Cell]
      <3>1. \/ log' = log
            \/ rp.blks[k].at \in Addr /\ log' = Put(log, rp.blks[k].at, Keyb(t))
        BY <1>9, <2>2 DEF replay_mark, k, t, Blk
      <3> QED
        BY <1>0, <2>2, <3>1, PutType
    <2>7. faults' \in Nat
      BY <1>0, <1>9, FaultTypes DEF replay_mark
    <2>8. 0 < Len(rp.blks)
      BY <1>b, <2>1 DEF k
    <2> QED
      BY <1>0, <1>c, <1>9, <2>3, <2>5, <2>6, <2>7, <2>8, ReplayFrame DEF replay_mark, ghost
  <1>10. CASE replay_sync
    <2>1. faults' \in Nat /\ devd' \in [DevAddr -> Cell]
      BY <1>0, <1>10, FaultTypes DEF replay_sync
    <2> QED
      BY <1>0, <1>a, <1>10, <2>1, ReplayFrame DEF replay_sync, ghost
  <1> QED
    BY <1>1, <1>2, <1>3, <1>4, <1>5, <1>6, <1>7, <1>8, <1>9, <1>10 DEF Replay


-----------------------------------------------------------------------------
(* The type invariant, the remaining steps.                                *)

LEMMA TypeOpen == TypeInv /\ (rfsck_open \/ open_header \/ rfsck_replay) => TypeInv'
  <1> SUFFICES ASSUME TypeInv, rfsck_open \/ open_header \/ rfsck_replay PROVE TypeInv'
    OBVIOUS
  <1>0. /\ rd \in RedoData /\ rp \in ReplayLocals /\ rd.hdr \in Header
        /\ faults \in Nat /\ runs \in Nat /\ replays \in Nat
        /\ hist \in Seq(Call) /\ finished \in BOOLEAN
        /\ rp.begin_blk = 0 \/ rp.begin_blk < Len(rp.blks)
        /\ fh \in Header /\ fh.num_keys \in Nat
    BY DEF TypeInv, TypeOK, RedoData, Header
  <1>a. \A r \in RedoData : [r EXCEPT !.txn_id = 0] \in RedoData
    BY DEF RedoData
  <1>b. /\ ReplayStart(fh.num_keys) \in ReplayLocals
        /\ ReplayStart(fh.num_keys).begin_blk = 0
    BY <1>0, StartTypes DEF ReplayStart
  <1>1. CASE rfsck_open
    <2> DEFINE r == IF pc = "dead" THEN Fresh ELSE rd
    <2> DEFINE n == IF pc = "dead" THEN 0 ELSE replays
    <2>1. r \in RedoData /\ n \in Nat
      BY <1>0, StartTypes
    <2> HIDE DEF r, n
    <2>2. /\ rd' \in {r, [r EXCEPT !.txn_id = 0]}
          /\ rp' \in {rp, ReplayStart(fh.num_keys)}
          /\ replays' \in {n, n + 1} /\ runs' \in {runs, runs + 1}
          /\ pc' \in {"block", "open_hdr"} /\ from' = "open"
      BY <1>1 DEF rfsck_open, r, n
    <2>3. faults' \in Nat
      BY <1>0, <1>1, FaultTypes DEF rfsck_open
    <2>4. rd' \in RedoData /\ rp' \in ReplayLocals
          /\ (rp'.begin_blk = 0 \/ rp'.begin_blk < Len(rp'.blks))
      BY <1>0, <1>a, <1>b, <2>1, <2>2
    <2>5. replays' \in Nat /\ runs' \in Nat
      BY <1>0, <2>1, <2>2
    <2> QED
      BY <1>1, <2>2, <2>3, <2>4, <2>5 DEF rfsck_open, disk, ghost, TypeInv, TypeOK
  <1>2. CASE open_header
    <2>1. rd' \in RedoData /\ fh' \in Header
      BY <1>0, <1>2, StartTypes DEF open_header
    <2>2. hist' \in Seq(Call)
      <3>1. <<>> \in Seq(Call)
        OBVIOUS
      <3>2. hist' = hist \/ hist' = <<>>
        BY <1>2 DEF open_header
      <3> QED
        BY <1>0, <3>1, <3>2
    <2>3. finished' \in BOOLEAN
      BY <1>0, <1>2 DEF open_header
    <2>4. faults' \in Nat
      BY <1>0, <1>2, FaultTypes DEF open_header
    <2>5. pc' \in {"idle", "dead"}
      BY <1>2 DEF open_header
    <2> QED
      BY <1>2, <2>1, <2>2, <2>3, <2>4, <2>5 DEF open_header, TypeInv, TypeOK
  <1>3. CASE rfsck_replay
    <2>1. faults' \in Nat /\ replays' \in Nat
      BY <1>0, <1>3, FaultTypes DEF rfsck_replay
    <2>2. CASE pc' = "block" /\ from' = "call" /\ rd' = [rd EXCEPT !.txn_id = 0]
               /\ rp' = ReplayStart(fh.num_keys)
      <3>1. rd' \in RedoData /\ rp' \in ReplayLocals /\ rp'.begin_blk = 0
        BY <1>0, <1>a, <1>b, <2>2
      <3> QED
        BY <1>3, <2>1, <2>2, <3>1 DEF rfsck_replay, disk, ghost, TypeInv, TypeOK
    <2>3. CASE UNCHANGED <<pc, from, rd, rp>>
      BY <1>3, <2>1, <2>3 DEF rfsck_replay, disk, ghost, TypeInv, TypeOK
    <2> QED
      BY <1>3, <2>2, <2>3 DEF rfsck_replay
  <1> QED
    BY <1>1, <1>2, <1>3

LEMMA TypeEnv == TypeInv /\ (rfsck_close \/ Kill \/ PowerLoss \/ WriteBack) => TypeInv'
  <1> SUFFICES ASSUME TypeInv, rfsck_close \/ Kill \/ PowerLoss \/ WriteBack
               PROVE  TypeInv'
    OBVIOUS
  <1>0. /\ log \in [Addr -> Cell] /\ logd \in [Addr -> Cell]
        /\ dev \in [DevAddr -> Cell] /\ devd \in [DevAddr -> Cell]
        /\ fh \in Header /\ kills \in Nat /\ losses \in Nat
    BY DEF TypeInv, TypeOK
  <1>a. Exit => /\ pc' = "dead" /\ rd' \in RedoData /\ rp' \in ReplayLocals
                /\ rp'.begin_blk = 0 /\ UNCHANGED <<from, md>>
    BY StartTypes DEF Exit, ReplayStart
  <1>1. CASE rfsck_close
    BY <1>a, <1>1 DEF rfsck_close, disk, ghost, tally, TypeInv, TypeOK
  <1>2. CASE Kill
    <2>1. kills' \in Nat
      BY <1>0, <1>2 DEF Kill
    <2> QED
      BY <1>a, <1>2, <2>1 DEF Kill, disk, ghost, TypeInv, TypeOK
  <1>3. CASE PowerLoss
    <2>1. losses' \in Nat
      BY <1>0, <1>3 DEF PowerLoss
    <2> QED
      BY <1>a, <1>3, <2>1 DEF PowerLoss, ghost, TypeInv, TypeOK
  <1>4. CASE WriteBack
    <2>1. logd' \in [Addr -> Cell] /\ devd' \in [DevAddr -> Cell] /\ fhd' \in Header
      BY <1>0, <1>4 DEF WriteBack, TypeInv, TypeOK
    <2> QED
      BY <1>4, <2>1 DEF WriteBack, ghost, tally, TypeInv, TypeOK
  <1> QED
    BY <1>1, <1>2, <1>3, <1>4

LEMMA TypeStep == TypeInv /\ [Next]_vars => TypeInv'
  <1>1. TypeInv /\ UNCHANGED vars => TypeInv'
    BY DEF TypeInv, TypeOK, vars, disk, ghost, tally
  <1> QED
    BY <1>1, TypeWriter, TypeReplay, TypeOpen, TypeEnv DEF Next

LEMMA TypeInvariant == Spec => []TypeInv
  BY TypeInit, TypeStep, PTL DEF Spec

\* Every value stays in its range, whatever fails and whenever the process
\* dies: replay never reads a tag or a key block outside its arrays.
THEOREM TypeCorrect == Spec => []TypeOK
  <1>1. TypeInv => TypeOK
    BY DEF TypeInv
  <1> QED
    BY TypeInvariant, <1>1, PTL


-----------------------------------------------------------------------------
(* The device is untouched until a log is marked FINISHED.                 *)

LEMMA UntouchedStep == TypeInv /\ UntouchedInv /\ [Next]_vars => UntouchedInv'
  <1> SUFFICES ASSUME TypeInv, UntouchedInv, [Next]_vars, ~finished'
               PROVE  /\ fh'.state = 0 /\ fhd'.state = 0 /\ ~Replaying'
                      /\ \A a \in DevAddr : dev'[a] = Old /\ devd'[a] = Old
    BY DEF UntouchedInv
  <1>0. md \in {0, 1} /\ devd \in [DevAddr -> Cell] /\ rd.hdr.state \in {0, 1}
    BY DEF TypeInv, TypeOK, RedoData, Header
  <1>a. ~finished
    BY DEF Next, Writer, Replay, vars, disk, ghost, tally, rfsck_open, open_header,
       rfsck_txn_begin_garbage, rfsck_txn_begin, rfsck_txn_end, rfsck_write,
       rfsck_flush, fsync_log, redo_mark_done, mark_done_header, rfsck_replay,
       replay_block, replay_next_block, replay_skip_tag, replay_begin_tag,
       replay_end_tag, replay_copy, replay_copy_next_block, replay_copy_done,
       replay_mark, replay_sync, rfsck_close, Kill, PowerLoss, WriteBack
  <1>b. /\ fh.state = 0 /\ fhd.state = 0 /\ ~Replaying /\ ~Finished
        /\ \A a \in DevAddr : dev[a] = Old /\ devd[a] = Old
    BY <1>a DEF UntouchedInv, Finished
  <1>1. CASE UNCHANGED vars
    BY <1>b, <1>1 DEF vars, disk, Replaying
  <1>2. CASE Replay
    BY <1>b, <1>2 DEF Replay, Replaying, ReplayTag, replay_block, replay_next_block,
       replay_skip_tag, replay_begin_tag, replay_end_tag, replay_copy,
       replay_copy_next_block, replay_copy_done, replay_mark, replay_sync
  <1>3. CASE rfsck_txn_begin_garbage \/ rfsck_txn_begin \/ rfsck_txn_end \/ rfsck_flush
    BY <1>b, <1>3 DEF rfsck_txn_begin_garbage, rfsck_txn_begin, rfsck_txn_end, rfsck_flush,
       Writing, Replaying, disk
  <1>4. ASSUME NEW off, NEW buf, rfsck_write(off, buf)
        PROVE  /\ fh'.state = 0 /\ fhd'.state = 0 /\ ~Replaying'
               /\ \A a \in DevAddr : dev'[a] = Old /\ devd'[a] = Old
    BY <1>b, <1>4 DEF rfsck_write, Writing, Replaying
  <1>5. CASE fsync_log
    BY <1>b, <1>5 DEF fsync_log, FsyncLog, Replaying
  <1>6. CASE \E m \in {0, 1} : redo_mark_done(m)
    BY <1>b, <1>6 DEF redo_mark_done, Replaying
  <1>7. CASE mark_done_header
    <2>1. \/ fh' = fh
          \/ /\ fh' = [valid |-> TRUE, num_keys |-> rd.num_keys, state |-> md]
             /\ finished' = (finished \/ md = 1)
      BY <1>7 DEF mark_done_header
    <2>2. fh' = fh \/ (fh'.state = md /\ md # 1)
      <3>1. finished' = (finished \/ md = 1) => md # 1
        BY Zenon
      <3>2. fh' = [valid |-> TRUE, num_keys |-> rd.num_keys, state |-> md] => fh'.state = md
        OBVIOUS
      <3> QED
        BY <2>1, <3>1, <3>2, Zenon
    <2>3. fhd' \in {fh, fhd} /\ pc' \in {"idle", "sync"} /\ UNCHANGED <<dev, devd>>
      BY <1>7 DEF mark_done_header, FsyncLog
    <2> QED
      BY <1>0, <1>b, <2>2, <2>3 DEF Replaying
  <1>8. CASE rfsck_open
    BY <1>b, <1>8 DEF rfsck_open, disk, Replaying
  <1>9. CASE open_header
    BY <1>0, <1>b, <1>9 DEF open_header, Replaying
  <1>10. CASE rfsck_replay
    BY <1>b, <1>10 DEF rfsck_replay
  <1>11. CASE rfsck_close \/ Kill
    BY <1>b, <1>11 DEF rfsck_close, Kill, Exit, disk, Replaying
  <1>12. CASE PowerLoss
    BY <1>b, <1>12 DEF PowerLoss, Exit, Replaying
  <1>13. CASE WriteBack
    BY <1>0, <1>b, <1>13 DEF WriteBack, Replaying
  <1> QED
    BY <1>1, <1>2, <1>3, <1>4, <1>5, <1>6, <1>7, <1>8, <1>9, <1>10, <1>11, <1>12, <1>13
    DEF Next, Writer

\* Whatever system calls fail and whenever the process or the power dies, the
\* device is as the checker found it until redo_mark_done(1) has written a
\* FINISHED header.
THEOREM Untouched == Spec => []UntouchedUntilFinished
  <1>1. Init => UntouchedInv
    BY DEF Init, UntouchedInv, NoHdr, Replaying
  <1>2. UntouchedInv => UntouchedUntilFinished
    BY DEF UntouchedInv, UntouchedUntilFinished
  <1> QED
    BY <1>1, <1>2, TypeInvariant, UntouchedStep, PTL DEF Spec

=============================================================================
