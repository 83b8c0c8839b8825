-------------------------- MODULE E2fsckRedoProofs --------------------------
(***************************************************************************)
(* e2fsck uses the library only through its interface, so what RedoLog     *)
(* guarantees for every client holds of e2fsck.                            *)
(***************************************************************************)
EXTENDS E2fsckRedo, RedoLogFlushProofs

LEMMA BeginIsLibrary == TxnBegin => Next
  BY DEF TxnBegin, Next, Writer

LEMMA CallsAreLibrary ==
    ASSUME \/ rfsck_txn_end \/ rfsck_flush \/ redo_mark_done(0) \/ redo_mark_done(1)
           \/ rfsck_open \/ rfsck_close \/ rfsck_replay
    PROVE  Next
  BY DEF Next, Writer

LEMMA WriteIsLibrary ==
    ASSUME NEW off \in DevAddr, NEW buf \in Buffers(Len(hist)),
           off + Len(buf) <= DevSize, rfsck_write(off, buf)
    PROVE  Next
  BY DEF Next, Writer

LEMMA UpdateIsLibrary == Update => Next
  BY WriteIsLibrary, CallsAreLibrary DEF Update

LEMMA ReplayCallIsLibrary == CallReplay => Next \/ UNCHANGED vars
  BY DEF CallReplay, Next

\* What main() and e2fsck_run() do is one call of the library or none.
LEMMA MainIsLibrary == Main => Next \/ UNCHANGED vars
<1> SUFFICES ASSUME Main PROVE Next \/ UNCHANGED vars
  OBVIOUS
<1>1. CASE main_open \/ main_journal \/ main_close \/ main_exit
  BY <1>1, CallsAreLibrary DEF main_open, main_journal, main_close, main_exit
<1>2. CASE main_begin \/ run_begin \/ main_begin_tail
  BY <1>2, BeginIsLibrary DEF main_begin, run_begin, main_begin_tail
<1>3. CASE main_restart \/ main_check_end \/ run_end \/ main_restart_run \/ main_end
  BY <1>3, CallsAreLibrary
     DEF main_restart, main_check_end, run_end, main_restart_run, main_end
<1>4. CASE run_done
  BY <1>4 DEF run_done
<1>5. CASE run_longjmp
  BY <1>5, CallsAreLibrary DEF run_longjmp
<1>6. CASE restart_mark \/ restart_unmark \/ main_mark
  BY <1>6, CallsAreLibrary DEF restart_mark, restart_unmark, main_mark
<1>7. CASE restart_replay \/ main_replay
  BY <1>7, ReplayCallIsLibrary DEF restart_replay, main_replay
<1>8. CASE main_fatal
  BY <1>8, CallsAreLibrary DEF main_fatal
<1>9. CASE main_reopen
  BY <1>9, CallsAreLibrary, UpdateIsLibrary DEF main_reopen
<1>10. CASE mmp_start
  <2>1. CASE MmpWrite("mmp_new") \/ MmpWrite("mmp_fsck")
    BY <2>1, WriteIsLibrary DEF MmpWrite
  <2>2. CASE rfsck_flush \/ UNCHANGED vars
    BY <2>2, CallsAreLibrary
  <2> QED
    BY <1>10, <2>1, <2>2 DEF mmp_start
<1> QED
  BY <1>1, <1>2, <1>3, <1>4, <1>5, <1>6, <1>7, <1>8, <1>9, <1>10 DEF Main

LEMMA StepIsLibrary == [ENext]_evars => [Next]_vars
<1> SUFFICES ASSUME [ENext]_evars PROVE Next \/ UNCHANGED vars
  OBVIOUS
<1>1. CASE Main
  BY <1>1, MainIsLibrary
<1>2. CASE main_update
  BY <1>2, UpdateIsLibrary DEF main_update
<1>3. CASE Library
  BY <1>3 DEF Library, Next, Writer
<1>4. CASE signal_cancel
  BY <1>4 DEF signal_cancel
<1>5. CASE Crash \/ WriteBack
  BY <1>5 DEF Crash, Next
<1>6. CASE UNCHANGED evars
  BY <1>6 DEF evars
<1> QED
  BY <1>1, <1>2, <1>3, <1>4, <1>5, <1>6 DEF ENext

\* e2fsck implements a client of the library: each of its behaviours, with its
\* restarts, longjmps, signals and crashes, is one of RedoLog.
THEOREM UsesLibrary == ESpec => Spec
<1>1. EInit => Init
  BY DEF EInit
<1> QED
  BY <1>1, StepIsLibrary, PTL DEF ESpec, Spec

\* An e2fsck that is killed, cancelled, aborted or loses power before it first
\* marks its log leaves the device untouched.
THEOREM E2fsckUntouched == ESpec => []UntouchedUntilFinished
  BY UsesLibrary, Untouched, PTL

\* e2fsck's replay writes to the device only what is on stable storage in a
\* log that says FINISHED.
THEOREM E2fsckWritesAhead == ESpec => WriteAhead
  BY UsesLibrary, WritesAhead, PTL

-----------------------------------------------------------------------------
(* Every repair is in a transaction.  A stage that repairs starts with an  *)
(* open transaction and keeps it open.  e2fsck_run_ext3_journal opens the  *)
(* log again in the middle of a stage; that this does not start the log    *)
(* anew follows from the log being used.                                   *)

Open(h) == InTransaction(h, Len(h) + 1)
Used(r) == r.log_offset > 2 \/ r.keys_in_block > 0

StageInv ==
    /\ rd.log_offset >= 2
    /\ st \in Stage /\ ~early => Open(hist) /\ Used(rd)

\* one more call leaves the transactions of the earlier calls alone
LEMMA EarlierCalls ==
    ASSUME NEW h \in Seq(Call), NEW c \in Call, NEW i \in 1..(Len(h) + 1)
    PROVE  InTransaction(Append(h, c), i) <=> InTransaction(h, i)
<1>1. \A k \in 1..Len(h) : Append(h, c)[k] = h[k]
  OBVIOUS
<1>2. Len(h) \in Nat
  OBVIOUS
<1>3. \A j \in 1..(i - 1) : j \in 1..Len(h) /\ \A k \in (j + 1)..(i - 1) : k \in 1..Len(h)
  BY <1>2
<1> QED
  BY <1>1, <1>3 DEF InTransaction

LEMMA BeginOpens ==
    ASSUME NEW h \in Seq(Call), NEW c \in Call, c.op = "B"
    PROVE  Open(Append(h, c))
<1> DEFINE n == Len(h) + 1
<1>1. n \in Nat /\ n >= 1 /\ Len(Append(h, c)) = n /\ Append(h, c)[n] = c
  OBVIOUS
<1>2. n \in 1..(n + 1 - 1) /\ (n + 1)..(n + 1 - 1) = {}
  BY <1>1
<1> HIDE DEF n
<1> QED
  BY <1>1, <1>2 DEF Open, InTransaction

LEMMA WriteKeepsOpen ==
    ASSUME NEW h \in Seq(Call), NEW c \in Call, c.op = "W", Open(h)
    PROVE  Open(Append(h, c))
<1> DEFINE g == Append(h, c)
<1>1. Len(h) \in Nat /\ Len(g) = Len(h) + 1 /\ g[Len(h) + 1] = c
      /\ \A k \in 1..Len(h) : g[k] = h[k]
  OBVIOUS
<1>2. PICK j \in 1..Len(h) :
         h[j].op = "B" /\ \A k \in (j + 1)..Len(h) : h[k].op = "W"
  BY <1>1 DEF Open, InTransaction
<1>3. g[j].op = "B" /\ \A k \in (j + 1)..(Len(h) + 1) : g[k].op = "W"
  BY <1>1, <1>2
<1>4. Len(g) + 1 - 1 = Len(h) + 1 /\ j \in 1..(Len(h) + 1)
  BY <1>1
<1>5. \E i \in 1..(Len(g) + 1 - 1) :
         g[i].op = "B" /\ \A k \in (i + 1)..(Len(g) + 1 - 1) : g[k].op = "W"
  BY <1>3, <1>4, Zenon
<1> QED
  BY <1>5 DEF Open, InTransaction

\* the log after a call of begin, write or end
LEMMA CalledAppends ==
    ASSUME NEW o \in {"B", "W", "E"}, NEW off \in Nat, NEW buf \in Seq(Val),
           Called(o, off, buf)
    PROVE  \E c \in Call : c.op = o /\ hist' = Append(hist, c)
  BY DEF Called, Call

\* What the steps of the writer do to *redo_data: it is used, or stays so.
LEMMA TagCounted ==
    ASSUME NEW r \in RedoData, NEW t
    PROVE  /\ WithTag(r, t).log_offset = r.log_offset
           /\ WithTag(r, t).keys_in_block = r.keys_in_block
           /\ Counted(WithTag(r, t)).log_offset = r.log_offset
           /\ Counted(WithTag(r, t)).keys_in_block = r.keys_in_block + 1
  BY DEF WithTag, Counted, RedoData

LEMMA NextBlockGrows ==
    ASSUME NEW r \in RedoData
    PROVE  NextBlock(r).log_offset \in Nat /\ NextBlock(r).log_offset >= r.log_offset
  BY DEF NextBlock, RedoData

LEMMA NextBlockUsed ==
    ASSUME NEW r \in RedoData, r.log_offset >= 2, Used(r)
    PROVE  NextBlock(r).log_offset >= 2 /\ Used(NextBlock(r))
  BY DEF NextBlock, Used, RedoData

\* rfsck_txn_begin opens a transaction in a log that is used.
LEMMA BeginStage ==
    ASSUME TypeInv, StageInv, TxnBegin
    PROVE  StageInv'
<1>0. hist \in Seq(Call) /\ rd \in RedoData /\ <<>> \in Seq(Val) /\ 0 \in Nat
  BY DEF TypeInv, TypeOK
<1>1. Called("B", 0, <<>>)
  BY DEF TxnBegin, rfsck_txn_begin, rfsck_txn_begin_garbage
<1>2. Open(hist')
  BY <1>0, <1>1, CalledAppends, BeginOpens
<1>3. CASE rfsck_txn_begin_garbage
  <2>1. rd'.log_offset = rd.log_offset /\ early' = TRUE
    BY <1>0, <1>3, TagCounted DEF rfsck_txn_begin_garbage
  <2> QED
    BY <2>1 DEF StageInv
<1>4. CASE rfsck_txn_begin
  <2> DEFINE r == Counted(WithTag(rd, TxnTag(0, rd.txn_id)))
  <2>1. rd' = NextBlock(r) \/ rd' = r
    BY <1>4 DEF rfsck_txn_begin
  <2>2. r.log_offset = rd.log_offset /\ r.keys_in_block = rd.keys_in_block + 1
    BY <1>0, TagCounted
  <2>3. r \in RedoData
    <3>1. TxnTag(0, rd.txn_id) \in Tag
      BY <1>0, TagTypes DEF RedoData
    <3> QED
      BY <1>0, <3>1, WithTagType
  <2>4. r.log_offset >= 2 /\ Used(r)
    BY <1>0, <2>2 DEF StageInv, Used, RedoData
  <2> HIDE DEF r
  <2>5. rd'.log_offset >= 2 /\ Used(rd')
    BY <2>1, <2>3, <2>4, NextBlockUsed
  <2> QED
    BY <1>2, <2>5 DEF StageInv, Used
<1> QED
  BY <1>3, <1>4 DEF TxnBegin

\* rfsck_txn_end may only shorten what is known: the next stage is none that
\* repairs.
LEMMA EndStage ==
    ASSUME TypeInv, StageInv, rfsck_txn_end, st' \notin Stage
    PROVE  StageInv'
<1> DEFINE t == Counted(WithTag(rd, TxnTag(CSUM, rd.txn_id)))
<1> DEFINE r == [t EXCEPT !.txn_id = @ + 1]
<1>0. rd \in RedoData
  BY DEF TypeInv, TypeOK
<1>1. rd' = r \/ rd' = NextBlock(r)
  BY DEF rfsck_txn_end
<1>2. t \in RedoData /\ t.log_offset = rd.log_offset
  <2>1. TxnTag(CSUM, rd.txn_id) \in Tag
    BY <1>0, TagTypes DEF RedoData
  <2> QED
    BY <1>0, <2>1, WithTagType, TagCounted
<1> HIDE DEF t
<1>3. r \in RedoData /\ r.log_offset = t.log_offset
  BY <1>2 DEF RedoData
<1> HIDE DEF r
<1>4. CASE rd' = r
  BY <1>2, <1>3, <1>4 DEF StageInv
<1>5. CASE rd' = NextBlock(r)
  <2>1. r.log_offset \in Nat /\ r.log_offset = rd.log_offset
    BY <1>2, <1>3 DEF RedoData
  <2>2. NextBlock(r).log_offset \in Nat /\ NextBlock(r).log_offset >= r.log_offset
    BY <1>3, NextBlockGrows
  <2> QED
    BY <1>5, <2>1, <2>2 DEF StageInv
<1> QED
  BY <1>1, <1>4, <1>5

\* rfsck_write keeps a transaction open, and the log used.
LEMMA WriteStage ==
    ASSUME TypeInv, StageInv, NEW off \in DevAddr, NEW buf \in Buffers(Len(hist)),
           rfsck_write(off, buf), st' \in Stage => st \in Stage
    PROVE  StageInv'
<1>0. hist \in Seq(Call) /\ rd \in RedoData
  BY DEF TypeInv, TypeOK
<1>1. Called("W", off, buf) /\ early' = early /\ Len(hist) < MaxTags
  BY DEF rfsck_write, Writing
<1>2. Len(hist) \in 0..(MaxTags - 1)
  BY <1>0, <1>1, RedoLogAssumption
<1>3. buf \in Buf
  BY <1>2, RedoLogAssumption
<1>4. off \in Nat /\ buf \in Seq(Val) /\ Len(buf) \in Nat
  BY <1>3 DEF Buf, DevAddr
<1>5. Open(hist) => Open(hist')
  BY <1>0, <1>1, <1>4, CalledAppends, WriteKeepsOpen
<1> DEFINE t == WithTag(rd, RecTag(off, Len(buf)))
<1> DEFINE r == [t EXCEPT !.log_offset = @ + Len(buf)]
<1>6. rd' = NextBlock(Counted(r)) \/ rd' = t \/ rd' = r
  BY DEF rfsck_write
<1>7. t \in RedoData /\ t.log_offset = rd.log_offset /\ t.keys_in_block = rd.keys_in_block
  <2>1. RecTag(off, Len(buf)) \in Tag
    BY <1>4, TagTypes
  <2> QED
    BY <1>0, <2>1, WithTagType, TagCounted
<1> HIDE DEF t
<1>8. r \in RedoData /\ r.log_offset = rd.log_offset + Len(buf)
      /\ r.keys_in_block = rd.keys_in_block
  <2>1. t.log_offset + Len(buf) \in Nat \ {0}
    BY <1>4, <1>7 DEF RedoData
  <2> QED
    BY <1>7, <2>1 DEF RedoData
<1> HIDE DEF r
<1>9. Counted(r) \in RedoData /\ Counted(r).log_offset = r.log_offset
      /\ Counted(r).keys_in_block = r.keys_in_block + 1
  BY <1>8 DEF Counted, RedoData
<1>10. Counted(r).log_offset >= 2 /\ Used(Counted(r))
  BY <1>0, <1>4, <1>8, <1>9 DEF StageInv, Used, RedoData
<1>11. NextBlock(Counted(r)).log_offset >= 2 /\ Used(NextBlock(Counted(r)))
  BY <1>9, <1>10, NextBlockUsed
<1>12. rd'.log_offset >= 2 /\ (Used(rd) => Used(rd'))
  BY <1>0, <1>4, <1>6, <1>7, <1>8, <1>11 DEF StageInv, Used, RedoData
<1> QED
  BY <1>1, <1>5, <1>12 DEF StageInv, Used

\* the calls and steps that log nothing; an exit leaves a *redo_data like Fresh
SameLog == rd'.log_offset = rd.log_offset /\ rd'.keys_in_block = rd.keys_in_block

LEMMA QuietCalls ==
    ASSUME \/ rfsck_flush \/ redo_mark_done(0) \/ redo_mark_done(1) \/ rfsck_open
           \/ CallReplay \/ fsync_log \/ mark_done_header \/ Replay \/ WriteBack,
           TypeInv, rfsck_open => pc = "idle"
    PROVE  hist' = hist /\ early' = early /\ SameLog
<1>0. rd \in RedoData
  BY DEF TypeInv, TypeOK
<1>1. CASE rfsck_flush \/ redo_mark_done(0) \/ redo_mark_done(1) \/ fsync_log \/ WriteBack
  BY <1>1 DEF rfsck_flush, redo_mark_done, fsync_log, WriteBack, ghost, SameLog
<1>2. CASE rfsck_open
  BY <1>0, <1>2 DEF rfsck_open, ghost, SameLog, RedoData
<1>3. CASE CallReplay
  BY <1>0, <1>3 DEF CallReplay, rfsck_replay, ghost, vars, SameLog, RedoData
<1>4. CASE mark_done_header
  BY <1>0, <1>4 DEF mark_done_header, SameLog, RedoData
<1>5. CASE Replay
  BY <1>0, <1>5 DEF Replay, replay_block, replay_next_block, replay_skip_tag,
     replay_begin_tag, replay_end_tag, replay_copy, replay_copy_next_block,
     replay_copy_done, replay_mark, replay_sync, ghost, SameLog, RedoData
<1> QED
  BY <1>1, <1>2, <1>3, <1>4, <1>5

LEMMA Exits ==
    ASSUME rfsck_close \/ Kill \/ PowerLoss \/ (rfsck_open /\ pc = "dead")
    PROVE  hist' = hist /\ early' = early /\ rd'.log_offset = 2
  BY DEF rfsck_close, Kill, PowerLoss, rfsck_open, Exit, Fresh, ghost

LEMMA StageQuiet ==
    ASSUME StageInv, hist' = hist, early' = early, SameLog, st' \in Stage => st \in Stage
    PROVE  StageInv'
  BY DEF StageInv, SameLog, Used

LEMMA StageExit ==
    ASSUME rd'.log_offset = 2, st' \notin Stage
    PROVE  StageInv'
  BY DEF StageInv

\* In a stage that repairs the header of a log that is used is written again.
LEMMA StageLibrary ==
    ASSUME TypeInv, StageInv, Library
    PROVE  StageInv'
<1>0. rd.log_offset \in Nat /\ rd.keys_in_block \in Nat
  BY DEF TypeInv, TypeOK, RedoData
<1>1. CASE open_header
  <2>1. CASE pc' = "dead"
    <3>1. rd' = Fresh /\ st' = "off"
      BY <1>1, <2>1 DEF open_header, Library, GoTo
    <3> QED
      BY <3>1, StageExit DEF Stage, Fresh
  <2>2. CASE pc' # "dead"
    <3>1. rd' = rd /\ early' = early /\ st' = st
          /\ hist' = IF rd.log_offset = 2 /\ rd.keys_in_block = 0 THEN <<>> ELSE hist
      BY <1>1, <2>2 DEF open_header, Library, GoTo
    <3>2. Used(rd) => hist' = hist
      BY <1>0, <3>1 DEF Used
    <3> QED
      BY <3>1, <3>2 DEF StageInv
  <2> QED
    BY <2>1, <2>2
<1>2. CASE fsync_log \/ mark_done_header \/ Replay
  <2>1. ~rfsck_open \/ pc = "idle" \/ pc = "dead"
    BY DEF rfsck_open
  <2>2. pc # "dead"
    BY <1>2 DEF fsync_log, mark_done_header, Replay, replay_block, replay_next_block,
         replay_skip_tag, replay_begin_tag, replay_end_tag, replay_copy,
         replay_copy_next_block, replay_copy_done, replay_mark, replay_sync, ReplayTag
  <2>3. hist' = hist /\ early' = early /\ SameLog
    BY <1>2, <2>1, <2>2, QuietCalls
  <2>4. st' \in Stage => st \in Stage
    BY DEF Library, GoTo, Stage
  <2> QED
    BY <2>3, <2>4, StageQuiet
<1> QED
  BY <1>1, <1>2 DEF Library

LEMMA StageUpdate ==
    ASSUME TypeInv, StageInv, Update, st' \in Stage => st \in Stage
    PROVE  StageInv'
<1>1. CASE rfsck_flush
  <2>1. pc = "idle"
    BY <1>1 DEF rfsck_flush
  <2> QED
    BY <1>1, <2>1, QuietCalls, StageQuiet
<1>2. ASSUME NEW off \in DevAddr, NEW buf \in Buffers(Len(hist)), rfsck_write(off, buf)
      PROVE  StageInv'
  BY <1>2, WriteStage
<1> QED
  BY <1>1, <1>2 DEF Update

LEMMA StageOpening ==
    ASSUME TypeInv, StageInv, main_open \/ main_reopen \/ mmp_start \/ main_journal
    PROVE  StageInv'
<1>1. CASE main_open
  <2>1. st' \notin Stage /\ rfsck_open /\ (pc = "dead" \/ pc = "idle")
    BY <1>1 DEF main_open, GoTo, Opened, Stage, rfsck_open
  <2> QED
    BY <2>1, Exits, QuietCalls, StageQuiet, StageExit
<1>2. CASE main_journal
  BY <1>2, QuietCalls, StageQuiet DEF main_journal, At, GoTo
<1>3. CASE main_reopen
  <2>1. st' \notin Stage
    BY <1>3 DEF main_reopen, At, GoTo, Opened, driver, Stage
  <2>2. CASE Update
    BY <2>1, <2>2, StageUpdate
  <2>3. CASE UNCHANGED vars
    BY <2>1, <2>3, StageQuiet DEF vars, ghost, SameLog
  <2>4. CASE rfsck_open /\ pc = "idle"
    BY <2>1, <2>4, QuietCalls, StageQuiet
  <2> QED
    BY <1>3, <2>2, <2>3, <2>4 DEF main_reopen, At
<1>4. CASE mmp_start
  <2>1. \A s \in DOMAIN AfterFlush : AfterFlush[s] \cap Stage = {}
    BY DEF AfterFlush, Stage
  <2>2. CASE MmpWrite("mmp_new") \/ MmpWrite("mmp_fsck")
    <3>1. st' \notin Stage
      BY <2>2 DEF MmpWrite, GoTo, Stage
    <3> QED
      BY <2>2, <3>1, WriteStage DEF MmpWrite
  <2>3. ASSUME NEW x \in DOMAIN AfterFlush, \E s \in AfterFlush[x] : GoTo(s)
        PROVE  st' \notin Stage
    BY <2>1, <2>3 DEF GoTo
  <2>4. CASE rfsck_flush /\ \E x \in DOMAIN AfterFlush : \E s \in AfterFlush[x] : GoTo(s)
    BY <2>3, <2>4, StageUpdate DEF Update
  <2>5. CASE UNCHANGED vars /\ \E x \in DOMAIN AfterFlush : \E s \in AfterFlush[x] : GoTo(s)
    BY <2>3, <2>5, StageQuiet DEF vars, ghost, SameLog
  <2>6. "mmp_fail" \in DOMAIN AfterFlush
    BY DEF AfterFlush
  <2> QED
    BY <1>4, <2>2, <2>4, <2>5, <2>6 DEF mmp_start
<1> QED
  BY <1>1, <1>2, <1>3, <1>4

LEMMA StageMain ==
    ASSUME TypeInv, StageInv, Main
    PROVE  StageInv'
<1>1. CASE main_begin \/ run_begin \/ main_begin_tail
  BY <1>1, BeginStage DEF main_begin, run_begin, main_begin_tail
<1>2. CASE main_restart \/ main_check_end \/ run_end \/ main_restart_run \/ main_end
  BY <1>2, EndStage
     DEF main_restart, main_check_end, run_end, main_restart_run, main_end, GoTo, Stage
<1>3. CASE main_close \/ main_exit
  BY <1>3, Exits, StageExit DEF main_close, main_exit, Aborted, NewProcess, Stage
<1>4. CASE restart_mark \/ restart_unmark \/ main_mark
  BY <1>4, QuietCalls, StageQuiet
     DEF restart_mark, restart_unmark, main_mark, At, GoTo, Stage
<1>5. CASE restart_replay \/ main_replay
  BY <1>5, QuietCalls, StageQuiet DEF restart_replay, main_replay, At, GoTo, Stage
<1>6. CASE main_fatal \/ run_longjmp \/ run_done
  <2>1. st' \notin Stage /\ pc = "idle"
    BY <1>6 DEF main_fatal, run_longjmp, run_done, At, GoTo, Stage
  <2>2. CASE rfsck_flush
    BY <2>1, <2>2, QuietCalls, StageQuiet
  <2>3. CASE UNCHANGED vars
    BY <2>1, <2>3, StageQuiet DEF vars, ghost, SameLog
  <2> QED
    BY <1>6, <2>2, <2>3 DEF main_fatal, run_longjmp, run_done
<1>7. CASE main_open \/ main_reopen \/ mmp_start \/ main_journal
  BY <1>7, StageOpening
<1> QED
  BY <1>1, <1>2, <1>3, <1>4, <1>5, <1>6, <1>7 DEF Main

LEMMA StageStep == TypeInv /\ StageInv /\ [ENext]_evars => StageInv'
<1> SUFFICES ASSUME TypeInv, StageInv, [ENext]_evars PROVE StageInv'
  OBVIOUS
<1>1. CASE Main
  BY <1>1, StageMain
<1>2. CASE main_update
  BY <1>2, StageUpdate DEF main_update, driver
<1>3. CASE Library
  BY <1>3, StageLibrary
<1>4. CASE signal_cancel
  BY <1>4, StageQuiet DEF signal_cancel, vars, ghost, SameLog
<1>5. CASE Crash
  BY <1>5, Exits, StageExit DEF Crash, Aborted, NewProcess, Stage
<1>6. CASE WriteBack /\ UNCHANGED driver
  BY <1>6 DEF WriteBack, driver, ghost, StageInv
<1>7. CASE UNCHANGED evars
  BY <1>7, StageQuiet DEF evars, vars, ghost, driver, SameLog
<1> QED
  BY <1>1, <1>2, <1>3, <1>4, <1>5, <1>6, <1>7 DEF ENext

\* A step of the library adds one call to the log, starts it anew or leaves it.
LEMMA HistStep ==
    ASSUME TypeInv, [Next]_vars
    PROVE  hist' = hist \/ hist' = <<>> \/ \E c \in Call : hist' = Append(hist, c)
<1>0. hist \in Seq(Call) /\ <<>> \in Seq(Val) /\ 0 \in Nat
  BY DEF TypeInv, TypeOK
<1>1. CASE rfsck_txn_begin \/ rfsck_txn_begin_garbage \/ rfsck_txn_end
  BY <1>0, <1>1, CalledAppends DEF rfsck_txn_begin, rfsck_txn_begin_garbage, rfsck_txn_end
<1>2. ASSUME NEW off \in DevAddr, NEW buf \in Buffers(Len(hist)), rfsck_write(off, buf)
      PROVE  \E c \in Call : hist' = Append(hist, c)
  <2>1. Called("W", off, buf) /\ Len(hist) \in 0..(MaxTags - 1)
    BY <1>0, <1>2, RedoLogAssumption DEF rfsck_write, Writing
  <2>2. off \in Nat /\ buf \in Seq(Val)
    BY <2>1, RedoLogAssumption DEF Buf, DevAddr
  <2> QED
    BY <2>1, <2>2, CalledAppends
<1>3. CASE rfsck_flush \/ fsync_log \/ mark_done_header \/ \E m \in {0, 1} : redo_mark_done(m)
  BY <1>3 DEF rfsck_flush, fsync_log, mark_done_header, redo_mark_done, ghost
<1>4. CASE Writer
  BY <1>1, <1>2, <1>3, <1>4 DEF Writer
<1>5. CASE Replay
  BY <1>5 DEF Replay, replay_block, replay_next_block, replay_skip_tag,
     replay_begin_tag, replay_end_tag, replay_copy, replay_copy_next_block,
     replay_copy_done, replay_mark, replay_sync, ghost
<1>6. CASE rfsck_open \/ open_header \/ rfsck_replay \/ rfsck_close
  BY <1>6 DEF rfsck_open, open_header, rfsck_replay, rfsck_close, ghost
<1>7. CASE Kill \/ PowerLoss \/ WriteBack
  BY <1>7 DEF Kill, PowerLoss, WriteBack, ghost
<1>8. CASE UNCHANGED vars
  BY <1>8 DEF vars, ghost
<1> QED
  BY <1>4, <1>5, <1>6, <1>7, <1>8 DEF Next

\* However the stages of e2fsck follow each other, with any number of passes,
\* restarts, journal recoveries, longjmps, signals, failing calls and crashes:
\* every repair of a stage is logged inside a transaction, unless a begin
\* returned its garbage retval.
THEOREM E2fsckBrackets == ESpec => RepairsInTransactions
<1> DEFINE Write == Len(hist') > Len(hist) /\ hist'[Len(hist')].op = "W"
<1>1. EInit => StageInv
  BY DEF EInit, Init, StageInv, Stage, Fresh
<1>2. ASSUME TypeInv, StageInv, [ENext]_evars, st \in Stage, ~early, Write
      PROVE  InTransaction(hist', Len(hist'))
  <2>1. hist \in Seq(Call) /\ Len(hist) \in Nat
    BY <1>2 DEF TypeInv, TypeOK
  <2>2. PICK c \in Call : hist' = Append(hist, c)
    BY <1>2, <2>1, HistStep, StepIsLibrary
  <2>3. Len(hist') = Len(hist) + 1 /\ Len(hist) + 1 \in 1..(Len(hist) + 1)
    BY <2>1, <2>2
  <2>4. InTransaction(hist, Len(hist) + 1)
    BY <1>2 DEF StageInv, Open
  <2> QED
    BY <2>1, <2>2, <2>3, <2>4, EarlierCalls
<1>3. TypeInv /\ StageInv /\ [ENext]_evars
      => [(st \in Stage /\ ~early /\ Len(hist') > Len(hist) /\ hist'[Len(hist')].op = "W")
          => InTransaction(hist', Len(hist'))]_evars
  BY <1>2
<1>4. ESpec => []TypeInv
  BY UsesLibrary, TypeInvariant, PTL
<1> QED
  BY <1>1, <1>3, <1>4, StageStep, PTL DEF ESpec, RepairsInTransactions

=============================================================================
