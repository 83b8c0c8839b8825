----------------------------- MODULE E2fsckRedo -----------------------------
(***************************************************************************)
(* How e2fsck uses the redo log: main() of src/rfsck-ext/e2fsck/unix.c and *)
(* e2fsck_run() of src/rfsck-ext/e2fsck/e2fsck.c, on top of the library    *)
(* modelled by RedoLog.                                                    *)
(*                                                                         *)
(* The variable st says which of its library calls main() makes next; a    *)
(* call that takes several steps in RedoLog returns when pc is "idle"      *)
(* again, and main() ignores the results of all of them.  What the passes  *)
(* repair is left open: between its calls of begin and end a stage may     *)
(* write any blocks and flush them.  On a file system with multi-mount     *)
(* protection (MMP) opening and closing write blocks too.                  *)
(***************************************************************************)
EXTENDS RedoLog

CONSTANT NumPasses      \* length of e2fsck_passes: 6 in the code

ASSUME NumPassesAssumption == NumPasses \in Nat

VARIABLES
    st,         \* position of main() and e2fsck_run()
    pass,       \* i of e2fsck_run: the pass it runs next, or runs
    flags,      \* ctx->flags & E2F_FLAG_RUN_RETURN
    mmp,        \* the file system has MMP and EXT2_FLAG_SKIP_MMP is cleared
    result,     \* run_result of main()
    jumped,     \* history: e2fsck_run was left by a longjmp in this process
    torn        \* history: a process that had begun a replay crashed or aborted

driver == <<st, pass, flags, mmp, result, jumped, torn>>
evars  == <<vars, driver>>

RunReturn == {"abort", "cancel", "restart"}

EInit ==
    /\ Init
    /\ st = "open" /\ pass = 1 /\ flags = {} /\ mmp = FALSE /\ result = {}
    /\ jumped = FALSE /\ torn = FALSE

At(s)   == st = s /\ pc = "idle"
GoTo(s) == st' = s /\ UNCHANGED <<pass, flags, mmp, result, jumped, torn>>

\* the process ends; the next one starts from the beginning
NewProcess ==
    /\ st' = "open" /\ pass' = 1 /\ flags' = {} /\ mmp' = FALSE /\ result' = {}
    /\ jumped' = FALSE

Aborted == NewProcess /\ torn' = (torn \/ replays > 0)

TxnBegin == rfsck_txn_begin \/ rfsck_txn_begin_garbage

\* rfsck_replay(1), which returns at once unless the header says FINISHED
CallReplay == IF Finished THEN rfsck_replay ELSE UNCHANGED vars

-----------------------------------------------------------------------------
(* main(): opening, and the checks before the passes.                      *)

\* blocks that unix_io writes, and its flush
Update ==
    \/ \E off \in DevAddr, buf \in Buffers(Len(hist)) :
          off + Len(buf) <= DevSize /\ rfsck_write(off, buf)
    \/ rfsck_flush

\* ext2fs_open2 ends with ext2fs_mmp_start
Opened == IF mmp THEN "mmp" ELSE "begin"

\* try_open_fs: unix_open_channel opens the redo log
main_open == st = "open" /\ rfsck_open /\ GoTo(Opened)

\* The file system is opened again, with a backup superblock or another block
\* size.  Closing it first writes only if ext2fs_mmp_start did.
main_reopen ==
    \/ At("begin") /\ mmp /\ UNCHANGED vars /\ GoTo("reopen")
    \/ st = "reopen" /\ Update /\ UNCHANGED driver
    \/ (At("reopen") \/ (At("begin") /\ ~mmp)) /\ rfsck_open /\ GoTo(Opened)

\* ext2fs_mmp_start: the MMP block gets a new sequence number and is read
\* back; if it holds the number, it gets EXT4_MMP_SEQ_FSCK.
MmpWrite(s) ==
    \E off \in DevAddr, buf \in Buffers(Len(hist)) :
        /\ off + Len(buf) <= DevSize /\ rfsck_write(off, buf)
        /\ GoTo(IF faults' = faults THEN s ELSE "mmp_fail")

\* What follows the flush of ext2fs_mmp_write.  After an error the open fails:
\* e2fsck opens in another way, or exits with no file system to flush.
AfterFlush == [mmp_new |-> {"mmp_read"}, mmp_fsck |-> {"begin"},
               mmp_fail |-> {"reopen", "exit"}]

mmp_start ==
    \/ At("mmp") /\ MmpWrite("mmp_new")
    \/ At("mmp_read") /\ MmpWrite("mmp_fsck")
    \/ st \in DOMAIN AfterFlush /\ rfsck_flush /\ \E s \in AfterFlush[st] : GoTo(s)
    \* the block cannot be read, is in use, or holds another number
    \/ (At("mmp") \/ At("mmp_read")) /\ UNCHANGED vars
       /\ \E s \in AfterFlush["mmp_fail"] : GoTo(s)

main_begin == At("begin") /\ TxnBegin /\ GoTo("check")

\* the stages that repair
Stage == {"check", "pass", "tail"}

main_update == st \in Stage /\ Update /\ UNCHANGED driver

\* e2fsck_run_ext3_journal opens the file system again, in a transaction.
main_journal == At("check") /\ rfsck_open /\ GoTo("check")

\* start again: busy device, journal recovered, or MMP, which is then started
main_restart ==
    /\ At("check") /\ rfsck_txn_end
    /\ st' = "restart_mark" /\ mmp' \in {mmp, TRUE}
    /\ UNCHANGED <<pass, flags, result, jumped, torn>>

\* mutant: the transaction of the checks is left open
main_check_end_missing ==
    /\ At("check") /\ UNCHANGED vars
    /\ st' = "run" /\ pass' = 1
    /\ UNCHANGED <<flags, mmp, result, jumped, torn>>

main_check_end ==
    /\ At("check") /\ rfsck_txn_end
    /\ st' = "run" /\ pass' = 1
    /\ UNCHANGED <<flags, mmp, result, jumped, torn>>

-----------------------------------------------------------------------------
(* e2fsck_run().                                                           *)

\* mutant: the first pass runs without a transaction of its own
run_begin_late ==
    /\ At("run") /\ pass <= NumPasses
    /\ IF pass = 1 THEN UNCHANGED vars ELSE TxnBegin
    /\ IF flags = {} THEN st' = "pass" /\ UNCHANGED result
                     ELSE st' = "post" /\ result' = flags
    /\ UNCHANGED <<pass, flags, mmp, jumped, torn>>

\* The transaction is begun before the loop looks at the flags.
run_begin ==
    /\ At("run") /\ pass <= NumPasses
    /\ TxnBegin
    /\ IF flags = {} THEN st' = "pass" /\ UNCHANGED result
                     ELSE st' = "post" /\ result' = flags
    /\ UNCHANGED <<pass, flags, mmp, jumped, torn>>

\* the pass returns, asking for an abort or a restart or not
run_end ==
    /\ At("pass") /\ rfsck_txn_end
    /\ \E f \in {{}, {"abort"}, {"restart"}} : flags' = flags \cup f
    /\ pass' = pass + 1 /\ st' = "run"
    /\ UNCHANGED <<mmp, result, jumped, torn>>

run_done ==
    /\ At("run") /\ pass > NumPasses
    /\ st' = "post" /\ result' = flags
    /\ UNCHANGED <<vars, pass, flags, mmp, jumped, torn>>

\* fatal_error in a pass: a flush, then longjmp; ^C at a question: longjmp only
run_longjmp ==
    /\ At("pass") /\ st' = "post" /\ jumped' = TRUE
    /\ \/ rfsck_flush /\ flags' = flags \cup {"abort"}
       \/ UNCHANGED <<vars, flags>>
    /\ result' = flags'
    /\ UNCHANGED <<pass, mmp, torn>>

-----------------------------------------------------------------------------
(* main(): after the passes.                                               *)

main_begin_tail == At("post") /\ TxnBegin /\ GoTo("tail")

\* e2fsck_reset_context clears the flags
main_restart_run ==
    /\ At("tail") /\ result = {"restart"}
    /\ rfsck_txn_end
    /\ st' = "restart_mark" /\ flags' = {}
    /\ UNCHANGED <<pass, mmp, result, jumped, torn>>

restart_mark   == At("restart_mark") /\ redo_mark_done(1) /\ GoTo("restart_replay")
restart_replay == At("restart_replay") /\ CallReplay /\ GoTo("restart_unmark")
restart_unmark == At("restart_unmark") /\ redo_mark_done(0) /\ GoTo("open")

main_end ==
    /\ At("tail") /\ "abort" \notin result /\ result # {"restart"}
    /\ rfsck_txn_end /\ GoTo("mark")

main_mark   == At("mark") /\ redo_mark_done(1) /\ GoTo("replay")
main_replay == At("replay") /\ CallReplay /\ GoTo("close")
main_close  == At("close") /\ rfsck_close /\ NewProcess /\ UNCHANGED torn

\* fatal_error outside e2fsck_run: a flush unless ctx->fs is not set, then exit
main_fatal ==
    /\ \/ At("check") /\ (rfsck_flush \/ UNCHANGED vars)
       \/ At("tail") /\ "abort" \in result /\ rfsck_flush
    /\ GoTo("exit")

main_exit == At("exit") /\ rfsck_close /\ Aborted

-----------------------------------------------------------------------------
(* The rest of a library call, signals and crashes.                        *)

\* If rfsck_open fails, e2fsck goes on without the library (st = "off").
Library ==
    /\ fsync_log \/ mark_done_header \/ Replay \/ open_header
    /\ GoTo(IF pc' = "dead" THEN "off" ELSE st)

\* SIGINT or SIGTERM, between any two steps
signal_cancel ==
    /\ pc # "dead" /\ "cancel" \notin flags
    /\ flags' = flags \cup {"cancel"}
    /\ UNCHANGED <<vars, st, pass, mmp, result, jumped, torn>>

Crash ==
    /\ Kill \/ PowerLoss
    /\ Aborted

Main ==
    \/ main_open \/ main_reopen \/ mmp_start \/ main_begin \/ main_journal
    \/ main_restart \/ main_check_end
    \/ run_begin \/ run_end \/ run_done \/ run_longjmp \/ main_begin_tail
    \/ main_restart_run \/ restart_mark \/ restart_replay \/ restart_unmark
    \/ main_end \/ main_mark \/ main_replay \/ main_close \/ main_fatal \/ main_exit

ENext == Main \/ main_update \/ Library \/ signal_cancel \/ Crash
             \/ (WriteBack /\ UNCHANGED driver)

ESpec == EInit /\ [][ENext]_evars

-----------------------------------------------------------------------------
(* Properties.                                                             *)

\* before the i-th call there is a begin, with nothing but records after it
InTransaction(h, i) ==
    \E j \in 1..(i - 1) : h[j].op = "B" /\ \A k \in (j + 1)..(i - 1) : h[k].op = "W"

\* The repairs of the checks, the passes and the tail are logged inside a
\* transaction, however these, restarts, journal recoveries, longjmps and
\* crashes of e2fsck follow each other, unless an rfsck_txn_begin returned its
\* garbage retval.  Not so the blocks that opening and closing write on a file
\* system with MMP, before main() begins the transaction (unix.c:1615): of
\* those nothing is claimed.
RepairsInTransactions ==
    [][(st \in Stage /\ ~early /\ Len(hist') > Len(hist) /\ hist'[Len(hist')].op = "W")
       => InTransaction(hist', Len(hist'))]_evars

\* A process of e2fsck that was neither cancelled, restarted nor left by a
\* longjmp, and whose replay at the end is its first (replays = 1), closes the
\* log with all of its repairs on the device, on stable storage, unless a
\* transaction ends in the last tag of a key block.  Its log then starts with
\* transaction 1.  A process that finds a FINISHED log, as every complete run
\* leaves one, replays at open and is not among these: its first transaction
\* gets the number 0 and is lost.  Nor is anything said of MMP, which starts
\* only after a restart.
RepairsReplayed ==
    (At("close") /\ faults = 0 /\ ~early /\ ~jumped /\ result = {} /\ replays = 1
       /\ start = 1 /\ ~EndFillsBlock(hist))
    => dev = After(hist, Len(hist)) /\ devd = dev

\* If a process crashes or aborts before it replays, the repairs of all stages
\* are one unit: when the next process has recovered the log, the device is as
\* e2fsck found it or, if e2fsck had come to mark the log, holds all of them.
\* This is so for a log that starts with transaction 1 (the process that wrote
\* it found no FINISHED log), whose calls of begin and end alternate, and in
\* which no transaction but the last ends in the last tag of a key block.
AllOrNothing ==
    (pc = "open_hdr" /\ rd = [Fresh EXCEPT !.txn_id = rd.txn_id] /\ Sound
       /\ hist # <<>> /\ start = 1 /\ ~torn /\ replays <= 1 /\ ~EndFillsBlock(hist))
    => dev = base \/ (finished /\ dev = After(hist, Len(hist)))
=============================================================================
