# RFSCK in TLA+

Specifications, model-checking instances and proofs for RFSCK, the redo-logging
library for file-system checkers, for its use by e2fsck and xfs_repair, for the
undo log that the repository patches as an alternative, and for the framework that
injects faults into the checkers.

## 1. The system and its parts

RFSCK makes a file-system checker survive interruption: instead of repairing
the device in place, the checker logs its updates and replays the log when it is
complete. The repository has these parts.

| part | source | here |
|---|---|---|
| redo log library | `src/rfsck-lib/redo.c`, `redo.h` | `RedoLog` |
| e2fsck with the library: the callers | `src/rfsck-ext/e2fsck/unix.c`, `e2fsck.c`, `util.c` | `E2fsckRedo` |
| e2fsck with the library: block cache | `src/rfsck-ext/lib/ext2fs/unix_io.c`, `e2fsck/ehandler.c` | `UnixIO`, `BlockStore` |
| xfs_repair with the library: the callers | `src/rfsck-xfs/libxfs/{rdwr,init,redo}.c`, `repair/xfs_repair.c` | `XfsRepair` |
| xfs_repair: buffer cache | `src/rfsck-xfs/libxfs/cache.c`, `rdwr.c` | `XfsCache` |
| e2fsck with a synchronous undo log | `src/e2fsck-patch/lib/ext2fs/undo_io.c`, `unix_io.c`, `misc/e2undo.c` | `UndoLog` |
| fault injection: recorder, replayer | `src/rfsck-test/usr/powerfault.c`, `pfe_replay.c`, `bs_rdwr.c`, `bs.c`, `tgtd.c` | `PowerFault` |
| experiment scripts | `src/rfsck-test/pfe_scripts` | not modelled (shell I/O) |
| the passes of e2fsck and xfs_repair | upstream code | not modelled: any blocks may be written |

How they interact: a checker opens the log (`rfsck_open`, which first replays a
log that an earlier process left FINISHED), brackets groups of updates with
`rfsck_txn_begin` and `rfsck_txn_end`, and sends every block write of its I/O
layer to `rfsck_write`. At the end, or when it restarts, e2fsck calls
`redo_mark_done(1)`, `rfsck_replay(1)` and then either `rfsck_close` or
`redo_mark_done(0)` and another `rfsck_open`. xfs_repair opens one transaction
around the final flush of its buffers, never marks the log, and replays it when it
closes the device. The patched e2fsck works in place and saves what it overwrites in
an undo file, which e2undo applies. The framework records the writes that any of
them sends to an iSCSI target, and replays a range of the record to produce the disk
that a fault would have left.

The redo log file is a header, then key blocks of 255 tags, each followed by the data
of its records. A tag of size 0 with a nonzero id is the begin or the end of a
transaction; which of the two follows only from alternation.

## 2. Modules

| module | what it is |
|---|---|
| `RedoLog` | the library, its files and its crashes; the library's properties |
| `RedoLogProofs` | type correctness; the device before the first FINISHED header |
| `RedoLogFlushProofs` | the FINISHED flag and the write-ahead rule |
| `E2fsckRedo` | `main()` and `e2fsck_run()` on top of `RedoLog` (EXTENDS) |
| `E2fsckRedoProofs` | e2fsck as a client of the library; repairs are in transactions |
| `UnixIO` | the I/O channel of e2fsck: a block cache before the device or the log |
| `BlockStore` | what a checker may expect of an I/O channel; `UnixIO` implements it |
| `UnixIOProofs` | that refinement, and two properties of the cache |
| `UnixIOFaultProofs` | what the cache keeps and reports when system calls fail |
| `XfsCache` | the buffer cache of xfs_repair, thread by thread and lock by lock |
| `XfsRepair` | xfs_repair and its copy of the library on top of `RedoLog` (EXTENDS) |
| `UndoLog` | undo file, checker and e2undo |
| `PowerFault` | recorder, worker threads and replayer of the fault injection |
| `MC...` | payloads, model values and constraints for TLC |

### RedoLog

*State.* `rd` is `*redo_data`: the key block in memory, its tag count, the number
of full key blocks, the two offsets, the transaction id and the header. `rp` holds
the locals of `rfsck_replay`. `pc` is where the process is; `"dead"` means that no
process uses the log. `log`, `fh` and `dev` are the log behind its header, the
header and the device as every process sees them (page cache); `logd`, `fhd` and
`devd` are what is on stable storage. The rest are tallies of the bounds and history
variables that only properties read.

*Space* is counted in cells: a key block is one cell, a record of size *s* is *s*
cells, the header is apart. The code's arithmetic on offsets is kept, with
`REDO_LOG_BLOCK_SIZE` as 1.

*Actions* have the names of the functions. A function is one action up to its
`fsync`, which is an action of its own (`fsync_log`, `mark_done_header`), because
what matters between the two is what a crash finds. `rfsck_replay` is split at its
loops: `replay_block` (one round of the loop over key blocks), `replay_skip_tag`,
`replay_begin_tag` and `replay_end_tag` (one round of the loop over tags),
`replay_copy`, `replay_copy_next_block` and `replay_copy_done` (the copy loops),
`replay_mark`, `replay_sync`.

*Failures.* `Fault` lets a system call fail; each action has a disjunct for each
place where the code returns early or ignores the failure. A call that fails writes
nothing: short writes are not split. `Kill` ends the process and keeps the page
cache; `PowerLoss` also drops it; `WriteBack` makes any cell stable at any time.

*Undefined behaviour.* `rfsck_txn_begin` tests a variable that was never assigned;
`UninitRet` is the set of values it may have, and `rfsck_txn_begin_garbage` is the
early return. A tag beyond the last slot is written behind the key block and is not
part of it (`SetTag`). The allocation of `replay_blocks` is one block short
(`redo.c:425`): `blks` is a sequence as long as what was read, what the write behind the
array does to the heap is left out, and that the array suffices is claimed nowhere.

*Abstractions, and why they are safe.*
- The data of a record and its key block are written in one step. Between the two
  writes only a crash can be seen. After a kill the header does not say FINISHED and
  the log is not read; after a power loss the cells of both have been written back, or
  not, independently of each other, because `WriteBack` works on single cells.
- A key block is written whole: torn blocks are not modelled.
- Checksums: of tags and transactions they are compared only to print a message. That
  of the header decides whether it is used, and is the field `valid`.
- Payloads are opaque. A payload that replay takes for a key block reads as `Alias`.
- A client writes only while the header in memory is not FINISHED, unless a system
  call has failed (`Writing`). e2fsck keeps to this: it marks the log only when it is
  done with it, or unmarks it before it goes on. After a failing `redo_mark_done(0)`,
  whose result it ignores, it does not.

### E2fsckRedo

`st` says which library call `main()` makes next, `pass` is the loop variable of
`e2fsck_run`, `flags` is `ctx->flags & E2F_FLAG_RUN_RETURN`, `result` is
`run_result`, `mmp` says that the file system has multi-mount protection (MMP) and that it
is to be started. Each action of `main()` makes at most one call of the library, whose
remaining steps are the action `Library`; the next action waits until it has
returned.

| actions | code |
|---|---|
| `main_open`, `main_reopen` | `try_open_fs`, again for a backup superblock; the `rfsck_open` of `unix_open_channel`; closing before writes blocks if MMP was started |
| `mmp_start` | `ext2fs_mmp_start` at the end of an open: two writes of the MMP block, each with a flush, and its ways to fail |
| `main_begin`, `main_check_end` | the transaction of the checks before the passes |
| `main_journal` | `e2fsck_run_ext3_journal` opens the file system again within the transaction |
| `main_restart` | restart for a busy device, for MMP, which is then started, and after a recovered journal |
| `run_begin`, `run_end`, `run_done` | the loop of `e2fsck_run`; the transaction is begun before the flags are looked at |
| `run_longjmp` | `fatal_error` in a pass, `^C` at a question |
| `main_begin_tail`, `main_end`, `main_mark`, `main_replay`, `main_close` | what follows the passes |
| `main_restart_run`, `restart_mark`, `restart_replay`, `restart_unmark` | restart that a pass asked for |
| `main_fatal`, `main_exit` | `fatal_error` outside of the passes |
| `main_update` | what a stage logs: any blocks in any order, and flushes |
| `signal_cancel` | SIGINT or SIGTERM between any two steps |
| `Crash` | a kill or a power loss |

If `rfsck_open` fails, e2fsck goes on without the library (`st = "off"`); that is
where the model stops following it.

### UnixIO and BlockStore

`cache` and `age` are `data->cache` and the order of its access times, `dev` the device,
`log` the last record of each block in the redo log, `redo` and `bounce` the two switches
that decide where `raw_write_blk` writes. Contents are version numbers: the n-th write
has version n. A call that loops over blocks (`unix_read_blk64`, `unix_write_blk64`) takes
a step for each round (`read_hit`, `read_miss_one`, `read_miss_many`, `write_block`),
because the error handlers of e2fsck call the channel again from within
(`read_fail_many`, `read_direct` and `write_direct` go on block by block, then
`read_save` puts the last one into the entry that was chosen before). The other calls are
one step. `MaxFaults` counts calls of the channel, not system calls: in a call that fails any of
its system calls may, those of the handlers too (`failing`); the user may ignore an
error or let the block be rewritten, as the handlers ask.

The history `crossed` notes an accident of the handlers. They fill the cache while
`unix_read_blk64` waits with an entry chosen before; it then puts a copy of a block in front of
a dirty one of the same block (`read_save`). The next write goes to the copy, and a flush writes
the older one over it. From there on the order of writes is lost.

`BlockStore` is an array of blocks with `Write`, `Read` and `Flush`. The mapping takes a
block's dirty copy, or else the log or the device, for its contents. Two things are weaker
than one would like, because the code is: with the redo log a read that misses the cache
returns the block from the device, as it was before the run (`deferred`), and nothing
is promised after a failing call or if writes bounce past the log (`broken`).

### XfsCache

Threads get a buffer, lock it, change it or not, set its priority and put it back
(`libxfs_getbuf` to `put_mru`); a thread that finds the cache full shakes it (`shake_lock`
to `shake_uncount`) and expands it when nothing can be released. A step ends where a
thread may block or leaves a mutex locked that another may find locked, so that every order
of `ch_mutex`, `cn_mutex`, `cm_mutex`, the buffer lock and the trylocks is tried. If another
thread holds the buffer, a lookup with `LIBXFS_GETBUF_TRYLOCK` puts it back and any other one
waits (`lock_buf`, `pc = "wait"`); a thread uses one buffer at a time, so it never meets its own
lock. When all threads are through, `cache_purge` empties the cache, as `libxfs_umount` does.

libxfs is built with `-DNDEBUG` (`libxfs/Makefile:121`), so a false ASSERT stops nothing: it is
remembered in `failed` and the step goes on. In one place it cannot: after a failed write
`cache_shake` sets `cn_priority` to -1, and a lookup that finds the node before
it is parked uses `c_mrus[-1]` (`cache.c:433`). What the program does then is undefined; the thread is
`"undefined"` and the model ends there, without any thread having finished.

### XfsRepair

The XFS copy of the library differs in one point: `rfsck_replay` does not look at the state
in the header (`xfs_rfsck_open`, `xfs_rfsck_replay`). `st` is the position of `main()`. A
buffer is a cell and holds a set of updates, because an update changes part of a block that
was read before. Phase 1 writes the primary superblock, and `libxfs_log_clear` zeroes the
journal, directly on the device; the phases read and change buffers, which `cache_shake` may
evict at any time; at the end comes `rfsck_txn_begin`, `libxfs_bcache_flush`,
`rfsck_txn_end`, the reformatting of the journal, the purge and the replay. One thread is
modelled: threads are the subject of `XfsCache`, and concurrent calls of `rfsck_write`,
which the code does not lock, of nothing here.

### UndoLog

`file` and `stable` are the undo file as it is read and as a power loss leaves it, `dev` and
`disk` the same for the device. `keyb`, `kblk`, `ublk`, `nkeys` and `map` are fields of
`undo_private_data`; `ucache` is the cache of the undo file's own channel, whose slot order is
the order in which `flush_cached_blocks` writes. A write request goes through `undo_write_tdb`
(one step for each block saved), `flush_cached_blocks` (one for each dirty slot), `write_header`,
`write_super` and `write_device`. `e2undo_load`, `e2undo_replay` and `e2undo_end` are e2undo,
with and without `-f`. A checksum is represented by what it is taken over.

### PowerFault

`pending`, `finished`, `stop` and `sig` are the lists and flags of `bs.c`, `at` and `job` the
position and the command of each worker. A command is numbered under the mutex
(`log_alloc`), then its header, the count, its data and the disk are written in separate steps.
`Kill` is the `killall -9 tgtd` of the scripts; after it, `pfe_replay_failure` takes the record
whole or split into blocks and `pfe_replay_simple` replays one entry at a time.

## 3. What is checked

Twelve runs. Payloads are distinct wherever a mix-up could hide.

### Runs that pass

| run | properties | instance |
|---|---|---|
| `redo_replay` | `ReplayFaithful`, `RecoveryFaithful` | 2 tags per key block, up to 6 calls, records of 1 or 2 cells, device of 2, two kills, 3 processes |
| `redo_crash` | `TypeOK`, `UntouchedUntilFinished`, `FinishedMeansFlushed`, `WriteAhead`, `ReplayEnds` | 2 tags per block, 4 calls, one failing call, one kill, one power loss, 2 processes, both values of the uninitialized `retval` |
| `e2fsck_run` | `RepairsInTransactions`, `RepairsReplayed` | 2 passes, 5 tags per block, 2 repairs, 2 processes |
| `e2fsck_crash` | `AllOrNothing` | 1 pass, 4 tags per block, 2 repairs, one kill and one power loss, both values of `retval` |
| `unix_io` | `TypeOK`, `OneCopy`, `LossReported`, `FlushHonest`, `DeviceUntouched`, `InOrder`, `AbsSpec` | 3 blocks, 2 cache entries, direct from 3 blocks on, 2 writes, one failing call |
| `xfs_cache` | `TypeOK`, `Referenced`, `Bounded`, `NoDirtyReleased`, `PurgeEmpties`, `AssertsHold`, `Ends`, no deadlock | 2 threads with 2 buffers each, 2 keys on one chain, room for 1 node at first, one failing write |
| `xfs_repair` | `XTypeOK`, `NothingDropped`, `RunReplayed`, `RunIsOneUnit` | 3 cells, one of them the journal, 2 updates, 2 processes, one failing call, kill, power loss or garbage `retval` |
| `undo_log` | `TypeOK`, `AcceptedAfterCrash`, `UndoAhead`, `Undone` | 3 blocks, 2 keys per block, extents below 3, 3 writes, 3 runs, 2 e2undos, 2 crashes |
| `power_fault` | `TypeOK`, `RecordsTheOrder`, `ReplayedRange`, `Served` | 2 workers, 2 commands of 3 kinds on 3 cells, blocks of 2 cells, one failing write |

*The library*
- `ReplayFaithful`: the first replay of a log leaves exactly the updates of its ended
  transactions on the device, in order, across key blocks. It needs that no
  transaction but the last ends in the last tag of a key block (the copy loop then leaves
  with `break` and the next transaction is copied from one block too early, `redo.c:524`),
  and that the log was started with transaction 1 (`rfsck_replay` leaves `txn_id` 0, and
  the next transaction is taken for unused tags, `redo.c:431`).
- `RecoveryFaithful`: a log of one transaction survives kills in the replay and in the
  recovery. Not power losses: the replayed mark may reach the disk before the data
  (`redo.c:565`).
- `FinishedMeansFlushed`: if no system call fails, while the header says FINISHED the log
  is on stable storage. Replay's marks on key blocks are excepted, and so is a mark that
  replay writes into a hole that it took for a key block.
- `WriteAhead`: an update reaches the device only from such a log and, if no process
  was killed, with the header on stable storage too. (A process killed between writing
  the header and flushing it leaves a FINISHED header in the page cache, which the next
  one replays without flushing it.)
- `UntouchedUntilFinished`: until a FINISHED header was written, the device is as it
  was, in the cache and on stable storage.
- `ReplayEnds`: every replay ends.

*e2fsck*
- `RepairsInTransactions`: the checks, the passes and the tail of e2fsck call `rfsck_write`
  only between `rfsck_txn_begin` and `rfsck_txn_end`, unless a begin returned its garbage `retval`. It is
  about the calls: a begin whose write fails counts as one. On a file system with MMP it is not true of
  opening and closing: e2fsck restarts to start MMP, and the MMP block is then written
  before `main()` begins the transaction (`unix.c:1615`).
- `RepairsReplayed`: an e2fsck that was not disturbed, and whose replay at the end is its first, closes the log with all repairs
  on stable storage, also on top of the log file that an aborted process left. A process
  that finds a FINISHED log, as every complete run leaves one, replays it at open and is not covered:
  its first transaction gets the number 0 and is lost. Nor is a log in which a transaction ends in the last
  tag of a key block. A process
  that a pass restarts is not covered: `e2fsck_run` begins a transaction before it looks at
  the flags (`e2fsck.c:245`) and `main()` begins another; replay takes the second for an end.
- `AllOrNothing`: if a process crashes or aborts before it replays, the repairs of all
  stages are one unit: after the recovery the device holds all of them or none. It needs that the
  log starts with transaction 1, that its calls of begin and end alternate, and that no transaction but
  the last ends in the last tag of a key block.
- `AbsSpec`: the cache implements `BlockStore`. `InOrder`: no older version of a block is
  written over a newer one, whatever fails, until two copies are crossed. `OneCopy`: no block is cached twice (the error
  handler's reads can bring that about, so only without failures). `LossReported`: a version
  that is neither cached nor written was reported to the user; on the way to the log there
  is no report, so there only without failures, and it too ends where two copies are crossed. `FlushHonest`: a flush that returns 0 has made
  everything stable; with the log again only without failures, as `unix_flush` overwrites the
  error of `flush_cached_blocks`, and only until two copies are crossed. `DeviceUntouched`: with the log the device is not written.

*xfs_repair*
- All of this holds up to a use of `c_mrus[-1]`, where the model ends. `Referenced`: reference counts
  are the numbers of users, and a buffer in use stays on its chain. Nothing is claimed of a key having
  one buffer: two threads that miss at the same time make two (`cache.c:459`). `Bounded`: the cache
  keeps to its limit. `NoDirtyReleased`: no dirty buffer is released before the purge; the purge itself
  does it when `cache_flush`, which ignores errors, could not write one. `PurgeEmpties`: a purge that is
  reached leaves nothing. `AssertsHold`: the conditions of the ASSERTs of `cache.c` are true if no
  write fails; after a failing one `cn_priority` is -1 for a moment (`cache.c:255`, 198) and they need
  not be. `Ends`: every thread is served, also one that waits for a buffer another thread holds, and the
  run ends, or a thread uses `c_mrus[-1]`, which by `AssertsHold` takes a failed write.
- `NothingDropped`: without a failing system call, an update is on the device, in a buffer or in the
  log until the process ends. `RunReplayed`: a run whose updates all went through its transaction is on stable storage
  after the replay. `RunIsOneUnit`: killed at any point, or after a power loss that comes
  neither in the flush of `rfsck_txn_end` nor in a replay (`torn`), it is recovered as one unit. Both need
  that the run starts with transaction 1, that no dirty buffer was evicted, that nothing was written
  directly, and that the tags fit in one key block, because the header's `num_keys` stays 0. The first
  condition excludes every process whose `rfsck_open` replayed a finished or an empty log: `txn_id` is
  left at 0 (`libxfs/redo.c:431`), replay takes its tags for unused ones (474-477), and all its updates are lost.

*The undo log*
- `UndoAhead`: a block that has changed on the device has its first contents on stable storage,
  under keys that the header counts. `AcceptedAfterCrash`: what a stop or a crash of the checker leaves
  passes e2undo's checks of keys and data; only the superblock may be refused (it must match the saved
  copy unless `-f` is given). `Undone`: an e2undo that reports no error has restored the device, apart from
  the valid bit of the superblock, which e2undo clears. All three
  exclude two accidents of a reopened file: a new key behind a full key block (run
  `claim_undo_reopen`), and a crash in the first record after the reopen, when the key block,
  which already has a cache slot, is written before its data (`TornRecord`).

*The fault injection*
- `RecordsTheOrder`: replaying the whole record gives the disk of the killed target, apart from
  commands it had not answered. It needs that no write failed, that the count was not overtaken
  (it is written outside the mutex, `powerfault.c:180`), and that no overlapping commands were
  in flight together. `ReplayedRange`: for a target killed
  when idle, a range of numbers, whole or split, gives in each cell the last recorded write of the range.
  `Served`: no command is left waiting. (`bs_thread_close` itself may wait for ever: it sets
  `stop` without the lock, `bs.c:382`.)

*The bounds.* The interesting places of a log are the ends of key blocks, the boundary between
two transactions and the points between two writes. Two tags per key block put
the boundary of a block at a begin, a record and an end; four to six calls give two
transactions and up to three key blocks. One interruption of each kind at every step, or a
second one in the recovery, reaches every point that the code distinguishes: it looks at nothing
but the header, the marks and the tags. A cache of two entries with three blocks has hits,
misses and evictions; a buffer cache with room for one node makes both threads shake and expand.
Three writes in three runs fill a key block of two keys, extend a key, reopen the file and start
a second key block. Two commands of two workers have every interleaving of two recordings.
That larger instances bring nothing new is an argument, not a result, except
for what section 4 proves. `CONSTRAINT`s only cut off
clients that do not bracket their updates, or keep their logs short (`Bracketed`, `OneLogOrMisuse`),
later processes that start logs of their own (`OneLog`, `FirstRepairs`), more than two repairs
(`FewRepairs`), and more than one trouble in xfs_repair (`OneTrouble`, with write-back only where
a power loss can still come: `WriteBackMatters`). None of them cuts off a replay that has begun, so
`ReplayEnds` is not weakened. Except in `xfs_cache`, deadlock is not checked: a checker may stop at
any time, and bounded counters cut behaviours short.

*Fairness.* `RedoLog!FairSpec`: weak fairness of `Replay`; a process in `rfsck_replay` keeps running
until it returns or dies. It is sequential code without waiting. `XfsCache!FairSpec`: weak fairness of
every thread's steps and of the purge; threads are scheduled by the kernel, and a mutex that is free
is obtained, which for the few threads and finitely many operations needs no strong fairness.
`PowerFault!FairSpec`: weak fairness of the workers, of the signal that follows a submission and of the
event loop's handling of SIGUSR2, which is level-triggered. No fairness is assumed of callers, of
write-back or of failures.

### Runs that find a violation

Each checks one sentence of the documentation or of a comment, and TLC finds a behaviour of the code
that contradicts it.

| run | sentence | behaviour |
|---|---|---|
| `claim_atomic_kill` | rfsck-lib README:27, "one atomic unit" | after a kill between two transactions recovery skips the first without moving the data offset; the second gets the first one's data |
| `claim_one_transaction` | README:37, "updates of the entire run of xfs_repair as one transaction" | a dirty buffer evicted in a phase is logged before the transaction begins and is not replayed |
| `claim_undo_reopen` | `undo_io.c:886`, "First write the existing content into database" | reopening an undo file with a full last key block: the next key is put behind the block but counted in the header, so the keys cannot be walked and what the first run saved is out of reach; then the device block of the lost key is overwritten |

Met on the way and not given a run of their own, besides the conditions above:
- A process whose `rfsck_open` replays a FINISHED log, as every normal run of e2fsck
  leaves one (`unix.c:2061` is commented out), also starts with `txn_id` 0.
- `rfsck_txn_begin` may return before it has written anything (`redo.c:57`), while
  rfsck-lib README:21 says it "creates a transaction begin index in the redo log".
- `rfsck_close` does not flush (`redo.c:650`), while rfsck-lib README:37 says so.
- After a failing header write of `redo_mark_done(0)` the library logs into a file whose
  header says FINISHED (`redo.c:626-640`).

## 4. What is proved

The theorems hold for every size of key block, log, device and cache, every payload and every
number of processes, kills, power losses, replays and passes. They assume
`RedoLogAssumption` (constants are natural numbers, buffers are sequences of at most
`MaxSize` payloads, `Alias` is a key block), for e2fsck also that `NumPasses` is a natural
number, for the cache `UnixIOAssumption` (natural numbers, at least one entry), and no fairness.
They are about the models, with the abstractions of section 2.

| theorem | statement |
|---|---|
| `TypeCorrect` | `Spec => []TypeOK` |
| `Untouched` | `Spec => []UntouchedUntilFinished` |
| `FinishedFlushed` | `Spec => []FinishedMeansFlushed`, which itself speaks of states with `faults = 0` |
| `WritesAhead` | `Spec => WriteAhead`, which itself speaks of steps with `faults = 0` |
| `UsesLibrary` | `ESpec => Spec` |
| `E2fsckUntouched`, `E2fsckWritesAhead` | the same for e2fsck |
| `E2fsckBrackets` | `ESpec => RepairsInTransactions` |
| `Implements` | `Spec => AbsSpec` of `UnixIO` |
| `CachedOnce` | `Spec => []OneCopy` |
| `OnlyTheLog` | `Spec => []DeviceUntouched` |
| `ChannelTyped` | `Spec => []TypeOK` of `UnixIO` |
| `LossesReported`, `FlushesHonest` | `Spec => []LossReported`, `Spec => []FlushHonest` |
| `WritesInOrder` | `Spec => InOrder` |

*`TypeCorrect`.* The replay loops index `replay_blocks` with the block of the begin tag
and with the loop variable. That these were read before is not inductive, since
`txn_begin_blk` is also looked at between key blocks: `TypeInv` adds that it is 0 or
the index of a block that was read, also while no block is being looked at, and that
the tag counter is in range while records are copied.

*`Untouched`.* `UntouchedInv`: until a FINISHED header was written, neither header, in
the cache or on disk, says FINISHED, and no replay is running. Only a replay changes
the device, and a replay starts only from a FINISHED header in the cache, which comes
from a write or, after a power loss, from the disk.

*`FinishedFlushed`, `WritesAhead`.* `FlushInv` says, as long as no system call has
failed, `FinishedMeansFlushed` and four more things. `HeaderInv`: the header in memory is
the one in the file whenever the client can be called, and a replay runs only under a
FINISHED header; so a log that is being written does not say FINISHED. `KeybInv`: while
the header in memory says FINISHED, the key block in memory is the one in the file and on
stable storage, up to marks; so a later flush, which writes it again, changes nothing
else. `BlksInv`: the key blocks that replay holds lie at increasing addresses and are the
ones in the file, or lie in a hole; so marking one brings no old contents back.
`StableInv`: the header on stable storage is the one in the cache, unless a process was
killed or the fsync is still to come; `WriteAhead` needs it. `FinishedMeansFlushed` alone
says nothing of these and is not inductive. After a power loss the cache is the stable
copy, and it holds at once. The exception for holes is there because that replay never
looks behind the end of the log would need an induction over the layout of the log.

*`UsesLibrary`.* The implementation is step by step: every action of e2fsck is one
action of the library, or leaves the library's variables alone.

*`E2fsckBrackets`.* `StageInv`: in a stage that repairs, and if no begin has returned its garbage
`retval`, a transaction is open (`Open`), and the log in memory has been used (`Used`: its key block has a tag, or
its offset has moved on), so that the `rfsck_open` of the journal recovery does not start it anew. The lemmas
say how a call of begin, write or end extends the sequence of calls, and that it keeps the log used.

*`Implements`.* Initial states map to initial states, and every step of the channel maps to a write,
a read, a flush, a failure or a stutter. The step needs `IOInv`: as long as nothing has failed and
nothing bounces, `GoodInv` says that no block is cached twice, that a clean entry of the cache holds
what the device holds, and that the loops are within their bounds (`LoopInv`); with the log the
device is unchanged, which is why a clean entry may be older than the store and the abstract read
has its `deferred` clause. `FlushOK` and `EvictOK` say that moving a dirty block to the log or the
device leaves the contents of the store as they are; once something has failed, every step maps to `Fail`.

*`CachedOnce`.* `OneInv` keeps the bounds of the loops beside `OneCopy`: an entry is only refilled with a
block that was looked up and not found in the same step, and the block is then within the device.

*`OnlyTheLog`.* Every action leaves the device alone in log mode (`WritesToLog`), whatever fails.

*`ChannelTyped`, `LossesReported`, `FlushesHonest`, `WritesInOrder`.* One inductive invariant for all four,
`FaultInv`, which holds whatever fails. Neither claim is inductive by itself: what is written last has to
stay findable, and a flush must not write an older copy after it. `First` says why it does not: until
two copies are crossed, a dirty entry is the first of its block in the cache, so that a lookup finds it and
there is one of them, and it holds the last version. The rest says that the loops stay within the device (`Spans`),
that entries and storage hold no version newer than the last write (`Entries`, `Ordered`), that the side
that is not written stays as it was (`Sides`), and that a direct call finds the cache flushed or empty (`Emptied`).

*Model-checked only.* Liveness under fairness (`ReplayEnds`, `Ends`, `Served`); what a replay leaves
on the device (`ReplayFaithful`, `RecoveryFaithful`, `RepairsReplayed`,
`AllOrNothing`, `RunReplayed`, `RunIsOneUnit`), which needs an induction over the log's layout; and everything about
`XfsCache`, `XfsRepair`, `UndoLog` (whose key walk is recursive) and `PowerFault`.

## 5. What is not modelled

- Nearly all lines of the repository are those of upstream e2fsprogs, xfsprogs and tgt: what the passes
  and phases repair, the libraries under them, the SCSI and iSCSI layers, documentation and tests of
  other tools. They enter only as blocks that may be written, so the modelled lines are a small share
  of the whole source; of what the repository adds, the library, its two users, the patched undo log and the
  recorder are modelled.
- Library: short writes, torn key blocks, a log file larger than `MaxAddr`, several checkers on
  one device at once, the heap behind `replay_blocks` (one block short, `redo.c:425`) and behind a key block.
- e2fsck after a failing `rfsck_open`, when it writes to the device directly.
- `unix_io`: `unix_zeroout` and `unix_discard`, which bypass the log, `unix_set_option`, readahead,
  O_DIRECT, the write-through mode that e2fsck never sets, and the silent success of the error handlers while
  e2fsck exits (`E2F_FLAG_EXITING`).
- xfs_repair: several threads in `rfsck_write` at once; the purge of a single node on a length mismatch, for
  which the cache is not created.
- Undo log: failing I/O (a block is marked as saved before it is, `undo_io.c:378`), e2undo's `-n`, `-z`, `-h`,
  offsets, key blocks with a bad checksum under `-f`, and file systems whose block size is not the undo file's.
- Fault injection: commands other than writes (`WRITE_SAME` and `UNMAP` are not recorded,
  `bs_rdwr.c:260`) and the failure types that `pfe_replay_failure` ignores.
