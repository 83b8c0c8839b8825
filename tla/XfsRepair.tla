------------------------------ MODULE XfsRepair ------------------------------
(***************************************************************************)
(* How xfs_repair uses the redo log: main() of                             *)
(* src/rfsck-xfs/repair/xfs_repair.c with the buffers of libxfs/rdwr.c and *)
(* the devices of libxfs/init.c, on top of the library modelled by         *)
(* RedoLog.  The copy of the library in libxfs/redo.c differs in one       *)
(* thing: rfsck_replay does not look at the state in the header, and       *)
(* xfs_repair never calls redo_mark_done.                                  *)
(*                                                                         *)
(* A buffer is one cell of the device, and what it holds is the set of the *)
(* updates that were applied to it: an update changes a part of a block    *)
(* that was read before.  Threads and reference counts are the subject of  *)
(* XfsCache; here a buffer that nobody uses may be evicted at any time.    *)
(***************************************************************************)
EXTENDS RedoLog, FiniteSets

CONSTANTS
    MaxUpdates,     \* bound: updates by all processes
    Journal         \* the cell of the device that stands for the XFS journal

ASSUME XfsRepairAssumption == MaxUpdates \in Nat /\ Journal \in DevAddr

VARIABLES
    st,         \* position of main()
    buf,        \* the buffer cache: contents of the cached cells
    dirty,      \* LIBXFS_B_DIRTY
    todo,       \* buffers that libxfs_bcache_flush has still to visit
    made,       \* history: the number of updates made
    want,       \* history: the updates a cell had after phase 1, and later ones
    astray,     \* history: an update bypassed the transaction of this log
    torn        \* history: a power loss in the flush of this log, or in a replay

cache   == <<buf, dirty, todo>>
intent  == <<made, want, astray, torn>>
driver  == <<st, cache, intent>>
xvars   == <<vars, driver>>

Uncached    == [kind |-> "uncached"]
Cached(S)   == [kind |-> "cached", val |-> S]
Contents(c) == IF c.kind = "data" THEN c.val ELSE {}
OnDevice    == [a \in DevAddr |-> Contents(dev[a])]

XInit ==
    /\ Init
    /\ st = "open" /\ buf = [a \in DevAddr |-> Uncached] /\ dirty = {} /\ todo = {}
    /\ made = 0 /\ want = [a \in DevAddr |-> {}] /\ astray = FALSE /\ torn = FALSE

At(s)   == st = s /\ pc = "idle"
GoTo(s) == st' = s /\ UNCHANGED <<cache, intent>>

\* the process ends; the next one starts from the beginning
NewProcess ==
    /\ st' = "open" /\ buf' = [a \in DevAddr |-> Uncached] /\ dirty' = {} /\ todo' = {}
    /\ UNCHANGED <<made, want, astray>>

-----------------------------------------------------------------------------
(* The copy of the library.                                                *)

\* rfsck_replay: any log with a valid header
StartReplay(r, n) ==
    /\ n < MaxReplays /\ replays' = n + 1 /\ pc' = "block"
    /\ rd' = [r EXCEPT !.txn_id = 0] /\ rp' = ReplayStart(fh.num_keys)

\* mutant: the check of the state, as in the other copies of the library
xfs_rfsck_open_checked ==
    /\ pc = "dead" /\ runs < MaxRuns /\ runs' = runs + 1
    /\ from' = "open"
    /\ \/ Finished /\ NoFault /\ StartReplay(Fresh, 0)
       \/ /\ ~Finished /\ NoFault
          /\ pc' = "open_hdr" /\ rd' = Fresh /\ replays' = 0 /\ UNCHANGED rp
    /\ UNCHANGED <<md, disk, ghost, kills, losses>>

xfs_rfsck_open ==
    /\ pc = "dead" /\ runs < MaxRuns /\ runs' = runs + 1
    /\ from' = "open"
    /\ \/ fh.valid /\ NoFault /\ StartReplay(Fresh, 0)
       \/ /\ IF fh.valid THEN Fault ELSE NoFault
          /\ pc' = "open_hdr" /\ rd' = Fresh /\ replays' = 0 /\ UNCHANGED rp
    /\ UNCHANGED <<md, disk, ghost, kills, losses>>

xfs_rfsck_replay ==
    /\ pc = "idle"
    /\ \/ fh.valid /\ NoFault /\ StartReplay(rd, replays) /\ from' = "call"
       \/ /\ IF fh.valid THEN Fault ELSE NoFault
          /\ UNCHANGED <<pc, from, rd, rp, replays>>
    /\ UNCHANGED <<md, disk, ghost, kills, losses, runs>>

\* __write_buf of a buffer: dirty' and the like are up to the caller
Logged(a)   == rfsck_write(a, <<buf[a].val>>) /\ UNCHANGED faults
Unlogged(a) == rfsck_write(a, <<buf[a].val>>) /\ faults' # faults

-----------------------------------------------------------------------------
(* The phases.                                                             *)

\* libxfs_device_open; main() goes on to phase 1
device_open == st = "open" /\ xfs_rfsck_open /\ GoTo("phase1")

\* phase 1 replaces a bad primary superblock, directly on the device
write_primary_sb(a) ==
    /\ At("phase1") /\ made < MaxUpdates /\ a # Journal
    /\ dev' = [dev EXCEPT ![a] = Data(Contents(@) \cup {made + 1})]
    /\ made' = made + 1 /\ astray' = TRUE
    /\ UNCHANGED <<st, cache, want, torn, pc, from, md, rd, rp, log, logd, fh, fhd, devd, ghost, tally>>

phase1_done ==
    /\ At("phase1") /\ st' = "phase2"
    /\ want' = OnDevice
    /\ UNCHANGED <<vars, cache, made, astray, torn>>

\* libxfs_log_clear: the journal is zeroed on the device; the record that is
\* then written there is a buffer of its own, which goes to the redo log
log_clear(next) ==
    /\ pc = "idle" /\ made < MaxUpdates
    /\ dev' = [dev EXCEPT ![Journal] = Data({})]
    /\ buf' = [buf EXCEPT ![Journal] = Cached({made + 1})]
    /\ made' = made + 1 /\ want' = [want EXCEPT ![Journal] = {made + 1}]
    /\ astray' = TRUE /\ st' = next
    /\ UNCHANGED <<dirty, todo, torn, pc, from, md, rd, rp, log, logd, fh, fhd, devd, ghost, tally>>

\* libxfs_putbufr, whose result is ignored
log_record(next) ==
    /\ pc = "idle" /\ rfsck_write(Journal, <<buf[Journal].val>>)
    /\ buf' = [buf EXCEPT ![Journal] = Uncached] /\ st' = next
    /\ UNCHANGED <<dirty, todo, intent>>

\* zero_log of phase 2, with -L or without
zero_log        == st = "phase2" /\ log_clear("phase2_rec")
zero_log_record == st = "phase2_rec" /\ log_record("phases")
zero_log_skip   == At("phase2") /\ UNCHANGED vars /\ GoTo("phases")

libxfs_readbuf(a) ==
    /\ At("phases") /\ a # Journal /\ buf[a] = Uncached
    /\ buf' = [buf EXCEPT ![a] = Cached(Contents(dev[a]))]
    /\ UNCHANGED <<vars, st, dirty, todo, intent>>

libxfs_writebuf(a) ==
    /\ At("phases") /\ buf[a] # Uncached /\ made < MaxUpdates
    /\ buf' = [buf EXCEPT ![a].val = @ \cup {made + 1}]
    /\ dirty' = dirty \cup {a}
    /\ made' = made + 1 /\ want' = [want EXCEPT ![a] = @ \cup {made + 1}]
    /\ UNCHANGED <<vars, st, todo, astray, torn>>

\* mutant: a dirty buffer is evicted without being written
shake_unwritten(a) ==
    /\ At("phases") /\ buf[a] # Uncached
    /\ buf' = [buf EXCEPT ![a] = Uncached] /\ dirty' = dirty \ {a}
    /\ UNCHANGED <<vars, st, todo, intent>>

\* mutant: the evicted buffer stays marked
shake_still_dirty(a) ==
    /\ At("phases") /\ buf[a] # Uncached
    /\ \/ a \notin dirty /\ UNCHANGED vars
       \/ a \in dirty /\ Logged(a)
    /\ buf' = [buf EXCEPT ![a] = Uncached]
    /\ UNCHANGED <<st, dirty, todo, intent>>

\* cache_shake takes the buffer, unless it cannot be written
cache_shake(a) ==
    /\ At("phases") /\ buf[a] # Uncached
    /\ \/ a \notin dirty /\ buf' = [buf EXCEPT ![a] = Uncached]
          /\ UNCHANGED <<vars, dirty, astray>>
       \/ a \in dirty /\ Logged(a) /\ astray' = TRUE
          /\ buf' = [buf EXCEPT ![a] = Uncached] /\ dirty' = dirty \ {a}
       \/ a \in dirty /\ Unlogged(a) /\ astray' = TRUE /\ UNCHANGED <<buf, dirty>>
    /\ UNCHANGED <<st, todo, made, want, torn>>

-----------------------------------------------------------------------------
(* The end of main().                                                      *)

\* libxfs_bflush passes over S: buffers that cache_shake could not write and
\* that nobody used since
main_begin ==
    /\ At("phases") /\ (rfsck_txn_begin \/ rfsck_txn_begin_garbage)
    /\ st' = "flush"
    /\ \E S \in SUBSET dirty : Cardinality(S) <= faults /\ todo' = dirty \ S
    /\ UNCHANGED <<buf, dirty, intent>>

\* libxfs_bcache_flush: every dirty buffer, in the order of the hash table
bcache_flush(a) ==
    /\ At("flush") /\ a \in todo /\ todo' = todo \ {a}
    /\ \/ Logged(a) /\ dirty' = dirty \ {a}
       \/ Unlogged(a) /\ UNCHANGED dirty
    /\ UNCHANGED <<st, buf, intent>>

main_end == At("flush") /\ todo = {} /\ rfsck_txn_end /\ GoTo("format")

\* format_log_max_lsn: the journal is behind the newest metadata, or not
format_log        == st = "format" /\ log_clear("format_rec")
format_log_record == st = "format_rec" /\ log_record("umount")
format_log_skip   == At("format") /\ UNCHANGED vars /\ GoTo("umount")

\* libxfs_umount: libxfs_bcache_purge; buffers with an error are not retried
umount ==
    /\ At("umount") /\ st' = "close"
    /\ buf' = [a \in DevAddr |-> Uncached] /\ dirty' = {}
    /\ UNCHANGED <<vars, todo, intent>>

\* libxfs_device_close: platform_flush_device, then the replay
device_flush ==
    /\ At("close") /\ devd' = dev
    /\ GoTo("replay")
    /\ UNCHANGED <<pc, from, md, rd, rp, log, logd, fh, fhd, dev, ghost, tally>>

\* mutant: the log is left to the next rfsck_open
device_close_unreplayed == At("replay") /\ UNCHANGED vars /\ GoTo("done")

device_close == At("replay") /\ xfs_rfsck_replay /\ GoTo("done")
main_exit    == At("done") /\ rfsck_close /\ NewProcess /\ UNCHANGED torn

-----------------------------------------------------------------------------

\* the rest of a library call; if rfsck_open fails, libxfs_device_open exits
Library ==
    /\ fsync_log \/ Replay \/ open_header
    /\ IF pc' = "dead" THEN NewProcess /\ UNCHANGED torn
       ELSE /\ IF pc = "open_hdr" THEN astray' = FALSE /\ torn' = FALSE
                                  ELSE UNCHANGED <<astray, torn>>
            /\ UNCHANGED <<st, cache, made, want>>

Crash ==
    /\ \/ Kill /\ UNCHANGED torn
       \/ PowerLoss /\ torn' = (torn \/ pc = "sync" \/ replays > 0)
    /\ NewProcess

Phases ==
    \/ device_open \/ phase1_done \/ zero_log \/ zero_log_record \/ zero_log_skip
    \/ \E a \in DevAddr : write_primary_sb(a) \/ libxfs_readbuf(a) \/ libxfs_writebuf(a)
                            \/ cache_shake(a)

End ==
    \/ main_begin \/ main_end \/ format_log \/ format_log_record \/ format_log_skip
    \/ umount \/ device_flush \/ device_close \/ main_exit
    \/ \E a \in DevAddr : bcache_flush(a)

XNext == Phases \/ End \/ Library \/ Crash \/ (WriteBack /\ UNCHANGED driver)

XSpec == XInit /\ [][XNext]_xvars

-----------------------------------------------------------------------------
(* Properties.                                                             *)

\* Positions, buffers and histories stay in their ranges; a dirty buffer is in
\* the cache, and only the flush has buffers to visit.
XTypeOK ==
    /\ st \in {"open", "phase1", "phase2", "phase2_rec", "phases", "flush", "format",
               "format_rec", "umount", "close", "replay", "done"}
    /\ buf \in [DevAddr -> {Uncached} \cup [kind : {"cached"}, val : SUBSET (1..MaxUpdates)]]
    /\ dirty \subseteq {a \in DevAddr : buf[a] # Uncached}
    /\ todo \subseteq dirty /\ (todo # {} => st = "flush")
    /\ made \in 0..MaxUpdates /\ want \in [DevAddr -> SUBSET (1..MaxUpdates)]
    /\ astray \in BOOLEAN /\ torn \in BOOLEAN

\* Every update of the phases and of the journal is on the device, in a cached
\* buffer or in a record of the log at any time until the process ends: the
\* cache evicts, flushes and purges no buffer that was not logged.  It is
\* claimed as long as no system call fails: a buffer whose write failed is
\* dropped when the cache is purged.
Recorded(a) == UNION {hist[i].buf[1] : i \in {j \in DOMAIN hist :
                        hist[j].op = "W" /\ hist[j].off = a}}

NothingDropped ==
    (faults = 0 /\ pc = "idle" /\ st \notin {"open", "phase1"})
    => \A a \in DevAddr :
          want[a] \subseteq Contents(dev[a]) \cup Recorded(a)
                            \cup (IF buf[a] = Uncached THEN {} ELSE buf[a].val)

\* The run is transaction 1, in the only key block that replay reads: the number
\* of key blocks in the header stays 0.  A process whose rfsck_open has replayed
\* a finished or an empty log starts with txn_id 0 (redo.c:431), and replay takes
\* the tags of transaction 0 for unused (redo.c:474-477): all its updates are
\* lost.  start = 1 excludes such a run, and Len(hist) <= KPB one that needs a
\* second key block.
OneTransaction == ~early /\ ~astray /\ start = 1 /\ Len(hist) <= KPB

\* A run of xfs_repair that starts with transaction 1 (its rfsck_open replayed
\* no log), evicted no dirty buffer, wrote nothing past the log, and whose tags
\* fit in one key block, has every update on the device, on stable storage, when
\* libxfs_device_close has replayed the log, also if the run before it was killed
\* before its transaction ended.
RunReplayed ==
    (At("done") /\ faults = 0 /\ OneTransaction) => OnDevice = want /\ devd = dev

\* If such a run (OneTransaction) is killed at any point, in the replay too, or if the power is
\* lost before the replay and not in the flush of rfsck_txn_end, its updates are
\* one unit: when rfsck_open of the next run has dealt with the log, the device
\* holds all of them if the transaction had ended, and else none.
RunIsOneUnit ==
    (pc = "open_hdr" /\ faults = 0 /\ ~torn /\ OneTransaction /\ hist # <<>>)
    => dev = IF hist[Len(hist)].op = "E" THEN After(hist, Len(hist)) ELSE base

\* README of the repository on rfsck-xfs: "we consider updates of the entire run
\* of xfs_repair as one transaction": when the run has replayed it, the updates
\* that its phases made to buffers are on the device.
EntireRun ==
    (At("done") /\ faults = 0 /\ ~early /\ start = 1 /\ Len(hist) <= KPB)
    => \A a \in DevAddr \ {Journal} : OnDevice[a] = want[a]
=============================================================================
