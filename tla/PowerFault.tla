----------------------------- MODULE PowerFault -----------------------------
(***************************************************************************)
(* The fault injection framework rfsck-test: the tgtd target whose worker  *)
(* threads (usr/bs.c) serve write commands, record them (pfe_log_io_req of *)
(* usr/powerfault.c) and write them to the backing file (bs_rdwr_request   *)
(* of usr/bs_rdwr.c), and the program (usr/pfe_replay.c) that replays a    *)
(* prefix of the record, whole commands or pieces of them, on an image of  *)
(* the disk as it was.                                                     *)
(*                                                                         *)
(* Offsets and lengths count cells, and BS cells make pfe_io_block_size.   *)
(* Cell k of the n-th command holds <<n, k>>.                              *)
(***************************************************************************)
EXTENDS Naturals, Sequences, FiniteSets, FiniteSetsExt, SequencesExt

CONSTANTS
    Workers,      \* the worker threads
    DiskSize,     \* cells of the disk
    BS,           \* pfe_io_block_size
    Requests,     \* the writes the initiator may send: [off, len]
    MaxCmds,      \* bound: commands
    Starts, Ends, \* the first and last numbers pfe_replay may be given
    MaxFaults     \* bound: failing writes

Cells == 0 .. DiskSize - 1

ASSUME PowerFaultAssumption ==
    /\ DiskSize \in Nat /\ BS \in Nat \ {0} /\ MaxCmds \in Nat
    /\ Workers # {}
    /\ \A r \in Requests : r.off \in Nat /\ r.len \in Nat \ {0} /\ r.off + r.len <= DiskSize

VARIABLES
    cmds,         \* the commands submitted so far
    pending,      \* info->pending_list
    stop,         \* info->stop
    finished,     \* finished_list
    sig,          \* SIGUSR2 is pending at the signalfd
    done,         \* the commands answered to the initiator
    main,         \* where the event loop is
    at, job,      \* per worker: where it is; its command and its io_header
    pfe_io_id, pfe_io_datalog_offset,
    header,       \* the io header log, without its first entry
    super_head,   \* the id field of its first entry
    datalog,      \* the io data log
    disk,         \* the backing file
    order,        \* history: the commands by io number
    faults,       \* the failing writes so far
    clash,        \* history: overlapping commands were in flight together
    rp,           \* pfe_replay: the header log it reads, i, last_id
    img           \* the image it writes

queue == <<cmds, pending, stop, finished, sig, done, main>>
record == <<pfe_io_id, pfe_io_datalog_offset, header, super_head, datalog, order, faults>>
replay == <<rp, img>>
vars == <<queue, at, job, record, disk, clash, replay>>

Old == <<0, 0>>
Blank == [c \in Cells |-> Old]
NoJob == [cmd |-> 0, id |-> 0, dl |-> 0]
NoHeader == [off |-> 0, len |-> 0, dl |-> 0]
Idle == [on |-> FALSE, split |-> FALSE, log |-> <<>>, asked |-> <<0, 0>>, i |-> 0, last |-> 0]

Extent(off, len) == off .. off + len - 1
InFlight == {n \in 1 .. Len(cmds) : n \notin done}

\* pwrite of the cells x of command n (cell k of it at address off + k)
Written(f, off, x) == [c \in DOMAIN f \cup Extent(off, Len(x)) |->
                          IF c \in Extent(off, Len(x)) THEN x[c - off + 1] ELSE f[c]]
Payload(n) == [k \in 1 .. cmds[n].len |-> <<n, k>>]

Init ==
    /\ cmds = <<>> /\ pending = <<>> /\ stop = FALSE /\ finished = {} /\ sig = FALSE
    /\ done = {} /\ main = "loop"
    /\ at = [w \in Workers |-> "check"] /\ job = [w \in Workers |-> NoJob]
    /\ pfe_io_id = 1 /\ pfe_io_datalog_offset = 0
    /\ header = [i \in {} |-> NoHeader] /\ super_head = 0 /\ datalog = [c \in {} |-> Old]
    /\ disk = Blank /\ order = <<>> /\ faults = 0 /\ clash = FALSE
    /\ rp = Idle /\ img = Blank

-----------------------------------------------------------------------------
(* The event loop of tgtd.                                                   *)

\* bs_thread_cmd_submit: queue the command under the lock, then signal
bs_thread_cmd_submit(r) ==
    /\ main = "loop" /\ Len(cmds) < MaxCmds
    /\ cmds' = Append(cmds, r)
    /\ pending' = Append(pending, Len(cmds) + 1)
    /\ clash' = (clash \/ \E n \in InFlight :
                    Extent(cmds[n].off, cmds[n].len) \cap Extent(r.off, r.len) # {})
    /\ main' = "signal"
    /\ UNCHANGED <<stop, finished, sig, done, at, job, record, disk, replay>>

Waiting == {w \in Workers : at[w] = "wait"}

\* mutant: nobody is woken
cond_signal_none ==
    /\ main = "signal" /\ main' = "loop"
    /\ UNCHANGED <<cmds, pending, stop, finished, sig, done, at, job, record, disk, clash, replay>>

\* pthread_cond_signal wakes one of the waiting threads, if there is one
cond_signal ==
    /\ main = "signal" /\ main' = "loop"
    /\ \/ Waiting = {} /\ UNCHANGED at
       \/ \E w \in Waiting : at' = [at EXCEPT ![w] = "woken"]
    /\ UNCHANGED <<cmds, pending, stop, finished, sig, done, job, record, disk, clash, replay>>

\* bs_sig_request_done: read the signals, then answer everything on finished_list
sig_read ==
    /\ main = "loop" /\ sig
    /\ sig' = FALSE /\ main' = "splice"
    /\ UNCHANGED <<cmds, pending, stop, finished, done, at, job, record, disk, clash, replay>>

bs_sig_request_done ==
    /\ main = "splice" /\ main' = "loop"
    /\ done' = done \cup finished /\ finished' = {}
    /\ UNCHANGED <<cmds, pending, stop, sig, at, job, record, disk, clash, replay>>

\* bs_thread_close, of a unit without active commands
bs_thread_close ==
    /\ main = "loop" /\ InFlight = {}
    /\ stop' = TRUE /\ main' = "broadcast"
    /\ UNCHANGED <<cmds, pending, finished, sig, done, at, job, record, disk, clash, replay>>

cond_broadcast ==
    /\ main = "broadcast" /\ main' = "join"
    /\ at' = [w \in Workers |-> IF at[w] = "wait" THEN "woken" ELSE at[w]]
    /\ UNCHANGED <<cmds, pending, stop, finished, sig, done, job, record, disk, clash, replay>>

bs_thread_join ==
    /\ main = "join" /\ \A w \in Workers : at[w] = "exit"
    /\ main' = "closed" /\ stop' = FALSE
    /\ UNCHANGED <<cmds, pending, finished, sig, done, at, job, record, disk, clash, replay>>

\* pfe_scripts end a recording with killall -9 tgtd: nothing is left but the files
Kill ==
    /\ cmds # <<>> /\ main # "killed" /\ main' = "killed"
    /\ pending' = <<>> /\ finished' = {} /\ sig' = FALSE /\ stop' = FALSE
    /\ at' = [w \in Workers |-> "exit"] /\ job' = [w \in Workers |-> NoJob]
    /\ UNCHANGED <<cmds, done, record, disk, clash, replay>>

-----------------------------------------------------------------------------
(* The worker threads.                                                       *)

Move(w, from, to) == at[w] = from /\ at' = [at EXCEPT ![w] = to]

\* while (!info->stop)
worker_check(w) ==
    /\ Move(w, "check", IF stop THEN "exit" ELSE "test")
    /\ UNCHANGED <<queue, job, record, disk, clash, replay>>

\* under pending_lock: take the first pending command, or wait for one
worker_take(w) ==
    /\ \/ /\ pending # <<>> /\ Move(w, "test", "alloc")
          /\ job' = [job EXCEPT ![w].cmd = Head(pending)]
          /\ pending' = Tail(pending)
       \/ pending = <<>> /\ Move(w, "test", "wait") /\ UNCHANGED <<job, pending>>
    /\ UNCHANGED <<cmds, stop, finished, sig, done, main, record, disk, clash, replay>>

\* after pthread_cond_wait: leave, or test the list again
worker_woken(w) ==
    /\ Move(w, "woken", IF stop THEN "exit" ELSE "test")
    /\ UNCHANGED <<queue, job, record, disk, clash, replay>>

\* mutant: the first command gets number 0
log_alloc_from_zero(w) ==
    /\ Move(w, "alloc", "header")
    /\ job' = [job EXCEPT ![w].id = pfe_io_id - 1, ![w].dl = pfe_io_datalog_offset]
    /\ pfe_io_id' = pfe_io_id + 1
    /\ pfe_io_datalog_offset' = pfe_io_datalog_offset + cmds[job[w].cmd].len
    /\ order' = Append(order, job[w].cmd)
    /\ UNCHANGED <<queue, header, super_head, datalog, faults, disk, clash, replay>>

\* pfe_log_io_req between lock and unlock: the command gets its number and the
\* place of its data
log_alloc(w) ==
    /\ Move(w, "alloc", "header")
    /\ job' = [job EXCEPT ![w].id = pfe_io_id, ![w].dl = pfe_io_datalog_offset]
    /\ pfe_io_id' = pfe_io_id + 1
    /\ pfe_io_datalog_offset' = pfe_io_datalog_offset + cmds[job[w].cmd].len
    /\ order' = Append(order, job[w].cmd)
    /\ UNCHANGED <<queue, header, super_head, datalog, faults, disk, clash, replay>>

\* A log write that fails ends pfe_log_io_req, and bs_rdwr_request ignores it.
LogFails(w, from) ==
    /\ faults < MaxFaults /\ faults' = faults + 1
    /\ Move(w, from, "disk")
    /\ UNCHANGED <<header, super_head, datalog>>

log_header(w) ==
    /\ \/ /\ Move(w, "header", "count")
          /\ LET r == cmds[job[w].cmd]
             IN  header' = [i \in DOMAIN header \cup {job[w].id} |->
                              IF i = job[w].id THEN [off |-> r.off, len |-> r.len, dl |-> job[w].dl]
                              ELSE header[i]]
          /\ UNCHANGED <<super_head, datalog, faults>>
       \/ LogFails(w, "header")
    /\ UNCHANGED <<queue, job, pfe_io_id, pfe_io_datalog_offset, order, disk, clash, replay>>

\* the number of commands, outside the mutex: the last thread to write it wins
log_count(w) ==
    /\ \/ Move(w, "count", "data") /\ super_head' = job[w].id /\ UNCHANGED <<header, datalog, faults>>
       \/ LogFails(w, "count")
    /\ UNCHANGED <<queue, job, pfe_io_id, pfe_io_datalog_offset, order, disk, clash, replay>>

log_data(w) ==
    /\ \/ /\ Move(w, "data", "disk")
          /\ datalog' = Written(datalog, job[w].dl, Payload(job[w].cmd))
          /\ UNCHANGED <<header, super_head, faults>>
       \/ LogFails(w, "data")
    /\ UNCHANGED <<queue, job, pfe_io_id, pfe_io_datalog_offset, order, disk, clash, replay>>

\* mutant: a short write counts as a write
write_disk_short(w) ==
    /\ Move(w, "disk", "finish")
    /\ \/ disk' = Written(disk, cmds[job[w].cmd].off, Front(Payload(job[w].cmd))) /\ UNCHANGED faults
       \/ faults < MaxFaults /\ faults' = faults + 1 /\ UNCHANGED disk
    /\ UNCHANGED <<queue, job, pfe_io_id, pfe_io_datalog_offset, header, super_head, datalog, order,
                   clash, replay>>

\* the write itself, in bs_rdwr_request; when it fails the command ends with an error
write_disk(w) ==
    /\ Move(w, "disk", "finish")
    /\ \/ disk' = Written(disk, cmds[job[w].cmd].off, Payload(job[w].cmd)) /\ UNCHANGED faults
       \/ faults < MaxFaults /\ faults' = faults + 1 /\ UNCHANGED disk
    /\ UNCHANGED <<queue, job, pfe_io_id, pfe_io_datalog_offset, header, super_head, datalog, order,
                   clash, replay>>

\* under finished_lock: hand the command back
worker_finish(w) ==
    /\ Move(w, "finish", "kill")
    /\ finished' = finished \cup {job[w].cmd}
    /\ job' = [job EXCEPT ![w] = NoJob]
    /\ UNCHANGED <<cmds, pending, stop, sig, done, main, record, disk, clash, replay>>

\* kill(getpid(), SIGUSR2): signals that are pending already merge
worker_kill(w) ==
    /\ Move(w, "kill", "check")
    /\ sig' = TRUE
    /\ UNCHANGED <<cmds, pending, stop, finished, done, main, job, record, disk, clash, replay>>

-----------------------------------------------------------------------------
(* pfe_replay.                                                               *)

HeaderAt(i) == IF i \in DOMAIN header THEN header[i] ELSE NoHeader

\* pfe_split_io_log for one header
Pieces(h) ==
    LET piece(j, n) == [off |-> h.off + BS * j, len |-> n, dl |-> h.dl + BS * j]
        whole == [j \in 1 .. h.len \div BS |-> piece(j - 1, BS)]
    IN  IF h.len <= BS THEN <<h>>
        ELSE IF h.len % BS = 0 THEN whole
        ELSE Append(whole, piece(h.len \div BS, h.len % BS))

pfe_split_io_log == FlattenSeq([i \in 1 .. super_head |-> Pieces(HeaderAt(i))])
whole_io_log == [i \in 1 .. super_head |-> HeaderAt(i)]

\* mutant: a split record is clipped to the number of commands
pfe_replay_failure_clipped(split, start, end) ==
    LET l == IF split THEN pfe_split_io_log ELSE whole_io_log
    IN  /\ main = "killed" /\ ~rp.on
        /\ rp' = [on |-> TRUE, split |-> split, log |-> l, asked |-> <<start, end>>,
                  i |-> IF start < 1 THEN 1 ELSE start,
                  last |-> IF super_head < end THEN super_head ELSE end]
        /\ UNCHANGED <<queue, at, job, record, disk, clash, img>>

\* main and pfe_replay_failure: the range is clipped to the commands of the log
pfe_replay_failure(split, start, end) ==
    LET l == IF split THEN pfe_split_io_log ELSE whole_io_log
    IN  /\ main = "killed" /\ ~rp.on
        /\ rp' = [on |-> TRUE, split |-> split, log |-> l, asked |-> <<start, end>>,
                  i |-> IF start < 1 THEN 1 ELSE start,
                  last |-> IF Len(l) < end THEN Len(l) ELSE end]
        /\ UNCHANGED <<queue, at, job, record, disk, clash, img>>

Zeros == <<0, 1>>

\* pfe_replay_simple: from the data log to the image; the buffer is zeroed
pfe_replay_simple ==
    LET h == rp.log[rp.i]
        buf == [k \in 1 .. h.len |->
                  IF h.dl + k - 1 \in DOMAIN datalog THEN datalog[h.dl + k - 1] ELSE Zeros]
    IN  /\ rp.on /\ rp.i <= rp.last
        /\ img' = Written(img, h.off, buf)
        /\ rp' = [rp EXCEPT !.i = @ + 1]
        /\ UNCHANGED <<queue, at, job, record, disk, clash>>

Work(w) ==
    \/ worker_check(w) \/ worker_take(w) \/ worker_woken(w)
    \/ log_alloc(w) \/ log_header(w) \/ log_count(w) \/ log_data(w)
    \/ write_disk(w) \/ worker_finish(w) \/ worker_kill(w)

EventLoop ==
    \/ \E r \in Requests : bs_thread_cmd_submit(r)
    \/ cond_signal \/ sig_read \/ bs_sig_request_done
    \/ bs_thread_close \/ cond_broadcast \/ bs_thread_join

Replayer ==
    \/ \E b \in BOOLEAN, s \in Starts, e \in Ends : pfe_replay_failure(b, s, e)
    \/ pfe_replay_simple

Next == EventLoop \/ Kill \/ Replayer \/ \E w \in Workers : Work(w)

Spec == Init /\ [][Next]_vars

\* the threads are scheduled, and the event loop polls its descriptors
FairSpec == /\ Spec
            /\ \A w \in Workers : WF_vars(Work(w))
            /\ WF_vars(cond_signal) /\ WF_vars(sig_read) /\ WF_vars(bs_sig_request_done)

-----------------------------------------------------------------------------
(* Properties.                                                               *)

\* Every variable has its type: a thread that serves a command has one, and the
\* headers are those of numbers pfe_log_io_req has given.
TypeOK ==
    /\ cmds \in Seq(Requests) /\ \A i \in DOMAIN pending : pending[i] \in 1 .. Len(cmds)
    /\ stop \in BOOLEAN /\ sig \in BOOLEAN /\ clash \in BOOLEAN
    /\ finished \cup done \subseteq 1 .. Len(cmds)
    /\ main \in {"loop", "signal", "splice", "broadcast", "join", "closed", "killed"}
    /\ \A w \in Workers :
         /\ at[w] \in {"check", "test", "wait", "woken", "exit", "alloc", "header", "count",
                       "data", "disk", "finish", "kill"}
         /\ at[w] \in {"alloc", "header", "count", "data", "disk", "finish"}
              <=> job[w].cmd \in 1 .. Len(cmds)
    /\ DOMAIN header \subseteq 1 .. pfe_io_id - 1
    /\ super_head \in {0} \cup DOMAIN header
    /\ DOMAIN datalog \subseteq 0 .. DiskSize * MaxCmds - 1
    /\ DOMAIN disk = Cells /\ DOMAIN img = Cells
    /\ faults \in 0 .. MaxFaults

Replayed == rp.on /\ rp.i > rp.last

\* Replaying the whole record on the disk as it was gives the disk the target had
\* when it was killed, but for the cells of commands it had not answered:
\* pfe_log_io_req numbers the commands in an order that explains the backing file,
\* whatever the threads of bs.c did. This needs that no write failed, that the count
\* of the record was not overtaken by the count of an earlier command, and that no
\* two overlapping commands were in flight together.
RecordsTheOrder ==
    /\ Replayed /\ faults = 0 /\ ~clash
    /\ \A p \in DOMAIN order : order[p] \in done => p <= super_head
    /\ rp.asked[1] <= 1 /\ rp.last = Len(rp.log)
    => \A c \in Cells :
         (\A n \in InFlight : c \notin Extent(cmds[n].off, cmds[n].len)) => img[c] = disk[c]

\* The number of the command, or of the piece of it, that holds cell k of the
\* command with number p.
Number(p, k) ==
    LET part(j) == IF rp.split THEN (j - 1) \div BS + 1 ELSE 1
    IN  MapThenSumSet(LAMBDA q : part(cmds[order[q]].len), 1 .. p - 1) + part(k)

\* pfe_replay on a range of numbers gives the image that holds, in every cell, the
\* last of the recorded commands of the range that wrote it, and the old contents
\* where none did: pfe_split_io_log cuts commands without losing, moving or
\* reordering a cell, and pfe_replay_failure clips the range to the record. This is
\* for a target killed when idle, after no write failed.
ReplayedRange ==
    Replayed /\ faults = 0 /\ InFlight = {} =>
      \A c \in Cells :
        LET hits == {p \in 1 .. super_head :
                       LET r == cmds[order[p]]
                       IN  /\ c \in Extent(r.off, r.len)
                           /\ Number(p, c - r.off + 1) \in rp.asked[1] .. rp.asked[2]}
            last == Max(hits)
        IN  img[c] = IF hits = {} THEN Old ELSE <<order[last], c - cmds[order[last]].off + 1>>

\* Every command that bs_thread_cmd_submit queues is answered, unless tgtd is killed: the condition
\* variable of the pending list and the merged SIGUSR2 lose no wake-up.
Served == \A n \in 1 .. MaxCmds : n <= Len(cmds) ~> n \in done \/ main = "killed"

=============================================================================
