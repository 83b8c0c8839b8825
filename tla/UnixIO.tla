------------------------------- MODULE UnixIO -------------------------------
(***************************************************************************)
(* The I/O channel of e2fsck, src/rfsck-ext/lib/ext2fs/unix_io.c: a cache  *)
(* of a few blocks in front of the device, or of the redo log.             *)
(*                                                                         *)
(* With the redo log enabled a block that leaves the cache goes to the log *)
(* (rfsck_write), and a read that misses the cache goes to the device.     *)
(* Contents are version numbers: the n-th write of all has version n.      *)
(* Of the log only the last record of each block is kept; RedoLog has the  *)
(* rest of it.  The calls that loop over blocks take a step for each round *)
(* of the loop, the others are one step.                                   *)
(***************************************************************************)
EXTENDS Integers

CONSTANTS
    NBlocks,            \* blocks of the device
    CACHE_SIZE,         \* entries of the cache: 8 in the code
    WRITE_DIRECT_SIZE,  \* more blocks than this bypass the cache: 4 in the code
    MaxWrites,          \* bound: writes, a direct write of many blocks being one
    MaxFaults           \* bound: calls in which system calls fail, be it several of one call

Block == 0..(NBlocks - 1)
Entry == 1..CACHE_SIZE

ASSUME UnixIOAssumption ==
    /\ NBlocks \in Nat /\ MaxWrites \in Nat /\ MaxFaults \in Nat
    /\ CACHE_SIZE \in Nat \ {0} /\ WRITE_DIRECT_SIZE \in Nat

VARIABLES
    redo,       \* is_redo_enabled
    bounce,     \* IO_FLAG_FORCE_BOUNCE, which only matters with the redo log
    pc,         \* where the channel is: between calls, or in a loop over blocks
    blk, cnt,   \* block and count of the loop
    reuse,      \* reuse[] of unix_read_blk64 while the error handler reads
    cache,      \* data->cache, without the access times
    age,        \* order of the access times: 0 for the latest
    dev,        \* the device
    log,        \* the last record of each block in the redo log, 0: none
    faults,     \* calls in which a system call failed
    failing,    \* one failed in the current call
    clock,      \* history: how many writes there were
    want,       \* history: version of the last write of each block
    got,        \* history: what the last call returned, if it was a read
    synced,     \* history: versions that were flushed to stable storage
    told,       \* history: versions whose failing write the caller was told of
    crossed,    \* history: a copy was put before the dirty one of its block
    honest      \* history: no unix_flush returned 0 in vain

mode  == <<redo, bounce>>
kept  == <<mode, crossed>>
loop  == <<pc, blk, cnt, reuse>>
writes == <<clock, want>>
flushes == <<synced, honest>>
fails == <<faults, failing>>
hist  == <<writes, got, flushes, told, crossed>>
vars  == <<mode, loop, cache, age, dev, log, fails, hist>>

Unread == -1
NoReuse == [entry |-> 1, blk |-> 0, n |-> 0, left |-> 0]
Unused  == [in_use |-> FALSE, dirty |-> FALSE, block |-> 0, buf |-> 0]

Nothing == [b \in Block |-> Unread]

Init ==
    /\ redo \in BOOLEAN /\ bounce \in {FALSE, redo}
    /\ pc = "idle" /\ blk = 0 /\ cnt = 0 /\ reuse = NoReuse
    /\ cache = [e \in Entry |-> Unused] /\ age = [e \in Entry |-> e - 1]
    /\ dev = [b \in Block |-> 0] /\ log = [b \in Block |-> 0]
    /\ faults = 0 /\ failing = FALSE /\ clock = 0
    /\ want = [b \in Block |-> 0] /\ synced = want /\ told = want
    /\ honest = TRUE /\ crossed = FALSE
    /\ got = Nothing

-----------------------------------------------------------------------------
(* The cache.                                                              *)

\* f: a system call fails in this step; the error handler, and the rest of the
\* call, may meet more failures
Failing(f) ==
    /\ IF f /\ ~failing THEN faults < MaxFaults /\ faults' = faults + 1 ELSE UNCHANGED faults
    /\ failing' = ((f \/ failing) /\ pc' \notin {"idle", "closed"})

Dirty(e)   == cache[e].in_use /\ cache[e].dirty
Holding(b) == {e \in Entry : cache[e].in_use /\ cache[e].block = b}

\* Mutant: find_cached_block does not look at the last entry.
CachedButLast(b) == Holding(b) \ {CACHE_SIZE} # {}

Cached(b) == Holding(b) # {}
Span(b, n) == {x \in Block : b <= x /\ x < b + n}

\* find_cached_block of a block that is cached: the first such entry
Found(b) == {e \in Holding(b) : \A x \in Holding(b) : e <= x}

\* find_cached_block of another block: the first unused entry, or the oldest
Eldest ==
    LET free == {e \in Entry : ~cache[e].in_use}
    IN  IF free # {} THEN {e \in free : \A x \in free : e <= x}
                     ELSE {e \in Entry : \A x \in Entry : age[x] <= age[e]}

\* access_time = ++data->access_time, in the order a
Touch(a, e) == [x \in Entry |-> IF x = e THEN 0
                                ELSE IF a[x] < a[e] THEN a[x] + 1 ELSE a[x]]

\* raw_write_blk writes to the log or to the device.  A failing write to the
\* log is only returned; of another one the error handler tells the user.
LogMode == redo /\ ~bounce

Put(f, S, v) == [b \in Block |-> IF b \in S THEN v[b] ELSE f[b]]

RawWrite(S, v) ==
    IF LogMode THEN log' = Put(log, S, v) /\ UNCHANGED dev
               ELSE dev' = Put(dev, S, v) /\ UNCHANGED log

\* Mutant: reuse_cache does not write the entry back.
EvictUnwritten(e, fail) == ~fail /\ UNCHANGED <<dev, log, told>>

\* reuse_cache: a dirty entry is written first; fail: its write fails, which
\* is not looked at
Evict(e, fail) ==
    LET S == IF Dirty(e) THEN {cache[e].block} ELSE {}
        v == [b \in Block |-> cache[e].buf]
    IN  /\ fail => Dirty(e)
        /\ IF fail THEN UNCHANGED <<dev, log>> ELSE RawWrite(S, v)
        /\ told' = IF fail /\ ~LogMode THEN Put(told, S, v) ELSE told

Refilled(e, b, v, d) ==
    [cache EXCEPT ![e] = [in_use |-> TRUE, dirty |-> d, block |-> b, buf |-> v]]

\* history: a write of the blocks S
Written(S) ==
    /\ clock' = clock + 1
    /\ want' = [b \in Block |-> IF b \in S THEN clock + 1 ELSE want[b]]

BlocksOf(X) == {cache[e].block : e \in X}

\* the entries X are written one after the other: of two of a block the second stays
Last(X, b) == CHOOSE e \in X : cache[e].block = b /\ \A x \in X : cache[x].block = b => x <= e
BufsOf(X)  == [b \in Block |-> IF b \in BlocksOf(X) THEN cache[Last(X, b)].buf ELSE 0]

\* flush_cached_blocks: the entries in F cannot be written; for those in G the
\* user ignores the error; returned: the caller passes the error on
Flush(F, G, invalidate, returned) ==
    LET D == {e \in Entry : Dirty(e)}
    IN  /\ F \subseteq D /\ G \subseteq F /\ (LogMode => G = {})
        /\ RawWrite(BlocksOf(D \ F), BufsOf(D \ F))
        /\ cache' = [e \in Entry |->
                       IF invalidate THEN Unused
                       ELSE [cache[e] EXCEPT !.dirty = @ /\ e \notin (D \ F) \cup G]]
        /\ told' = IF returned \/ ~LogMode THEN Put(told, BlocksOf(F), BufsOf(F)) ELSE told
        /\ UNCHANGED <<kept, age>>

\* a call begins and ends
Call   == pc = "idle" /\ got' = Nothing
Return == pc' = "idle" /\ blk' = 0 /\ cnt' = 0 /\ reuse' = NoReuse

\* Mutant: if the log cannot take a block, the cache is kept and the call goes on.
FlushThenAnyway(p, b, n, invalidate) ==
    \E F \in SUBSET Entry, G \in SUBSET Entry :
       /\ Flush(F, G, invalidate /\ (LogMode => F = {}), TRUE)
       /\ IF LogMode \/ F = G THEN pc' = p /\ blk' = b /\ cnt' = n /\ UNCHANGED reuse ELSE Return
       /\ Failing(F # {})
       /\ UNCHANGED <<writes, flushes>>

\* a call that first flushes the cache, and fails if that does
FlushThen(p, b, n, invalidate) ==
    \E F \in SUBSET Entry, G \in SUBSET Entry :
       /\ Flush(F, G, invalidate, TRUE)
       /\ IF F = G THEN pc' = p /\ blk' = b /\ cnt' = n /\ UNCHANGED reuse ELSE Return
       /\ Failing(F # {})
       /\ UNCHANGED <<writes, flushes>>

-----------------------------------------------------------------------------
(* Reading.  count < 0 stands for an odd number of bytes of one block.     *)

Blocks(count) == IF count < 0 THEN 1 ELSE count
Direct(count) == count < 0 \/ count > WRITE_DIRECT_SIZE
Counts        == {-1} \cup 1..NBlocks

unix_read_blk64(b, count) ==
    /\ Call /\ b + Blocks(count) <= NBlocks
    /\ IF Direct(count)
         THEN FlushThen("read_direct", b, Blocks(count), FALSE)
         ELSE /\ pc' = "read" /\ blk' = b /\ cnt' = count
              /\ UNCHANGED <<kept, reuse, cache, age, dev, log, fails, writes, flushes, told>>

Got(S) == got' = Put(got, S, dev)

\* zeros are returned, and the next version is to hold them
Zeros(b) == got' = [got EXCEPT ![b] = clock + 1]

\* If several blocks cannot be read, the error handler reads them one by one.
\* If a single one cannot, it may be told to ignore the error, and to rewrite
\* the block, with zeros.
read_direct ==
    /\ pc = "read_direct"
    /\ \/ Got(Span(blk, cnt)) /\ Return /\ Failing(FALSE) /\ UNCHANGED cache
       \/ UNCHANGED <<got, cache>> /\ Return /\ Failing(TRUE)
       \/ /\ cnt > 1 /\ pc' = "read_each" /\ Failing(TRUE)
          /\ UNCHANGED <<got, cache, blk, cnt, reuse>>
       \/ /\ cnt = 1 /\ clock < MaxWrites
          /\ pc' = "write_direct" /\ Failing(TRUE) /\ cache' = [e \in Entry |-> Unused]
          /\ Zeros(blk) /\ UNCHANGED <<blk, cnt, reuse>>
    /\ UNCHANGED <<kept, age, dev, log, writes, flushes, told>>

\* Mutant: the loop runs while count >= 0.
AdvanceOnceMore(n) ==
    IF cnt >= n THEN blk' = blk + n /\ cnt' = cnt - n /\ UNCHANGED <<pc, reuse>>
    ELSE IF reuse.n > 0 THEN pc' = "read_save" /\ UNCHANGED <<blk, cnt, reuse>>
    ELSE Return

\* the loop goes on behind n blocks
Advance(n) ==
    IF cnt > n THEN blk' = blk + n /\ cnt' = cnt - n /\ UNCHANGED <<pc, reuse>>
    ELSE IF reuse.n > 0 THEN pc' = "read_save" /\ UNCHANGED <<blk, cnt, reuse>>
    ELSE Return

read_hit ==
    /\ pc \in {"read", "read_each"}
    /\ \E e \in Found(blk) :
          /\ age' = Touch(age, e)
          /\ got' = [got EXCEPT ![blk] = cache[e].buf]
    /\ Advance(1) /\ Failing(FALSE)
    /\ UNCHANGED <<kept, cache, dev, log, writes, flushes, told>>

\* The last block is read into its cache entry.  If it cannot be: the call fails,
\* or the error is ignored, the buffer holding zeros, or the zeros are written.
read_miss_one ==
    /\ pc = "read_each" \/ (pc = "read" /\ cnt = 1)
    /\ ~Cached(blk)
    /\ \E e \in Eldest, fw \in BOOLEAN, fr \in BOOLEAN :
          /\ Evict(e, fw) /\ age' = Touch(age, e)
          /\ \/ /\ ~fr /\ cache' = Refilled(e, blk, dev[blk], FALSE)
                /\ Got({blk}) /\ Advance(1) /\ UNCHANGED writes
             \/ /\ fr /\ cache' = [cache EXCEPT ![e] = Unused] /\ Return
                /\ UNCHANGED <<got, writes>>
             \/ /\ fr /\ cache' = Refilled(e, blk, Unread, FALSE)
                /\ Advance(1) /\ UNCHANGED <<got, writes>>
             \/ /\ fr /\ clock < MaxWrites /\ cache' = Refilled(e, blk, clock + 1, TRUE)
                /\ Written({blk}) /\ Zeros(blk) /\ Advance(1)
          /\ Failing(fw \/ fr)
    /\ UNCHANGED <<kept, flushes>>

\* n blocks up to the next cached one; reuse[] holds the same entry n times
Uncached(n) ==
    /\ \A x \in Span(blk, n) : ~Cached(x)
    /\ n = cnt \/ Cached(blk + n)

AgeOfHit(n) == IF n = cnt THEN {age} ELSE {Touch(age, e) : e \in Found(blk + n)}

read_miss_many ==
    /\ pc = "read" /\ cnt > 1
    /\ \E n \in 1..cnt, e \in Eldest : \E a \in AgeOfHit(n), fw \in BOOLEAN :
          /\ Uncached(n) /\ Evict(e, fw) /\ age' = Touch(a, e)
          /\ cache' = Refilled(e, blk + n - 1, dev[blk + n - 1], FALSE)
          /\ Got(Span(blk, n)) /\ Advance(n) /\ Failing(fw)
    /\ UNCHANGED <<kept, writes, flushes>>

\* They cannot be read: the call fails, or the handler reads them one by one, or
\* the error of a single one is ignored, or its zeros are written.
read_fail_many ==
    /\ pc = "read" /\ cnt > 1
    /\ \E n \in 1..cnt, e \in Eldest : \E a \in AgeOfHit(n) :
          /\ Uncached(n) /\ age' = a
          /\ \/ Return /\ UNCHANGED got
             \/ /\ cnt' = n /\ UNCHANGED blk
                /\ reuse' = [entry |-> e, blk |-> blk + n - 1, n |-> n, left |-> cnt - n]
                /\ \/ n > 1 /\ pc' = "read_each" /\ UNCHANGED got
                   \/ n = 1 /\ pc' = "read_save" /\ UNCHANGED got
                   \/ n = 1 /\ clock < MaxWrites /\ pc' = "write_each" /\ Zeros(blk)
    /\ Failing(TRUE)
    /\ UNCHANGED <<kept, cache, dev, log, writes, flushes, told>>

\* after which the entry chosen before takes the last of them
read_save ==
    /\ pc = "read_save"
    /\ \E fw \in BOOLEAN :
          /\ Evict(reuse.entry, fw)
          /\ age' = Touch(age, reuse.entry)
          /\ cache' = Refilled(reuse.entry, reuse.blk, got[reuse.blk], FALSE)
          /\ crossed' = (crossed \/ \E x \in Holding(reuse.blk) : x > reuse.entry /\ cache[x].dirty)
          /\ IF reuse.left > 0
               THEN pc' = "read" /\ blk' = reuse.blk + 1 /\ cnt' = reuse.left /\ reuse' = NoReuse
               ELSE Return
          /\ Failing(fw)
    /\ UNCHANGED <<mode, writes, got, flushes>>

-----------------------------------------------------------------------------
(* Writing.                                                                *)

Writable(b, count) ==
    /\ b + Blocks(count) <= NBlocks
    /\ clock + (IF Direct(count) THEN 1 ELSE count) <= MaxWrites

\* Mutant: a direct write flushes the cache but leaves it valid.
write_uninvalidated(b, count) ==
    /\ Call /\ Writable(b, count)
    /\ IF Direct(count)
         THEN FlushThen("write_direct", b, Blocks(count), FALSE)
         ELSE /\ pc' = "write" /\ blk' = b /\ cnt' = count
              /\ UNCHANGED <<kept, reuse, cache, age, dev, log, fails, writes, flushes, told>>

unix_write_blk64(b, count) ==
    /\ Call /\ Writable(b, count)
    /\ IF Direct(count)
         THEN FlushThen("write_direct", b, Blocks(count), TRUE)
         ELSE /\ pc' = "write" /\ blk' = b /\ cnt' = count
              /\ UNCHANGED <<kept, reuse, cache, age, dev, log, fails, writes, flushes, told>>

\* One round of the loop: the block goes to the cache.  The error handlers, too,
\* write one block at a time.
write_block ==
    /\ pc \in {"write", "write_each"}
    /\ Written({blk}) /\ Advance(1)
    /\ \/ /\ \E e \in Found(blk) :
                /\ cache' = Refilled(e, blk, clock + 1, TRUE)
                /\ age' = Touch(age, e)
          /\ Failing(FALSE) /\ UNCHANGED <<dev, log, told>>
       \/ /\ ~Cached(blk)
          /\ \E e \in Eldest, fw \in BOOLEAN :
                /\ Evict(e, fw) /\ Failing(fw)
                /\ cache' = Refilled(e, blk, clock + 1, TRUE)
                /\ age' = Touch(age, e)
    /\ UNCHANGED <<kept, got, flushes>>

\* The first n blocks are written.  If not all can be, the error handler writes
\* them one by one, through the cache; there is none for the log, whose record
\* of the write is left out or complete.
write_direct ==
    /\ pc = "write_direct"
    /\ \E n \in 0..cnt :
          /\ LogMode => n \in {0, cnt}
          /\ RawWrite(Span(blk, n), [b \in Block |-> clock + 1])
          /\ IF n > 0 THEN Written(Span(blk, n)) ELSE UNCHANGED writes
          /\ \/ Return
             \/ /\ n < cnt /\ ~LogMode /\ cnt > 1
                /\ pc' = "write_each" /\ UNCHANGED <<blk, cnt, reuse>>
          /\ Failing(n < cnt)
    /\ UNCHANGED <<kept, cache, age, got, flushes, told>>

\* a few bytes of a block, past the cache
unix_write_byte(b) ==
    /\ Call /\ Writable(b, 1)
    /\ FlushThen("write_byte", b, 1, TRUE)

\* Mutant: is_redo_enabled is not looked at.
write_byte_past_log ==
    /\ pc = "write_byte" /\ Return
    /\ \/ /\ Failing(FALSE) /\ Written({blk})
          /\ LET v == [b \in Block |-> clock + 1]
             IN  dev' = Put(dev, {blk}, v) /\ UNCHANGED log
       \/ Failing(TRUE) /\ UNCHANGED <<dev, log, writes>>
    /\ UNCHANGED <<kept, cache, age, got, flushes, told>>

write_byte ==
    /\ pc = "write_byte" /\ Return
    /\ \/ /\ Failing(FALSE) /\ Written({blk})
          /\ LET v == [b \in Block |-> clock + 1]
             IN  IF redo THEN log' = Put(log, {blk}, v) /\ UNCHANGED dev
                         ELSE dev' = Put(dev, {blk}, v) /\ UNCHANGED log
       \/ Failing(TRUE) /\ UNCHANGED <<dev, log, writes>>
    /\ UNCHANGED <<kept, cache, age, got, flushes, told>>

-----------------------------------------------------------------------------
(* The other calls.                                                        *)

\* Mutant: only the file is flushed, the cache is not.
flush_file_only ==
    /\ Call
    /\ synced' = IF redo THEN log ELSE dev
    /\ honest' = (honest /\ \A b \in Block : want[b] \in {synced'[b], told[b]})
    /\ UNCHANGED <<kept, loop, cache, age, dev, log, fails, writes, told>>

\* With the redo log the result of rfsck_flush takes the place of an error of
\* flush_cached_blocks.
unix_flush ==
    /\ Call
    /\ UNCHANGED <<loop, writes>>
    /\ \E F \in SUBSET Entry, G \in SUBSET Entry, f \in BOOLEAN :
          /\ Flush(F, G, FALSE, ~redo \/ f) /\ Failing(F # {} \/ f)
          /\ IF f \/ (~redo /\ F # G)
               THEN UNCHANGED flushes
               ELSE /\ synced' = IF redo THEN log' ELSE dev'
                    /\ honest' = (honest /\ \A b \in Block : want[b] \in {synced'[b], told'[b]})

\* the buffers are allocated anew, unless the cache cannot be flushed
unix_set_blksize ==
    /\ Call /\ UNCHANGED <<loop, writes, flushes>>
    /\ \E F \in SUBSET Entry, G \in SUBSET Entry :
          Flush(F, G, F = G, TRUE) /\ Failing(F # {})

\* whatever could not be flushed is gone
unix_close ==
    /\ Call /\ pc' = "closed" /\ UNCHANGED <<blk, cnt, reuse, writes, flushes>>
    /\ \E F \in SUBSET Entry, G \in SUBSET Entry :
          Flush(F, G, TRUE, TRUE) /\ Failing(F # {})

Next ==
    \/ \E b \in Block, count \in Counts :
          unix_read_blk64(b, count) \/ unix_write_blk64(b, count)
    \/ \E b \in Block : unix_write_byte(b)
    \/ read_direct \/ read_hit \/ read_miss_one \/ read_miss_many
    \/ read_fail_many \/ read_save
    \/ write_block \/ write_direct \/ write_byte
    \/ unix_flush \/ unix_set_blksize \/ unix_close

Spec == Init /\ [][Next]_vars

-----------------------------------------------------------------------------
(* Properties.                                                             *)

\* The position in the loop, the cache, the versions and the histories have their
\* types: the loops over blocks of unix_read_blk64 and unix_write_blk64 stay within
\* the device, and reuse[] within the cache.
TypeOK ==
    /\ redo \in BOOLEAN /\ bounce \in BOOLEAN
    /\ pc \in {"idle", "closed", "read", "read_direct", "read_each", "read_save",
               "write", "write_each", "write_direct", "write_byte"}
    /\ blk \in Block \cup {0} /\ cnt \in 0..NBlocks
    /\ reuse \in [entry : Entry, blk : Block \cup {0}, n : 0..NBlocks, left : 0..NBlocks]
    /\ cache \in [Entry -> [in_use : BOOLEAN, dirty : BOOLEAN,
                            block : Block \cup {0}, buf : Nat \cup {Unread}]]
    /\ age \in [Entry -> Nat]
    /\ {dev, log, want, synced, told} \subseteq [Block -> Nat]
    /\ got \in [Block -> Nat \cup {Unread}]
    /\ faults \in 0..MaxFaults /\ failing \in BOOLEAN /\ clock \in Nat /\ honest \in BOOLEAN /\ crossed \in BOOLEAN

\* No block is in two entries of the cache: find_cached_block would return the
\* first of them, and flush_cached_blocks write the second one over it.  The
\* error handler can bring this about, so it is claimed for runs without errors.
OneCopy ==
    faults = 0 =>
      \A e, x \in Entry : (cache[e].in_use /\ cache[x].in_use /\ cache[e].block = cache[x].block)
                          => e = x

\* What was written last is in the cache, in the log or on the device, or the
\* user was told that it was not: reuse_cache drops the error, but the handler
\* is called before.  It is not for the log, so nothing is claimed of that, nor
\* after the read error handler has put a copy of a block before a dirty one: the
\* next write then goes to the copy, and the older one is written over it.
Held(b) == \/ want[b] \in {dev[b], log[b]}
           \/ \E e \in Holding(b) : cache[e].dirty /\ cache[e].buf = want[b]

LossReported ==
    (LogMode => faults = 0) /\ ~crossed => \A b \in Block : Held(b) \/ told[b] = want[b]

\* After unix_flush returned 0, what was written before is on stable storage,
\* unless the user was told.
FlushHonest ==
    (redo => faults = 0 /\ ~bounce) /\ ~crossed => honest

\* No write of an older version of a block reaches the log or the device after
\* a newer one, whatever fails, until the read error handler crosses two copies of
\* a block: the cache and the direct writes keep the order.
InOrder == [][~crossed => \A b \in Block : dev'[b] >= dev[b] /\ log'[b] >= log[b]]_vars

\* With the redo log enabled the device is not written, unless writes bounce.
DeviceUntouched == LogMode => \A b \in Block : dev[b] = 0

\* The channel implements a block store: a block holds what its dirty copy, or
\* else the log or the device, holds.
Contents ==
    [b \in Block |->
       LET d == {e \in Holding(b) : cache[e].dirty}
       IN  IF d # {} THEN cache[CHOOSE e \in d : TRUE].buf
           ELSE IF redo THEN log[b] ELSE dev[b]]

Abs == INSTANCE BlockStore WITH
    store <- Contents, stable <- synced, deferred <- redo,
    broken <- faults > 0 \/ (redo /\ bounce)

AbsSpec == Abs!Spec
=============================================================================
