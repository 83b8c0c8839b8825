---------------------------- MODULE UnixIOProofs ----------------------------
(***************************************************************************)
(* Proofs about UnixIO for every size of device, cache and bound: the      *)
(* device is not written while the log is, no block is cached twice, and   *)
(* the channel implements BlockStore.  The last two are about runs in      *)
(* which no system call fails, the last one also about writes that do not  *)
(* bounce past the log.                                                    *)
(***************************************************************************)
EXTENDS UnixIO, TLAPS

CacheEntry == [in_use : BOOLEAN, dirty : BOOLEAN, block : Block \cup {0}, buf : Nat]

\* where the blocks that leave the cache go
Target == IF redo THEN log ELSE dev

\* the entries of a cache c that hold block b, and what a block holds when c is
\* in front of t: Contents is Cont(cache, Target)
In(c, b) == {e \in Entry : c[e].in_use /\ c[e].block = b}
DirtyIn(c, b) == {e \in In(c, b) : c[e].dirty}
Cont(c, t) == [b \in Block |-> IF DirtyIn(c, b) # {} THEN c[CHOOSE e \in DirtyIn(c, b) : TRUE].buf
                               ELSE t[b]]

One(c) == \A e, x \in Entry : (c[e].in_use /\ c[x].in_use /\ c[e].block = c[x].block) => e = x

\* a block that is not dirty is as it is in t, or, if updates are deferred (r),
\* as the checker found it
Clean(c, t, r) == \A e \in Entry : (c[e].in_use /\ ~c[e].dirty) =>
                     c[e].buf = t[c[e].block] \/ (r /\ c[e].buf = 0)

CacheOK(c, t, r) ==
    /\ c \in [Entry -> CacheEntry] /\ \A e \in Entry : c[e].in_use => c[e].block \in Block
    /\ One(c) /\ Clean(c, t, r)

DisksOK == /\ dev \in [Block -> Nat] /\ log \in [Block -> Nat]
           /\ redo \in BOOLEAN /\ bounce \in BOOLEAN /\ ~(redo /\ bounce)
           /\ redo => \A b \in Block : dev[b] = 0

-----------------------------------------------------------------------------
(* What a block holds.                                                     *)

LEMMA Constants == /\ NBlocks \in Nat /\ CACHE_SIZE \in Nat /\ CACHE_SIZE # 0
                   /\ WRITE_DIRECT_SIZE \in Nat /\ MaxFaults \in Nat
  BY UnixIOAssumption, Zenon

\* In a cache without duplicates a dirty entry says what its block holds.
LEMMA ContDirty ==
    ASSUME NEW c, NEW t, One(c), NEW e \in Entry, c[e].in_use, c[e].dirty,
           c[e].block \in Block
    PROVE  Cont(c, t)[c[e].block] = c[e].buf
  <1> DEFINE b == c[e].block
             f == CHOOSE x \in DirtyIn(c, b) : TRUE
  <1>1. e \in DirtyIn(c, b)
    BY Zenon DEF DirtyIn, In
  <1>2. f \in DirtyIn(c, b)
    BY <1>1, Zenon
  <1>3. f \in Entry /\ c[f].in_use /\ c[f].block = b
    BY <1>2, Zenon DEF DirtyIn, In
  <1>4. f = e
    BY <1>3, Zenon DEF One
  <1>5. Cont(c, t)[b] = c[f].buf
    BY <1>1, Zenon DEF Cont
  <1> QED
    BY <1>4, <1>5, Zenon

LEMMA ContClean ==
    ASSUME NEW c, NEW t, NEW b \in Block,
           \A e \in Entry : ~(c[e].in_use /\ c[e].dirty /\ c[e].block = b)
    PROVE  Cont(c, t)[b] = t[b]
  <1>1. DirtyIn(c, b) = {}
    BY Zenon DEF DirtyIn, In
  <1> QED
    BY <1>1, Zenon DEF Cont

\* two contents are equal if all blocks are
LEMMA ContEqual ==
    ASSUME NEW c, NEW t, NEW f, f = [b \in Block |-> f[b]],
           \A b \in Block : Cont(c, t)[b] = f[b]
    PROVE  Cont(c, t) = f
  BY Zenon DEF Cont

LEMMA ContIsContents == Contents = Cont(cache, Target)
  BY SMT, SMTT(30) DEF Contents, Cont, DirtyIn, In, Holding, Target

LEMMA ContIsContentsNext == Contents' = Cont(cache', Target')
  BY SMT, SMTT(30) DEF Contents, Cont, DirtyIn, In, Holding, Target

-----------------------------------------------------------------------------
(* flush_cached_blocks when nothing fails.                                 *)

\* It moves what the dirty entries hold to the log or the device: the blocks
\* hold what they held, now there, and no entry is dirty.
LEMMA FlushOK ==
    ASSUME DisksOK, CacheOK(cache, Target, redo), NEW invalidate \in BOOLEAN, NEW returned,
           Flush({}, {}, invalidate, returned)
    PROVE  /\ DisksOK' /\ redo' = redo /\ bounce' = bounce
           /\ Target' = Cont(cache, Target)
           /\ Cont(cache', Target') = Cont(cache, Target)
           /\ CacheOK(cache', Target', redo')
           /\ \A e \in Entry : ~(cache'[e].in_use /\ cache'[e].dirty)
           /\ invalidate => \A e \in Entry : ~cache'[e].in_use
  <1> DEFINE D == {e \in Entry : Dirty(e)}
             S == BlocksOf(D)
             v == BufsOf(D)
  <1>1. /\ redo' = redo /\ bounce' = bounce /\ RawWrite(S, v)
        /\ cache' = [e \in Entry |-> IF invalidate THEN Unused
                                     ELSE [cache[e] EXCEPT !.dirty = @ /\ e \notin D]]
    <2>1. D \ {} = D /\ (D \ {}) \cup {} = D
      BY Zenon
    <2> QED
      BY <2>1, Zenon DEF Flush, kept, mode
  <1>2. LogMode <=> redo
    BY Zenon DEF LogMode, DisksOK
  <1>3. Target' = Put(Target, S, v)
    BY <1>1, <1>2, Zenon DEF RawWrite, Target
  <1>4. ASSUME NEW e \in D
        PROVE  cache[e].block \in S /\ v[cache[e].block] = cache[e].buf
    <2> DEFINE f == Last(D, cache[e].block)
    <2>1. cache[e].block \in S /\ cache[e].block \in Block /\ e \in Entry /\ cache[e].in_use
      BY Zenon DEF Dirty, CacheOK, BlocksOf
    <2>2. \A x \in D : cache[x].block = cache[e].block => x = e
      BY <2>1, Zenon DEF Dirty, CacheOK, One
    <2>3. \A x \in D : cache[x].block = cache[e].block => x <= e
      BY <2>1, <2>2, SMT, SMTT(30) DEF Entry
    <2>4. f \in D /\ cache[f].block = cache[e].block
      BY <2>3, Zenon DEF Last
    <2>5. f = e
      BY <2>2, <2>4, Zenon
    <2> QED
      BY <2>1, <2>5, Zenon DEF BufsOf
  <1>5. \A b \in S : \E e \in D : cache[e].block = b
    BY Zenon DEF BlocksOf
  <1>6. S \subseteq Block /\ v \in [Block -> Nat]
    <2>1. S \subseteq Block
      BY Zenon DEF Dirty, CacheOK, BlocksOf
    <2>2. ASSUME NEW b \in Block PROVE v[b] \in Nat
      <3>1. CASE b \in S
        <4>1. PICK e \in D : cache[e].block = b
          BY <1>5, <3>1, Zenon
        <4>2. v[b] = cache[e].buf
          BY <1>4, <4>1, Zenon
        <4> QED
          BY <4>2, Zenon DEF CacheOK, CacheEntry
      <3> QED
        BY <3>1, Zenon DEF BufsOf
    <2> QED
      BY <2>1, <2>2, Zenon DEF BufsOf
  <1>7. DisksOK'
    BY <1>1, <1>2, <1>6, Zenon DEF DisksOK, RawWrite, Put
  <1> HIDE DEF v
  <1>8. Target' = Cont(cache, Target)
    <2>1. ASSUME NEW b \in Block PROVE Cont(cache, Target)[b] = Put(Target, S, v)[b]
      <3>1. CASE b \in S
        <4>1. PICK e \in D : cache[e].block = b
          BY <1>5, <3>1, Zenon
        <4>2. Cont(cache, Target)[b] = cache[e].buf
          BY <4>1, ContDirty, Zenon DEF Dirty, CacheOK
        <4>3. v[b] = cache[e].buf
          BY <1>4, <4>1, Zenon
        <4> QED
          BY <3>1, <4>2, <4>3, Zenon DEF Put
      <3>2. CASE b \notin S
        <4>1. \A e \in Entry : ~(cache[e].in_use /\ cache[e].dirty /\ cache[e].block = b)
          BY <3>2, Zenon DEF Dirty, BlocksOf
        <4>2. Cont(cache, Target)[b] = Target[b]
          BY <4>1, ContClean, SMT, SMTT(30)
        <4> QED
          BY <3>2, <4>2, Zenon DEF Put
      <3> QED
        BY <3>1, <3>2, Zenon
    <2>2. Target' = [b \in Block |-> Target'[b]]
      BY <1>3, Zenon DEF Put
    <2> QED
      BY <1>3, <2>1, <2>2, ContEqual, SMT, SMTT(30)
  <1>9. \A e \in Entry : /\ ~(cache'[e].in_use /\ cache'[e].dirty)
                         /\ invalidate => ~cache'[e].in_use
                         /\ cache'[e] \in CacheEntry
                         /\ cache'[e].in_use => /\ cache[e].in_use
                                                /\ cache'[e].block = cache[e].block
                                                /\ cache'[e].buf = cache[e].buf
    BY <1>1, Zenon DEF CacheOK, CacheEntry, Dirty, Unused
  <1>10. Cont(cache', Target') = Target'
    <2>1. \A b \in Block : Cont(cache', Target')[b] = Target'[b]
      BY <1>9, ContClean, SMT, SMTT(30)
    <2>2. Target' = [b \in Block |-> Target'[b]]
      BY <1>3, Zenon DEF Put
    <2> QED
      BY <2>1, <2>2, ContEqual, SMT, SMTT(30)
  <1>11. CacheOK(cache', Target', redo')
    <2>1. cache' \in [Entry -> CacheEntry]
      BY <1>1, <1>9, Zenon
    <2>2. One(cache')
      BY <1>9, Zenon DEF CacheOK, One
    <2>3. ASSUME NEW e \in Entry, cache'[e].in_use
          PROVE  cache'[e].block \in Block /\ (cache'[e].buf = Target'[cache'[e].block]
                                               \/ (redo' /\ cache'[e].buf = 0))
      <3>1. cache[e].in_use /\ cache'[e].block = cache[e].block /\ cache'[e].buf = cache[e].buf
            /\ cache[e].block \in Block
        BY <1>9, <2>3, Zenon DEF CacheOK
      <3>2. CASE cache[e].dirty
        <4>1. Cont(cache, Target)[cache[e].block] = cache[e].buf
          BY <3>1, <3>2, ContDirty, Zenon DEF CacheOK
        <4> QED
          BY <1>8, <3>1, <4>1, Zenon
      <3>3. CASE ~cache[e].dirty
        <4>1. cache[e].buf = Target[cache[e].block] \/ (redo /\ cache[e].buf = 0)
          BY <3>1, <3>3, Zenon DEF CacheOK, Clean
        <4>2. \A x \in Entry : ~(cache[x].in_use /\ cache[x].dirty /\ cache[x].block = cache[e].block)
          BY <3>1, <3>3, Zenon DEF CacheOK, One
        <4>3. Cont(cache, Target)[cache[e].block] = Target[cache[e].block]
          BY <3>1, <4>2, ContClean, SMT, SMTT(30)
        <4> QED
          BY <1>1, <1>8, <3>1, <4>1, <4>3, Zenon
      <3> QED
        BY <3>2, <3>3, Zenon
    <2> QED
      BY <2>1, <2>2, <2>3, Zenon DEF CacheOK, Clean
  <1> QED
    BY <1>1, <1>7, <1>8, <1>9, <1>10, <1>11, Zenon

-----------------------------------------------------------------------------
(* reuse_cache when nothing fails.                                         *)

\* An entry whose contents are written back takes a block that was not cached:
\* no other block changes what it holds, and this one holds v if v is dirty.
LEMMA EvictOK ==
    ASSUME DisksOK, CacheOK(cache, Target, redo), redo' = redo, bounce' = bounce,
           NEW e \in Entry, Evict(e, FALSE),
           NEW b \in Block, ~Cached(b), NEW v \in Nat, NEW d \in BOOLEAN,
           cache' = Refilled(e, b, v, d), ~d => v = dev[b]
    PROVE  /\ DisksOK' /\ CacheOK(cache', Target', redo')
           /\ \A x \in Block \ {b} : Cont(cache', Target')[x] = Cont(cache, Target)[x]
           /\ Cont(cache, Target)[b] = Target[b]
           /\ Cont(cache', Target')[b] = IF d THEN v ELSE Target[b]
           /\ v = Target[b] \/ d \/ (redo /\ v = 0)
  <1> DEFINE S == IF Dirty(e) THEN {cache[e].block} ELSE {}
             w == [x \in Block |-> cache[e].buf]
  <1>1. RawWrite(S, w)
    BY Zenon DEF Evict
  <1>2. LogMode <=> redo
    BY Zenon DEF LogMode, DisksOK
  <1>3. Target' = Put(Target, S, w)
    BY <1>1, <1>2, Zenon DEF RawWrite, Target
  <1>4. \A x \in Entry : cache[x].in_use => cache[x].block # b
    BY Zenon DEF Cached, Holding
  <1>5. w \in [Block -> Nat] /\ b \notin S /\ S \subseteq Block
    BY <1>4, Zenon DEF CacheOK, CacheEntry, Dirty
  <1>6. DisksOK'
    BY <1>1, <1>2, <1>5, Zenon DEF DisksOK, RawWrite, Put
  <1>7. /\ cache'[e] = [in_use |-> TRUE, dirty |-> d, block |-> b, buf |-> v]
        /\ \A x \in Entry \ {e} : cache'[x] = cache[x]
        /\ cache' \in [Entry -> CacheEntry]
    BY Zenon DEF Refilled, CacheOK, CacheEntry
  <1>8. \A x \in Block : Target'[x] = IF x \in S THEN cache[e].buf ELSE Target[x]
    BY <1>3, Zenon DEF Put
  <1>9. One(cache')
    BY <1>4, <1>7, SMT, SMTT(30) DEF CacheOK, One
  <1>10. Target'[b] = Target[b]
    BY <1>5, <1>8, Zenon
  <1>11. v = Target[b] \/ d \/ (redo /\ v = 0)
    BY SMT, SMTT(30) DEF Target, DisksOK
  <1>12. ASSUME NEW x \in Entry \ {e}, cache[x].in_use
         PROVE  cache[x].block \notin S
    BY <1>12, Zenon DEF CacheOK, One, Dirty
  <1>13. CacheOK(cache', Target', redo')
    <2>1. \A x \in Entry : cache'[x].in_use => cache'[x].block \in Block
      BY <1>7, SMT, SMTT(30) DEF CacheOK
    <2>2. ASSUME NEW x \in Entry, cache'[x].in_use, ~cache'[x].dirty
          PROVE  cache'[x].buf = Target'[cache'[x].block] \/ (redo' /\ cache'[x].buf = 0)
      <3>1. CASE x = e
        BY <1>7, <1>10, <1>11, <2>2, <3>1, SMT, SMTT(30)
      <3>2. CASE x # e
        <4>1. cache'[x] = cache[x] /\ cache[x].block \notin S /\ cache[x].block \in Block
          BY <1>7, <1>12, <2>2, <3>2, Zenon DEF CacheOK
        <4>2. Target'[cache[x].block] = Target[cache[x].block]
          BY <1>8, <4>1, Zenon
        <4> QED
          BY <2>2, <4>1, <4>2, Zenon DEF CacheOK, Clean
      <3> QED
        BY <3>1, <3>2, Zenon
    <2> QED
      BY <1>7, <1>9, <2>1, <2>2, Zenon DEF CacheOK, Clean
  <1>14. Cont(cache, Target)[b] = Target[b]
    BY <1>4, ContClean, SMT, SMTT(30)
  <1>15. Cont(cache', Target')[b] = IF d THEN v ELSE Target[b]
    <2>1. CASE d
      <3>1. /\ cache'[e].in_use /\ cache'[e].dirty
            /\ cache'[e].block = b /\ cache'[e].buf = v
        BY <1>7, <2>1, SMT, SMTT(30)
      <3>2. Cont(cache', Target')[cache'[e].block] = cache'[e].buf
        BY <1>9, <3>1, ContDirty, Zenon
      <3> QED
        BY <2>1, <3>1, <3>2, Zenon
    <2>2. CASE ~d
      <3>1. \A x \in Entry : ~(cache'[x].in_use /\ cache'[x].dirty /\ cache'[x].block = b)
        BY <1>4, <1>7, <2>2, SMT, SMTT(30)
      <3>2. Cont(cache', Target')[b] = Target'[b]
        BY <3>1, ContClean, SMT, SMTT(30)
      <3> QED
        BY <1>10, <2>2, <3>2, Zenon
    <2> QED
      BY <2>1, <2>2, Zenon
  <1>16. ASSUME NEW x \in Block \ {b} PROVE Cont(cache', Target')[x] = Cont(cache, Target)[x]
    <2>1. CASE \E y \in Entry \ {e} : cache[y].in_use /\ cache[y].dirty /\ cache[y].block = x
      <3>1. PICK y \in Entry \ {e} : cache[y].in_use /\ cache[y].dirty /\ cache[y].block = x
        BY <2>1, Zenon
      <3>2. cache'[y] = cache[y]
        BY <1>7, Zenon
      <3>3. Cont(cache, Target)[x] = cache[y].buf
        BY <3>1, ContDirty, SMT, SMTT(30) DEF CacheOK
      <3>4. Cont(cache', Target')[x] = cache'[y].buf
        BY <1>9, <3>1, <3>2, ContDirty, SMT, SMTT(30)
      <3> QED
        BY <3>2, <3>3, <3>4, Zenon
    <2>2. CASE ~\E y \in Entry \ {e} : cache[y].in_use /\ cache[y].dirty /\ cache[y].block = x
      <3>1. \A y \in Entry : ~(cache'[y].in_use /\ cache'[y].dirty /\ cache'[y].block = x)
        BY <1>7, <2>2, SMT, SMTT(30)
      <3>2. Cont(cache', Target')[x] = Target'[x]
        BY <3>1, ContClean, SMT, SMTT(30)
      <3>3. CASE x \in S
        <4>1. Dirty(e) /\ cache[e].block = x
          BY <3>3, Zenon
        <4>2. Cont(cache, Target)[x] = cache[e].buf
          BY <4>1, ContDirty, SMT, SMTT(30) DEF CacheOK, Dirty
        <4> QED
          BY <1>8, <3>2, <3>3, <4>2, Zenon
      <3>4. CASE x \notin S
        <4>1. \A y \in Entry : ~(cache[y].in_use /\ cache[y].dirty /\ cache[y].block = x)
          BY <2>2, <3>4, Zenon DEF Dirty
        <4>2. Cont(cache, Target)[x] = Target[x]
          BY <4>1, ContClean, SMT, SMTT(30)
        <4> QED
          BY <1>8, <3>2, <3>4, <4>2, Zenon
      <3> QED
        BY <3>3, <3>4, Zenon
    <2> QED
      BY <2>1, <2>2, Zenon
  <1> QED
    BY <1>6, <1>11, <1>13, <1>14, <1>15, <1>16, Zenon

-----------------------------------------------------------------------------
(* The invariant, and the steps of a block store.                          *)

Good == faults = 0 /\ ~(redo /\ bounce)

Loops == {"read", "read_direct", "write", "write_direct", "write_byte"}

Bounds ==
    /\ pc \in Loops \cup {"idle", "closed"}
    /\ pc \in Loops => blk \in Nat /\ cnt \in Nat /\ cnt >= 1 /\ blk + cnt <= NBlocks
    /\ reuse = NoReuse

LoopInv ==
    /\ Bounds
    /\ pc = "read_direct" => \A e \in Entry : ~(cache[e].in_use /\ cache[e].dirty)
    /\ pc \in {"write_direct", "write_byte"} => \A e \in Entry : ~cache[e].in_use

GoodInv ==
    /\ DisksOK /\ CacheOK(cache, Target, redo) /\ LoopInv
    /\ got \in [Block -> Int] /\ clock \in Nat

\* Unless something failed or writes bounce, the cache is consistent with what is
\* behind it, and a call past the cache finds it without dirty entries.
IOInv == faults \in Nat /\ (faults = 0 => ~failing) /\ (Good => GoodInv)

\* The steps of BlockStore in terms of the cache.  In each of them nothing fails.
Same == redo' = redo /\ bounce' = bounce
Kept == Cont(cache', Target') = Cont(cache, Target)

StoreWrite(S) ==
    /\ clock' = clock + 1 /\ UNCHANGED <<synced, got>> /\ Same
    /\ \A b \in Block : Cont(cache', Target')[b] = IF b \in S THEN clock + 1
                                                   ELSE Cont(cache, Target)[b]

StoreRead(S) ==
    /\ Kept /\ UNCHANGED <<clock, synced>> /\ Same
    /\ \A b \in Block \ S : got'[b] \in {got[b], -1}
    /\ \A b \in S : got'[b] = Cont(cache, Target)[b] \/ (redo /\ got'[b] = 0)

StoreFlush ==
    /\ Kept /\ UNCHANGED clock /\ Same
    /\ synced' = Cont(cache, Target) /\ \A b \in Block : got'[b] = -1

StoreStep ==
    \/ \E S \in SUBSET Block : StoreWrite(S) \/ StoreRead(S)
    \/ StoreFlush

LEMMA NothingFails ==
    ASSUME faults = 0, ~failing, faults' = 0 PROVE ~Failing(TRUE) /\ \A f \in BOOLEAN : Failing(f) => ~f
  BY SMT, SMTT(30) DEF Failing

LEMMA NothingRead == Nothing \in [Block -> Int] /\ \A b \in Block : Nothing[b] = -1
  BY SMT, SMTT(30) DEF Nothing, Unread

\* A call that flushes the cache first reads nothing, and changes no block.
LEMMA FlushThenStep ==
    ASSUME GoodInv, faults = 0, ~failing, faults' = 0, Call, NEW p \in Loops, NEW b \in Nat, NEW n \in Nat,
           n >= 1, b + n <= NBlocks, NEW invalidate \in BOOLEAN,
           p = "read_direct" \/ (invalidate /\ p \in {"write_direct", "write_byte"}),
           FlushThen(p, b, n, invalidate)
    PROVE  GoodInv' /\ StoreStep
  <1>1. PICK F \in SUBSET Entry, G \in SUBSET Entry :
           /\ Flush(F, G, invalidate, TRUE) /\ Failing(F # {})
           /\ IF F = G THEN pc' = p /\ blk' = b /\ cnt' = n /\ UNCHANGED reuse ELSE Return
           /\ UNCHANGED <<writes, flushes>>
    BY Zenon DEF FlushThen
  <1>2. F = {} /\ G = {}
    <2>1. F = {}
      BY <1>1, NothingFails, Zenon
    <2> QED
      BY <1>1, <2>1, Zenon DEF Flush
  <1>3. /\ DisksOK' /\ redo' = redo /\ bounce' = bounce /\ Kept
        /\ CacheOK(cache', Target', redo')
        /\ \A e \in Entry : ~(cache'[e].in_use /\ cache'[e].dirty)
        /\ invalidate => \A e \in Entry : ~cache'[e].in_use
    BY <1>1, <1>2, FlushOK, Zenon DEF GoodInv, Kept
  <1>4. /\ pc' = p /\ blk' = b /\ cnt' = n /\ reuse' = reuse
        /\ clock' = clock /\ synced' = synced /\ got' = Nothing
    BY <1>1, <1>2, Zenon DEF writes, flushes, Call
  <1>5. LoopInv'
    BY <1>3, <1>4, Zenon DEF LoopInv, Bounds, GoodInv, Loops
  <1>6. GoodInv'
    BY <1>3, <1>4, <1>5, NothingRead, Zenon DEF GoodInv
  <1>7. StoreRead({})
    BY <1>3, <1>4, NothingRead, Zenon DEF StoreRead, Same
  <1> QED
    BY <1>6, <1>7, Zenon DEF StoreStep

\* a call that begins its loop with the cache as it is
LEMMA BeginStep ==
    ASSUME GoodInv, Call, NEW p \in {"read", "write"}, NEW b \in Nat, NEW n \in Nat,
           n >= 1, b + n <= NBlocks, pc' = p, blk' = b, cnt' = n,
           UNCHANGED <<mode, reuse, cache, age, dev, log, fails, writes, flushes, told>>
    PROVE  GoodInv' /\ StoreStep
  <1>1. /\ redo' = redo /\ bounce' = bounce /\ reuse' = reuse /\ cache' = cache /\ dev' = dev
        /\ log' = log /\ clock' = clock /\ synced' = synced /\ got' = Nothing
    BY Zenon DEF kept, mode, writes, flushes, Call
  <1>2. Target' = Target
    BY <1>1, Zenon DEF Target
  <1>3. LoopInv'
    BY <1>1, Zenon DEF GoodInv, LoopInv, Bounds, Loops
  <1>4. DisksOK'
    BY <1>1, Zenon DEF GoodInv, DisksOK
  <1>5. GoodInv'
    BY <1>1, <1>2, <1>3, <1>4, NothingRead, Zenon DEF GoodInv
  <1>6. StoreRead({})
    BY <1>1, <1>2, NothingRead, Zenon DEF StoreRead, Same, Kept
  <1> QED
    BY <1>5, <1>6, Zenon DEF StoreStep

-----------------------------------------------------------------------------
(* Reading.                                                                *)

\* a loop ends, or goes on behind n blocks
LEMMA AdvanceBounds ==
    ASSUME Bounds, pc \in {"read", "write"}, NEW n \in 1..cnt, Advance(n)
    PROVE  Bounds' /\ pc' \in {pc, "idle"}
  <1>1. /\ reuse = NoReuse /\ reuse.n = 0 /\ blk \in Nat /\ cnt \in Nat
        /\ blk + cnt <= NBlocks
    BY Zenon DEF Bounds, Loops, NoReuse
  <1>2. CASE cnt > n
    <2>1. pc' = pc /\ blk' = blk + n /\ cnt' = cnt - n /\ reuse' = reuse
      BY <1>2, Zenon DEF Advance
    <2>2. blk' \in Nat /\ cnt' \in Nat /\ cnt' >= 1 /\ blk' + cnt' <= NBlocks
      BY <1>1, <1>2, <2>1, Constants, SMT, SMTT(30)
    <2> QED
      BY <1>1, <2>1, <2>2, Zenon DEF Bounds, Loops
  <1>3. CASE ~(cnt > n)
    <2>1. Return
      BY <1>1, <1>3, SMT, SMTT(30) DEF Advance
    <2> QED
      BY <2>1, Zenon DEF Return, Bounds, Loops
  <1> QED
    BY <1>2, <1>3, Zenon

LEMMA AdvanceInv ==
    ASSUME GoodInv, pc \in {"read", "write"}, NEW n \in 1..cnt, Advance(n)
    PROVE  LoopInv'
  <1>1. Bounds
    BY Zenon DEF GoodInv, LoopInv
  <1>2. Bounds' /\ pc' \in {"read", "write", "idle"}
    BY <1>1, AdvanceBounds, Zenon
  <1> QED
    BY <1>2, Zenon DEF LoopInv

\* the first block of a loop
LEMMA LoopBlock ==
    ASSUME GoodInv, pc \in Loops PROVE blk \in Block /\ 1 \in 1..cnt
  BY Constants, SMT, SMTT(30) DEF GoodInv, LoopInv, Bounds, Block

\* what a read that misses the cache returns
LEMMA DeviceRead ==
    ASSUME GoodInv, NEW b \in Block,
           \A e \in Entry : ~(cache[e].in_use /\ cache[e].dirty /\ cache[e].block = b)
    PROVE  dev[b] = Cont(cache, Target)[b] \/ (redo /\ dev[b] = 0)
  <1>1. Cont(cache, Target)[b] = Target[b]
    BY ContClean, SMT, SMTT(30)
  <1> QED
    BY <1>1, Zenon DEF Target, GoodInv, DisksOK

LEMMA GotMore ==
    ASSUME GoodInv, NEW S \in SUBSET Block, Got(S)
    PROVE  /\ got' \in [Block -> Int]
           /\ \A b \in S : got'[b] = dev[b] /\ \A x \in Block \ S : got'[x] = got[x]
  BY SMT, SMTT(30) DEF GoodInv, DisksOK, Got, Put

LEMMA ReadDirectStep ==
    ASSUME GoodInv, faults = 0, ~failing, faults' = 0, read_direct PROVE GoodInv' /\ StoreStep
  <1> DEFINE S == Span(blk, cnt)
  <1>1. /\ Got(S) /\ Return /\ pc = "read_direct" /\ S \in SUBSET Block
        /\ redo' = redo /\ bounce' = bounce /\ cache' = cache /\ dev' = dev /\ log' = log
        /\ clock' = clock /\ synced' = synced
    BY NothingFails, Zenon DEF read_direct, kept, mode, writes, flushes, Span
  <1>2. Target' = Target
    BY <1>1, Zenon DEF Target
  <1>3. LoopInv'
    BY <1>1, Zenon DEF Return, LoopInv, Bounds, Loops
  <1>4. got' \in [Block -> Int] /\ \A b \in S : got'[b] = dev[b]
    BY <1>1, GotMore, Zenon
  <1>5. \A x \in Block \ S : got'[x] = got[x]
    BY <1>1, Zenon DEF Got, Put
  <1>6. GoodInv'
    BY <1>1, <1>2, <1>3, <1>4, Zenon DEF GoodInv, DisksOK
  <1>7. \A b \in S : dev[b] = Cont(cache, Target)[b] \/ (redo /\ dev[b] = 0)
    BY <1>1, DeviceRead, Zenon DEF GoodInv, LoopInv, Bounds
  <1>8. StoreRead(S)
    BY <1>1, <1>2, <1>4, <1>5, <1>7, Zenon DEF StoreRead, Same, Kept
  <1> QED
    BY <1>1, <1>6, <1>8, Zenon DEF StoreStep

LEMMA ReadHitStep ==
    ASSUME GoodInv, read_hit PROVE GoodInv' /\ StoreStep
  <1>1. PICK e \in Found(blk) : got' = [got EXCEPT ![blk] = cache[e].buf]
    BY Zenon DEF read_hit
  <1>2. /\ pc = "read" /\ Advance(1) /\ redo' = redo /\ bounce' = bounce /\ cache' = cache
        /\ dev' = dev /\ log' = log /\ clock' = clock /\ synced' = synced
    BY Zenon DEF read_hit, kept, mode, writes, flushes, GoodInv, LoopInv, Bounds, Loops
  <1>3. e \in Entry /\ cache[e].in_use /\ cache[e].block = blk
    BY Zenon DEF Found, Holding
  <1>4. blk \in Block /\ 1 \in 1..cnt
    BY <1>2, LoopBlock, Zenon DEF Loops
  <1>5. Target' = Target
    BY <1>2, Zenon DEF Target
  <1>6. LoopInv'
    BY <1>2, <1>4, AdvanceInv, Zenon
  <1>7. got' \in [Block -> Int] /\ got'[blk] = cache[e].buf
        /\ \A b \in Block \ {blk} : got'[b] = got[b]
    BY <1>1, <1>3, <1>4, SMT, SMTT(30) DEF GoodInv, CacheOK, CacheEntry
  <1>8. GoodInv'
    BY <1>2, <1>5, <1>6, <1>7, Zenon DEF GoodInv, DisksOK
  <1>9. cache[e].buf = Cont(cache, Target)[blk] \/ (redo /\ cache[e].buf = 0)
    <2>1. CASE cache[e].dirty
      BY <1>3, <1>4, <2>1, ContDirty, Zenon DEF GoodInv, CacheOK
    <2>2. CASE ~cache[e].dirty
      <3>1. \A x \in Entry : ~(cache[x].in_use /\ cache[x].dirty /\ cache[x].block = blk)
        BY <1>3, <2>2, Zenon DEF GoodInv, CacheOK, One
      <3>2. Cont(cache, Target)[blk] = Target[blk]
        BY <1>4, <3>1, ContClean, SMT, SMTT(30)
      <3> QED
        BY <1>3, <2>2, <3>2, Zenon DEF GoodInv, CacheOK, Clean
    <2> QED
      BY <2>1, <2>2, Zenon
  <1>10. StoreRead({blk})
    BY <1>2, <1>5, <1>7, <1>9, Zenon DEF StoreRead, Same, Kept
  <1> QED
    BY <1>4, <1>8, <1>10, Zenon DEF StoreStep

LEMMA EldestEntry == Eldest \subseteq Entry
  BY Zenon DEF Eldest

\* uncached blocks S are read from the device, and one of them is cached
LEMMA MissStep ==
    ASSUME GoodInv, NEW e \in Entry, NEW n \in 1..cnt, pc = "read",
           NEW b \in Block, b \in Span(blk, n), \A x \in Span(blk, n) : ~Cached(x),
           Evict(e, FALSE), cache' = Refilled(e, b, dev[b], FALSE),
           Got(Span(blk, n)), Advance(n), UNCHANGED <<mode, writes, flushes>>
    PROVE  GoodInv' /\ StoreStep
  <1> DEFINE S == Span(blk, n)
  <1>1. /\ redo' = redo /\ bounce' = bounce /\ clock' = clock /\ synced' = synced
        /\ S \in SUBSET Block
    BY Zenon DEF kept, mode, writes, flushes, Span
  <1>2. /\ DisksOK' /\ CacheOK(cache', Target', redo')
        /\ \A x \in Block : Cont(cache', Target')[x] = Cont(cache, Target)[x]
    <2>1. dev[b] \in Nat /\ ~Cached(b)
      BY Zenon DEF GoodInv, DisksOK
    <2>2. /\ DisksOK' /\ CacheOK(cache', Target', redo')
          /\ \A x \in Block \ {b} : Cont(cache', Target')[x] = Cont(cache, Target)[x]
          /\ Cont(cache, Target)[b] = Target[b]
          /\ Cont(cache', Target')[b] = IF FALSE THEN dev[b] ELSE Target[b]
      BY <1>1, <2>1, EvictOK, Zenon DEF GoodInv
    <2> QED
      BY <2>2, Zenon
  <1>3. Kept
    <2>1. \A x \in Block : Cont(cache', Target')[x] = Cont(cache, Target)[x]
      BY <1>2, Zenon
    <2> QED
      BY <2>1, Zenon DEF Kept, Cont
  <1>4. LoopInv'
    BY AdvanceInv, Zenon
  <1>5. got' \in [Block -> Int] /\ \A x \in S : got'[x] = dev[x]
    BY <1>1, GotMore, Zenon
  <1>6. \A x \in Block \ S : got'[x] = got[x]
    BY Zenon DEF Got, Put
  <1>7. GoodInv'
    BY <1>1, <1>2, <1>4, <1>5, Zenon DEF GoodInv
  <1>8. \A x \in S : dev[x] = Cont(cache, Target)[x] \/ (redo /\ dev[x] = 0)
    BY <1>1, DeviceRead, Zenon DEF Cached, Holding
  <1>9. StoreRead(S)
    BY <1>1, <1>3, <1>5, <1>6, <1>8, Zenon DEF StoreRead, Same
  <1> QED
    BY <1>1, <1>7, <1>9, Zenon DEF StoreStep

LEMMA ReadMissOneStep ==
    ASSUME GoodInv, faults = 0, ~failing, faults' = 0, read_miss_one PROVE GoodInv' /\ StoreStep
  <1>1. PICK e \in Eldest, fw \in BOOLEAN, fr \in BOOLEAN :
          /\ Failing(fw \/ fr) /\ Evict(e, fw)
          /\ \/ /\ ~fr /\ cache' = Refilled(e, blk, dev[blk], FALSE)
                /\ Got({blk}) /\ Advance(1) /\ UNCHANGED writes
             \/ fr
    BY Zenon DEF read_miss_one
  <1>2. ~fw /\ ~fr
    <2>1. (fw \/ fr) \in BOOLEAN
      BY Zenon
    <2> QED
      BY <1>1, <2>1, NothingFails, Zenon
  <1>3. pc = "read" /\ ~Cached(blk) /\ UNCHANGED <<mode, writes, flushes>>
    BY <1>1, <1>2, Zenon DEF read_miss_one, kept, GoodInv, LoopInv, Bounds, Loops
  <1>4. blk \in Block /\ 1 \in 1..cnt
    BY <1>3, LoopBlock, Zenon DEF Loops
  <1>5. Span(blk, 1) = {blk}
    BY <1>4, Constants, SMT, SMTT(30) DEF Span, Block
  <1>6. e \in Entry /\ Evict(e, FALSE)
    <2>1. fw = FALSE
      BY <1>2, Zenon
    <2> QED
      BY <1>1, <2>1, EldestEntry, Zenon
  <1>7. cache' = Refilled(e, blk, dev[blk], FALSE) /\ Got(Span(blk, 1)) /\ Advance(1)
    BY <1>1, <1>2, <1>5, Zenon
  <1>8. blk \in Span(blk, 1) /\ \A x \in Span(blk, 1) : ~Cached(x)
    BY <1>3, <1>5, Zenon
  <1> QED
    BY <1>3, <1>4, <1>6, <1>7, <1>8, MissStep, Zenon

LEMMA ReadMissManyStep ==
    ASSUME GoodInv, faults = 0, ~failing, faults' = 0, read_miss_many PROVE GoodInv' /\ StoreStep
  <1>1. PICK n \in 1..cnt, e \in Eldest, fw \in BOOLEAN :
          /\ Uncached(n) /\ Failing(fw) /\ Evict(e, fw)
          /\ cache' = Refilled(e, blk + n - 1, dev[blk + n - 1], FALSE)
          /\ Got(Span(blk, n)) /\ Advance(n)
    BY Zenon DEF read_miss_many
  <1>2. pc = "read" /\ UNCHANGED <<mode, writes, flushes>>
    BY Zenon DEF read_miss_many, kept
  <1>3. e \in Entry /\ Evict(e, FALSE)
    <2>1. fw = FALSE
      BY <1>1, NothingFails, Zenon
    <2> QED
      BY <1>1, <2>1, EldestEntry, Zenon
  <1>4. blk + n - 1 \in Block /\ blk + n - 1 \in Span(blk, n)
    BY <1>2, Constants, SMT, SMTT(30) DEF GoodInv, LoopInv, Bounds, Loops, Block, Span
  <1>5. \A x \in Span(blk, n) : ~Cached(x)
    BY <1>1, Zenon DEF Uncached
  <1> QED
    BY <1>1, <1>2, <1>3, <1>4, <1>5, MissStep, Zenon

-----------------------------------------------------------------------------
(* Writing.                                                                *)

LEMMA WriteBlockStep ==
    ASSUME GoodInv, faults = 0, ~failing, faults' = 0, write_block PROVE GoodInv' /\ StoreStep
  <1>1. /\ pc = "write" /\ Advance(1) /\ clock' = clock + 1
        /\ redo' = redo /\ bounce' = bounce /\ got' = got /\ synced' = synced
    BY Zenon DEF write_block, Written, kept, mode, flushes, GoodInv, LoopInv, Bounds, Loops
  <1>2. blk \in Block /\ 1 \in 1..cnt /\ clock \in Nat
    BY <1>1, LoopBlock, Zenon DEF Loops, GoodInv
  <1>3. LoopInv'
    BY <1>1, <1>2, AdvanceInv, Zenon
  <1>4. /\ DisksOK' /\ CacheOK(cache', Target', redo')
        /\ \A x \in Block \ {blk} : Cont(cache', Target')[x] = Cont(cache, Target)[x]
        /\ Cont(cache', Target')[blk] = clock + 1
    <2>1. CASE ~Cached(blk)
      <3>1. PICK e \in Eldest, fw \in BOOLEAN :
              Failing(fw) /\ Evict(e, fw) /\ cache' = Refilled(e, blk, clock + 1, TRUE)
        BY <2>1, Zenon DEF write_block, Cached, Found
      <3>2. e \in Entry /\ Evict(e, FALSE)
        <4>1. fw = FALSE
          BY <3>1, NothingFails, Zenon
        <4> QED
          BY <3>1, <4>1, EldestEntry, Zenon
      <3>3. /\ DisksOK' /\ CacheOK(cache', Target', redo')
            /\ \A x \in Block \ {blk} : Cont(cache', Target')[x] = Cont(cache, Target)[x]
            /\ Cont(cache', Target')[blk] = IF TRUE THEN clock + 1 ELSE Target[blk]
        <4>1. clock + 1 \in Nat /\ TRUE \in BOOLEAN /\ (~TRUE => clock + 1 = dev[blk])
          BY <1>2, SMT, SMTT(30)
        <4>2. DisksOK /\ CacheOK(cache, Target, redo)
          BY Zenon DEF GoodInv
        <4> QED
          BY <1>1, <1>2, <2>1, <3>1, <3>2, <4>1, <4>2, EvictOK, Zenon
      <3> QED
        BY <3>3, Zenon
    <2>2. CASE Cached(blk)
      <3>1. PICK e \in Found(blk) : cache' = Refilled(e, blk, clock + 1, TRUE)
        BY <2>2, Zenon DEF write_block
      <3>2. dev' = dev /\ log' = log
        BY <2>2, Zenon DEF write_block
      <3>3. e \in Entry /\ cache[e].in_use /\ cache[e].block = blk
        BY Zenon DEF Found, Holding
      <3>4. /\ \A x \in Entry \ {e} : cache'[x] = cache[x]
            /\ cache'[e].in_use /\ cache'[e].dirty /\ cache'[e].block = blk
            /\ cache'[e].buf = clock + 1 /\ cache' \in [Entry -> CacheEntry]
        BY <1>2, <3>1, <3>3, SMT, SMTT(30) DEF GoodInv, CacheOK, CacheEntry, Refilled
      <3>5. Target' = Target /\ DisksOK'
        BY <1>1, <3>2, Zenon DEF Target, GoodInv, DisksOK
      <3>6. \A x \in Entry : (cache'[x].in_use <=> cache[x].in_use) /\ cache'[x].block = cache[x].block
        BY <3>3, <3>4, Zenon
      <3>7. One(cache')
        BY <3>6, Zenon DEF GoodInv, CacheOK, One
      <3>8. CacheOK(cache', Target', redo')
        <4>1. \A x \in Entry : cache'[x].in_use => cache'[x].block \in Block
          BY <3>6, Zenon DEF GoodInv, CacheOK
        <4>2. Clean(cache', Target', redo')
          BY <1>1, <3>4, <3>5, Zenon DEF GoodInv, CacheOK, Clean
        <4> QED
          BY <3>4, <3>7, <4>1, <4>2, Zenon DEF CacheOK
      <3>9. Cont(cache', Target')[blk] = clock + 1
        BY <1>2, <3>3, <3>4, <3>7, ContDirty, SMT, SMTT(30)
      <3>10. ASSUME NEW x \in Block \ {blk} PROVE Cont(cache', Target')[x] = Cont(cache, Target)[x]
        <4>1. CASE \E y \in Entry : cache[y].in_use /\ cache[y].dirty /\ cache[y].block = x
          <5>1. PICK y \in Entry : cache[y].in_use /\ cache[y].dirty /\ cache[y].block = x
            BY <4>1, Zenon
          <5>2. cache'[y] = cache[y]
            BY <3>3, <3>4, <5>1, Zenon
          <5> QED
            BY <3>7, <5>1, <5>2, ContDirty, SMT, SMTT(30) DEF GoodInv, CacheOK
        <4>2. CASE ~\E y \in Entry : cache[y].in_use /\ cache[y].dirty /\ cache[y].block = x
          <5>1. ~\E y \in Entry : cache'[y].in_use /\ cache'[y].dirty /\ cache'[y].block = x
            BY <3>4, <4>2, Zenon
          <5> QED
            BY <3>5, <4>2, <5>1, ContClean, SMT, SMTT(30)
        <4> QED
          BY <4>1, <4>2, Zenon
      <3> QED
        BY <3>5, <3>8, <3>9, <3>10, Zenon
    <2> QED
      BY <2>1, <2>2, Zenon
  <1>5. GoodInv'
    BY <1>1, <1>2, <1>3, <1>4, SMT, SMTT(30) DEF GoodInv
  <1>6. StoreWrite({blk})
    BY <1>1, <1>4, Zenon DEF StoreWrite, Same
  <1> QED
    BY <1>2, <1>5, <1>6, Zenon DEF StoreStep

\* blocks S are written past an empty cache
LEMMA DirectStep ==
    ASSUME GoodInv, \A e \in Entry : ~cache[e].in_use, NEW S \in SUBSET Block,
           Target' = Put(Target, S, [b \in Block |-> clock + 1]), DisksOK',
           redo' = redo, bounce' = bounce, cache' = cache, got' = got, synced' = synced,
           clock' = clock + 1, Return
    PROVE  GoodInv' /\ StoreStep
  <1>1. CacheOK(cache', Target', redo')
    BY Zenon DEF GoodInv, CacheOK, Clean
  <1>2. LoopInv'
    BY Zenon DEF Return, LoopInv, Bounds, Loops
  <1>3. GoodInv'
    BY <1>1, <1>2, SMT, SMTT(30) DEF GoodInv
  <1>4. ASSUME NEW b \in Block
        PROVE  Cont(cache', Target')[b] = IF b \in S THEN clock + 1 ELSE Cont(cache, Target)[b]
    <2>1. Cont(cache', Target')[b] = Target'[b] /\ Cont(cache, Target)[b] = Target[b]
      BY ContClean, SMT, SMTT(30)
    <2> QED
      BY <2>1, Zenon DEF Put
  <1>5. StoreWrite(S)
    BY <1>4, Zenon DEF StoreWrite, Same
  <1> QED
    BY <1>3, <1>5, Zenon DEF StoreStep

LEMMA WriteDirectStep ==
    ASSUME GoodInv, faults = 0, ~failing, faults' = 0, write_direct PROVE GoodInv' /\ StoreStep
  <1> DEFINE v == [b \in Block |-> clock + 1]
             S == Span(blk, cnt)
  <1>1. PICK n \in 0..cnt :
          /\ Failing(n < cnt) /\ RawWrite(Span(blk, n), v)
          /\ IF n > 0 THEN Written(Span(blk, n)) ELSE UNCHANGED writes
          /\ Return \/ n < cnt
    BY Zenon DEF write_direct
  <1>2. pc = "write_direct" /\ cnt \in Nat /\ cnt >= 1 /\ clock \in Nat
    BY Zenon DEF write_direct, GoodInv, LoopInv, Bounds, Loops
  <1>3. ~(n < cnt)
    <2>1. (n < cnt) \in BOOLEAN
      BY <1>2, SMT, SMTT(30)
    <2> QED
      BY <1>1, <2>1, NothingFails, Zenon
  <1>4. n = cnt /\ n > 0
    BY <1>2, <1>3, SMT, SMTT(30)
  <1>5. RawWrite(S, v) /\ Written(S) /\ Return
    BY <1>1, <1>4, SMT, SMTT(30)
  <1>6. redo' = redo /\ bounce' = bounce /\ cache' = cache /\ got' = got /\ synced' = synced
    BY Zenon DEF write_direct, kept, mode, flushes
  <1>7. LogMode <=> redo
    BY Zenon DEF LogMode, GoodInv, DisksOK
  <1>8. Target' = Put(Target, S, v)
    BY <1>5, <1>6, <1>7, Zenon DEF RawWrite, Target
  <1>9. DisksOK'
    BY <1>2, <1>5, <1>6, <1>7, SMT, SMTT(30) DEF GoodInv, DisksOK, RawWrite, Put
  <1>10. clock' = clock + 1 /\ S \in SUBSET Block /\ \A e \in Entry : ~cache[e].in_use
    BY <1>2, <1>5, Zenon DEF Written, Span, GoodInv, LoopInv, Bounds
  <1> QED
    BY <1>5, <1>6, <1>8, <1>9, <1>10, DirectStep, Zenon

LEMMA WriteByteStep ==
    ASSUME GoodInv, faults = 0, ~failing, faults' = 0, write_byte PROVE GoodInv' /\ StoreStep
  <1> DEFINE v == [b \in Block |-> clock + 1]
  <1>1. /\ Written({blk}) /\ pc = "write_byte" /\ Return
        /\ IF redo THEN log' = Put(log, {blk}, v) /\ UNCHANGED dev
                   ELSE dev' = Put(dev, {blk}, v) /\ UNCHANGED log
    BY NothingFails, Zenon DEF write_byte
  <1>2. redo' = redo /\ bounce' = bounce /\ cache' = cache /\ got' = got /\ synced' = synced
    BY Zenon DEF write_byte, kept, mode, flushes
  <1>3. Target' = Put(Target, {blk}, v)
    BY <1>1, <1>2, Zenon DEF Target
  <1>4. DisksOK'
    BY <1>1, <1>2, SMT, SMTT(30) DEF GoodInv, DisksOK, Put
  <1>5. clock' = clock + 1 /\ \A e \in Entry : ~cache[e].in_use
    BY <1>1, Zenon DEF Written, GoodInv, LoopInv, Bounds
  <1>6. {blk} \in SUBSET Block
    BY <1>1, LoopBlock, Zenon DEF Loops
  <1> QED
    BY <1>1, <1>2, <1>3, <1>4, <1>5, <1>6, DirectStep, Zenon

-----------------------------------------------------------------------------
(* The other calls.                                                        *)

LEMMA UnixFlushStep ==
    ASSUME GoodInv, faults = 0, ~failing, faults' = 0, unix_flush PROVE GoodInv' /\ StoreStep
  <1>1. PICK F \in SUBSET Entry, G \in SUBSET Entry, f \in BOOLEAN :
          /\ Flush(F, G, FALSE, ~redo \/ f) /\ Failing(F # {} \/ f)
          /\ IF f \/ (~redo /\ F # G) THEN UNCHANGED flushes
             ELSE synced' = IF redo THEN log' ELSE dev'
    BY Zenon DEF unix_flush
  <1>2. F = {} /\ ~f
    <2>1. (F # {} \/ f) \in BOOLEAN
      BY Zenon
    <2> QED
      BY <1>1, <2>1, NothingFails, Zenon
  <1>3. G = {}
    BY <1>1, <1>2, Zenon DEF Flush
  <1>4. Flush({}, {}, FALSE, ~redo \/ f)
    BY <1>1, <1>2, <1>3, Zenon
  <1>5. /\ DisksOK' /\ redo' = redo /\ bounce' = bounce /\ Kept
        /\ Target' = Cont(cache, Target) /\ CacheOK(cache', Target', redo')
        /\ \A e \in Entry : ~(cache'[e].in_use /\ cache'[e].dirty)
    BY <1>4, FlushOK, Zenon DEF GoodInv, Kept
  <1>6. synced' = Target'
    BY <1>1, <1>2, <1>3, <1>5, Zenon DEF Target
  <1>7. /\ pc' = "idle" /\ reuse' = reuse /\ clock' = clock /\ got' = Nothing
    BY Zenon DEF unix_flush, loop, writes, Call
  <1>8. LoopInv'
    BY <1>7, Zenon DEF LoopInv, Bounds, Loops, GoodInv
  <1>9. GoodInv'
    BY <1>5, <1>7, <1>8, NothingRead, Zenon DEF GoodInv
  <1>10. StoreFlush
    BY <1>5, <1>6, <1>7, NothingRead, Zenon DEF StoreFlush, Same
  <1> QED
    BY <1>9, <1>10, Zenon DEF StoreStep

LEMMA EndStep ==
    ASSUME GoodInv, faults = 0, ~failing, faults' = 0, unix_set_blksize \/ unix_close
    PROVE  GoodInv' /\ StoreStep
  <1>1. PICK F \in SUBSET Entry, G \in SUBSET Entry, invalidate \in BOOLEAN :
          Flush(F, G, invalidate, TRUE) /\ Failing(F # {})
    <2>1. CASE unix_set_blksize
      <3>1. PICK F \in SUBSET Entry, G \in SUBSET Entry :
              Flush(F, G, F = G, TRUE) /\ Failing(F # {})
        BY <2>1, Zenon DEF unix_set_blksize
      <3> QED
        BY <3>1, Zenon
    <2>2. CASE unix_close
      <3>1. PICK F \in SUBSET Entry, G \in SUBSET Entry :
              Flush(F, G, TRUE, TRUE) /\ Failing(F # {})
        BY <2>2, Zenon DEF unix_close
      <3> QED
        BY <3>1, Zenon
    <2> QED
      BY <2>1, <2>2, Zenon
  <1>2. F = {} /\ G = {}
    <2>1. F = {}
      BY <1>1, NothingFails, Zenon
    <2> QED
      BY <1>1, <2>1, Zenon DEF Flush
  <1>3. /\ DisksOK' /\ redo' = redo /\ bounce' = bounce /\ Kept
        /\ CacheOK(cache', Target', redo')
    BY <1>1, <1>2, FlushOK, Zenon DEF GoodInv, Kept
  <1>4. /\ pc' \in {"idle", "closed"} /\ reuse' = reuse /\ clock' = clock /\ synced' = synced
        /\ got' = Nothing
    BY Zenon DEF unix_set_blksize, unix_close, loop, writes, flushes, Call
  <1>5. LoopInv'
    BY <1>4, Zenon DEF LoopInv, Bounds, Loops, GoodInv
  <1>6. GoodInv'
    BY <1>3, <1>4, <1>5, NothingRead, Zenon DEF GoodInv
  <1>7. StoreRead({})
    BY <1>3, <1>4, NothingRead, Zenon DEF StoreRead, Same
  <1> QED
    BY <1>6, <1>7, Zenon DEF StoreStep

-----------------------------------------------------------------------------
(* All steps.                                                              *)

LEMMA ReadCallStep ==
    ASSUME GoodInv, faults = 0, ~failing, faults' = 0, NEW b \in Block, NEW count \in Counts,
           unix_read_blk64(b, count)
    PROVE  GoodInv' /\ StoreStep
  <1>1. b \in Nat /\ Blocks(count) \in Nat /\ Blocks(count) >= 1 /\ b + Blocks(count) <= NBlocks
    BY Constants, SMT, SMTT(30) DEF unix_read_blk64, Block, Blocks, Counts
  <1>2. CASE Direct(count)
    <2>1. FlushThen("read_direct", b, Blocks(count), FALSE) /\ Call
      BY <1>2, Zenon DEF unix_read_blk64
    <2> QED
      BY <1>1, <2>1, FlushThenStep, Zenon DEF Loops
  <1>3. CASE ~Direct(count)
    <2>1. Blocks(count) = count
      BY <1>3, Zenon DEF Direct, Blocks
    <2>2. /\ Call /\ pc' = "read" /\ blk' = b /\ cnt' = count
          /\ UNCHANGED <<mode, reuse, cache, age, dev, log, fails, writes, flushes, told>>
      BY <1>3, Zenon DEF unix_read_blk64, kept
    <2> QED
      BY <1>1, <2>1, <2>2, BeginStep, Zenon
  <1> QED
    BY <1>2, <1>3, Zenon

LEMMA WriteCallStep ==
    ASSUME GoodInv, faults = 0, ~failing, faults' = 0, NEW b \in Block, NEW count \in Counts,
           unix_write_blk64(b, count)
    PROVE  GoodInv' /\ StoreStep
  <1>1. b \in Nat /\ Blocks(count) \in Nat /\ Blocks(count) >= 1 /\ b + Blocks(count) <= NBlocks
    BY Constants, SMT, SMTT(30) DEF unix_write_blk64, Writable, Block, Blocks, Counts
  <1>2. CASE Direct(count)
    <2>1. FlushThen("write_direct", b, Blocks(count), TRUE) /\ Call
      BY <1>2, Zenon DEF unix_write_blk64
    <2> QED
      BY <1>1, <2>1, FlushThenStep, Zenon DEF Loops
  <1>3. CASE ~Direct(count)
    <2>1. Blocks(count) = count
      BY <1>3, Zenon DEF Direct, Blocks
    <2>2. /\ Call /\ pc' = "write" /\ blk' = b /\ cnt' = count
          /\ UNCHANGED <<mode, reuse, cache, age, dev, log, fails, writes, flushes, told>>
      BY <1>3, Zenon DEF unix_write_blk64, kept
    <2> QED
      BY <1>1, <2>1, <2>2, BeginStep, Zenon
  <1> QED
    BY <1>2, <1>3, Zenon

LEMMA WriteByteCallStep ==
    ASSUME GoodInv, faults = 0, ~failing, faults' = 0, NEW b \in Block, unix_write_byte(b)
    PROVE  GoodInv' /\ StoreStep
  <1>1. b \in Nat /\ b + 1 <= NBlocks
    BY Constants, SMT, SMTT(30) DEF Block
  <1>2. FlushThen("write_byte", b, 1, TRUE) /\ Call
    BY Zenon DEF unix_write_byte
  <1>3. 1 \in Nat /\ 1 >= 1 /\ TRUE \in BOOLEAN /\ "write_byte" \in Loops
    BY SMT, SMTT(30) DEF Loops
  <1> QED
    BY <1>1, <1>2, <1>3, FlushThenStep, Zenon

\* A step in which nothing fails keeps the invariant, and is a step of the store.
LEMMA GoodStep ==
    ASSUME GoodInv, faults = 0, ~failing, faults' = 0, Next PROVE GoodInv' /\ StoreStep
  <1>1. ~read_fail_many /\ ~read_save
    BY NothingFails, Zenon DEF read_fail_many, read_save, GoodInv, LoopInv, Bounds, Loops
  <1> QED
    BY <1>1, ReadCallStep, WriteCallStep, WriteByteCallStep, ReadDirectStep, ReadHitStep,
       ReadMissOneStep, ReadMissManyStep, WriteBlockStep, WriteDirectStep, WriteByteStep,
       UnixFlushStep, EndStep, Zenon DEF Next

\* no action changes the mode, or forgets a failure
LEMMA FaultsGrow ==
    ASSUME faults \in Nat, faults = 0 => ~failing, Next
    PROVE  /\ faults' \in Nat /\ (faults' = 0 => faults = 0 /\ ~failing')
           /\ redo' = redo /\ bounce' = bounce
  <1> DEFINE Counted == faults' \in Nat /\ (faults' = 0 => faults = 0 /\ ~failing')
  <1>0. faults + 1 \in Nat /\ faults + 1 # 0
    BY SMT, SMTT(30)
  <1>1. ASSUME NEW f, Failing(f) PROVE Counted
    <2>1. CASE f /\ ~failing
      BY <1>0, <1>1, <2>1, Zenon DEF Failing
    <2>2. CASE ~(f /\ ~failing)
      BY <1>1, <2>2, Zenon DEF Failing
    <2> QED
      BY <2>1, <2>2, Zenon
  <1>2. ASSUME UNCHANGED fails PROVE Counted
    <2>1. faults' = faults /\ failing' = failing
      BY <1>2, Zenon DEF fails
    <2> QED
      BY <2>1, Zenon
  <1> HIDE DEF Counted
  <1>3. Counted
    BY <1>1, <1>2, Zenon DEF Next, unix_read_blk64, unix_write_blk64, unix_write_byte, FlushThen,
       read_direct, read_hit, read_miss_one, read_miss_many, read_fail_many, read_save,
       write_block, write_direct, write_byte, unix_flush, unix_set_blksize, unix_close
  <1>4. UNCHANGED mode
    BY ZenonT(40) DEF kept, Next, unix_read_blk64, unix_write_blk64, unix_write_byte, FlushThen, Flush,
       read_direct, read_hit, read_miss_one, read_miss_many, read_fail_many, read_save,
       write_block, write_direct, write_byte, unix_flush, unix_set_blksize, unix_close
  <1> QED
    BY <1>3, <1>4, Zenon DEF Counted, mode

LEMMA IOInit == Init => IOInv
  <1>0. Init => faults \in Nat /\ ~failing
    BY SMT, SMTT(30) DEF Init
  <1> SUFFICES ASSUME Init, Good PROVE GoodInv
    BY <1>0, Zenon DEF IOInv
  <1>1. DisksOK
    BY Zenon DEF Init, DisksOK, Good
  <1>2. CacheOK(cache, Target, redo) /\ \A e \in Entry : ~cache[e].in_use
    BY Zenon DEF Init, CacheOK, CacheEntry, Unused, One, Clean
  <1>3. LoopInv
    BY Zenon DEF Init, LoopInv, Bounds, Loops
  <1> QED
    BY <1>1, <1>2, <1>3, NothingRead, Zenon DEF GoodInv, Init

LEMMA IOStep == IOInv /\ [Next]_vars => IOInv'
  <1> SUFFICES ASSUME IOInv, [Next]_vars PROVE IOInv'
    BY Zenon
  <1>1. CASE Next
    <2>1. /\ faults' \in Nat /\ (faults' = 0 => faults = 0 /\ ~failing')
          /\ redo' = redo /\ bounce' = bounce
      BY <1>1, FaultsGrow, Zenon DEF IOInv
    <2>2. Good' => Good /\ faults = 0 /\ ~failing /\ faults' = 0
      BY <2>1, Zenon DEF Good, IOInv
    <2> QED
      BY <1>1, <2>1, <2>2, GoodStep, Zenon DEF IOInv
  <1>2. CASE UNCHANGED vars
    <2>1. /\ redo' = redo /\ bounce' = bounce /\ faults' = faults /\ failing' = failing /\ cache' = cache
          /\ dev' = dev /\ log' = log /\ got' = got /\ clock' = clock /\ pc' = pc /\ blk' = blk /\ cnt' = cnt
          /\ reuse' = reuse
      BY <1>2, Zenon DEF vars, kept, mode, loop, fails, hist, writes
    <2>2. Target' = Target
      BY <2>1, Zenon DEF Target
    <2>3. DisksOK' = DisksOK /\ LoopInv' = LoopInv /\ Good' = Good
      BY <2>1, Zenon DEF DisksOK, LoopInv, Bounds, Good
    <2> QED
      BY <2>1, <2>2, <2>3, Zenon DEF IOInv, GoodInv
  <1> QED
    BY <1>1, <1>2, Zenon

LEMMA IOInvariant == Spec => []IOInv
  BY IOInit, IOStep, PTL DEF Spec

-----------------------------------------------------------------------------
(* The channel implements the block store.                                 *)

Broken == faults > 0 \/ (redo /\ bounce)

LEMMA AbsInit == Init => Abs!Init
  <1> SUFFICES ASSUME Init PROVE Abs!Init
    BY Zenon
  <1>1. /\ clock = 0 /\ synced = [b \in Block |-> 0] /\ got = [b \in Block |-> -1]
        /\ redo \in BOOLEAN /\ dev = [b \in Block |-> 0] /\ log = [b \in Block |-> 0]
        /\ \A e \in Entry : ~cache[e].in_use
    BY Zenon DEF Init, Nothing, Unread, Unused
  <1>2. Target = [b \in Block |-> 0]
    BY <1>1, Zenon DEF Target
  <1>3. Contents = [b \in Block |-> 0]
    <2>1. \A b \in Block : Cont(cache, Target)[b] = Target[b]
      BY <1>1, ContClean, Zenon
    <2> QED
      BY <1>2, <2>1, ContEqual, ContIsContents, SMT, SMTT(30)
  <1>4. (faults > 0 \/ (redo /\ bounce)) \in BOOLEAN
    BY Zenon
  <1> QED
    BY <1>1, <1>3, <1>4, Zenon DEF Abs!Init, Abs!Unread

LEMMA AbsStep ==
    ASSUME IOInv, [Next]_vars PROVE [Abs!Next]_(Abs!svars)
  <1>1. CASE UNCHANGED vars
    <2>1. /\ clock' = clock /\ synced' = synced /\ got' = got /\ redo' = redo
          /\ faults' = faults /\ bounce' = bounce /\ cache' = cache /\ dev' = dev /\ log' = log
      BY <1>1, Zenon DEF vars, kept, mode, fails, hist, writes, flushes
    <2>2. Contents' = Contents
      BY <2>1, SMT, SMTT(30) DEF Contents, Holding
    <2> QED
      BY <2>1, <2>2, Zenon DEF Abs!svars
  <1>2. CASE Next /\ Broken'
    <2>1. redo' = redo
      BY <1>2, FaultsGrow, Zenon DEF IOInv
    <2> QED
      BY <1>2, <2>1, Zenon DEF Broken, Abs!Next, Abs!Fail
  <1>3. CASE Next /\ ~Broken'
    <2>1. faults \in Nat /\ faults' \in Nat /\ (faults' = 0 => faults = 0 /\ ~failing)
          /\ redo' = redo /\ bounce' = bounce
      BY <1>3, FaultsGrow, Zenon DEF IOInv
    <2>2. faults' = 0 /\ faults = 0 /\ ~failing /\ ~(redo /\ bounce)
      BY <1>3, <2>1, SMT, SMTT(30) DEF Broken
    <2>3. GoodInv /\ StoreStep
      BY <1>3, <2>2, GoodStep, Zenon DEF IOInv, Good
    <2>4. (faults > 0 \/ (redo /\ bounce))' = (faults > 0 \/ (redo /\ bounce))
      BY <2>1, <2>2, Zenon
    <2>5. ASSUME NEW S \in SUBSET Block, StoreWrite(S) PROVE Abs!Write(S)
      <3>1. Contents' = [b \in Block |-> IF b \in S THEN clock' ELSE Contents[b]]
        <4>1. \A b \in Block : Cont(cache', Target')[b] = IF b \in S THEN clock' ELSE Contents[b]
          BY <2>5, ContIsContents, Zenon DEF StoreWrite
        <4> DEFINE f == [b \in Block |-> IF b \in S THEN clock' ELSE Contents[b]]
        <4>2. f = [b \in Block |-> f[b]] /\ \A b \in Block : Cont(cache', Target')[b] = f[b]
          BY <4>1, Zenon
        <4> HIDE DEF f
        <4>3. Cont(cache', Target') = f
          BY <4>2, ContEqual, SMT, SMTT(30)
        <4> QED
          BY <4>3, ContIsContentsNext, Zenon DEF f
      <3> QED
        BY <2>1, <2>4, <2>5, <3>1, Zenon DEF Abs!Write, StoreWrite
    <2>6. ASSUME NEW S \in SUBSET Block, StoreRead(S) PROVE Abs!Read(S)
      <3>1. Contents' = Contents /\ \A b \in S : got'[b] = Contents[b] \/ (redo /\ got'[b] = 0)
        BY <2>6, ContIsContents, ContIsContentsNext, Zenon DEF StoreRead, Kept
      <3> QED
        BY <2>1, <2>4, <2>6, <3>1, Zenon DEF Abs!Read, Abs!Unread, StoreRead
    <2>7. ASSUME StoreFlush PROVE Abs!Flush
      <3>1. Contents' = Contents /\ synced' = Contents
        BY <2>7, ContIsContents, ContIsContentsNext, Zenon DEF StoreFlush, Kept
      <3> QED
        BY <2>1, <2>4, <2>7, <3>1, Zenon DEF Abs!Flush, Abs!Unread, StoreFlush
    <2> QED
      BY <2>3, <2>5, <2>6, <2>7, Zenon DEF StoreStep, Abs!Next
  <1> QED
    BY <1>1, <1>2, <1>3, Zenon

\* The cache of unix_io.c is transparent: behind it is a block store whose reads
\* return the last write (with the redo log: the last write or the block as it was
\* found) and whose flush makes everything written stable, for any sizes of the
\* device, the cache and the direct writes, as long as no system call fails.
THEOREM Implements == Spec => AbsSpec
  <1>1. Init => Abs!Init
    BY AbsInit, Zenon
  <1>2. IOInv /\ [Next]_vars => [Abs!Next]_(Abs!svars)
    BY AbsStep, Zenon
  <1> QED
    BY <1>1, <1>2, IOInvariant, PTL DEF Spec, AbsSpec, Abs!Spec

-----------------------------------------------------------------------------
(* Properties that also hold when writes bounce past the log.              *)

\* nothing that the error handler does has happened
OneParts == One(cache) /\ cache = [e \in Entry |-> cache[e]] /\ Bounds

OneInv == faults = 0 => OneParts

LEMMA OneFlush ==
    ASSUME One(cache), NEW F, NEW G, NEW i, NEW r, Flush(F, G, i, r)
    PROVE  One(cache') /\ cache' = [e \in Entry |-> cache'[e]]
  <1>1. PICK D : cache' = [e \in Entry |-> IF i THEN Unused
                                           ELSE [cache[e] EXCEPT !.dirty = @ /\ e \notin D]]
    BY Zenon DEF Flush
  <1>2. \A e \in Entry : cache'[e].in_use => cache[e].in_use /\ cache'[e].block = cache[e].block
    BY <1>1, SMT, SMTT(30) DEF Unused
  <1> QED
    BY <1>1, <1>2, Zenon DEF One

LEMMA OneRefilled ==
    ASSUME One(cache), cache = [e \in Entry |-> cache[e]], NEW e \in Entry, NEW b, NEW v, NEW d,
           \A x \in Entry \ {e} : ~(cache[x].in_use /\ cache[x].block = b),
           cache' = Refilled(e, b, v, d)
    PROVE  One(cache') /\ cache' = [x \in Entry |-> cache'[x]]
  <1>1. /\ cache'[e].in_use /\ cache'[e].block = b
        /\ \A x \in Entry \ {e} : cache'[x] = cache[x]
        /\ cache' = [x \in Entry |-> cache'[x]]
    BY Zenon DEF Refilled
  <1> QED
    BY <1>1, SMT, SMTT(30) DEF One

LEMMA ReturnBounds == Return => Bounds'
  BY Zenon DEF Return, Bounds, Loops

\* a call begins, with or without a flush
LEMMA OneFlushThen ==
    ASSUME OneParts, NEW p \in Loops, NEW b \in Nat, NEW n \in Nat, n >= 1, b + n <= NBlocks,
           NEW i, FlushThen(p, b, n, i)
    PROVE  OneParts'
  <1>1. One(cache') /\ cache' = [e \in Entry |-> cache'[e]]
    BY OneFlush, Zenon DEF FlushThen, OneParts
  <1>2. (pc' = p /\ blk' = b /\ cnt' = n /\ reuse' = reuse) \/ Return
    BY Zenon DEF FlushThen
  <1>3. Bounds'
    BY <1>2, ReturnBounds, Zenon DEF OneParts, Bounds
  <1> QED
    BY <1>1, <1>3, Zenon DEF OneParts

LEMMA OneBegin ==
    ASSUME OneParts, NEW p \in Loops, NEW b \in Nat, NEW n \in Nat, n >= 1, b + n <= NBlocks,
           pc' = p, blk' = b, cnt' = n, reuse' = reuse, cache' = cache
    PROVE  OneParts'
  BY Zenon DEF OneParts, Bounds

LEMMA OneCalls ==
    ASSUME OneParts, NEW b \in Block, NEW count \in Counts,
           unix_read_blk64(b, count) \/ unix_write_blk64(b, count) \/ unix_write_byte(b)
    PROVE  OneParts'
  <1>1. CASE unix_write_byte(b)
    <2>1. b \in Nat /\ 1 \in Nat /\ 1 >= 1 /\ b + 1 <= NBlocks /\ "write_byte" \in Loops
      BY Constants, SMT, SMTT(30) DEF Block, Loops
    <2> QED
      BY <1>1, <2>1, OneFlushThen, Zenon DEF unix_write_byte
  <1>2. CASE ~unix_write_byte(b)
    <2>0. b + Blocks(count) <= NBlocks
      BY <1>2, Zenon DEF unix_read_blk64, unix_write_blk64, Writable
    <2>1. /\ b \in Nat /\ Blocks(count) \in Nat /\ Blocks(count) >= 1
          /\ b + Blocks(count) <= NBlocks /\ (~Direct(count) => count = Blocks(count))
      BY <2>0, Constants, SMT, SMTT(30) DEF Block, Blocks, Counts, Direct
    <2>2. \/ \E p \in Loops, i \in BOOLEAN : FlushThen(p, b, Blocks(count), i)
          \/ /\ pc' \in Loops /\ blk' = b /\ cnt' = Blocks(count)
             /\ reuse' = reuse /\ cache' = cache
      BY <1>2, <2>1, Zenon DEF unix_read_blk64, unix_write_blk64, Loops
    <2> QED
      BY <2>1, <2>2, OneFlushThen, OneBegin, Zenon
  <1> QED
    BY <1>1, <1>2, Zenon

LEMMA OneStep == OneInv /\ IOInv /\ [Next]_vars => OneInv'
  <1> SUFFICES ASSUME OneInv, IOInv, [Next]_vars, faults' = 0 PROVE OneParts'
    BY Zenon DEF OneInv
  <1>1. CASE UNCHANGED vars
    BY <1>1, Zenon DEF vars, loop, fails, OneInv, OneParts, Bounds
  <1>2. CASE Next
    <2>0. faults = 0 /\ ~failing /\ OneParts
      BY <1>2, FaultsGrow, Zenon DEF OneInv, IOInv
    <2>a. ~Failing(TRUE) /\ \A f \in BOOLEAN : Failing(f) => ~f
      BY <2>0, NothingFails, Zenon
    <2>b. pc \notin {"read_each", "read_save", "write_each"} /\ (pc \in Loops => blk \in Nat /\ 1 \in 1..cnt)
      BY <2>0, SMT, SMTT(30) DEF OneParts, Bounds, Loops
    <2>c. ASSUME NEW e \in Entry, NEW b, NEW v, NEW d, NEW n \in 1..cnt,
                 pc \in {"read", "write"}, cache' = Refilled(e, b, v, d), Advance(n),
                 \A x \in Entry \ {e} : ~(cache[x].in_use /\ cache[x].block = b)
          PROVE  OneParts'
      <3>1. One(cache') /\ cache' = [x \in Entry |-> cache'[x]]
        BY <2>0, <2>c, OneRefilled, Zenon DEF OneParts
      <3>2. Bounds'
        BY <2>0, <2>c, AdvanceBounds, Zenon DEF OneParts
      <3> QED
        BY <3>1, <3>2, Zenon DEF OneParts
    <2>1. \A b \in Block, count \in Counts :
            unix_read_blk64(b, count) \/ unix_write_blk64(b, count) => OneParts'
      BY <2>0, OneCalls, Zenon
    <2>2. \A b \in Block : unix_write_byte(b) => OneParts'
      <3>1. -1 \in Counts
        BY Zenon DEF Counts
      <3> QED
        BY <2>0, <3>1, OneCalls, Zenon
    <2>3. CASE read_direct
      <3>1. Return /\ cache' = cache
        BY <2>3, <2>a, Zenon DEF read_direct
      <3> QED
        BY <2>0, <3>1, ReturnBounds, Zenon DEF OneParts
    <2>4. CASE read_hit
      BY <2>0, <2>4, <2>b, AdvanceBounds, Zenon DEF read_hit, OneParts, Loops
    <2>5. CASE read_miss_one
      <3>1. PICK e \in Eldest, fr \in BOOLEAN, f \in BOOLEAN :
              /\ Failing(f) /\ (fr => f)
              /\ \/ ~fr /\ cache' = Refilled(e, blk, dev[blk], FALSE) /\ Advance(1)
                 \/ fr
        BY <2>5, Zenon DEF read_miss_one
      <3>2. cache' = Refilled(e, blk, dev[blk], FALSE) /\ Advance(1)
        BY <2>a, <3>1, Zenon
      <3>3. pc = "read" /\ \A x \in Entry : ~(cache[x].in_use /\ cache[x].block = blk)
        BY <2>5, <2>b, Zenon DEF read_miss_one, Cached, Holding
      <3> QED
        BY <2>b, <2>c, <3>2, <3>3, EldestEntry, Zenon DEF Loops
    <2>6. CASE read_miss_many
      <3>1. PICK n \in 1..cnt, e \in Eldest :
              /\ Uncached(n) /\ cache' = Refilled(e, blk + n - 1, dev[blk + n - 1], FALSE)
              /\ Advance(n)
        BY <2>6, Zenon DEF read_miss_many
      <3>2. pc = "read" /\ blk + n - 1 \in Span(blk, n)
        BY <2>0, <2>6, Constants, SMT, SMTT(30) DEF read_miss_many, OneParts, Bounds, Loops, Span, Block
      <3>3. \A x \in Entry : ~(cache[x].in_use /\ cache[x].block = blk + n - 1)
        BY <3>1, <3>2, Zenon DEF Uncached, Cached, Holding
      <3> QED
        BY <2>c, <3>1, <3>2, <3>3, EldestEntry, Zenon
    <2>7. ~read_fail_many /\ ~read_save
      BY <2>a, <2>b, Zenon DEF read_fail_many, read_save
    <2>8. CASE write_block
      <3>1. PICK e \in Entry :
              /\ cache' = Refilled(e, blk, clock + 1, TRUE)
              /\ e \in Found(blk) \/ ~Cached(blk)
        BY <2>8, EldestEntry, Zenon DEF write_block, Found, Holding
      <3>2. \A x \in Entry \ {e} : ~(cache[x].in_use /\ cache[x].block = blk)
        BY <2>0, <3>1, Zenon DEF Found, Cached, Holding, OneParts, One
      <3>3. pc = "write" /\ Advance(1)
        BY <2>8, <2>b, Zenon DEF write_block
      <3> QED
        BY <2>b, <2>c, <3>1, <3>2, <3>3, Zenon DEF Loops
    <2>9. CASE write_direct
      <3>1. Return /\ cache' = cache
        BY <2>9, <2>a, Zenon DEF write_direct
      <3> QED
        BY <2>0, <3>1, ReturnBounds, Zenon DEF OneParts
    <2>10. CASE write_byte
      BY <2>0, <2>10, ReturnBounds, Zenon DEF write_byte, OneParts
    <2>11. CASE unix_flush \/ unix_set_blksize \/ unix_close
      <3>1. One(cache') /\ cache' = [e \in Entry |-> cache'[e]]
        BY <2>0, <2>11, OneFlush, Zenon DEF unix_flush, unix_set_blksize, unix_close, OneParts
      <3>2. pc' \in {"idle", "closed"} /\ reuse' = reuse
        BY <2>11, Zenon DEF unix_flush, unix_set_blksize, unix_close, loop, Call
      <3>3. Bounds'
        BY <2>0, <3>2, Zenon DEF OneParts, Bounds, Loops
      <3> QED
        BY <3>1, <3>3, Zenon DEF OneParts
    <2> QED
      BY <1>2, <2>1, <2>2, <2>3, <2>4, <2>5, <2>6, <2>7, <2>8, <2>9, <2>10, <2>11, Zenon DEF Next
  <1> QED
    BY <1>1, <1>2, Zenon

\* No block has two entries in the cache, whatever calls are made, as long as no
\* system call fails: find_cached_block finds the only copy.
THEOREM CachedOnce == Spec => []OneCopy
  <1>1. Init => OneInv
    BY SMT, SMTT(30) DEF Init, OneInv, OneParts, Bounds, Loops, One, Unused
  <1>2. OneInv => OneCopy
    BY Zenon DEF OneInv, OneParts, OneCopy, One
  <1> QED
    BY <1>1, <1>2, OneStep, IOInvariant, PTL DEF Spec

-----------------------------------------------------------------------------
(* The device behind the redo log.                                         *)

WritesToLog == redo' = redo /\ bounce' = bounce /\ (LogMode => dev' = dev)

LEMMA FlushToLog ==
    ASSUME NEW F, NEW G, NEW i, NEW r, Flush(F, G, i, r)
    PROVE  WritesToLog
  BY Zenon DEF Flush, RawWrite, WritesToLog, kept, mode

LEMMA EvictToLog ==
    ASSUME NEW e, NEW f, Evict(e, f)
    PROVE  LogMode => dev' = dev
  BY Zenon DEF Evict, RawWrite

\* No step writes the device while the log is in use, and none turns it off.
LEMMA StepToLog == [Next]_vars => WritesToLog
  <1> SUFFICES ASSUME [Next]_vars PROVE WritesToLog
    BY Zenon
  <1>1. CASE UNCHANGED vars
    BY <1>1, Zenon DEF vars, kept, mode, WritesToLog
  <1>2. \A p, b, n, i : FlushThen(p, b, n, i) => WritesToLog
    BY FlushToLog, Zenon DEF FlushThen
  <1>3. \A b \in Block, count \in Counts :
          unix_read_blk64(b, count) \/ unix_write_blk64(b, count) => WritesToLog
    BY <1>2, Zenon DEF unix_read_blk64, unix_write_blk64, WritesToLog, kept, mode
  <1>4. \A b \in Block : unix_write_byte(b) => WritesToLog
    BY <1>2, Zenon DEF unix_write_byte
  <1>5. read_direct \/ read_hit \/ read_fail_many => WritesToLog
    BY Zenon DEF read_direct, read_hit, read_fail_many, WritesToLog, kept, mode
  <1>6. read_miss_one \/ read_miss_many \/ read_save => WritesToLog
    BY EvictToLog, Zenon DEF read_miss_one, read_miss_many, read_save, WritesToLog, kept, mode
  <1>7. write_block => WritesToLog
    BY EvictToLog, Zenon DEF write_block, WritesToLog, kept, mode
  <1>8. write_direct => WritesToLog
    BY Zenon DEF write_direct, RawWrite, WritesToLog, kept, mode
  <1>9. write_byte => WritesToLog
    BY Zenon DEF write_byte, WritesToLog, kept, mode, LogMode
  <1>10. unix_flush \/ unix_set_blksize \/ unix_close => WritesToLog
    BY FlushToLog, Zenon DEF unix_flush, unix_set_blksize, unix_close
  <1> QED
    BY <1>1, <1>3, <1>4, <1>5, <1>6, <1>7, <1>8, <1>9, <1>10, Zenon DEF Next

\* With the redo log enabled no call on the channel writes the device, whatever
\* fails: every write path of unix_io.c goes through rfsck_write.
THEOREM OnlyTheLog == Spec => []DeviceUntouched
  <1>1. Init => DeviceUntouched
    BY Zenon DEF Init, DeviceUntouched
  <1>2. DeviceUntouched /\ WritesToLog => DeviceUntouched'
    BY SMT, SMTT(30) DEF DeviceUntouched, WritesToLog, LogMode
  <1> QED
    BY <1>1, <1>2, StepToLog, PTL DEF Spec
=============================================================================
