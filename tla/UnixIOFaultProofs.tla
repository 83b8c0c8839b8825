------------------------- MODULE UnixIOFaultProofs -------------------------
(***************************************************************************)
(* Proofs about UnixIO when system calls fail, for every size of device,   *)
(* cache and bound: the loops stay within the device and the cache,        *)
(* nothing older is written over something newer, a version that is lost   *)
(* was reported, and a flush that succeeded was one.                       *)
(*                                                                         *)
(* The last three hold until the read error handler has put a copy of a    *)
(* block into an entry before the dirty one (crossed).  What makes them    *)
(* inductive is that until then a dirty entry is the first of its block,   *)
(* so that there is one of them, and holds the last version written.       *)
(***************************************************************************)
EXTENDS UnixIO, WellFoundedInduction, TLAPS

Versions == [Block -> Nat]

\* the loops over blocks stay within the device
Spans ==
    /\ pc \in {"read", "read_each", "read_direct", "write", "write_each", "write_direct",
           "write_byte"}
          => cnt >= 1 /\ blk + cnt <= NBlocks
    /\ reuse.n > 0 => reuse.blk \in Block /\ reuse.blk + 1 + reuse.left <= NBlocks
    /\ pc = "read_save" => reuse.n > 0

\* entries in use hold blocks of the device, dirty ones something to write
Entries ==
    \A e \in Entry : cache[e].in_use =>
       /\ cache[e].block \in Block
       /\ cache[e].dirty => cache[e].buf \in Nat /\ cache[e].buf <= want[cache[e].block]

\* versions come from writes
Ordered == \A b \in Block : /\ want[b] <= clock
                            /\ dev[b] <= want[b] /\ log[b] <= want[b]

\* a dirty entry is the first of its block and has its last version
First ==
    ~crossed => \A e \in Entry : Dirty(e) =>
       /\ cache[e].buf = want[cache[e].block]
       /\ \A x \in Holding(cache[e].block) : e <= x

\* the side that is not written is empty
Sides == \A b \in Block : (~redo => log[b] = 0) /\ (LogMode => dev[b] = 0)

\* a call past the cache finds it flushed, or empty
Emptied ==
    /\ pc = "read_direct" => \A e \in Entry : ~Dirty(e)
    /\ pc \in {"write_direct", "write_byte"} => \A e \in Entry : ~cache[e].in_use

\* a failing call is counted
Counted == failing => faults > 0

Shape == TypeOK /\ Counted /\ Spans /\ Entries /\ Ordered /\ First /\ Sides /\ Emptied

\* The invariant: with Shape, both claims are inductive.
FaultInv == Shape /\ LossReported /\ FlushHonest

-----------------------------------------------------------------------------
(* Entries that are written back.                                          *)

LEMMA Sizes == /\ NBlocks \in Nat /\ CACHE_SIZE \in Nat /\ CACHE_SIZE >= 1
               /\ MaxFaults \in Nat /\ MaxWrites \in Nat
  BY UnixIOAssumption, SMT, SMTT(30)

LEMMA LastEntry ==
    ASSUME NEW S \in SUBSET Entry, S # {} PROVE \E e \in S : \A x \in S : x <= e
  <1> DEFINE T == {CACHE_SIZE - x : x \in S}
             R == OpToRel(<, Nat)
  <1>1. T \subseteq Nat /\ T # {}
    <2>1. PICK s \in S : TRUE
      BY Zenon
    <2>2. CACHE_SIZE - s \in T
      BY Zenon
    <2>3. \A x \in S : CACHE_SIZE - x \in Nat
      BY Sizes, SMT, SMTT(30) DEF Entry
    <2> QED
      BY <2>2, <2>3, Zenon
  <1>2. PICK m \in T : \A y \in T : ~(<<y, m>> \in R)
    <2>1. IsWellFoundedOn(R, Nat)
      BY NatLessThanWellFounded, Zenon
    <2> HIDE DEF T, R
    <2> QED
      BY <1>1, <2>1, WFMin, Zenon
  <1>3. \A y \in T : ~(y < m)
    BY <1>1, <1>2, Zenon DEF OpToRel
  <1>4. PICK e \in S : m = CACHE_SIZE - e
    BY Zenon
  <1>5. ASSUME NEW x \in S PROVE x <= e
    <2>1. ~(CACHE_SIZE - x < CACHE_SIZE - e)
      BY <1>3, <1>4, Zenon
    <2> QED
      BY <2>1, Sizes, SMT, SMTT(30) DEF Entry
  <1> QED
    BY <1>5, Zenon

\* the version of a block that stays when the entries X are written
LEMMA LastOfBlock ==
    ASSUME NEW X \in SUBSET Entry, NEW b \in BlocksOf(X)
    PROVE  Last(X, b) \in X /\ cache[Last(X, b)].block = b
  <1> DEFINE S == {e \in X : cache[e].block = b}
  <1>1. S \in SUBSET Entry /\ S # {}
    BY Zenon DEF BlocksOf
  <1>2. PICK e \in S : \A x \in S : x <= e
    BY <1>1, LastEntry, Zenon
  <1> QED
    BY <1>2, Zenon DEF Last

\* What is written of dirty entries are versions of their blocks, and the last
\* ones until two copies are crossed.
LEMMA BufsOfDirty ==
    ASSUME Shape, NEW X \in SUBSET {e \in Entry : Dirty(e)}
    PROVE  /\ BlocksOf(X) \subseteq Block /\ BufsOf(X) \in Versions
           /\ \A b \in BlocksOf(X) : /\ BufsOf(X)[b] <= want[b]
                                     /\ ~crossed => BufsOf(X)[b] = want[b]
  <1>1. BlocksOf(X) \subseteq Block
    BY Zenon DEF BlocksOf, Shape, Entries, Dirty
  <1>2. ASSUME NEW b \in BlocksOf(X)
        PROVE  /\ BufsOf(X)[b] \in Nat /\ BufsOf(X)[b] <= want[b]
               /\ ~crossed => BufsOf(X)[b] = want[b]
    <2>1. PICK e \in X : e = Last(X, b) /\ cache[e].block = b
      BY LastOfBlock, Zenon
    <2>2. BufsOf(X)[b] = cache[e].buf
      BY <1>1, <2>1, Zenon DEF BufsOf
    <2> QED
      BY <2>1, <2>2, Zenon DEF Shape, Entries, First, Dirty
  <1>3. BufsOf(X) \in Versions
    BY <1>1, <1>2, Zenon DEF BufsOf, Versions
  <1> QED
    BY <1>1, <1>2, <1>3, Zenon

\* What a step that writes entries back does to the versions: only last versions
\* arrive, on one of the two sides.
Back ==
    /\ dev' \in Versions /\ log' \in Versions /\ told' \in Versions
    /\ \A b \in Block : dev'[b] <= want[b] /\ log'[b] <= want[b]
    /\ ~crossed => \A b \in Block : /\ dev'[b] \in {dev[b], want[b]}
                                    /\ log'[b] \in {log[b], want[b]}
                                    /\ told'[b] \in {told[b], want[b]}
    /\ IF LogMode THEN dev' = dev ELSE log' = log

\* the last version of b has arrived, or its loss is reported
Saved(b) == IF LogMode THEN faults' > 0 \/ log'[b] = want[b]
                       ELSE want[b] \in {dev'[b], told'[b]}

LEMMA Typed ==
    ASSUME Shape
    PROVE  /\ dev \in Versions /\ log \in Versions /\ told \in Versions
           /\ want \in Versions /\ synced \in Versions
  BY Zenon DEF Shape, TypeOK, Versions

LEMMA RawBack ==
    ASSUME Shape, NEW S \in SUBSET Block, NEW v \in Versions, RawWrite(S, v),
           NEW T \in SUBSET Block, NEW w \in Versions, told' = Put(told, T, w),
           \A b \in S : v[b] <= want[b] /\ (~crossed => v[b] = want[b]),
           ~crossed => \A b \in T : w[b] = want[b]
    PROVE  Back
  <1>1. /\ dev \in Versions /\ log \in Versions /\ told \in Versions
        /\ \A b \in Block : dev[b] <= want[b] /\ log[b] <= want[b]
    BY Typed, Zenon DEF Shape, Ordered
  <1>2. told' \in Versions /\ (~crossed => \A b \in Block : told'[b] \in {told[b], want[b]})
    BY <1>1, Zenon DEF Put, Versions
  <1>3. CASE LogMode
    <2>1. dev' = dev /\ log' = Put(log, S, v)
      BY <1>3, Zenon DEF RawWrite
    <2> QED
      BY <1>1, <1>2, <1>3, <2>1, Zenon DEF Back, Put, Versions
  <1>4. CASE ~LogMode
    <2>1. log' = log /\ dev' = Put(dev, S, v)
      BY <1>4, Zenon DEF RawWrite
    <2> QED
      BY <1>1, <1>2, <1>4, <2>1, Zenon DEF Back, Put, Versions
  <1> QED
    BY <1>3, <1>4, Zenon

LEMMA FailingFaults ==
    ASSUME Shape, NEW f \in BOOLEAN, Failing(f)
    PROVE  /\ faults' \in 0..MaxFaults /\ faults' >= faults /\ (f => faults' > 0)
           /\ failing' \in BOOLEAN /\ Counted'
  <1>1. failing' \in BOOLEAN /\ (failing' => f \/ failing)
    BY Zenon DEF Failing, Shape, TypeOK
  <1>2. CASE f /\ ~failing
    BY <1>1, <1>2, Sizes, SMT, SMTT(30) DEF Shape, TypeOK, Counted, Failing
  <1>3. CASE ~(f /\ ~failing)
    <2>1. faults' = faults /\ faults \in 0..MaxFaults /\ (failing => faults > 0)
      BY <1>3, Zenon DEF Failing, Shape, TypeOK, Counted
    <2> QED
      BY <1>1, <1>3, <2>1, Sizes, SMT, SMTT(30) DEF Counted
  <1> QED
    BY <1>2, <1>3, Zenon

FaultCacheEntry == [in_use : BOOLEAN, dirty : BOOLEAN, block : Block \cup {0}, buf : Nat \cup {Unread}]
CacheTyped == cache \in [Entry -> FaultCacheEntry]

\* flush_cached_blocks writes the last versions, reports those that it cannot
\* write, and leaves no dirty entry unless one of them is kept.
LEMMA FlushBack ==
    ASSUME Shape, NEW F \in SUBSET Entry, NEW G \in SUBSET Entry, NEW i \in BOOLEAN,
           NEW r \in BOOLEAN, Flush(F, G, i, r), F # {} => faults' > 0
    PROVE  /\ Back /\ kept' = kept /\ age' = age /\ CacheTyped'
           /\ ~crossed => \A e \in Entry : Dirty(e) => Saved(cache[e].block)
           /\ \A e \in Entry : cache'[e].in_use =>
                 /\ ~i /\ cache[e].in_use /\ cache'[e].block = cache[e].block
                 /\ cache'[e].buf = cache[e].buf /\ (cache'[e].dirty => cache[e].dirty)
           /\ F = G => \A e \in Entry : ~(cache'[e].in_use /\ cache'[e].dirty)
  <1> DEFINE D == {e \in Entry : Dirty(e)}
             X == D \ F
             T == IF r \/ ~LogMode THEN BlocksOf(F) ELSE {}
  <1>1. /\ F \subseteq D /\ G \subseteq F /\ RawWrite(BlocksOf(X), BufsOf(X))
        /\ cache' = [e \in Entry |-> IF i THEN Unused
                                     ELSE [cache[e] EXCEPT !.dirty = @ /\ e \notin X \cup G]]
        /\ told' = IF r \/ ~LogMode THEN Put(told, BlocksOf(F), BufsOf(F)) ELSE told
        /\ kept' = kept /\ age' = age
    BY Zenon DEF Flush
  <1>2. X \in SUBSET D /\ F \in SUBSET D
    BY <1>1, Zenon
  <1>3. /\ BlocksOf(X) \subseteq Block /\ BufsOf(X) \in Versions
        /\ \A b \in BlocksOf(X) : BufsOf(X)[b] <= want[b] /\ (~crossed => BufsOf(X)[b] = want[b])
        /\ BlocksOf(F) \subseteq Block /\ BufsOf(F) \in Versions
        /\ \A b \in BlocksOf(F) : ~crossed => BufsOf(F)[b] = want[b]
    BY <1>2, BufsOfDirty, Zenon
  <1>4. told' = Put(told, T, BufsOf(F))
    BY <1>1, Typed, Zenon DEF Put, Versions
  <1>5. Back
    BY <1>1, <1>3, <1>4, RawBack, SMT, SMTT(30)
  <1>6. ASSUME NEW e \in Entry, Dirty(e), ~crossed PROVE Saved(cache[e].block)
    <2> DEFINE b == cache[e].block
    <2>1. b \in Block
      BY <1>6, Zenon DEF Shape, Entries, Dirty
    <2>2. CASE e \in F
      <3>1. b \in BlocksOf(F) /\ faults' > 0
        BY <2>2, Zenon DEF BlocksOf
      <3>2. ~LogMode => told'[b] = want[b]
        BY <1>1, <1>3, <1>6, <2>1, <3>1, Zenon DEF Put
      <3> QED
        BY <3>1, <3>2, Zenon DEF Saved
    <2>3. CASE e \notin F
      <3>1. b \in BlocksOf(X)
        BY <1>6, <2>3, Zenon DEF BlocksOf
      <3>2. IF LogMode THEN log'[b] = want[b] ELSE dev'[b] = want[b]
        BY <1>1, <1>3, <1>6, <2>1, <3>1, SMT, SMTT(30) DEF RawWrite, Put
      <3> QED
        BY <3>2, Zenon DEF Saved
    <2> QED
      BY <2>2, <2>3, Zenon
  <1>7. CacheTyped'
    <2>1. Unused \in FaultCacheEntry
      BY Zenon DEF Unused, FaultCacheEntry
    <2>2. ASSUME NEW e \in Entry
          PROVE  [cache[e] EXCEPT !.dirty = @ /\ e \notin X \cup G] \in FaultCacheEntry
      <3>1. cache[e] \in FaultCacheEntry
        BY Zenon DEF Shape, TypeOK, FaultCacheEntry
      <3> HIDE DEF X
      <3> QED
        BY <3>1, Zenon DEF FaultCacheEntry
    <2> HIDE DEF X
    <2> QED
      BY <1>1, <2>1, <2>2, Zenon DEF CacheTyped
  <1>8. ASSUME NEW e \in Entry, cache'[e].in_use
        PROVE  /\ ~i /\ cache[e].in_use /\ cache'[e].block = cache[e].block
               /\ cache'[e].buf = cache[e].buf /\ (cache'[e].dirty => cache[e].dirty)
    BY <1>1, <1>8, SMT, SMTT(30) DEF Shape, TypeOK, Unused
  <1>9. ASSUME NEW e \in Entry, F = G PROVE ~(cache'[e].in_use /\ cache'[e].dirty)
    <2>1. e \notin X \cup G => ~Dirty(e)
      BY <1>9, Zenon
    <2> QED
      BY <1>1, <2>1, SMT, SMTT(30) DEF Dirty, Shape, TypeOK, Unused
  <1> QED
    BY <1>1, <1>5, <1>6, <1>7, <1>8, <1>9, Zenon

\* reuse_cache writes a dirty entry, or its loss is reported.
LEMMA EvictBack ==
    ASSUME Shape, NEW e \in Entry, NEW f \in BOOLEAN, Evict(e, f), f => faults' > 0
    PROVE  Back /\ (~crossed /\ Dirty(e) => Saved(cache[e].block))
  <1> DEFINE S == IF Dirty(e) THEN {cache[e].block} ELSE {}
             v == [b \in Block |-> cache[e].buf]
             none == [b \in Block |-> 0]
             w == IF Dirty(e) THEN v ELSE none
  <1>1. /\ f => Dirty(e)
        /\ IF f THEN dev' = dev /\ log' = log ELSE RawWrite(S, v)
        /\ told' = IF f /\ ~LogMode THEN Put(told, S, v) ELSE told
    BY Zenon DEF Evict
  <1>2. S \subseteq Block /\ w \in Versions /\ (Dirty(e) => v = w)
        /\ \A b \in S : w[b] <= want[b] /\ (~crossed => w[b] = want[b])
    BY Zenon DEF Versions, Shape, Entries, First, Dirty
  <1>3. RawWrite(IF f THEN {} ELSE S, w)
    <2>1. CASE f
      BY <1>1, <2>1, Typed, Zenon DEF RawWrite, Put, Versions
    <2>2. CASE ~f /\ Dirty(e)
      BY <1>1, <1>2, <2>2, Zenon
    <2>3. CASE ~f /\ ~Dirty(e)
      BY <1>1, <2>3, Zenon DEF RawWrite, Put
    <2> QED
      BY <2>1, <2>2, <2>3, Zenon
  <1>4. told' = Put(told, IF f /\ ~LogMode THEN S ELSE {}, w)
    <2>1. CASE f /\ ~LogMode
      BY <1>1, <1>2, <2>1, Zenon
    <2>2. CASE ~(f /\ ~LogMode)
      BY <1>1, <2>2, Typed, Zenon DEF Put, Versions
    <2> QED
      BY <2>1, <2>2, Zenon
  <1> HIDE DEF w
  <1>5. Back
    <2> DEFINE S1 == IF f THEN {} ELSE S
               S2 == IF f /\ ~LogMode THEN S ELSE {}
    <2>1. /\ S1 \in SUBSET Block /\ S2 \in SUBSET Block
          /\ \A b \in S1 : w[b] <= want[b] /\ (~crossed => w[b] = want[b])
          /\ ~crossed => \A b \in S2 : w[b] = want[b]
      BY <1>2, Zenon
    <2>2. RawWrite(S1, w) /\ told' = Put(told, S2, w)
      BY <1>3, <1>4, Zenon
    <2> HIDE DEF S1, S2
    <2> QED
      BY <1>2, <2>1, <2>2, RawBack, SMT, SMTT(30)
  <1>6. ASSUME ~crossed, Dirty(e) PROVE Saved(cache[e].block)
    <2>1. cache[e].block \in S /\ cache[e].block \in Block /\ w[cache[e].block] = want[cache[e].block]
      BY <1>2, <1>6, Zenon
    <2>2. CASE f
      BY <1>4, <2>1, <2>2, Zenon DEF Saved, Put
    <2>3. CASE ~f
      BY <1>3, <2>1, <2>3, Zenon DEF Saved, RawWrite, Put
    <2> QED
      BY <2>2, <2>3, Zenon
  <1> QED
    BY <1>5, <1>6, Zenon

-----------------------------------------------------------------------------
(* What the parts of a step keep.                                          *)

LoopTyped ==
    /\ pc \in {"idle", "closed", "read", "read_direct", "read_each", "read_save",
               "write", "write_each", "write_direct", "write_byte"}
    /\ blk \in Block \cup {0} /\ cnt \in 0..NBlocks
    /\ reuse \in [entry : Entry, blk : Block \cup {0}, n : 0..NBlocks, left : 0..NBlocks]
    /\ Spans

\* no step changes the mode, uncrosses two copies or undoes a fault
Onward == /\ redo' = redo /\ bounce' = bounce
          /\ crossed' \in BOOLEAN /\ (crossed => crossed')
          /\ faults' \in 0..MaxFaults /\ faults' >= faults
          /\ failing' \in BOOLEAN /\ Counted'

\* what InOrder claims of a step
Forward == ~crossed => \A b \in Block : dev'[b] >= dev[b] /\ log'[b] >= log[b]

LEMMA KeptOnward ==
    ASSUME Shape, NEW f \in BOOLEAN, kept' = kept, Failing(f) PROVE Onward
  BY FailingFaults, SMT, SMTT(30) DEF kept, mode, Onward, Shape, TypeOK

LEMMA ShapeNext ==
    ASSUME Shape, Onward, LoopTyped', CacheTyped', age' \in [Entry -> Nat],
           dev' \in Versions, log' \in Versions, told' \in Versions, want' \in Versions,
           synced' \in Versions, got' \in [Block -> Nat \cup {Unread}],
           clock' \in Nat, honest' \in BOOLEAN,
           Entries', Ordered', First', Sides', Emptied'
    PROVE  Shape'
  <1>1. TypeOK'
    BY Zenon DEF Shape, Onward, LoopTyped, CacheTyped, FaultCacheEntry, Versions, TypeOK
  <1> QED
    BY <1>1, Zenon DEF Shape, LoopTyped, Onward

\* entries are dropped or written
LEMMA ShrunkCache ==
    ASSUME Shape, Onward, want' = want,
           \A e \in Entry : cache'[e].in_use =>
              /\ cache[e].in_use /\ cache'[e].block = cache[e].block
              /\ cache'[e].buf = cache[e].buf /\ (cache'[e].dirty => cache[e].dirty)
    PROVE  Entries' /\ First'
  <1>1. Entries'
    BY Zenon DEF Shape, Entries
  <1>2. First'
    BY SMT, SMTT(30) DEF Shape, Onward, First, Dirty, Holding
  <1> QED
    BY <1>1, <1>2, Zenon

\* an entry takes block b, clean or with the version of a write
LEMMA RefilledCache ==
    ASSUME Shape, Onward, NEW e \in Entry, NEW b \in Block, NEW v \in Nat \cup {Unread},
           NEW d \in BOOLEAN, cache' = Refilled(e, b, v, d),
           want' \in Versions, \A x \in Block : want'[x] >= want[x],
           \A x \in Block \ {b} : want'[x] = want[x],
           d => v = want'[b] /\ (~Cached(b) \/ e \in Found(b)),
           ~d => want' = want,
           ~d /\ ~crossed' => \A x \in Holding(b) \ {e} : cache[x].dirty => x <= e
    PROVE  CacheTyped' /\ Entries' /\ First'
  <1>1. /\ cache'[e] = [in_use |-> TRUE, dirty |-> d, block |-> b, buf |-> v]
        /\ \A x \in Entry \ {e} : cache'[x] = cache[x]
    BY Zenon DEF Refilled, Shape, TypeOK
  <1>2. CacheTyped'
    <2>1. cache'[e] \in FaultCacheEntry
      BY <1>1, SMT, SMTT(30) DEF FaultCacheEntry
    <2>2. \A x \in Entry : cache[x] \in FaultCacheEntry
      BY Zenon DEF Shape, TypeOK, FaultCacheEntry
    <2>3. cache' = [x \in Entry |-> cache'[x]]
      BY Zenon DEF Refilled, Shape, TypeOK
    <2> QED
      BY <1>1, <2>1, <2>2, <2>3, Zenon DEF CacheTyped
  <1>3. Entries'
    <2>1. ASSUME NEW x \in Entry \ {e}, cache[x].in_use
          PROVE  /\ cache[x].block \in Block
                 /\ cache[x].dirty => cache[x].buf \in Nat /\ cache[x].buf <= want'[cache[x].block]
      BY <2>1, Typed, SMT, SMTT(30) DEF Shape, Entries, Versions
    <2>2. d => v \in Nat /\ v <= want'[b]
      BY SMT, SMTT(30) DEF Versions
    <2> QED
      BY <1>1, <2>1, <2>2, SMT, SMTT(30) DEF Entries
  <1>4. ASSUME ~crossed', NEW x \in Entry, cache'[x].in_use, cache'[x].dirty
        PROVE  /\ cache'[x].buf = want'[cache'[x].block]
               /\ \A y \in Entry : cache'[y].in_use /\ cache'[y].block = cache'[x].block => x <= y
    <2>0. ~crossed
      BY <1>4, Zenon DEF Onward
    <2>1. CASE x = e
      <3>1. d /\ v = want'[b] /\ e <= e
        BY <1>1, <1>4, <2>1, Sizes, SMT, SMTT(30) DEF Entry
      <3>2. \A y \in Holding(b) : e <= y
        BY <3>1, Zenon DEF Cached, Found
      <3>3. cache'[x].block = b /\ cache'[x].buf = v
        BY <1>1, <2>1, SMT, SMTT(30)
      <3>4. ASSUME NEW y \in Entry, cache'[y].in_use, cache'[y].block = b PROVE x <= y
        <4>1. CASE y = e
          BY <2>1, <3>1, <4>1, Zenon
        <4>2. CASE y # e
          BY <1>1, <2>1, <3>2, <3>4, <4>2, Zenon DEF Holding
        <4> QED
          BY <4>1, <4>2, Zenon
      <3> QED
        BY <3>1, <3>3, <3>4, Zenon
    <2>2. CASE x # e
      <3>1. /\ cache'[x] = cache[x] /\ cache[x].in_use /\ cache[x].dirty
            /\ cache[x].buf = want[cache[x].block]
            /\ \A y \in Holding(cache[x].block) : x <= y
        BY <1>1, <1>4, <2>0, <2>2, Zenon DEF Shape, First, Dirty
      <3>2. cache[x].block = b => x \in Holding(b) \ {e}
        BY <2>2, <3>1, Zenon DEF Holding
      <3>3. CASE d
        <4>1. cache[x].block # b
          <5>1. SUFFICES ASSUME cache[x].block = b PROVE FALSE
            BY Zenon
          <5>2. x \in Holding(b) /\ e \in Found(b)
            BY <3>2, <3>3, <5>1, Zenon DEF Cached
          <5>3. e <= x /\ x <= e
            BY <3>1, <5>1, <5>2, ZenonT(40) DEF Found
          <5> QED
            BY <2>2, <5>3, Sizes, SMT, SMTT(30) DEF Entry
        <4> QED
          BY <1>1, <3>1, <4>1, SMT, SMTT(30) DEF Shape, Entries, Holding
      <3>4. CASE ~d
        BY <1>1, <1>4, <3>1, <3>2, <3>4, SMT, SMTT(30) DEF Holding
      <3> QED
        BY <3>3, <3>4, Zenon
    <2> QED
      BY <2>1, <2>2, Zenon
  <1> QED
    BY <1>2, <1>3, <1>4, Zenon DEF First, Dirty, Holding

\* A version stays held if its dirty entry does, or is saved.
LEMMA LossKept ==
    ASSUME Shape, LossReported, Onward, NEW S \in SUBSET Block,
           \A b \in Block \ S : want'[b] = want[b],
           \A b \in S : Held(b)',
           ~crossed => \A b \in Block \ S : /\ dev'[b] \in {dev[b], want[b]}
                                            /\ log'[b] \in {log[b], want[b]}
                                            /\ told'[b] \in {told[b], want[b]},
           ~crossed => \A e \in Entry : (Dirty(e) /\ cache[e].block \notin S) =>
                          Saved(cache[e].block) \/ cache'[e] = cache[e]
    PROVE  LossReported'
  <1> SUFFICES ASSUME (LogMode => faults' = 0), ~crossed', NEW b \in Block
               PROVE  Held(b)' \/ told'[b] = want'[b]
    BY Zenon DEF LossReported, LogMode, Onward
  <1>1. ~crossed /\ (LogMode => faults = 0 /\ ~(faults' > 0))
    BY Sizes, SMT, SMTT(30) DEF Onward, Shape, TypeOK
  <1>2. CASE b \in S
    BY <1>2, Zenon
  <1>3. CASE b \notin S
    <2>1. /\ want'[b] = want[b] /\ dev'[b] \in {dev[b], want[b]} /\ log'[b] \in {log[b], want[b]}
          /\ told'[b] \in {told[b], want[b]}
      BY <1>1, <1>3, Zenon
    <2>2. Held(b) \/ told[b] = want[b]
      BY <1>1, Zenon DEF LossReported
    <2>3. CASE want[b] \in {dev[b], log[b], told[b]}
      BY <2>1, <2>3, Zenon DEF Held
    <2>4. CASE \E e \in Holding(b) : cache[e].dirty /\ cache[e].buf = want[b]
      <3>1. PICK e \in Entry : /\ Dirty(e) /\ cache[e].in_use /\ cache[e].dirty
                               /\ cache[e].block = b /\ cache[e].buf = want[b]
        BY <2>4, Zenon DEF Holding, Dirty
      <3>2. CASE cache'[e] = cache[e]
        BY <2>1, <3>1, <3>2, SMT, SMTT(30) DEF Held, Holding
      <3>3. CASE Saved(b)
        BY <1>1, <2>1, <3>3, Zenon DEF Saved, Held
      <3> QED
        BY <1>1, <1>3, <3>1, <3>2, <3>3, Zenon
    <2> QED
      BY <2>2, <2>3, <2>4, Zenon DEF Held
  <1> QED
    BY <1>2, <1>3, Zenon

LEMMA HonestKept ==
    ASSUME Shape, FlushHonest, Onward, honest' = honest PROVE FlushHonest'
  BY Sizes, SMT, SMTT(30) DEF Shape, TypeOK, FlushHonest, Onward

LEMMA BackForward == ASSUME Shape, Back PROVE Forward
  BY Typed, SMT, SMTT(30) DEF Shape, Ordered, Back, Forward, Versions

LEMMA BackSides == ASSUME Shape, Onward, Back PROVE Sides'
  BY Zenon DEF Shape, Onward, Back, Sides, LogMode

LEMMA ReturnLoop == Return => LoopTyped' /\ pc' = "idle"
  BY Sizes, SMT, SMTT(30) DEF Return, LoopTyped, Spans, NoReuse, Entry

LEMMA LoopBlocks ==
    ASSUME Shape,
           pc \in {"read", "read_each", "read_direct", "write", "write_each", "write_direct",
           "write_byte"}
    PROVE  blk \in Block /\ cnt \in 1..NBlocks /\ blk + cnt <= NBlocks /\ blk \in Nat
  BY Sizes, SMT, SMTT(30) DEF Shape, TypeOK, Spans, Block

\* between calls, or in a loop that goes through the cache
CacheLoops == {"idle", "closed", "read", "read_each", "read_save", "write", "write_each"}

\* the loop goes on behind n blocks, or ends
LEMMA AdvanceLoop ==
    ASSUME Shape, pc \in {"read", "read_each", "write", "write_each"}, NEW n \in 1..cnt, Advance(n)
    PROVE  LoopTyped' /\ pc' \in CacheLoops
  <1>0. blk \in Nat /\ cnt \in 1..NBlocks /\ blk + cnt <= NBlocks
    BY LoopBlocks, Zenon
  <1>1. CASE cnt > n
    <2>1. blk' = blk + n /\ cnt' = cnt - n /\ pc' = pc /\ reuse' = reuse
      BY <1>1, Zenon DEF Advance
    <2>2. blk' \in Block /\ cnt' \in 0..NBlocks /\ cnt' >= 1 /\ blk' + cnt' <= NBlocks
      BY <1>0, <1>1, <2>1, Sizes, SMT, SMTT(30) DEF Block
    <2> QED
      BY <2>1, <2>2, Zenon DEF Shape, TypeOK, LoopTyped, Spans, CacheLoops
  <1>2. CASE ~(cnt > n) /\ reuse.n > 0
    <2>1. blk' = blk /\ cnt' = cnt /\ pc' = "read_save" /\ reuse' = reuse
      BY <1>2, Zenon DEF Advance
    <2> QED
      BY <1>2, <2>1, Zenon DEF Shape, TypeOK, LoopTyped, Spans, CacheLoops
  <1>3. CASE ~(cnt > n) /\ ~(reuse.n > 0)
    <2>1. Return
      BY <1>3, Zenon DEF Advance
    <2> QED
      BY <2>1, ReturnLoop, Zenon DEF CacheLoops
  <1> QED
    BY <1>1, <1>2, <1>3, Zenon

LEMMA TouchAge ==
    ASSUME NEW a \in [Entry -> Nat], NEW e \in Entry PROVE Touch(a, e) \in [Entry -> Nat]
  BY SMT, SMTT(30) DEF Touch

LEMMA FaultEldestEntry == Eldest \subseteq Entry
  BY Zenon DEF Eldest

LEMMA AgesOfHit == ASSUME Shape, NEW n PROVE AgeOfHit(n) \subseteq [Entry -> Nat]
  <1>1. Found(blk + n) \subseteq Entry /\ age \in [Entry -> Nat]
    BY Zenon DEF Found, Holding, Shape, TypeOK
  <1> QED
    BY <1>1, TouchAge, Zenon DEF AgeOfHit

\* history: a write gives its blocks the newest version
LEMMA WrittenWant ==
    ASSUME Shape, NEW S \in SUBSET Block, Written(S)
    PROVE  /\ clock' = clock + 1 /\ clock \in Nat /\ want' \in Versions
           /\ \A b \in S : want'[b] = clock + 1
           /\ \A b \in Block \ S : want'[b] = want[b]
           /\ \A b \in Block : want'[b] >= want[b] /\ want'[b] <= clock'
  <1>1. clock \in Nat /\ want \in Versions /\ \A b \in Block : want[b] <= clock
    BY Typed, Zenon DEF Shape, TypeOK, Ordered
  <1> QED
    BY <1>1, SMT, SMTT(30) DEF Written, Versions

-----------------------------------------------------------------------------
(* The steps.                                                              *)

\* An entry is written back and takes a block: as it was read, or as it is
\* written, in which case it was not cached.
LEMMA FaultMissStep ==
    ASSUME FaultInv, Onward, NEW e \in Entry, NEW f \in BOOLEAN, Evict(e, f), f => faults' > 0,
           LoopTyped', pc' \in CacheLoops, age' \in [Entry -> Nat],
           got' \in [Block -> Nat \cup {Unread}], flushes' = flushes,
           NEW b \in Block, NEW v \in Nat \cup {Unread}, NEW d \in BOOLEAN,
           cache' = Refilled(e, b, v, d),
           d => Written({b}) /\ v = clock + 1 /\ ~Cached(b),
           ~d => writes' = writes,
           ~d /\ ~crossed' => \A x \in Holding(b) \ {e} : cache[x].dirty => x <= e
    PROVE  FaultInv' /\ Forward
  <1>0. Shape /\ LossReported /\ FlushHonest
    BY Zenon DEF FaultInv
  <1>1. Back /\ (~crossed /\ Dirty(e) => Saved(cache[e].block))
    BY <1>0, EvictBack, Zenon
  <1> DEFINE S == IF d THEN {b} ELSE {}
  <1>2. /\ want' \in Versions /\ clock' \in Nat
        /\ \A x \in Block : want'[x] >= want[x] /\ want'[x] <= clock'
        /\ \A x \in Block \ S : want'[x] = want[x]
        /\ d => v = want'[b]
        /\ ~d => want' = want
    <2>1. CASE d
      <3>1. {b} \in SUBSET Block /\ Written({b})
        BY <2>1, Zenon
      <3>2. /\ clock' = clock + 1 /\ clock \in Nat /\ want' \in Versions /\ want'[b] = clock + 1
            /\ \A x \in Block \ {b} : want'[x] = want[x]
            /\ \A x \in Block : want'[x] >= want[x] /\ want'[x] <= clock'
        BY <1>0, <3>1, WrittenWant, Zenon
      <3> QED
        BY <2>1, <3>2, SMT, SMTT(30)
    <2>2. CASE ~d
      <3>1. want' = want /\ clock' = clock
        BY <2>2, Zenon DEF writes
      <3>2. clock \in Nat /\ want \in Versions /\ \A x \in Block : want[x] <= clock
        BY <1>0, Typed, Zenon DEF Shape, TypeOK, Ordered
      <3> QED
        BY <2>2, <3>1, <3>2, SMT, SMTT(30) DEF Versions
    <2> QED
      BY <2>1, <2>2, Zenon
  <1>3. CacheTyped' /\ Entries' /\ First'
    <2>1. \A x \in Block \ {b} : want'[x] = want[x]
      BY <1>2, Zenon
    <2> QED
      BY <1>0, <1>2, <2>1, RefilledCache, Zenon
  <1>4. Ordered'
    BY <1>0, <1>1, <1>2, Typed, SMT, SMTT(30) DEF Back, Ordered, Versions
  <1>5. Sides' /\ Emptied'
    BY <1>0, <1>1, BackSides, Zenon DEF Emptied, CacheLoops
  <1>6. synced' \in Versions /\ honest' \in BOOLEAN /\ honest' = honest
    BY <1>0, Typed, Zenon DEF flushes, Shape, TypeOK
  <1>7. Shape'
    BY <1>0, <1>1, <1>2, <1>3, <1>4, <1>5, <1>6, ShapeNext, Zenon DEF Back
  <1>8. LossReported'
    <2>1. /\ \A x \in Entry \ {e} : cache'[x] = cache[x]
          /\ cache'[e].in_use /\ cache'[e].block = b /\ cache'[e].dirty = d /\ cache'[e].buf = v
      BY <1>0, ZenonT(40) DEF Refilled, Shape, TypeOK
    <2>2. \A x \in S : Held(x)'
      BY <1>2, <2>1, SMT, SMTT(30) DEF Held, Holding
    <2>3. ~crossed => \A x \in Entry : (Dirty(x) /\ cache[x].block \notin S) =>
                         Saved(cache[x].block) \/ cache'[x] = cache[x]
      BY <1>1, <2>1, Zenon
    <2>4. ~crossed => \A x \in Block \ S : /\ dev'[x] \in {dev[x], want[x]}
                                           /\ log'[x] \in {log[x], want[x]}
                                           /\ told'[x] \in {told[x], want[x]}
      BY <1>1, Zenon DEF Back
    <2>5. S \in SUBSET Block
      BY Zenon
    <2> HIDE DEF S
    <2> QED
      BY <1>0, <1>2, <2>2, <2>3, <2>4, <2>5, LossKept, Zenon
  <1>9. FlushHonest' /\ Forward
    BY <1>0, <1>1, <1>6, HonestKept, BackForward, Zenon
  <1> QED
    BY <1>7, <1>8, <1>9, Zenon DEF FaultInv

\* Entries are dropped or written, and no version is new.
LEMMA ShrinkStep ==
    ASSUME FaultInv, Onward, Back, LoopTyped', CacheTyped', Emptied', age' \in [Entry -> Nat],
           got' \in [Block -> Nat \cup {Unread}], writes' = writes,
           synced' \in Versions, honest' \in BOOLEAN, FlushHonest',
           \A e \in Entry : cache'[e].in_use =>
              /\ cache[e].in_use /\ cache'[e].block = cache[e].block
              /\ cache'[e].buf = cache[e].buf /\ (cache'[e].dirty => cache[e].dirty),
           ~crossed => \A e \in Entry : Dirty(e) => Saved(cache[e].block) \/ cache'[e] = cache[e]
    PROVE  FaultInv' /\ Forward
  <1>0. Shape /\ LossReported
    BY Zenon DEF FaultInv
  <1>1. want' = want /\ clock' = clock /\ clock \in Nat /\ want \in Versions
    BY <1>0, Typed, Zenon DEF writes, Shape, TypeOK
  <1>2. Entries' /\ First'
    BY <1>0, <1>1, ShrunkCache, Zenon
  <1>3. Ordered' /\ Sides' /\ Forward
    BY <1>0, <1>1, BackSides, BackForward, Zenon DEF Back, Ordered, Shape
  <1>4. Shape'
    BY <1>0, <1>1, <1>2, <1>3, ShapeNext, Zenon DEF Back
  <1>5. LossReported'
    <2>1. /\ {} \in SUBSET Block /\ \A x \in {} : Held(x)'
          /\ \A x \in Block \ {} : want'[x] = want[x]
          /\ ~crossed => \A x \in Block \ {} : /\ dev'[x] \in {dev[x], want[x]}
                                               /\ log'[x] \in {log[x], want[x]}
                                               /\ told'[x] \in {told[x], want[x]}
          /\ ~crossed => \A x \in Entry : (Dirty(x) /\ cache[x].block \notin {}) =>
                            Saved(cache[x].block) \/ cache'[x] = cache[x]
      BY <1>1, Zenon DEF Back
    <2> QED
      BY <1>0, <2>1, LossKept, Zenon
  <1> QED
    BY <1>3, <1>4, <1>5, Zenon DEF FaultInv

LEMMA StillBack ==
    ASSUME Shape, dev' = dev, log' = log, told' = told PROVE Back
  BY Typed, Zenon DEF Back, Shape, Ordered

LEMMA NothingTyped == Nothing \in [Block -> Nat \cup {Unread}]
  BY Zenon DEF Nothing

\* A call that flushes first: it goes on with the cache flushed, or empty.
LEMMA FaultFlushThenStep ==
    ASSUME FaultInv, Call, NEW b \in Block, NEW n \in 1..NBlocks, b + n <= NBlocks,
           NEW i \in BOOLEAN, NEW p \in {"read_direct", "write_direct", "write_byte"},
           p # "read_direct" => i, FlushThen(p, b, n, i)
    PROVE  FaultInv' /\ Forward
  <1>0. Shape /\ FlushHonest
    BY Zenon DEF FaultInv
  <1>1. PICK F \in SUBSET Entry, G \in SUBSET Entry :
           /\ Flush(F, G, i, TRUE) /\ Failing(F # {})
           /\ IF F = G THEN pc' = p /\ blk' = b /\ cnt' = n /\ UNCHANGED reuse ELSE Return
           /\ UNCHANGED <<writes, flushes>>
    BY Zenon DEF FlushThen
  <1>2. faults' \in 0..MaxFaults /\ faults' >= faults /\ (F # {} => faults' > 0)
    BY <1>0, <1>1, FailingFaults, Zenon
  <1>3. /\ Back /\ kept' = kept /\ age' = age /\ CacheTyped'
        /\ ~crossed => \A e \in Entry : Dirty(e) => Saved(cache[e].block)
        /\ \A e \in Entry : cache'[e].in_use =>
              /\ ~i /\ cache[e].in_use /\ cache'[e].block = cache[e].block
              /\ cache'[e].buf = cache[e].buf /\ (cache'[e].dirty => cache[e].dirty)
        /\ F = G => \A e \in Entry : ~(cache'[e].in_use /\ cache'[e].dirty)
    BY <1>0, <1>1, <1>2, FlushBack, Zenon
  <1>4. Onward
    BY <1>0, <1>1, <1>3, KeptOnward, Zenon
  <1>5. LoopTyped' /\ Emptied'
    <2>1. CASE F = G
      <3>1. pc' = p /\ blk' = b /\ cnt' = n /\ reuse' = reuse
        BY <1>1, <2>1, Zenon
      <3>2. LoopTyped'
        BY <1>0, <3>1, Sizes, SMT, SMTT(30) DEF Shape, TypeOK, LoopTyped, Spans
      <3>3. Emptied'
        BY <1>3, <2>1, <3>1, Zenon DEF Emptied, Dirty
      <3> QED
        BY <3>2, <3>3, Zenon
    <2>2. CASE F # G
      BY <1>1, <2>2, ReturnLoop, Zenon DEF Emptied
    <2> QED
      BY <2>1, <2>2, Zenon
  <1>6. /\ age' \in [Entry -> Nat] /\ got' \in [Block -> Nat \cup {Unread}] /\ writes' = writes
        /\ synced' \in Versions /\ honest' \in BOOLEAN /\ honest' = honest
    BY <1>0, <1>1, <1>3, NothingTyped, Typed, Zenon DEF Call, flushes, Shape, TypeOK
  <1>7. FlushHonest'
    BY <1>0, <1>4, <1>6, HonestKept, Zenon
  <1> QED
    BY <1>3, <1>4, <1>5, <1>6, <1>7, ShrinkStep, Zenon

\* A step that leaves the cache and what is behind it alone.
LEMMA QuietStep ==
    ASSUME FaultInv, Onward, LoopTyped', pc' \in CacheLoops, age' \in [Entry -> Nat],
           got' \in [Block -> Nat \cup {Unread}],
           UNCHANGED <<cache, dev, log, told, writes, flushes>>
    PROVE  FaultInv' /\ Forward
  <1>0. Shape /\ FlushHonest
    BY Zenon DEF FaultInv
  <1>1. /\ cache' = cache /\ dev' = dev /\ log' = log /\ told' = told /\ writes' = writes
        /\ synced' \in Versions /\ honest' \in BOOLEAN /\ honest' = honest
    BY <1>0, Typed, Zenon DEF flushes, Shape, TypeOK
  <1>2. Back /\ FlushHonest'
    BY <1>0, <1>1, StillBack, HonestKept, Zenon
  <1>3. Emptied' /\ CacheTyped'
    BY <1>0, <1>1, Zenon DEF Emptied, CacheLoops, CacheTyped, FaultCacheEntry, Shape, TypeOK
  <1> QED
    BY <1>1, <1>2, <1>3, ShrinkStep, Zenon

LEMMA FaultBeginStep ==
    ASSUME FaultInv, Call, NEW b \in Block, NEW n \in 1..NBlocks, b + n <= NBlocks,
           pc' \in {"read", "write"}, blk' = b, cnt' = n,
           UNCHANGED <<kept, reuse, cache, age, dev, log, fails, writes, flushes, told>>
    PROVE  FaultInv' /\ Forward
  <1>0. Shape
    BY Zenon DEF FaultInv
  <1>1. Onward
    <2>1. /\ redo' = redo /\ bounce' = bounce /\ crossed' = crossed
          /\ faults' = faults /\ failing' = failing
      BY Zenon DEF kept, mode, fails
    <2> QED
      BY <1>0, <2>1, Sizes, SMT, SMTT(30) DEF Onward, Shape, TypeOK, Counted
  <1>2. LoopTyped' /\ pc' \in CacheLoops
    BY <1>0, Sizes, SMT, SMTT(30) DEF Shape, TypeOK, LoopTyped, Spans, CacheLoops
  <1>3. age' \in [Entry -> Nat] /\ got' \in [Block -> Nat \cup {Unread}]
    BY <1>0, NothingTyped, Zenon DEF Call, Shape, TypeOK
  <1> QED
    BY <1>1, <1>2, <1>3, QuietStep, Zenon

LEMMA CountBlocks ==
    ASSUME NEW b \in Block, NEW count \in Counts, b + Blocks(count) <= NBlocks
    PROVE  Blocks(count) \in 1..NBlocks /\ (~Direct(count) => count = Blocks(count))
  BY Sizes, SMT, SMTT(30) DEF Block, Counts, Blocks, Direct

LEMMA CallSteps ==
    ASSUME FaultInv, NEW b \in Block, NEW count \in Counts,
           unix_read_blk64(b, count) \/ unix_write_blk64(b, count)
    PROVE  FaultInv' /\ Forward
  <1>1. Call /\ b + Blocks(count) <= NBlocks
    BY Zenon DEF unix_read_blk64, unix_write_blk64, Writable
  <1>2. Blocks(count) \in 1..NBlocks /\ (~Direct(count) => count = Blocks(count))
    BY <1>1, CountBlocks, Zenon
  <1>3. CASE unix_read_blk64(b, count) /\ Direct(count)
    BY <1>1, <1>2, <1>3, FaultFlushThenStep, Zenon DEF unix_read_blk64
  <1>4. CASE unix_write_blk64(b, count) /\ Direct(count)
    BY <1>1, <1>2, <1>4, FaultFlushThenStep, Zenon DEF unix_write_blk64
  <1>5. CASE ~Direct(count)
    <2>1. /\ pc' \in {"read", "write"} /\ blk' = b /\ cnt' = Blocks(count)
          /\ UNCHANGED <<kept, reuse, cache, age, dev, log, fails, writes, flushes, told>>
      BY <1>2, <1>5, Zenon DEF unix_read_blk64, unix_write_blk64
    <2> QED
      BY <1>1, <1>2, <2>1, FaultBeginStep, Zenon
  <1> QED
    BY <1>3, <1>4, <1>5, Zenon

LEMMA WriteByteCall ==
    ASSUME FaultInv, NEW b \in Block, unix_write_byte(b) PROVE FaultInv' /\ Forward
  <1>1. 1 \in 1..NBlocks /\ b + 1 <= NBlocks
    BY Sizes, SMT, SMTT(30) DEF Block
  <1> QED
    BY <1>1, FaultFlushThenStep, Zenon DEF unix_write_byte

LEMMA GotTyped ==
    ASSUME Shape, NEW S, Got(S) PROVE got' \in [Block -> Nat \cup {Unread}]
  BY Typed, Zenon DEF Got, Put, Versions, Shape, TypeOK

LEMMA ZerosTyped ==
    ASSUME Shape, NEW b, Zeros(b) PROVE got' \in [Block -> Nat \cup {Unread}]
  <1>1. clock + 1 \in Nat /\ got \in [Block -> Nat \cup {Unread}]
    BY SMT, SMTT(30) DEF Shape, TypeOK
  <1> QED
    BY <1>1, Zenon DEF Zeros

LEMMA FaultOnward ==
    ASSUME Shape, kept' = kept, Failing(TRUE) \/ Failing(FALSE) PROVE Onward
  BY KeptOnward, Zenon

LEMMA FaultReadDirectStep ==
    ASSUME FaultInv, read_direct PROVE FaultInv' /\ Forward
  <1>0. Shape /\ FlushHonest
    BY Zenon DEF FaultInv
  <1>1. /\ pc = "read_direct" /\ kept' = kept /\ age' = age /\ dev' = dev /\ log' = log
        /\ told' = told /\ writes' = writes /\ flushes' = flushes
    BY Zenon DEF read_direct
  <1>2. Onward
    BY <1>0, <1>1, FaultOnward, Zenon DEF read_direct
  <1>3. got' \in [Block -> Nat \cup {Unread}] /\ age' \in [Entry -> Nat]
    BY <1>0, <1>1, GotTyped, ZerosTyped, Zenon DEF read_direct, Shape, TypeOK
  <1>4. CASE cache' = cache /\ (Return \/ (pc' = "read_each" /\ UNCHANGED <<blk, cnt, reuse>>))
    <2>1. LoopTyped' /\ pc' \in CacheLoops
      BY <1>0, <1>1, <1>4, ReturnLoop, Zenon DEF Shape, TypeOK, LoopTyped, Spans, CacheLoops
    <2> QED
      BY <1>1, <1>2, <1>3, <1>4, <2>1, QuietStep, Zenon
  <1>5. CASE /\ pc' = "write_direct" /\ cache' = [e \in Entry |-> Unused]
             /\ UNCHANGED <<blk, cnt, reuse>>
    <2>1. LoopTyped'
      BY <1>0, <1>1, <1>5, Zenon DEF Shape, TypeOK, LoopTyped, Spans
    <2>2. CacheTyped' /\ \A e \in Entry : ~cache'[e].in_use
      BY <1>5, Zenon DEF CacheTyped, FaultCacheEntry, Unused
    <2>3. Emptied'
      BY <2>2, <1>5, Zenon DEF Emptied, Dirty
    <2>4. Back /\ \A e \in Entry : ~Dirty(e)
      BY <1>0, <1>1, StillBack, Zenon DEF Shape, Emptied
    <2>5. synced' \in Versions /\ honest' \in BOOLEAN /\ FlushHonest'
      BY <1>0, <1>1, <1>2, Typed, HonestKept, Zenon DEF flushes, Shape, TypeOK
    <2> QED
      BY <1>1, <1>2, <1>3, <2>1, <2>2, <2>3, <2>4, <2>5, ShrinkStep, ZenonT(40)
  <1> QED
    BY <1>4, <1>5, Zenon DEF read_direct

LEMMA FaultReadHitStep ==
    ASSUME FaultInv, read_hit PROVE FaultInv' /\ Forward
  <1>0. Shape
    BY Zenon DEF FaultInv
  <1>1. PICK e \in Found(blk) : age' = Touch(age, e) /\ got' = [got EXCEPT ![blk] = cache[e].buf]
    BY Zenon DEF read_hit
  <1>2. /\ pc \in {"read", "read_each"} /\ Advance(1) /\ kept' = kept
        /\ UNCHANGED <<cache, dev, log, told, writes, flushes>> /\ Failing(FALSE)
    BY Zenon DEF read_hit
  <1>3. e \in Entry /\ blk \in Block /\ 1 \in 1..cnt
    BY <1>0, <1>2, LoopBlocks, SMT, SMTT(30) DEF Found, Holding
  <1>4. LoopTyped' /\ pc' \in CacheLoops
    BY <1>0, <1>2, <1>3, AdvanceLoop, Zenon
  <1>5. age' \in [Entry -> Nat] /\ got' \in [Block -> Nat \cup {Unread}]
    BY <1>0, <1>1, <1>3, TouchAge, Zenon DEF Shape, TypeOK
  <1>6. Onward
    BY <1>0, <1>2, FaultOnward, Zenon
  <1> QED
    BY <1>2, <1>4, <1>5, <1>6, QuietStep, Zenon

LEMMA FaultReadMissOneStep ==
    ASSUME FaultInv, read_miss_one PROVE FaultInv' /\ Forward
  <1>0. Shape /\ FlushHonest
    BY Zenon DEF FaultInv
  <1>1. PICK e \in Eldest, fw \in BOOLEAN, fr \in BOOLEAN :
          /\ Failing(fw \/ fr) /\ Evict(e, fw) /\ age' = Touch(age, e)
          /\ \/ /\ ~fr /\ cache' = Refilled(e, blk, dev[blk], FALSE)
                /\ Got({blk}) /\ Advance(1) /\ UNCHANGED writes
             \/ /\ fr /\ cache' = [cache EXCEPT ![e] = Unused] /\ Return
                /\ UNCHANGED <<got, writes>>
             \/ /\ fr /\ cache' = Refilled(e, blk, Unread, FALSE)
                /\ Advance(1) /\ UNCHANGED <<got, writes>>
             \/ /\ fr /\ clock < MaxWrites /\ cache' = Refilled(e, blk, clock + 1, TRUE)
                /\ Written({blk}) /\ Zeros(blk) /\ Advance(1)
    BY ZenonT(40) DEF read_miss_one
  <1>2. pc \in {"read", "read_each"} /\ ~Cached(blk) /\ kept' = kept /\ flushes' = flushes
    BY Zenon DEF read_miss_one
  <1>3. e \in Entry /\ blk \in Block /\ 1 \in 1..cnt
    BY <1>0, <1>2, LoopBlocks, FaultEldestEntry, SMT, SMTT(30)
  <1>4. Onward /\ (fw => faults' > 0)
    BY <1>0, <1>1, <1>2, KeptOnward, FailingFaults, Zenon
  <1>5. age' \in [Entry -> Nat] /\ got' \in [Block -> Nat \cup {Unread}]
    BY <1>0, <1>1, <1>3, TouchAge, GotTyped, ZerosTyped, ZenonT(40) DEF Shape, TypeOK
  <1>6. Holding(blk) = {} /\ dev[blk] \in Nat /\ clock + 1 \in Nat
    BY <1>0, <1>2, <1>3, Typed, SMT, SMTT(30) DEF Cached, Versions, Shape, TypeOK
  <1>7. ASSUME NEW v \in Nat \cup {Unread}, NEW d \in BOOLEAN, cache' = Refilled(e, blk, v, d),
               Advance(1), d => Written({blk}) /\ v = clock + 1, ~d => writes' = writes
        PROVE  FaultInv' /\ Forward
    <2>1. LoopTyped' /\ pc' \in CacheLoops
      BY <1>0, <1>2, <1>3, <1>7, AdvanceLoop, Zenon
    <2>2. \A x \in Holding(blk) \ {e} : cache[x].dirty => x <= e
      BY <1>6, Zenon
    <2> QED
      BY <1>1, <1>2, <1>3, <1>4, <1>5, <1>7, <2>1, <2>2, FaultMissStep, ZenonT(40)
  <1>8. CASE cache' = Refilled(e, blk, dev[blk], FALSE) /\ Advance(1) /\ writes' = writes
    BY <1>6, <1>7, <1>8, Zenon
  <1>9. CASE cache' = Refilled(e, blk, Unread, FALSE) /\ Advance(1) /\ writes' = writes
    BY <1>7, <1>9, Zenon
  <1>10. CASE cache' = Refilled(e, blk, clock + 1, TRUE) /\ Advance(1) /\ Written({blk})
    BY <1>6, <1>7, <1>10, Zenon
  <1>11. CASE cache' = [cache EXCEPT ![e] = Unused] /\ Return /\ writes' = writes
    <2>1. LoopTyped' /\ Emptied'
      BY <1>11, ReturnLoop, Zenon DEF Emptied
    <2>2. /\ \A x \in Entry \ {e} : cache'[x] = cache[x]
          /\ cache'[e] = Unused /\ ~cache'[e].in_use
          /\ cache' = [x \in Entry |-> cache'[x]]
      BY <1>0, <1>3, <1>11, Zenon DEF Unused, Shape, TypeOK
    <2>3. CacheTyped'
      <3>1. Unused \in FaultCacheEntry /\ \A x \in Entry : cache[x] \in FaultCacheEntry
        BY <1>0, Zenon DEF Unused, FaultCacheEntry, Shape, TypeOK
      <3>2. \A x \in Entry : cache'[x] \in FaultCacheEntry
        BY <2>2, <3>1, Zenon
      <3> QED
        BY <2>2, <3>2, Zenon DEF CacheTyped
    <2>4. Back /\ (~crossed /\ Dirty(e) => Saved(cache[e].block))
      BY <1>0, <1>1, <1>3, <1>4, EvictBack, Zenon
    <2>5. synced' \in Versions /\ honest' \in BOOLEAN /\ FlushHonest'
      BY <1>0, <1>2, <1>4, Typed, HonestKept, Zenon DEF flushes, Shape, TypeOK
    <2> QED
      BY <1>4, <1>5, <1>11, <2>1, <2>2, <2>3, <2>4, <2>5, ShrinkStep, ZenonT(40)
  <1> QED
    BY <1>1, <1>8, <1>9, <1>10, <1>11, Zenon

LEMMA FaultReadMissManyStep ==
    ASSUME FaultInv, read_miss_many PROVE FaultInv' /\ Forward
  <1>0. Shape
    BY Zenon DEF FaultInv
  <1>1. PICK n \in 1..cnt, e \in Eldest : \E a \in AgeOfHit(n), fw \in BOOLEAN :
          /\ Uncached(n) /\ Failing(fw) /\ Evict(e, fw)
          /\ age' = Touch(a, e)
          /\ cache' = Refilled(e, blk + n - 1, dev[blk + n - 1], FALSE)
          /\ Got(Span(blk, n)) /\ Advance(n)
    BY Zenon DEF read_miss_many
  <1>2. PICK a \in AgeOfHit(n), fw \in BOOLEAN :
          /\ Uncached(n) /\ Failing(fw) /\ Evict(e, fw)
          /\ age' = Touch(a, e)
          /\ cache' = Refilled(e, blk + n - 1, dev[blk + n - 1], FALSE)
          /\ Got(Span(blk, n)) /\ Advance(n)
    BY <1>1, Zenon
  <1>3. pc = "read" /\ kept' = kept /\ writes' = writes /\ flushes' = flushes
    BY Zenon DEF read_miss_many
  <1>4. e \in Entry /\ blk + n - 1 \in Block /\ blk + n - 1 \in Span(blk, n)
    <2>1. blk \in Nat /\ cnt \in 1..NBlocks /\ blk + cnt <= NBlocks
      BY <1>0, <1>3, LoopBlocks, Zenon
    <2> QED
      BY <2>1, FaultEldestEntry, Sizes, SMT, SMTT(30) DEF Block, Span
  <1>5. Holding(blk + n - 1) = {} /\ dev[blk + n - 1] \in Nat
    BY <1>0, <1>2, <1>4, Typed, Zenon DEF Uncached, Cached, Versions
  <1>6. Onward /\ (fw => faults' > 0)
    BY <1>0, <1>2, <1>3, KeptOnward, FailingFaults, Zenon
  <1>7. age' \in [Entry -> Nat] /\ got' \in [Block -> Nat \cup {Unread}]
    BY <1>0, <1>2, <1>4, TouchAge, AgesOfHit, GotTyped, Zenon
  <1>8. LoopTyped' /\ pc' \in CacheLoops
    BY <1>0, <1>2, <1>3, AdvanceLoop, Zenon
  <1> DEFINE b == blk + n - 1
             v == dev[blk + n - 1]
  <1>9. /\ b \in Block /\ v \in Nat \cup {Unread} /\ cache' = Refilled(e, b, v, FALSE)
        /\ \A x \in Holding(b) \ {e} : cache[x].dirty => x <= e
    BY <1>2, <1>4, <1>5, Zenon
  <1> HIDE DEF b, v
  <1> QED
    BY <1>2, <1>3, <1>4, <1>6, <1>7, <1>8, <1>9, FaultMissStep, ZenonT(40)

LEMMA ReadFailManyStep ==
    ASSUME FaultInv, read_fail_many PROVE FaultInv' /\ Forward
  <1>0. Shape
    BY Zenon DEF FaultInv
  <1>1. PICK n \in 1..cnt, e \in Eldest : \E a \in AgeOfHit(n) :
          /\ age' = a
          /\ \/ Return
             \/ /\ cnt' = n /\ UNCHANGED blk /\ pc' \in {"read_each", "read_save", "write_each"}
                /\ reuse' = [entry |-> e, blk |-> blk + n - 1, n |-> n, left |-> cnt - n]
    BY Zenon DEF read_fail_many
  <1>2. pc = "read" /\ Failing(TRUE) /\ kept' = kept /\ (got' = got \/ Zeros(blk))
        /\ UNCHANGED <<cache, dev, log, told, writes, flushes>>
    BY Zenon DEF read_fail_many
  <1>3. e \in Entry /\ blk \in Block /\ blk \in Nat /\ cnt \in 1..NBlocks /\ blk + cnt <= NBlocks
    BY <1>0, <1>2, LoopBlocks, FaultEldestEntry, Zenon
  <1>4. age' \in [Entry -> Nat] /\ got' \in [Block -> Nat \cup {Unread}]
    BY <1>0, <1>1, <1>2, AgesOfHit, ZerosTyped, Zenon DEF Shape, TypeOK
  <1>5. Onward
    BY <1>0, <1>2, FaultOnward, Zenon
  <1>6. LoopTyped' /\ pc' \in CacheLoops
    <2>1. CASE Return
      BY <2>1, ReturnLoop, Zenon DEF CacheLoops
    <2>2. CASE ~Return
      <3>1. /\ cnt' = n /\ blk' = blk /\ pc' \in {"read_each", "read_save", "write_each"}
            /\ reuse' = [entry |-> e, blk |-> blk + n - 1, n |-> n, left |-> cnt - n]
        BY <1>1, <2>2, Zenon
      <3>2. /\ blk + n - 1 \in Block /\ n \in 0..NBlocks /\ n > 0 /\ cnt - n \in 0..NBlocks
            /\ blk + n <= NBlocks /\ blk + n - 1 + 1 + (cnt - n) <= NBlocks
        BY <1>3, Sizes, SMT, SMTT(30) DEF Block
      <3> QED
        BY <1>3, <3>1, <3>2, SMT, SMTT(30) DEF LoopTyped, Spans, CacheLoops
    <2> QED
      BY <2>1, <2>2, Zenon
  <1> QED
    BY <1>2, <1>4, <1>5, <1>6, QuietStep, Zenon

LEMMA ReadSaveStep ==
    ASSUME FaultInv, read_save PROVE FaultInv' /\ Forward
  <1>0. Shape
    BY Zenon DEF FaultInv
  <1> DEFINE e == reuse.entry
             b == reuse.blk
             v == got[reuse.blk]
  <1>1. PICK fw \in BOOLEAN :
          /\ Failing(fw) /\ Evict(e, fw) /\ age' = Touch(age, e)
          /\ cache' = Refilled(e, b, v, FALSE)
          /\ crossed' = (crossed \/ \E x \in Holding(b) : x > e /\ cache[x].dirty)
    BY Zenon DEF read_save
  <1>2. /\ pc = "read_save" /\ redo' = redo /\ bounce' = bounce
        /\ writes' = writes /\ got' = got /\ flushes' = flushes
        /\ IF reuse.left > 0
             THEN pc' = "read" /\ blk' = b + 1 /\ cnt' = reuse.left /\ reuse' = NoReuse
             ELSE Return
    BY Zenon DEF read_save, mode
  <1>3. /\ e \in Entry /\ b \in Block /\ reuse.left \in 0..NBlocks /\ b + 1 + reuse.left <= NBlocks
        /\ v \in Nat \cup {Unread}
    BY <1>0, <1>2, Zenon DEF Shape, TypeOK, Spans
  <1>4. LoopTyped' /\ pc' \in CacheLoops
    <2>1. CASE reuse.left > 0
      <3>1. pc' = "read" /\ blk' = b + 1 /\ cnt' = reuse.left /\ reuse' = NoReuse
        BY <1>2, <2>1, Zenon
      <3>2. b + 1 \in Block
        BY <1>3, <2>1, Sizes, SMT, SMTT(30) DEF Block
      <3>3. NoReuse \in [entry : Entry, blk : Block \cup {0}, n : 0..NBlocks, left : 0..NBlocks]
            /\ NoReuse.n = 0
        BY Sizes, SMT, SMTT(30) DEF NoReuse, Entry
      <3> QED
        BY <1>3, <2>1, <3>1, <3>2, <3>3, SMT, SMTT(30) DEF LoopTyped, Spans, CacheLoops
    <2>2. CASE ~(reuse.left > 0)
      BY <1>2, <2>2, ReturnLoop, Zenon DEF CacheLoops
    <2> QED
      BY <2>1, <2>2, Zenon
  <1>5. Onward /\ (fw => faults' > 0)
    BY <1>0, <1>1, <1>2, FailingFaults, Zenon DEF Onward, Shape, TypeOK
  <1>6. age' \in [Entry -> Nat] /\ got' \in [Block -> Nat \cup {Unread}]
    BY <1>0, <1>1, <1>2, <1>3, TouchAge, ZenonT(40) DEF Shape, TypeOK
  <1>7. ~crossed' => \A x \in Holding(b) \ {e} : cache[x].dirty => x <= e
    <2> HIDE DEF e, b, v
    <2>1. SUFFICES ASSUME ~crossed', NEW x \in Holding(b) \ {e}, cache[x].dirty PROVE x <= e
      BY Zenon
    <2>2. ~(x > e)
      BY <1>1, <2>1, Zenon
    <2> QED
      BY <1>3, <2>2, Sizes, SMT, SMTT(30) DEF Holding, Entry
  <1> HIDE DEF e, b, v
  <1> QED
    BY <1>1, <1>2, <1>3, <1>4, <1>5, <1>6, <1>7, FaultMissStep, ZenonT(40)

\* A block that is cached is written: its first entry takes the version.
LEMMA WriteHit ==
    ASSUME FaultInv, pc \in {"write", "write_each"}, NEW e \in Found(blk), cache' = Refilled(e, blk, clock + 1, TRUE),
           age' = Touch(age, e), UNCHANGED <<dev, log, told>>, Failing(FALSE),
           Written({blk}), Advance(1), UNCHANGED <<kept, got, flushes>>
    PROVE  FaultInv' /\ Forward
  <1>0. Shape /\ LossReported /\ FlushHonest
    BY Zenon DEF FaultInv
  <1>1. e \in Entry /\ blk \in Block /\ 1 \in 1..cnt /\ {blk} \in SUBSET Block
    BY <1>0, LoopBlocks, SMT, SMTT(30) DEF Found, Holding
  <1>2. /\ clock' = clock + 1 /\ clock \in Nat /\ want' \in Versions /\ want'[blk] = clock + 1
        /\ \A b \in Block \ {blk} : want'[b] = want[b]
        /\ \A b \in Block : want'[b] >= want[b] /\ want'[b] <= clock'
    BY <1>0, <1>1, WrittenWant, Zenon
  <1>3. Onward
    BY <1>0, FaultOnward, Zenon
  <1>4. CacheTyped' /\ Entries' /\ First'
    <2> DEFINE v == clock + 1
               d == TRUE
    <2>1. /\ v \in Nat \cup {Unread} /\ d \in BOOLEAN /\ cache' = Refilled(e, blk, v, d)
          /\ d => v = want'[blk] /\ (~Cached(blk) \/ e \in Found(blk))
          /\ ~d => want' = want
          /\ ~d /\ ~crossed' => \A x \in Holding(blk) \ {e} : cache[x].dirty => x <= e
      BY <1>2, SMT, SMTT(30)
    <2> HIDE DEF v, d
    <2> QED
      BY <1>0, <1>1, <1>2, <1>3, <2>1, RefilledCache, ZenonT(40)
  <1>5. LoopTyped' /\ pc' \in CacheLoops
    BY <1>0, <1>1, AdvanceLoop, Zenon
  <1>6. /\ age' \in [Entry -> Nat] /\ got' \in [Block -> Nat \cup {Unread}]
        /\ synced' \in Versions /\ honest' \in BOOLEAN /\ honest' = honest
    BY <1>0, <1>1, TouchAge, Typed, Zenon DEF flushes, Shape, TypeOK
  <1>7. Back
    BY <1>0, StillBack, Zenon
  <1>8. Ordered'
    BY <1>0, <1>2, <1>7, Typed, SMT, SMTT(30) DEF Back, Ordered, Versions
  <1>9. Sides' /\ Emptied' /\ Forward
    BY <1>0, <1>3, <1>5, <1>7, BackSides, BackForward, ZenonT(40) DEF Emptied, CacheLoops
  <1>10. Shape'
    BY <1>0, <1>2, <1>3, <1>4, <1>5, <1>6, <1>7, <1>8, <1>9, ShapeNext, SMT, SMTT(30) DEF Back
  <1>11. LossReported'
    <2>1. /\ \A x \in Entry \ {e} : cache'[x] = cache[x]
          /\ cache'[e].in_use /\ cache'[e].block = blk /\ cache'[e].dirty /\ cache'[e].buf = clock + 1
      BY <1>0, <1>1, Zenon DEF Refilled, Shape, TypeOK
    <2>2. \A x \in {blk} : Held(x)'
      BY <1>1, <1>2, <2>1, ZenonT(40) DEF Held, Holding
    <2>3. \A x \in Entry : (Dirty(x) /\ cache[x].block \notin {blk}) => cache'[x] = cache[x]
      BY <2>1, Zenon DEF Found, Holding
    <2> QED
      BY <1>0, <1>1, <1>2, <1>3, <2>2, <2>3, LossKept, ZenonT(40)
  <1> QED
    BY <1>0, <1>3, <1>6, <1>9, <1>10, <1>11, HonestKept, Zenon DEF FaultInv

LEMMA FaultWriteBlockStep ==
    ASSUME FaultInv, write_block PROVE FaultInv' /\ Forward
  <1>0. Shape
    BY Zenon DEF FaultInv
  <1>1. /\ pc \in {"write", "write_each"} /\ Written({blk}) /\ Advance(1)
        /\ kept' = kept /\ got' = got /\ flushes' = flushes
    BY Zenon DEF write_block
  <1>2. CASE \E e \in Found(blk) : cache' = Refilled(e, blk, clock + 1, TRUE) /\ age' = Touch(age, e)
                                   /\ UNCHANGED <<dev, log, told>> /\ Failing(FALSE)
    BY <1>1, <1>2, WriteHit, Zenon
  <1>3. ASSUME ~Cached(blk), NEW e \in Eldest, NEW fw \in BOOLEAN, Failing(fw), Evict(e, fw),
               cache' = Refilled(e, blk, clock + 1, TRUE), age' = Touch(age, e)
        PROVE  FaultInv' /\ Forward
    <2>1. e \in Entry /\ blk \in Block /\ 1 \in 1..cnt /\ clock + 1 \in Nat
      BY <1>0, <1>1, LoopBlocks, FaultEldestEntry, SMT, SMTT(30) DEF Shape, TypeOK
    <2>2. Onward /\ (fw => faults' > 0)
      BY <1>0, <1>1, <1>3, KeptOnward, FailingFaults, Zenon
    <2>3. age' \in [Entry -> Nat] /\ got' \in [Block -> Nat \cup {Unread}]
      BY <1>0, <1>1, <1>3, <2>1, TouchAge, Zenon DEF Shape, TypeOK
    <2>4. LoopTyped' /\ pc' \in CacheLoops
      BY <1>0, <1>1, <2>1, AdvanceLoop, Zenon
    <2> QED
      BY <1>1, <1>3, <2>1, <2>2, <2>3, <2>4, FaultMissStep, ZenonT(40)
  <1> QED
    BY <1>2, <1>3, Zenon DEF write_block

\* A write past the empty cache, to the log or to the device.
LEMMA FaultDirectStep ==
    ASSUME FaultInv, Onward, \A e \in Entry : ~cache[e].in_use, cache' = cache, age' = age,
           LoopTyped', pc' \in CacheLoops, UNCHANGED <<got, flushes, told>>,
           NEW S \in SUBSET Block, Written(S),
           LET v == [b \in Block |-> clock + 1]
           IN  \/ redo /\ log' = Put(log, S, v) /\ dev' = dev
               \/ ~LogMode /\ dev' = Put(dev, S, v) /\ log' = log
    PROVE  FaultInv' /\ Forward
  <1>0. Shape /\ LossReported /\ FlushHonest
    BY Zenon DEF FaultInv
  <1>1. /\ clock' = clock + 1 /\ clock \in Nat /\ want' \in Versions
        /\ \A b \in S : want'[b] = clock + 1
        /\ \A b \in Block \ S : want'[b] = want[b]
        /\ \A b \in Block : want'[b] >= want[b] /\ want'[b] <= clock'
    BY <1>0, WrittenWant, Zenon
  <1>2. \A b \in Block : /\ dev'[b] = IF b \in S /\ dev' # dev THEN clock + 1 ELSE dev[b]
                         /\ log'[b] = IF b \in S /\ log' # log THEN clock + 1 ELSE log[b]
    BY <1>0, Typed, Zenon DEF Put, Versions
  <1>3. /\ dev' \in Versions /\ log' \in Versions
        /\ \A b \in S : clock + 1 \in {dev'[b], log'[b]}
    BY <1>0, <1>1, Typed, ZenonT(40) DEF Put, Versions
  <1>4. Ordered' /\ Forward
    <2>1. \A b \in Block : /\ dev[b] \in Nat /\ log[b] \in Nat /\ want[b] \in Nat
                           /\ dev[b] <= want[b] /\ log[b] <= want[b] /\ want[b] <= clock
                           /\ want'[b] \in Nat
      BY <1>0, <1>1, Typed, Zenon DEF Shape, Ordered, Versions
    <2> QED
      BY <1>1, <1>2, <2>1, SMT, SMTT(30) DEF Ordered, Forward
  <1>5. Sides'
    BY <1>0, <1>2, Zenon DEF Shape, Sides, LogMode, Onward
  <1>6. CacheTyped' /\ Entries' /\ First' /\ Emptied'
    BY <1>0, Zenon DEF Shape, TypeOK, CacheTyped, FaultCacheEntry, Entries, First, Dirty, Emptied, CacheLoops
  <1>7. /\ age' \in [Entry -> Nat] /\ got' \in [Block -> Nat \cup {Unread}] /\ told' \in Versions
        /\ synced' \in Versions /\ honest' \in BOOLEAN /\ honest' = honest
    BY <1>0, Typed, ZenonT(40) DEF flushes, Shape, TypeOK
  <1>8. Shape'
    BY <1>0, <1>1, <1>3, <1>4, <1>5, <1>6, <1>7, ShapeNext, SMT, SMTT(30)
  <1>9. LossReported'
    <2>1. \A b \in S : Held(b)'
      BY <1>1, <1>3, Zenon DEF Held
    <2>2. \A e \in Entry : ~Dirty(e)
      BY Zenon DEF Dirty
    <2> QED
      BY <1>0, <1>1, <1>2, <2>1, <2>2, LossKept, Zenon
  <1> QED
    BY <1>0, <1>4, <1>7, <1>8, <1>9, HonestKept, Zenon DEF FaultInv

LEMMA FaultWriteDirectStep ==
    ASSUME FaultInv, write_direct PROVE FaultInv' /\ Forward
  <1>0. Shape
    BY Zenon DEF FaultInv
  <1>1. PICK n \in 0..cnt :
          /\ Failing(n < cnt) /\ RawWrite(Span(blk, n), [b \in Block |-> clock + 1])
          /\ IF n > 0 THEN Written(Span(blk, n)) ELSE UNCHANGED writes
          /\ Return \/ (pc' = "write_each" /\ UNCHANGED <<blk, cnt, reuse>>)
    BY Zenon DEF write_direct
  <1>2. /\ pc = "write_direct" /\ kept' = kept /\ cache' = cache /\ age' = age
        /\ UNCHANGED <<got, flushes, told>>
    BY Zenon DEF write_direct
  <1>3. LoopTyped' /\ pc' \in CacheLoops
    <2>1. CASE Return
      BY <2>1, ReturnLoop, Zenon DEF CacheLoops
    <2>2. CASE pc' = "write_each" /\ UNCHANGED <<blk, cnt, reuse>>
      BY <1>0, <1>2, <2>2, Zenon DEF CacheLoops, Shape, TypeOK, LoopTyped, Spans
    <2> QED
      BY <1>1, <2>1, <2>2, Zenon
  <1>4. Onward
    <2> DEFINE f == n < cnt
    <2>1. f \in BOOLEAN /\ Failing(f)
      BY <1>1, SMT, SMTT(30)
    <2> HIDE DEF f
    <2> QED
      BY <1>0, <1>2, <2>1, KeptOnward, Zenon
  <1>5. Span(blk, n) \in SUBSET Block /\ \A e \in Entry : ~cache[e].in_use
    BY <1>0, <1>2, Zenon DEF Span, Shape, Emptied
  <1>6. CASE n > 0
    <2>1. LET v == [b \in Block |-> clock + 1]
          IN  \/ redo /\ log' = Put(log, Span(blk, n), v) /\ dev' = dev
              \/ ~LogMode /\ dev' = Put(dev, Span(blk, n), v) /\ log' = log
      BY <1>1, Zenon DEF RawWrite, LogMode
    <2> QED
      BY <1>1, <1>2, <1>3, <1>4, <1>5, <1>6, <2>1, FaultDirectStep, ZenonT(40)
  <1>7. CASE ~(n > 0)
    <2>1. n = 0 /\ Span(blk, n) = {}
      BY <1>0, <1>2, <1>7, LoopBlocks, SMT, SMTT(30) DEF Span, Block
    <2>2. dev' = dev /\ log' = log
      BY <1>0, <1>1, <2>1, Typed, Zenon DEF RawWrite, Put, Versions
    <2>3. age' \in [Entry -> Nat] /\ got' \in [Block -> Nat \cup {Unread}]
      BY <1>0, <1>2, Zenon DEF Shape, TypeOK
    <2> QED
      BY <1>1, <1>2, <1>3, <1>4, <1>7, <2>2, <2>3, QuietStep, ZenonT(40)
  <1> QED
    BY <1>6, <1>7, Zenon

LEMMA FaultWriteByteStep ==
    ASSUME FaultInv, write_byte PROVE FaultInv' /\ Forward
  <1>0. Shape
    BY Zenon DEF FaultInv
  <1>1. /\ pc = "write_byte" /\ Return /\ kept' = kept /\ cache' = cache /\ age' = age
        /\ UNCHANGED <<got, flushes, told>>
    BY Zenon DEF write_byte
  <1>2. Onward
    BY <1>0, <1>1, FaultOnward, Zenon DEF write_byte
  <1>3. LoopTyped' /\ pc' \in CacheLoops
    BY <1>1, ReturnLoop, Zenon DEF CacheLoops
  <1>4. {blk} \in SUBSET Block /\ \A e \in Entry : ~cache[e].in_use
    BY <1>0, <1>1, LoopBlocks, Zenon DEF Shape, Emptied
  <1>5. CASE UNCHANGED <<dev, log, writes>>
    <2>1. age' \in [Entry -> Nat] /\ got' \in [Block -> Nat \cup {Unread}]
      BY <1>0, <1>1, Zenon DEF Shape, TypeOK
    <2> QED
      BY <1>1, <1>2, <1>3, <1>5, <2>1, QuietStep, Zenon
  <1>6. CASE /\ Written({blk})
             /\ LET v == [b \in Block |-> clock + 1]
                IN  IF redo THEN log' = Put(log, {blk}, v) /\ UNCHANGED dev
                            ELSE dev' = Put(dev, {blk}, v) /\ UNCHANGED log
    <2>1. LET v == [b \in Block |-> clock + 1]
          IN  \/ redo /\ log' = Put(log, {blk}, v) /\ dev' = dev
              \/ ~LogMode /\ dev' = Put(dev, {blk}, v) /\ log' = log
      BY <1>6, Zenon DEF LogMode
    <2> QED
      BY <1>1, <1>2, <1>3, <1>4, <1>6, <2>1, FaultDirectStep, Zenon
  <1> QED
    BY <1>5, <1>6, Zenon DEF write_byte

\* What a flush that returned 0 found: every last version is on stable storage,
\* or its loss is reported.
LEMMA HonestFlush ==
    ASSUME Shape, LossReported, Onward, Back, ~crossed, redo => faults' = 0 /\ ~bounce,
           \A e \in Entry : Dirty(e) => Saved(cache[e].block),
           NEW b \in Block
    PROVE  want[b] \in {IF redo THEN log'[b] ELSE dev'[b], told'[b]}
  <1>1. LogMode <=> redo
    BY Zenon DEF LogMode
  <1>2. LogMode => faults = 0 /\ ~(faults' > 0)
    BY <1>1, Sizes, SMT, SMTT(30) DEF Onward, Shape, TypeOK
  <1>3. /\ dev'[b] \in {dev[b], want[b]} /\ log'[b] \in {log[b], want[b]}
        /\ told'[b] \in {told[b], want[b]}
    BY Zenon DEF Back
  <1>4. Held(b) \/ told[b] = want[b]
    BY <1>2, Zenon DEF LossReported
  <1>5. CASE \E e \in Holding(b) : cache[e].dirty /\ cache[e].buf = want[b]
    <2>1. Saved(b)
      BY <1>5, Zenon DEF Holding, Dirty
    <2> QED
      BY <1>1, <1>2, <2>1, Zenon DEF Saved
  <1>6. CASE want[b] \in {dev[b], log[b]}
    <2>1. /\ dev[b] \in Nat /\ log[b] \in Nat /\ want[b] \in Nat
          /\ dev[b] <= want[b] /\ log[b] <= want[b]
          /\ (redo => dev[b] = 0) /\ (~redo => log[b] = 0)
      BY <1>1, Typed, Zenon DEF Shape, Ordered, Sides, Versions
    <2>2. want[b] = IF redo THEN log[b] ELSE dev[b]
      BY <1>6, <2>1, SMT, SMTT(30)
    <2> QED
      BY <1>3, <2>2, Zenon
  <1>7. CASE told[b] = want[b]
    BY <1>3, <1>7, Zenon
  <1> QED
    BY <1>4, <1>5, <1>6, <1>7, Zenon DEF Held

\* The calls that flush the cache and end.
LEMMA FlushEnds ==
    ASSUME FaultInv, Call, NEW F \in SUBSET Entry, NEW G \in SUBSET Entry, NEW i \in BOOLEAN,
           NEW r \in BOOLEAN, NEW f \in BOOLEAN, Flush(F, G, i, r), Failing(f), F # {} => f,
           writes' = writes, LoopTyped', pc' \in {"idle", "closed"},
           \/ flushes' = flushes
           \/ /\ synced' = IF redo THEN log' ELSE dev'
              /\ honest' = (honest /\ \A b \in Block : want[b] \in {synced'[b], told'[b]})
    PROVE  FaultInv' /\ Forward
  <1>0. Shape /\ LossReported /\ FlushHonest
    BY Zenon DEF FaultInv
  <1>1. F # {} => faults' > 0
    BY <1>0, FailingFaults, Zenon
  <1>2. /\ Back /\ kept' = kept /\ age' = age /\ CacheTyped'
        /\ ~crossed => \A e \in Entry : Dirty(e) => Saved(cache[e].block)
        /\ \A e \in Entry : cache'[e].in_use =>
              /\ ~i /\ cache[e].in_use /\ cache'[e].block = cache[e].block
              /\ cache'[e].buf = cache[e].buf /\ (cache'[e].dirty => cache[e].dirty)
    BY <1>0, <1>1, FlushBack, Zenon
  <1>3. Onward
    BY <1>0, <1>2, KeptOnward, Zenon
  <1>4. /\ age' \in [Entry -> Nat] /\ got' \in [Block -> Nat \cup {Unread}] /\ Emptied'
    BY <1>0, <1>2, NothingTyped, Zenon DEF Call, Shape, TypeOK, Emptied
  <1>5. synced' \in Versions /\ honest' \in BOOLEAN /\ FlushHonest'
    <2>1. CASE flushes' = flushes
      BY <1>0, <1>3, <2>1, Typed, HonestKept, Zenon DEF flushes, Shape, TypeOK
    <2>2. CASE /\ synced' = IF redo THEN log' ELSE dev'
               /\ honest' = (honest /\ \A b \in Block : want[b] \in {synced'[b], told'[b]})
      <3>1. synced' \in Versions /\ honest' \in BOOLEAN
        BY <1>0, <1>2, <2>2, Zenon DEF Back, Shape, TypeOK
      <3>2. ASSUME ~crossed', redo' => faults' = 0 /\ ~bounce' PROVE honest'
        <4>1. ~crossed /\ (redo => faults' = 0 /\ ~bounce) /\ (redo => faults = 0)
          BY <1>0, <1>3, <3>2, Sizes, SMT, SMTT(30) DEF Onward, Shape, TypeOK
        <4>2. honest
          BY <1>0, <4>1, Zenon DEF FlushHonest
        <4>3. \A b \in Block : want[b] \in {IF redo THEN log'[b] ELSE dev'[b], told'[b]}
          BY <1>0, <1>2, <1>3, <4>1, HonestFlush, Zenon
        <4>4. \A b \in Block : want[b] \in {synced'[b], told'[b]}
          BY <2>2, <4>3, Zenon
        <4> QED
          BY <2>2, <4>2, <4>4, ZenonT(40)
      <3> QED
        BY <3>1, <3>2, Zenon DEF FlushHonest
    <2> QED
      BY <2>1, <2>2, Zenon
  <1> QED
    BY <1>2, <1>3, <1>4, <1>5, ShrinkStep, Zenon

LEMMA EndSteps ==
    ASSUME FaultInv, unix_flush \/ unix_set_blksize \/ unix_close PROVE FaultInv' /\ Forward
  <1>0. Shape /\ Call
    BY Zenon DEF FaultInv, unix_flush, unix_set_blksize, unix_close
  <1>1. CASE unix_flush
    <2>1. PICK F \in SUBSET Entry, G \in SUBSET Entry, f \in BOOLEAN :
            /\ Flush(F, G, FALSE, ~redo \/ f) /\ Failing(F # {} \/ f)
            /\ IF f \/ (~redo /\ F # G)
                 THEN UNCHANGED flushes
                 ELSE /\ synced' = IF redo THEN log' ELSE dev'
                      /\ honest' = (honest /\ \A b \in Block : want[b] \in {synced'[b], told'[b]})
      BY <1>1, Zenon DEF unix_flush
    <2>2. LoopTyped' /\ pc' = "idle" /\ writes' = writes
      BY <1>0, <1>1, Zenon DEF unix_flush, Call, loop, Shape, TypeOK, LoopTyped, Spans
    <2> DEFINE r == ~redo \/ f
               g == F # {} \/ f
    <2>3. /\ r \in BOOLEAN /\ g \in BOOLEAN /\ (F # {} => g)
          /\ Flush(F, G, FALSE, r) /\ Failing(g)
      BY <2>1, Zenon
    <2> HIDE DEF r, g
    <2> QED
      BY <1>0, <2>1, <2>2, <2>3, FlushEnds, Zenon
  <1>2. CASE unix_set_blksize
    <2>1. PICK F \in SUBSET Entry, G \in SUBSET Entry :
            Flush(F, G, F = G, TRUE) /\ Failing(F # {})
      BY <1>2, Zenon DEF unix_set_blksize
    <2>2. LoopTyped' /\ pc' = "idle" /\ writes' = writes /\ flushes' = flushes
      <3>1. /\ pc = "idle" /\ pc' = pc /\ blk' = blk /\ cnt' = cnt /\ reuse' = reuse
            /\ writes' = writes /\ flushes' = flushes
        BY <1>2, Zenon DEF unix_set_blksize, Call, loop
      <3> QED
        BY <1>0, <3>1, Zenon DEF Shape, TypeOK, LoopTyped, Spans
    <2> DEFINE i == F = G
               g == F # {}
    <2>3. /\ i \in BOOLEAN /\ g \in BOOLEAN /\ (F # {} => g)
          /\ Flush(F, G, i, TRUE) /\ Failing(g)
      BY <2>1, Zenon
    <2> HIDE DEF i, g
    <2> QED
      BY <1>0, <2>1, <2>2, <2>3, FlushEnds, Zenon
  <1>3. CASE unix_close
    <2>1. PICK F \in SUBSET Entry, G \in SUBSET Entry :
            Flush(F, G, TRUE, TRUE) /\ Failing(F # {})
      BY <1>3, Zenon DEF unix_close
    <2>2. LoopTyped' /\ pc' = "closed" /\ writes' = writes /\ flushes' = flushes
      BY <1>0, <1>3, Zenon DEF unix_close, Call, Shape, TypeOK, LoopTyped, Spans
    <2> DEFINE g == F # {}
    <2>3. g \in BOOLEAN /\ (F # {} => g) /\ Failing(g)
      BY <2>1, Zenon
    <2> HIDE DEF g
    <2> QED
      BY <1>0, <2>1, <2>2, <2>3, FlushEnds, Zenon
  <1> QED
    BY <1>1, <1>2, <1>3, Zenon

-----------------------------------------------------------------------------
(* The theorems.                                                           *)

LEMMA FaultInit == ASSUME Init PROVE FaultInv
  <1>1. /\ cache = [e \in Entry |-> Unused] /\ dev = [b \in Block |-> 0] /\ log = [b \in Block |-> 0]
        /\ want = [b \in Block |-> 0] /\ synced = want /\ told = want /\ clock = 0 /\ faults = 0 /\ failing = FALSE
        /\ pc = "idle" /\ blk = 0 /\ cnt = 0 /\ reuse = NoReuse /\ honest = TRUE /\ crossed = FALSE
        /\ got = Nothing /\ age = [e \in Entry |-> e - 1] /\ redo \in BOOLEAN /\ bounce \in BOOLEAN
    BY Zenon DEF Init
  <1>2. \A e \in Entry : ~cache[e].in_use
    BY <1>1, Zenon DEF Unused
  <1>3. TypeOK
    <2>1. cache \in [Entry -> FaultCacheEntry] /\ age \in [Entry -> Nat]
      BY <1>1, Sizes, SMT, SMTT(30) DEF Unused, FaultCacheEntry, Entry
    <2>2. reuse \in [entry : Entry, blk : Block \cup {0}, n : 0..NBlocks, left : 0..NBlocks]
      BY <1>1, Sizes, SMT, SMTT(30) DEF NoReuse, Entry
    <2>3. {dev, log, want, synced, told} \subseteq [Block -> Nat]
      BY <1>1, SMT, SMTT(30)
    <2>4. blk \in Block \cup {0} /\ cnt \in 0..NBlocks /\ faults \in 0..MaxFaults /\ clock \in Nat
      BY <1>1, Sizes, SMT, SMTT(30)
    <2>5. honest \in BOOLEAN /\ crossed \in BOOLEAN /\ failing \in BOOLEAN /\ redo \in BOOLEAN /\ bounce \in BOOLEAN
      BY <1>1, Zenon
    <2>6. pc = "idle" /\ got \in [Block -> Nat \cup {Unread}]
      BY <1>1, NothingTyped, Zenon
    <2> QED
      BY <2>1, <2>2, <2>3, <2>4, <2>5, <2>6, Zenon DEF TypeOK, FaultCacheEntry
  <1>4. Counted /\ Spans /\ Entries /\ Ordered /\ First /\ Sides /\ Emptied
    BY <1>1, <1>2, SMT, SMTT(30) DEF Counted, Spans, NoReuse, Entries, Ordered, First, Dirty, Sides, Emptied
  <1>5. LossReported /\ FlushHonest
    BY <1>1, Zenon DEF LossReported, Held, FlushHonest
  <1> QED
    BY <1>3, <1>4, <1>5, Zenon DEF FaultInv, Shape

LEMMA FaultStep == ASSUME FaultInv, [Next]_vars PROVE FaultInv' /\ Forward
  <1>1. CASE UNCHANGED vars
    <2>1. /\ kept' = kept /\ faults' = faults /\ failing' = failing /\ pc' = pc /\ blk' = blk /\ cnt' = cnt /\ reuse' = reuse
          /\ cache' = cache /\ age' = age /\ dev' = dev /\ log' = log /\ told' = told
          /\ clock' = clock /\ want' = want /\ synced' = synced /\ honest' = honest /\ got' = got
          /\ redo' = redo /\ bounce' = bounce /\ crossed' = crossed
      BY <1>1, Zenon DEF vars, loop, hist, mode, kept, fails, writes, flushes
    <2>2. Shape
      BY ZenonT(40) DEF FaultInv
    <2>3. Shape'
      BY <2>1, <2>2, SMT, SMTT(30) DEF Shape, TypeOK, Counted, Spans, Entries, Ordered, First, Dirty, Holding, Sides,
         LogMode, Emptied
    <2>4. LossReported' /\ FlushHonest'
      BY <2>1, Zenon DEF FaultInv, LossReported, Held, Holding, LogMode, FlushHonest
    <2>5. Forward
      BY <2>1, <2>2, Typed, SMT, SMTT(30) DEF Forward, Versions
    <2> QED
      BY <2>3, <2>4, <2>5, Zenon DEF FaultInv
  <1>2. CASE Next
    BY <1>2, CallSteps, WriteByteCall, FaultReadDirectStep, FaultReadHitStep, FaultReadMissOneStep,
       FaultReadMissManyStep, ReadFailManyStep, ReadSaveStep, FaultWriteBlockStep, FaultWriteDirectStep,
       FaultWriteByteStep, EndSteps, ZenonT(40) DEF Next
  <1> QED
    BY <1>1, <1>2, Zenon

LEMMA FaultInvariant == Spec => []FaultInv
  <1>1. Init => FaultInv
    BY FaultInit, Zenon
  <1>2. FaultInv /\ [Next]_vars => FaultInv'
    BY FaultStep, Zenon
  <1> QED
    BY <1>1, <1>2, PTL DEF Spec

\* The loops over blocks of unix_read_blk64 and unix_write_blk64 stay within the
\* device and reuse[] within the cache, whatever system calls fail, for every size
\* of both.
THEOREM ChannelTyped == Spec => []TypeOK
  <1>1. FaultInv => TypeOK
    BY Zenon DEF FaultInv, Shape
  <1> QED
    BY <1>1, FaultInvariant, PTL

\* What was written last is in the cache, in the log or on the device, or the error
\* handler has told the user that it is not: reuse_cache may drop the error.
THEOREM LossesReported == Spec => []LossReported
  <1>1. FaultInv => LossReported
    BY Zenon DEF FaultInv
  <1> QED
    BY <1>1, FaultInvariant, PTL

\* unix_flush does not return 0 for a write that is neither on stable storage nor
\* reported, although it drops errors of flush_cached_blocks.
THEOREM FlushesHonest == Spec => []FlushHonest
  <1>1. FaultInv => FlushHonest
    BY Zenon DEF FaultInv
  <1> QED
    BY <1>1, FaultInvariant, PTL

\* No older version of a block is written to the log or the device after a newer
\* one, by an eviction, a flush or a write past the cache, whatever fails.
THEOREM WritesInOrder == Spec => InOrder
  <1>1. FaultInv /\ [Next]_vars =>
           [~crossed => \A b \in Block : dev'[b] >= dev[b] /\ log'[b] >= log[b]]_vars
    BY FaultStep, Zenon DEF Forward
  <1> QED
    BY <1>1, FaultInvariant, PTL DEF Spec, InOrder
=============================================================================
