------------------------------ MODULE XfsCache ------------------------------
(***************************************************************************)
(* The buffer cache of xfs_repair, src/rfsck-xfs/libxfs/cache.c with the   *)
(* buffers of rdwr.c on top, as its worker and prefetch threads use it:    *)
(* get a buffer, change it or not, put it back.                            *)
(*                                                                         *)
(* A step ends where a thread blocks on a mutex, or leaves a mutex locked  *)
(* that another thread may find locked.  A critical section of c_mutex,    *)
(* which nests nothing, is part of one step.  The cache is created without *)
(* CACHE_MISCOMPARE_PURGE, so a lookup purges nothing.                     *)
(* A thread holds one buffer at a time, so it never waits for a b_lock of  *)
(* its own (b_recur).  The ASSERTs are compiled to nothing (-DNDEBUG,      *)
(* libxfs/Makefile:121): that one was false is only remembered.            *)
(***************************************************************************)
EXTENDS Integers, Sequences, FiniteSets

CONSTANTS
    Thread, Key,
    Node,                   \* the buffers there is memory for
    Bucket, Hash(_),        \* hash chains, and the chain of a key
    CACHE_MAX_PRIORITY, CACHE_PREFETCH_PRIORITY, CACHE_SHAKE_COUNT,
    MaxCount,               \* c_maxcount at the start
    MaxOps,                 \* bound: buffers that a thread gets
    MaxFaults,              \* bound: writes that fail
    None

CACHE_DIRTY_PRIORITY == CACHE_MAX_PRIORITY + 1
Prio == 0..CACHE_DIRTY_PRIORITY

ASSUME XfsCacheAssumption ==
    /\ CACHE_MAX_PRIORITY \in Nat /\ CACHE_PREFETCH_PRIORITY \in Nat
    /\ CACHE_SHAKE_COUNT \in Nat \ {0} /\ MaxCount \in Nat \ {0}
    /\ MaxOps \in Nat /\ MaxFaults \in Nat
    /\ \A k \in Key : Hash(k) \in Bucket
    /\ None \notin Thread \cup Node

VARIABLES
    pc, key, node, prio, todo, temp, ops,       \* each thread's
    cn_key, cn_count, cn_priority, cn_old_priority,
    dirty, b_error,                             \* each buffer's
    chain,          \* the nodes on each hash chain
    mru,            \* each priority's list, most recently used first
    freelist,       \* xfs_buf_freelist and unallocated memory
    ch_mutex, cn_mutex, cm_mutex, b_lock,       \* who holds each mutex
    c_count, c_maxcount,
    faults,         \* number of failed writes
    failed          \* history: the condition of an ASSERT was false

local == <<key, node, prio, todo, temp, ops>>
refs  == <<cn_key, cn_count>>
prios == <<cn_priority, cn_old_priority>>
data  == <<dirty, b_error, faults>>
lists == <<chain, mru, freelist>>
locks == <<ch_mutex, cn_mutex, cm_mutex, b_lock>>
total == <<c_count, c_maxcount>>
vars  == <<pc, local, refs, prios, data, lists, locks, total, failed>>

Init ==
    /\ pc = [t \in Thread |-> "idle"] /\ key \in [Thread -> {CHOOSE k \in Key : TRUE}]
    /\ node = [t \in Thread |-> None] /\ prio = [t \in Thread |-> 0]
    /\ todo = [t \in Thread |-> <<>>] /\ temp = [t \in Thread |-> {}]
    /\ ops = [t \in Thread |-> 0]
    /\ cn_key \in [Node -> {CHOOSE k \in Key : TRUE}] /\ cn_count = [n \in Node |-> 0]
    /\ cn_priority = [n \in Node |-> 0] /\ cn_old_priority = [n \in Node |-> -1]
    /\ dirty = [n \in Node |-> FALSE] /\ b_error = dirty
    /\ chain = [b \in Bucket |-> {}] /\ mru = [p \in Prio |-> <<>>] /\ freelist = Node
    /\ ch_mutex = [b \in Bucket |-> None] /\ cn_mutex = [n \in Node |-> None]
    /\ cm_mutex = [p \in Prio |-> None] /\ b_lock = cn_mutex
    /\ c_count = 0 /\ c_maxcount = MaxCount /\ faults = 0 /\ failed = FALSE

Elems(s)      == {s[i] : i \in 1..Len(s)}
Without(s, n) == SelectSeq(s, LAMBDA x : x # n)
GoTo(t, p)    == pc' = [pc EXCEPT ![t] = p]

\* libxfs is built with NDEBUG: a program whose ASSERT is false goes on
ASSERT(ok) == failed' = (failed \/ ~ok)

\* list_del takes a node off the list it is on
Off(n) == [p \in Prio |-> Without(mru[p], n)]

-----------------------------------------------------------------------------
(* cache_node_get.                                                         *)

libxfs_getbuf(t, k) ==
    /\ pc[t] = "idle" /\ ops[t] < MaxOps
    /\ key' = [key EXCEPT ![t] = k] /\ prio' = [prio EXCEPT ![t] = 0]
    /\ ops' = [ops EXCEPT ![t] = @ + 1]
    /\ GoTo(t, "get")
    /\ UNCHANGED <<node, todo, temp, refs, prios, data, lists, locks, total, failed>>

lookup(t) ==
    LET h    == Hash(key[t])
        hits == {n \in chain[h] : cn_key[n] = key[t]}
    IN  /\ pc[t] = "get" /\ ch_mutex[h] = None
        /\ \/ /\ hits = {} /\ GoTo(t, "alloc") /\ UNCHANGED <<node, ch_mutex>>
           \/ \E n \in hits : /\ node' = [node EXCEPT ![t] = n]
                              /\ ch_mutex' = [ch_mutex EXCEPT ![h] = t]
                              /\ GoTo(t, "hit")
        /\ UNCHANGED <<key, prio, todo, temp, ops, refs, prios, data, lists,
                       cn_mutex, cm_mutex, b_lock, total, failed>>

lock_hit(t) ==
    /\ pc[t] = "hit" /\ cn_mutex[node[t]] = None
    /\ cn_mutex' = [cn_mutex EXCEPT ![node[t]] = t]
    /\ GoTo(t, "take")
    /\ UNCHANGED <<local, refs, prios, data, lists, ch_mutex, cm_mutex, b_lock, total, failed>>

\* mutant: the reference is not counted
take_hit_uncounted(t) ==
    LET n == node[t]
    IN  /\ pc[t] = "take" /\ cn_priority[n] >= 0
        /\ mru' = [mru EXCEPT ![cn_priority[n]] = Without(@, n)]
        /\ GoTo(t, "got")
        /\ cn_mutex' = [cn_mutex EXCEPT ![n] = None]
        /\ ch_mutex' = [ch_mutex EXCEPT ![Hash(key[t])] = None]
        /\ UNCHANGED <<local, refs, prios, data, chain, freelist, cm_mutex, b_lock, total, failed>>

\* An unreferenced node is taken off its list.  The list of priority -1, of a
\* node that is being parked, is the memory before c_mrus: what the program
\* does from there on is undefined, and the model ends.
take_hit(t) ==
    LET n == node[t]
        p == cn_priority[n]
    IN  /\ pc[t] = "take"
        /\ \/ /\ cn_count[n] = 0 /\ p < 0
              /\ ASSERT(FALSE) /\ GoTo(t, "undefined")
              /\ UNCHANGED <<mru, cn_count, prios, cn_mutex, ch_mutex>>
           \/ /\ \/ cn_count[n] > 0 /\ UNCHANGED <<mru, prios, failed>>
                 \/ /\ cn_count[n] = 0 /\ p >= 0 /\ cm_mutex[p] = None
                    /\ ASSERT(/\ \E q \in Prio : n \in Elems(mru[q])
                              /\ cn_old_priority[n] # -1 => p = CACHE_DIRTY_PRIORITY)
                    /\ mru' = Off(n)
                    /\ cn_priority' = [cn_priority EXCEPT ![n] =
                                         IF cn_old_priority[n] # -1 THEN cn_old_priority[n] ELSE @]
                    /\ cn_old_priority' = [cn_old_priority EXCEPT ![n] = -1]
              /\ GoTo(t, "got")
              /\ cn_count' = [cn_count EXCEPT ![n] = @ + 1]
              /\ cn_mutex' = [cn_mutex EXCEPT ![n] = None]
              /\ ch_mutex' = [ch_mutex EXCEPT ![Hash(key[t])] = None]
        /\ UNCHANGED <<local, cn_key, data, chain, freelist, cm_mutex, b_lock, total>>

\* mutant: one node too many
allocate_one_more(t) ==
    /\ pc[t] = "alloc"
    /\ IF c_count <= c_maxcount /\ freelist # {}
         THEN /\ LET n == CHOOSE n \in freelist : TRUE IN
                   /\ node' = [node EXCEPT ![t] = n] /\ freelist' = freelist \ {n}
                   /\ cn_key' = [cn_key EXCEPT ![n] = key[t]]
                   /\ cn_count' = [cn_count EXCEPT ![n] = 1]
                   /\ cn_priority' = [cn_priority EXCEPT ![n] = 0]
                   /\ cn_old_priority' = [cn_old_priority EXCEPT ![n] = -1]
                   /\ dirty' = [dirty EXCEPT ![n] = FALSE]
                   /\ b_error' = [b_error EXCEPT ![n] = FALSE]
              /\ c_count' = c_count + 1 /\ GoTo(t, "insert")
         ELSE /\ GoTo(t, "shake")
              /\ UNCHANGED <<node, freelist, refs, prios, dirty, b_error, c_count>>
    /\ UNCHANGED <<key, prio, todo, temp, ops, faults, chain, mru, locks, c_maxcount, failed>>

\* cache_node_allocate, or else cache_shake
cache_node_allocate(t) ==
    /\ pc[t] = "alloc"
    /\ IF c_count < c_maxcount
         THEN /\ LET n == CHOOSE n \in freelist : TRUE IN
                   /\ node' = [node EXCEPT ![t] = n] /\ freelist' = freelist \ {n}
                   /\ cn_key' = [cn_key EXCEPT ![n] = key[t]]
                   /\ cn_count' = [cn_count EXCEPT ![n] = 1]
                   /\ cn_priority' = [cn_priority EXCEPT ![n] = 0]
                   /\ cn_old_priority' = [cn_old_priority EXCEPT ![n] = -1]
                   /\ dirty' = [dirty EXCEPT ![n] = FALSE]
                   /\ b_error' = [b_error EXCEPT ![n] = FALSE]
              /\ c_count' = c_count + 1 /\ GoTo(t, "insert")
         ELSE /\ GoTo(t, "shake")
              /\ UNCHANGED <<node, freelist, refs, prios, dirty, b_error, c_count>>
    /\ UNCHANGED <<key, prio, todo, temp, ops, faults, chain, mru, locks, c_maxcount, failed>>

insert(t) ==
    LET h == Hash(key[t])
    IN  /\ pc[t] = "insert" /\ ch_mutex[h] = None
        /\ chain' = [chain EXCEPT ![h] = @ \cup {node[t]}]
        /\ GoTo(t, "got")
        /\ UNCHANGED <<local, refs, prios, data, mru, freelist, locks, total, failed>>

-----------------------------------------------------------------------------
(* cache_shake: with the list locked its nodes are visited, oldest first.  *)

shake_lock(t) ==
    /\ pc[t] = "shake" /\ cm_mutex[prio[t]] = None
    /\ cm_mutex' = [cm_mutex EXCEPT ![prio[t]] = t]
    /\ todo' = [todo EXCEPT ![t] = mru[prio[t]]]
    /\ GoTo(t, "visit")
    /\ UNCHANGED <<key, node, prio, temp, ops, refs, prios, data, lists,
                   ch_mutex, cn_mutex, b_lock, total, failed>>

\* libxfs_bflush: fails if the write fails, or did so since the last use
bflush(n, ok) ==
    IF ok THEN ~b_error[n] /\ dirty' = [dirty EXCEPT ![n] = FALSE] /\ UNCHANGED <<b_error, faults>>
          ELSE /\ b_error[n] \/ (dirty[n] /\ faults < MaxFaults)
               /\ b_error' = [b_error EXCEPT ![n] = TRUE] /\ UNCHANGED dirty
               /\ faults' = IF b_error[n] THEN faults ELSE faults + 1

\* mutant: a buffer that could not be flushed is released like the others
shake_visit_unflushed(t) ==
    LET n == todo[t][Len(todo[t])]
    IN  /\ pc[t] = "visit" /\ todo[t] # <<>>
        /\ todo' = [todo EXCEPT ![t] = SubSeq(@, 1, Len(@) - 1)]
        /\ cn_mutex[n] = None /\ (bflush(n, TRUE) \/ bflush(n, FALSE))
        /\ cn_mutex' = [cn_mutex EXCEPT ![n] = t]
        /\ node' = [node EXCEPT ![t] = n] /\ GoTo(t, "unhash")
        /\ UNCHANGED <<key, prio, temp, ops, refs, prios, lists, ch_mutex, cm_mutex,
                       b_lock, total, failed>>

shake_visit(t) ==
    LET n == todo[t][Len(todo[t])]
    IN  /\ pc[t] = "visit" /\ todo[t] # <<>>
        /\ todo' = [todo EXCEPT ![t] = SubSeq(@, 1, Len(@) - 1)]
        /\ \/ /\ cn_mutex[n] # None
              /\ UNCHANGED <<pc, node, cn_mutex, cn_priority, mru, data>>
           \/ /\ cn_mutex[n] = None /\ bflush(n, TRUE)
              /\ cn_mutex' = [cn_mutex EXCEPT ![n] = t]
              /\ node' = [node EXCEPT ![t] = n] /\ GoTo(t, "unhash")
              /\ UNCHANGED <<cn_priority, mru>>
           \/ /\ cn_mutex[n] = None /\ bflush(n, FALSE)
              /\ cn_priority' = [cn_priority EXCEPT ![n] = -1]
              /\ mru' = Off(n)
              /\ node' = [node EXCEPT ![t] = n] /\ GoTo(t, "park")
              /\ UNCHANGED cn_mutex
        /\ UNCHANGED <<key, prio, temp, ops, refs, cn_old_priority, chain, freelist,
                       ch_mutex, cm_mutex, b_lock, total, failed>>

cache_add_to_dirty_mru(t) ==
    LET n == node[t]
        d == CACHE_DIRTY_PRIORITY
    IN  /\ pc[t] = "park" /\ cm_mutex[d] = None
        /\ cn_old_priority' = [cn_old_priority EXCEPT ![n] = cn_priority[n]]
        /\ cn_priority' = [cn_priority EXCEPT ![n] = d]
        /\ mru' = [mru EXCEPT ![d] = <<n>> \o @]
        /\ GoTo(t, "visit")
        /\ UNCHANGED <<local, refs, data, chain, freelist, locks, total, failed>>

unhash(t) ==
    LET n == node[t]
        h == Hash(cn_key[n])
    IN  /\ pc[t] = "unhash" /\ GoTo(t, "visit")
        /\ cn_mutex' = [cn_mutex EXCEPT ![n] = None]
        /\ \/ /\ ch_mutex[h] # None
              /\ UNCHANGED <<temp, todo, cn_priority, mru, chain, failed>>
           \/ /\ ch_mutex[h] = None
              /\ ASSERT(cn_count[n] = 0 /\ cn_priority[n] = prio[t])
              /\ cn_priority' = [cn_priority EXCEPT ![n] = -1]
              /\ mru' = Off(n)
              /\ chain' = [chain EXCEPT ![h] = @ \ {n}]
              /\ temp' = [temp EXCEPT ![t] = @ \cup {n}]
              /\ todo' = [todo EXCEPT ![t] = IF Cardinality(temp'[t]) = CACHE_SHAKE_COUNT
                                               THEN <<>> ELSE @]
        /\ UNCHANGED <<key, node, prio, ops, refs, cn_old_priority, data, freelist,
                       ch_mutex, cm_mutex, b_lock, total>>

\* the list is unlocked; the nodes are released, and then no longer counted
shake_release(t) ==
    /\ pc[t] = "visit" /\ todo[t] = <<>>
    /\ cm_mutex' = [cm_mutex EXCEPT ![prio[t]] = None]
    /\ freelist' = freelist \cup temp[t]
    /\ GoTo(t, "uncount")
    /\ UNCHANGED <<local, refs, prios, data, chain, mru, ch_mutex, cn_mutex, b_lock, total, failed>>

\* mutant: the list behind the last one is shaken next
shake_uncount_unwrapped(t) ==
    LET count == Cardinality(temp[t])
    IN  /\ pc[t] = "uncount"
        /\ c_count' = c_count - count /\ temp' = [temp EXCEPT ![t] = {}]
        /\ prio' = [prio EXCEPT ![t] = IF count = CACHE_SHAKE_COUNT THEN @ ELSE @ + 1]
        /\ GoTo(t, IF prio'[t] > CACHE_MAX_PRIORITY THEN "expand" ELSE "get")
        /\ UNCHANGED <<key, node, todo, ops, refs, prios, data, lists, locks, c_maxcount, failed>>

\* mutant: the released nodes stay counted
shake_uncount_kept(t) ==
    LET count == Cardinality(temp[t])
        p     == IF count = CACHE_SHAKE_COUNT THEN prio[t] ELSE prio[t] + 1
    IN  /\ pc[t] = "uncount" /\ temp' = [temp EXCEPT ![t] = {}]
        /\ prio' = [prio EXCEPT ![t] = IF p > CACHE_MAX_PRIORITY THEN 0 ELSE p]
        /\ GoTo(t, IF p > CACHE_MAX_PRIORITY THEN "expand" ELSE "get")
        /\ UNCHANGED <<key, node, todo, ops, refs, prios, data, lists, locks, total, failed>>

shake_uncount(t) ==
    LET count == Cardinality(temp[t])
        p     == IF count = CACHE_SHAKE_COUNT THEN prio[t] ELSE prio[t] + 1
    IN  /\ pc[t] = "uncount"
        /\ c_count' = c_count - count /\ temp' = [temp EXCEPT ![t] = {}]
        /\ prio' = [prio EXCEPT ![t] = IF p > CACHE_MAX_PRIORITY THEN 0 ELSE p]
        /\ GoTo(t, IF p > CACHE_MAX_PRIORITY THEN "expand" ELSE "get")
        /\ UNCHANGED <<key, node, todo, ops, refs, prios, data, lists, locks, c_maxcount, failed>>

\* mutant: the maximum stays as it is
cache_expand_not(t) ==
    /\ pc[t] = "expand" /\ GoTo(t, "get")
    /\ UNCHANGED <<local, refs, prios, data, lists, locks, total, failed>>

cache_expand(t) ==
    /\ pc[t] = "expand"
    /\ c_maxcount' = 2 * c_maxcount
    /\ GoTo(t, "get")
    /\ UNCHANGED <<local, refs, prios, data, lists, locks, c_count, failed>>

-----------------------------------------------------------------------------
(* The buffer and its reference.                                           *)

Clamp(p) == IF p < 0 THEN 0 ELSE IF p > CACHE_MAX_PRIORITY THEN CACHE_MAX_PRIORITY ELSE p

cache_node_set_priority(n, p) ==
    /\ cn_mutex[n] = None
    /\ ASSERT(cn_count[n] > 0)
    /\ cn_priority' = [cn_priority EXCEPT ![n] = Clamp(p)]
    /\ cn_old_priority' = [cn_old_priority EXCEPT ![n] = -1]

\* __cache_lookup: if the buffer's mutex is held, a lookup with the flag
\* LIBXFS_GETBUF_TRYLOCK gives up and any other one waits for it.
lock_buf(t) ==
    /\ \/ /\ pc[t] \in {"got", "wait"} /\ b_lock[node[t]] = None
          /\ b_lock' = [b_lock EXCEPT ![node[t]] = t] /\ GoTo(t, "rank")
       \/ /\ pc[t] = "got" /\ b_lock[node[t]] # None
          /\ GoTo(t, "put") \/ GoTo(t, "wait")
          /\ UNCHANGED b_lock
    /\ UNCHANGED <<local, refs, prios, data, lists, ch_mutex, cn_mutex, cm_mutex, total, failed>>

rank_buf(t) ==
    LET n == node[t]
    IN  /\ pc[t] = "rank" /\ GoTo(t, "own")
        /\ cache_node_set_priority(n, cn_priority[n] - CACHE_PREFETCH_PRIORITY)
        /\ UNCHANGED <<local, refs, data, lists, locks, total>>

\* the prefetcher ranks a buffer
set_priority(t) ==
    /\ pc[t] = "own" /\ cn_priority[node[t]] # CACHE_MAX_PRIORITY
    /\ cache_node_set_priority(node[t], CACHE_MAX_PRIORITY)
    /\ UNCHANGED <<pc, local, refs, data, lists, locks, total>>

\* libxfs_putbuf, or libxfs_writebuf of a changed buffer
libxfs_putbuf(t) ==
    /\ pc[t] = "own"
    /\ \E d \in BOOLEAN : dirty' = [dirty EXCEPT ![node[t]] = @ \/ d]
    /\ b_error' = [b_error EXCEPT ![node[t]] = FALSE]
    /\ b_lock' = [b_lock EXCEPT ![node[t]] = None]
    /\ GoTo(t, "put")
    /\ UNCHANGED <<local, refs, prios, faults, lists, ch_mutex, cn_mutex, cm_mutex, total, failed>>

cache_node_put(t) ==
    LET n == node[t]
        c == cn_count[n] - 1
    IN  /\ pc[t] = "put" /\ cn_mutex[n] = None
        /\ cn_count' = [cn_count EXCEPT ![n] = c]
        /\ IF c = 0 THEN GoTo(t, "list") /\ cn_mutex' = [cn_mutex EXCEPT ![n] = t]
                    ELSE GoTo(t, "idle") /\ UNCHANGED cn_mutex
        /\ UNCHANGED <<local, cn_key, prios, data, lists, ch_mutex, cm_mutex, b_lock, total, failed>>

\* mutant: the node goes to the first list, whatever its priority
put_mru_first(t) ==
    /\ pc[t] = "list" /\ cm_mutex[0] = None
    /\ mru' = [mru EXCEPT ![0] = <<node[t]>> \o @]
    /\ cn_mutex' = [cn_mutex EXCEPT ![node[t]] = None]
    /\ GoTo(t, "idle")
    /\ UNCHANGED <<local, refs, prios, data, chain, freelist, ch_mutex, cm_mutex, b_lock, total, failed>>

\* an unreferenced node goes to the head of its list
put_mru(t) ==
    LET n == node[t]
        p == cn_priority[n]
    IN  /\ pc[t] = "list" /\ cm_mutex[p] = None
        /\ mru' = [mru EXCEPT ![p] = <<n>> \o @]
        /\ cn_mutex' = [cn_mutex EXCEPT ![n] = None]
        /\ GoTo(t, "idle")
        /\ UNCHANGED <<local, refs, prios, data, chain, freelist, ch_mutex, cm_mutex, b_lock, total, failed>>

-----------------------------------------------------------------------------
(* The end of the run: the threads are gone, cache_purge releases what is  *)
(* on the lists, whether or not it can be flushed.                         *)

cache_purge ==
    LET gone == UNION {Elems(mru[p]) : p \in Prio}
    IN  /\ \A t \in Thread : pc[t] = "idle" /\ ops[t] = MaxOps
        /\ \E F \in SUBSET {n \in gone : dirty[n] /\ ~b_error[n]} :
              /\ faults + Cardinality(F) <= MaxFaults /\ faults' = faults + Cardinality(F)
              /\ dirty' = [n \in Node |-> dirty[n] /\ (n \in F \/ b_error[n] \/ n \notin gone)]
        /\ chain' = [b \in Bucket |-> chain[b] \ gone]
        /\ mru' = [p \in Prio |-> <<>>]
        /\ freelist' = freelist \cup gone
        /\ c_count' = c_count - Cardinality(gone)
        /\ pc' = [t \in Thread |-> "done"]
        /\ ASSERT(\A p \in Prio : \A n \in Elems(mru[p]) : cn_count[n] = 0 /\ cn_priority[n] = p)
        /\ UNCHANGED <<local, refs, prios, b_error, locks, c_maxcount>>

Done      == \A t \in Thread : pc[t] = "done"
Undefined == \E t \in Thread : pc[t] = "undefined"

Step(t) ==
    /\ ~Undefined
    /\ \/ lookup(t) \/ lock_hit(t) \/ take_hit(t) \/ cache_node_allocate(t) \/ insert(t)
       \/ shake_lock(t) \/ shake_visit(t) \/ cache_add_to_dirty_mru(t) \/ unhash(t)
       \/ shake_release(t) \/ shake_uncount(t) \/ cache_expand(t)
       \/ lock_buf(t) \/ rank_buf(t) \/ libxfs_putbuf(t) \/ cache_node_put(t) \/ put_mru(t)
       \/ \E k \in Key : libxfs_getbuf(t, k)

Next ==
    \/ \E t \in Thread : Step(t) \/ (~Undefined /\ set_priority(t))
    \/ cache_purge
    \/ (Done \/ Undefined) /\ UNCHANGED vars

Spec == Init /\ [][Next]_vars

-----------------------------------------------------------------------------
(* Properties.                                                             *)

\* The state of the threads, the nodes, the lists and the mutexes has its types: a
\* thread is at a step of cache_node_get, cache_shake or cache_node_put, and the
\* priority that cache_shake returns is one that it accepts.
TypeOK ==
    /\ pc \in [Thread -> {"idle", "get", "hit", "take", "alloc", "insert", "got",
                          "wait", "rank", "own", "put",
                          "list", "shake", "visit", "park", "unhash", "uncount", "expand", "done",
                          "undefined"}]
    /\ key \in [Thread -> Key] /\ node \in [Thread -> Node \cup {None}]
    /\ prio \in [Thread -> Prio] /\ temp \in [Thread -> SUBSET Node]
    /\ \A t \in Thread : todo[t] \in Seq(Node)
    /\ ops \in [Thread -> 0..MaxOps]
    /\ cn_key \in [Node -> Key] /\ cn_count \in [Node -> Nat]
    /\ cn_priority \in [Node -> Prio \cup {-1}] /\ cn_old_priority \in [Node -> Prio \cup {-1}]
    /\ dirty \in [Node -> BOOLEAN] /\ b_error \in [Node -> BOOLEAN]
    /\ chain \in [Bucket -> SUBSET Node] /\ freelist \subseteq Node
    /\ \A p \in Prio : mru[p] \in Seq(Node)
    /\ ch_mutex \in [Bucket -> Thread \cup {None}] /\ cn_mutex \in [Node -> Thread \cup {None}]
    /\ cm_mutex \in [Prio -> Thread \cup {None}] /\ b_lock \in [Node -> Thread \cup {None}]
    /\ c_count \in Nat /\ c_maxcount \in Nat /\ faults \in 0..MaxFaults /\ failed \in BOOLEAN

\* A node's reference count is the number of threads that use it, and a node in
\* use is on the chain of its key: cache_shake does not release it.  Like every
\* property here, it says nothing of a program that has used c_mrus[-1]
\* (cache.c:433), where the model ends.
Users(n) == {t \in Thread : node[t] = n /\ pc[t] \in {"got", "wait", "rank", "own", "put"}}

Referenced ==
    \A n \in Node :
       /\ cn_count[n] = Cardinality(Users(n) \cup {t \in Thread : node[t] = n /\ pc[t] = "insert"})
       /\ Users(n) # {} => n \in chain[Hash(cn_key[n])] /\ n \notin freelist

\* The cache does not exceed its maximum: there are no more nodes than counted,
\* and no more are counted than c_maxcount.
Bounded == Cardinality(Node \ freelist) <= c_count /\ c_count <= c_maxcount

\* "releasing dirty buffer to free list!" (libxfs_brelse, libxfs_bulkrelse) is not
\* printed before the final purge, whichever write fails: up to a use of
\* c_mrus[-1], a node that could not be written is parked and not released.
NoDirtyReleased == (\E n \in freelist : dirty[n]) => Done

\* A cache_purge that is reached leaves no node: none was lost track of, or
\* counted twice.  It is not reached by a run that uses c_mrus[-1] first.
PurgeEmpties == Done => c_count = 0 /\ freelist = Node

\* The conditions of the ASSERTs of cache.c, which the build compiles to nothing,
\* are true as long as no write fails.  A lookup of a node that is being parked
\* after a failed write makes one false.
AssertsHold == faults = 0 => ~failed

\* The threads are scheduled, and main() purges the cache in the end.
FairSpec == Spec /\ \A t \in Thread : WF_vars(Step(t)) /\ WF_vars(cache_purge)

\* Unless a thread uses c_mrus[-1], which takes a failed write, every thread is
\* served and the run ends: no two threads wait for each other's mutexes, a lookup
\* without LIBXFS_GETBUF_TRYLOCK gets the buffer that another thread holds, and
\* cache_node_get does not shake a full cache of buffers in use for ever.
Ends == <>(Done \/ Undefined)
=============================================================================
