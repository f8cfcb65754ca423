------------------------------- MODULE LongMap -------------------------------
(***************************************************************************)
(* mtdx_adv/long_map.c: a map from longs to memory, whose nodes are        *)
(* allocated beforehand, as it is changed where nothing can be allocated.  *)
(* Each operation holds map->lock; long_map_prealloc() allocates without   *)
(* it.  The search tree of the kernel (rb_link_node(), rb_erase()) is a    *)
(* function; how long_map.c itself takes it apart is in MtdxData.          *)
(***************************************************************************)
EXTENDS Integers, FiniteSets, SequencesExt, Functions

CONSTANTS Keys, Nodes, Threads,
          MaxCount,   \* nodes that may be asked for
          MaxOps,     \* bound: operations on the map
          None

MapAssumption ==
  Keys \subseteq Int /\ IsFiniteSet(Keys) /\ None \notin Nodes /\ MaxCount \in Nat

VARIABLES
  map,     \* useful_blocks, retired_nodes, c_block and rnode_count
  key,     \* the key in each node
  owned,   \* nodes allocated and not freed
  pre,     \* each caller of long_map_prealloc(): at, what it wants, r_cnt and its list h
  store,   \* what the callers have put where: the node that long_map_insert() gave them
  ops      \* operations so far

vars == <<map, key, owned, pre, store, ops>>

NewPre == [at |-> "idle", count |-> 0, r_cnt |-> 0, h |-> <<>>]
Nothing == [k \in {} |-> None]

\* long_map_create()
Init ==
  /\ map = [useful |-> Nothing, retired |-> <<>>, c_block |-> None, rnode_count |-> 0]
  /\ key = [n \in Nodes |-> None] /\ owned = {} /\ store = Nothing /\ ops = 0
  /\ pre = [t \in Threads |-> NewPre]

Without(f, k) == Restrict(f, DOMAIN f \ {k})
With(f, k, v) == [x \in DOMAIN f \cup {k} |-> IF x = k THEN v ELSE f[x]]

-----------------------------------------------------------------------------
(* The operations.                                                         *)

\* long_map_find_useful(): the node used last comes first.
FindUseful(m, k) ==
  IF m.c_block # None /\ key[m.c_block] = k THEN m.c_block
  ELSE IF k \in DOMAIN m.useful THEN m.useful[k] ELSE None

\* long_map_get() and what finds a node remember it.
Found(m, k) == [m EXCEPT !.c_block = IF FindUseful(m, k) = None THEN @ ELSE FindUseful(m, k)]

\* Mutant: the node stays the one used last.
PutNodeCached(m, n) ==
  [m EXCEPT !.retired = <<n>> \o @, !.rnode_count = @ + 1]

\* long_map_put_node()
PutNode(m, n) ==
  [m EXCEPT !.retired = <<n>> \o @, !.rnode_count = @ + 1,
            !.c_block = IF @ = n THEN None ELSE @]

Op == ops < MaxOps /\ ops' = ops + 1 /\ UNCHANGED <<owned, pre>>

Get(k) ==
  /\ Op /\ map' = Found(map, k)
  /\ UNCHANGED <<key, store>>

\* long_map_insert(): it gives nothing without a retired node, or if the key is there.
Insert(k) ==
  /\ Op
  /\ IF map.retired = <<>> THEN UNCHANGED <<map, key, store>>
     ELSE LET b   == Head(map.retired)
              got == [map EXCEPT !.retired = Tail(@), !.rnode_count = @ - 1]
          IN  /\ key' = [key EXCEPT ![b] = k]
              /\ IF k \in DOMAIN map.useful
                 THEN map' = PutNode(got, b) /\ UNCHANGED store
                 ELSE /\ map' = [got EXCEPT !.useful = With(@, k, b), !.c_block = b]
                      /\ store' = With(store, k, b)

\* long_map_move(): what dst has stays, and src is lost then.
Move(dst, src) ==
  /\ Op /\ dst # src
  /\ LET b     == FindUseful(map, src)
         taken == [Found(map, src) EXCEPT !.useful = Without(@, src)]
     IN  IF b = None THEN UNCHANGED <<map, key, store>>
         ELSE /\ key' = [key EXCEPT ![b] = dst]
              /\ IF dst \in DOMAIN map.useful
                 THEN map' = PutNode(taken, b) /\ store' = Without(store, src)
                 ELSE /\ map' = [taken EXCEPT !.useful = With(@, dst, b)]
                      /\ store' = With(Without(store, src), dst, store[src])

\* long_map_erase()
Erase(k) ==
  /\ Op
  /\ LET b == FindUseful(map, k)
     IN  map' = IF b = None THEN map
                ELSE PutNode([Found(map, k) EXCEPT !.useful = Without(@, k)], b)
  /\ store' = Without(store, k)
  /\ UNCHANGED key

\* long_map_clear(): the nodes are retired in the order of their keys.
Clear ==
  /\ Op
  /\ \E keys \in [1 .. Cardinality(DOMAIN map.useful) -> DOMAIN map.useful] :
       /\ Range(keys) = DOMAIN map.useful /\ \A i, j \in DOMAIN keys : i < j => keys[i] > keys[j]
       /\ map' = [useful |-> Nothing, c_block |-> None,
                  retired |-> [i \in DOMAIN keys |-> map.useful[keys[i]]] \o map.retired,
                  rnode_count |-> map.rnode_count + Len(keys)]
  /\ store' = Nothing
  /\ UNCHANGED key

-----------------------------------------------------------------------------
(* long_map_prealloc(), by several callers at once.                        *)

PreStart(t, count) ==
  /\ pre[t].at = "idle" /\ ops < MaxOps /\ ops' = ops + 1
  /\ pre' = [pre EXCEPT ![t] = [NewPre EXCEPT !.at = "test", !.count = count]]
  /\ UNCHANGED <<map, key, owned, store>>

\* With the lock: how many are missing.
PreTest(t) ==
  /\ pre[t].at = "test"
  /\ pre' = [pre EXCEPT ![t] =
               IF map.rnode_count < pre[t].count
               THEN [@ EXCEPT !.at = "alloc", !.r_cnt = pre[t].count - map.rnode_count]
               ELSE NewPre]
  /\ UNCHANGED <<map, key, owned, store, ops>>

\* Without it: one node; or none is to be had, and those of this round are freed.
PreAlloc(t) ==
  /\ pre[t].at = "alloc" /\ pre[t].r_cnt > 0
  /\ \/ \E n \in Nodes \ owned :
          /\ owned' = owned \cup {n}
          /\ pre' = [pre EXCEPT ![t].h = <<n>> \o @, ![t].r_cnt = @ - 1]
     \/ /\ owned' = owned \ Range(pre[t].h)
        /\ pre' = [pre EXCEPT ![t] = NewPre]
  /\ UNCHANGED <<map, key, store, ops>>

\* With it again: the list becomes retired, and all is tested again.
PreAdd(t) ==
  /\ pre[t].at = "alloc" /\ pre[t].r_cnt = 0
  /\ map' = [map EXCEPT !.retired = Reverse(pre[t].h) \o @,
                        !.rnode_count = @ + Len(pre[t].h)]
  /\ pre' = [pre EXCEPT ![t] = [@ EXCEPT !.at = "test", !.h = <<>>]]
  /\ UNCHANGED <<key, owned, store, ops>>

\* long_map_destroy(): the tree and the retired nodes are freed.
Destroy ==
  /\ \A t \in Threads : pre[t].at = "idle"
  /\ ops < MaxOps /\ ops' = MaxOps
  /\ map' = [useful |-> Nothing, retired |-> <<>>, c_block |-> None, rnode_count |-> 0]
  /\ owned' = owned \ (Range(map.useful) \cup Range(map.retired))
  /\ store' = Nothing
  /\ UNCHANGED <<key, pre>>

Next ==
  \/ \E k \in Keys : Get(k) \/ Insert(k) \/ Erase(k) \/ \E src \in Keys : Move(k, src)
  \/ Clear \/ Destroy
  \/ \E t \in Threads : PreTest(t) \/ PreAlloc(t) \/ PreAdd(t)
                        \/ \E count \in 1 .. MaxCount : PreStart(t, count)

-----------------------------------------------------------------------------
(* Properties.                                                             *)

\* A key leads to the node that its caller has been given, by way of the node used last or
\* of the tree.
FindsWhatIsStored ==
  \A k \in Keys : FindUseful(map, k) = IF k \in DOMAIN store THEN store[k] ELSE None

\* Each node that is allocated is in one place: under a key, retired, or in the hands of
\* a caller of long_map_prealloc(); none is lost, and the retired ones are counted.
NodesInPlace ==
  /\ owned = Range(map.useful) \cup Range(map.retired) \cup UNION {Range(pre[t].h) : t \in Threads}
  /\ Range(map.useful) \cap Range(map.retired) = {}
  /\ \A t \in Threads :
       /\ Range(pre[t].h) \cap (Range(map.useful) \cup Range(map.retired)) = {}
       /\ \A u \in Threads \ {t} : Range(pre[t].h) \cap Range(pre[u].h) = {}
       /\ IsInjective(pre[t].h)
  /\ IsInjective(map.useful) /\ IsInjective(map.retired)
  /\ map.rnode_count = Len(map.retired)

MapKept == FindsWhatIsStored /\ NodesInPlace
=============================================================================
