------------------------------- MODULE FlashLut -------------------------------
(***************************************************************************)
(* The block maps of driver/flash_bd.c: free_cnt, block_table, erase_map   *)
(* and data_map, and the functions that update them.                       *)
(*                                                                         *)
(* The C code names a block by "zone << block_addr_bits | block"; a pair   *)
(* <<zone, block>> is the same name, because every caller's geometry has a *)
(* power of two of physical blocks per zone (xd_card_blk.c sets 256, 512   *)
(* or 1024).  A bitmap is the set of the blocks whose bit is 1.            *)
(***************************************************************************)
EXTENDS Naturals, FiniteSets

CONSTANTS ZoneCnt,      \* fbd->zone_cnt
          PhyBlockCnt,  \* fbd->phy_block_cnt: physical blocks of a zone
          LogBlockCnt,  \* fbd->log_block_cnt: logical blocks of a zone
          INVALID       \* FLASH_BD_INVALID

ASSUME GeometryAssumption ==
  /\ ZoneCnt \in Nat \ {0}
  /\ PhyBlockCnt \in Nat \ {0}
  /\ LogBlockCnt \in 1 .. PhyBlockCnt

Zones     == 0 .. ZoneCnt - 1
Blocks    == 0 .. PhyBlockCnt - 1
LogBlocks == 0 .. LogBlockCnt - 1

Phy == Zones \X Blocks
Log == Zones \X LogBlocks

ASSUME InvalidAssumption == INVALID \notin Phy

Lut == [free_cnt    : [Zones -> Nat],
        block_table : [Log -> Phy \cup {INVALID}],
        erase_map   : SUBSET Phy,
        data_map    : SUBSET Phy]

\* The blocks of zone z whose data_map bit is 0.
FreeBlocks(m, z) == {p \in Phy : p[1] = z /\ p \notin m.data_map}

-----------------------------------------------------------------------------

\* "if (fbd->free_cnt[zone]) fbd->free_cnt[zone]--"
DecFree(m, z) == [m.free_cnt EXCEPT ![z] = IF @ = 0 THEN 0 ELSE @ - 1]
IncFree(m, z) == [m.free_cnt EXCEPT ![z] = @ + 1]

\* flash_bd_mark_used()
MarkUsed(m, p) ==
  [m EXCEPT !.free_cnt  = IF p \in m.data_map THEN @ ELSE DecFree(m, p[1]),
            !.data_map  = @ \cup {p},
            !.erase_map = @ \ {p}]

MarkErasedKeepsData(m, p) == [m EXCEPT !.erase_map = @ \cup {p}]

\* flash_bd_mark_erased()
MarkErased(m, p) ==
  [m EXCEPT !.free_cnt  = IF p \in m.data_map THEN IncFree(m, p[1]) ELSE @,
            !.data_map  = @ \ {p},
            !.erase_map = @ \cup {p}]

\* flash_bd_get_logical(): the logical blocks of p's zone that map to p; the
\* code takes the first one.
Unmap(m, p) ==
  LET owners == {l \in Log : l[1] = p[1] /\ m.block_table[l] = p}
      first  == CHOOSE l \in owners : \A k \in owners : l[2] <= k[2]
  IN  IF owners = {} THEN m.block_table
                     ELSE [m.block_table EXCEPT ![first] = INVALID]

SetEmptyAlwaysErased(m, p, erased) ==
  [m EXCEPT !.data_map = @ \ {p}, !.erase_map = @ \cup {p}]

\* flash_bd_set_empty(): p no longer holds data.
SetEmpty(m, p, erased) ==
  LET used == p \in m.data_map
  IN  [m EXCEPT !.block_table = IF used THEN Unmap(m, p) ELSE @,
                !.data_map    = @ \ {p},
                !.free_cnt    = IF used THEN IncFree(m, p[1]) ELSE @,
                !.erase_map   = IF erased THEN @ \cup {p} ELSE @]

\* flash_bd_set_full(.., FLASH_BD_INVALID): p is in use, but holds no logical
\* block (a bad block, the card's information structure).
SetReserved(m, p) ==
  [m EXCEPT !.block_table = IF p \in m.data_map THEN Unmap(m, p) ELSE @,
            !.free_cnt    = IF p \in m.data_map THEN @ ELSE DecFree(m, p[1]),
            !.data_map    = @ \cup {p},
            !.erase_map   = @ \ {p}]

\* flash_bd_set_full(.., log_block): p holds logical block l.  The code refuses
\* (-EEXIST) when p is in use, whatever the table says of l.
SetFullExists(m, p) == p \in m.data_map
SetFull(m, p, l) ==
  [m EXCEPT !.block_table = [@ EXCEPT ![l] = p],
            !.free_cnt    = DecFree(m, p[1]),
            !.data_map    = @ \cup {p},
            !.erase_map   = @ \ {p}]

\* flash_bd_get_free(): the r_pos-th free block of the zone in address order,
\* r_pos random below free_cnt; INVALID when the bitmap has fewer.
GetFree(m, z) ==
  LET free     == FreeBlocks(m, z)
      below(p) == {q \in free : q[2] < p[2]}
  IN  {p \in free : Cardinality(below(p)) < m.free_cnt[z]}
        \cup IF m.free_cnt[z] \in 1 .. Cardinality(free) THEN {} ELSE {INVALID}

TakeUncounted(m, p) ==
  IF p = INVALID THEN m ELSE [m EXCEPT !.data_map = @ \cup {p}]

\* get_free() also takes the block: data_map is set, erase_map is left alone.
Take(m, p) ==
  IF p = INVALID THEN m
  ELSE [m EXCEPT !.free_cnt = DecFree(m, p[1]), !.data_map = @ \cup {p}]

\* flash_bd_init(), then the loop at the end of xd_card_find_cis() that marks
\* blocks 0 .. cis_block of zone 0 as in use.
Reserved(cis_block) == {p \in Phy : p[1] = 0 /\ p[2] <= cis_block}
FreshLut(cis_block) ==
  [free_cnt    |-> [z \in Zones |-> IF z = 0 THEN PhyBlockCnt - cis_block - 1
                                             ELSE PhyBlockCnt],
   block_table |-> [l \in Log |-> INVALID],
   erase_map   |-> {},
   data_map    |-> Reserved(cis_block)]

-----------------------------------------------------------------------------

\* free_cnt is the number of 0 bits of data_map, zone by zone.
FreeCntExact(m) ==
  \A z \in Zones : m.free_cnt[z] = Cardinality(FreeBlocks(m, z))

\* A mapped block is in use, and in the zone of its logical block.
MappedInUse(m) ==
  \A l \in Log : m.block_table[l] # INVALID =>
     m.block_table[l] \in m.data_map /\ m.block_table[l][1] = l[1]

\* No physical block holds two logical blocks.
MappedOnce(m) ==
  \A k, l \in Log : k # l /\ m.block_table[k] # INVALID
                      => m.block_table[k] # m.block_table[l]

LutOK(m) == m \in Lut /\ FreeCntExact(m) /\ MappedInUse(m) /\ MappedOnce(m)

=============================================================================
