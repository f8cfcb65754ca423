----------------------------- MODULE FlashBdProofs -----------------------------
(***************************************************************************)
(* The block maps of FlashBd agree with each other in every reachable      *)
(* state, and with the card unless an erase of a replaced block fails in   *)
(* the host; commands stay within their blocks, and but for a block that   *)
(* is rewritten in place they only write to what is erased: for cards of   *)
(* any geometry, any requests, failures and losses of power.               *)
(***************************************************************************)
EXTENDS FlashBd, FiniteSetTheorems, TLAPS

-----------------------------------------------------------------------------
(***************************************************************************)
(* What each function of flash_bd.c does to the maps: it keeps them in     *)
(* agreement (LutOK), for cards of any geometry.                           *)
(***************************************************************************)
\* The free blocks can be counted.
LEMMA FreeFinite ==
  ASSUME NEW m, NEW z \in Zones
  PROVE  /\ IsFiniteSet(FreeBlocks(m, z))
         /\ Cardinality(FreeBlocks(m, z)) \in Nat
<1>1. IsFiniteSet(Blocks)
  BY FS_Interval, GeometryAssumption DEF Blocks
<1> DEFINE f == [b \in Blocks |-> <<z, b>>]
           T == {p \in Phy : p[1] = z}
<1>2. f \in Surjection(Blocks, T)
  <2>1. f \in [Blocks -> T]
    BY DEF Phy
  <2>2. \A p \in T : \E b \in Blocks : f[b] = p
    BY DEF Phy
  <2> QED BY <2>1, <2>2 DEF Surjection
<1>3. IsFiniteSet(T)
  BY <1>1, <1>2, FS_Surjection
<1>4. FreeBlocks(m, z) \in SUBSET T
  BY DEF FreeBlocks
<1>5. IsFiniteSet(FreeBlocks(m, z))
  BY <1>3, <1>4, FS_Subset
<1> QED BY <1>5, FS_CardinalityType

\* Taking a free block out of data_map's 0 bits, and putting one back.
LEMMA CountAfterUse ==
  ASSUME NEW m \in Lut, NEW n \in Lut, FreeCntExact(m), NEW p \in Phy,
         p \notin m.data_map, n.data_map = m.data_map \cup {p},
         n.free_cnt = DecFree(m, p[1])
  PROVE  FreeCntExact(n)
<1> SUFFICES ASSUME NEW z \in Zones
             PROVE  n.free_cnt[z] = Cardinality(FreeBlocks(n, z))
  BY DEF FreeCntExact
<1>1. /\ m.free_cnt \in [Zones -> Nat] /\ p[1] \in Zones
      /\ m.free_cnt[z] = Cardinality(FreeBlocks(m, z))
  BY DEF Lut, FreeCntExact, Phy
<1>2. CASE z = p[1]
  <2>1. FreeBlocks(n, z) = FreeBlocks(m, z) \ {p} /\ p \in FreeBlocks(m, z)
    BY <1>2 DEF FreeBlocks
  <2>2. Cardinality(FreeBlocks(n, z)) = Cardinality(FreeBlocks(m, z)) - 1
    BY <2>1, FreeFinite, FS_RemoveElement
  <2>3. Cardinality(FreeBlocks(m, z)) # 0
    BY <2>1, FreeFinite, FS_EmptySet
  <2> QED BY <1>1, <1>2, <2>2, <2>3 DEF DecFree
<1>3. CASE z # p[1]
  <2>1. FreeBlocks(n, z) = FreeBlocks(m, z)
    BY <1>3 DEF FreeBlocks
  <2> QED BY <1>1, <1>3, <2>1 DEF DecFree
<1> QED BY <1>2, <1>3

LEMMA CountAfterFree ==
  ASSUME NEW m \in Lut, NEW n \in Lut, FreeCntExact(m), NEW p \in Phy,
         p \in m.data_map, n.data_map = m.data_map \ {p},
         n.free_cnt = IncFree(m, p[1])
  PROVE  FreeCntExact(n)
<1> SUFFICES ASSUME NEW z \in Zones
             PROVE  n.free_cnt[z] = Cardinality(FreeBlocks(n, z))
  BY DEF FreeCntExact
<1>1. /\ m.free_cnt \in [Zones -> Nat] /\ p[1] \in Zones
      /\ m.free_cnt[z] = Cardinality(FreeBlocks(m, z))
  BY DEF Lut, FreeCntExact, Phy
<1>2. CASE z = p[1]
  <2>1. FreeBlocks(n, z) = FreeBlocks(m, z) \cup {p} /\ p \notin FreeBlocks(m, z)
    BY <1>2 DEF FreeBlocks
  <2>2. Cardinality(FreeBlocks(n, z)) = Cardinality(FreeBlocks(m, z)) + 1
    BY <2>1, FreeFinite, FS_AddElement
  <2> QED BY <1>1, <1>2, <2>2 DEF IncFree
<1>3. CASE z # p[1]
  <2>1. FreeBlocks(n, z) = FreeBlocks(m, z)
    BY <1>3 DEF FreeBlocks
  <2> QED BY <1>1, <1>3, <2>1 DEF IncFree
<1> QED BY <1>2, <1>3

LEMMA CountUnchanged ==
  ASSUME NEW m \in Lut, NEW n \in Lut, FreeCntExact(m),
         n.data_map = m.data_map, n.free_cnt = m.free_cnt
  PROVE  FreeCntExact(n)
BY DEF FreeCntExact, FreeBlocks

LEMMA CntTypes ==
  ASSUME NEW m \in Lut, NEW z \in Zones
  PROVE  DecFree(m, z) \in [Zones -> Nat] /\ IncFree(m, z) \in [Zones -> Nat]
<1>1. m.free_cnt \in [Zones -> Nat]
  BY DEF Lut
<1>2. DecFree(m, z) \in [Zones -> Nat]
  BY <1>1 DEF DecFree
<1>3. IncFree(m, z) \in [Zones -> Nat]
  BY <1>1 DEF IncFree
<1> QED BY <1>2, <1>3

-----------------------------------------------------------------------------

\* flash_bd_mark_used()
LEMMA MarkUsedOK ==
  ASSUME NEW m, LutOK(m), NEW p \in Phy
  PROVE  LutOK(MarkUsed(m, p))
<1> DEFINE n == MarkUsed(m, p)
<1>0. m \in Lut /\ p[1] \in Zones
  BY DEF LutOK, Phy
<1>1. /\ n.data_map = m.data_map \cup {p} /\ n.block_table = m.block_table
      /\ n.free_cnt = IF p \in m.data_map THEN m.free_cnt ELSE DecFree(m, p[1])
  BY <1>0 DEF MarkUsed, Lut
<1>2. n \in Lut
  BY <1>0, CntTypes DEF Lut, MarkUsed
<1>3. FreeCntExact(n)
  <2>1. CASE p \in m.data_map
    <3>1. n.data_map = m.data_map /\ n.free_cnt = m.free_cnt
      BY <1>1, <2>1
    <3> QED BY <1>0, <1>2, <3>1, CountUnchanged DEF LutOK
  <2>2. CASE p \notin m.data_map
    BY <1>0, <1>1, <1>2, <2>2, CountAfterUse DEF LutOK
  <2> QED BY <2>1, <2>2
<1>4. MappedInUse(n) /\ MappedOnce(n)
  BY <1>1 DEF LutOK, MappedInUse, MappedOnce
<1> QED BY <1>2, <1>3, <1>4 DEF LutOK

LEMMA MarkUsedBits ==
  ASSUME NEW m \in Lut, NEW p \in Phy
  PROVE  /\ MarkUsed(m, p).data_map = m.data_map \cup {p}
         /\ MarkUsed(m, p).erase_map = m.erase_map \ {p}
BY DEF MarkUsed, Lut

\* flash_bd_mark_erased(), of a block that no logical block is mapped to
LEMMA MarkErasedOK ==
  ASSUME NEW m, LutOK(m), NEW p \in Phy, \A l \in Log : m.block_table[l] # p
  PROVE  LutOK(MarkErased(m, p))
<1> DEFINE n == MarkErased(m, p)
<1>0. m \in Lut /\ p[1] \in Zones
  BY DEF LutOK, Phy
<1>1. /\ n.data_map = m.data_map \ {p} /\ n.block_table = m.block_table
      /\ n.free_cnt = IF p \in m.data_map THEN IncFree(m, p[1]) ELSE m.free_cnt
  BY <1>0 DEF MarkErased, Lut
<1>2. n \in Lut
  BY <1>0, CntTypes DEF Lut, MarkErased
<1>3. FreeCntExact(n)
  <2>1. CASE p \notin m.data_map
    <3>1. n.data_map = m.data_map /\ n.free_cnt = m.free_cnt
      BY <1>1, <2>1
    <3> QED BY <1>0, <1>2, <3>1, CountUnchanged DEF LutOK
  <2>2. CASE p \in m.data_map
    BY <1>0, <1>1, <1>2, <2>2, CountAfterFree DEF LutOK
  <2> QED BY <2>1, <2>2
<1>4. MappedInUse(n) /\ MappedOnce(n)
  BY <1>1 DEF LutOK, MappedInUse, MappedOnce
<1> QED BY <1>2, <1>3, <1>4 DEF LutOK

\* flash_bd_get_logical() finds the only logical block that maps to p.
LEMMA UnmapOnlyOwner ==
  ASSUME NEW m, LutOK(m), NEW p \in Phy
  PROVE  /\ Unmap(m, p) \in [Log -> Phy \cup {INVALID}]
         /\ \A l \in Log : Unmap(m, p)[l] = IF m.block_table[l] = p THEN INVALID
                                            ELSE m.block_table[l]
<1> DEFINE owners == {l \in Log : l[1] = p[1] /\ m.block_table[l] = p}
           first  == CHOOSE l \in owners : \A k \in owners : l[2] <= k[2]
<1>0. m.block_table \in [Log -> Phy \cup {INVALID}] /\ p # INVALID
  BY InvalidAssumption DEF LutOK, Lut
<1>1. \A l \in Log : m.block_table[l] = p <=> l \in owners
  BY <1>0 DEF LutOK, MappedInUse
<1>2. CASE owners = {}
  BY <1>0, <1>1, <1>2 DEF Unmap
<1>3. CASE owners # {}
  <2>1. PICK o \in owners : TRUE
    BY <1>3
  <2>2. \A l \in owners : l = o
    BY <1>0, <2>1 DEF LutOK, MappedOnce
  <2>3. o \in Log /\ o[2] <= o[2]
    BY <2>1, GeometryAssumption DEF Log, LogBlocks
  <2>4. first = o
    BY <2>1, <2>2, <2>3
  <2>5. Unmap(m, p) = [m.block_table EXCEPT ![o] = INVALID]
    BY <1>3, <2>4 DEF Unmap
  <2> QED BY <1>0, <1>1, <2>1, <2>2, <2>3, <2>5
<1> QED BY <1>2, <1>3

\* flash_bd_set_empty()
LEMMA SetEmptyOK ==
  ASSUME NEW m, LutOK(m), NEW p \in Phy, NEW erased \in BOOLEAN
  PROVE  LutOK(SetEmpty(m, p, erased))
<1> DEFINE n == SetEmpty(m, p, erased)
<1>0. m \in Lut /\ p[1] \in Zones
  BY DEF LutOK, Phy
<1>1. /\ n.data_map = m.data_map \ {p}
      /\ n.block_table = IF p \in m.data_map THEN Unmap(m, p) ELSE m.block_table
      /\ n.free_cnt = IF p \in m.data_map THEN IncFree(m, p[1]) ELSE m.free_cnt
  BY <1>0 DEF SetEmpty, Lut
<1>2. n \in Lut
  BY <1>0, CntTypes, UnmapOnlyOwner DEF Lut, SetEmpty
<1>3. FreeCntExact(n)
  <2>1. CASE p \notin m.data_map
    <3>1. n.data_map = m.data_map /\ n.free_cnt = m.free_cnt
      BY <1>1, <2>1
    <3> QED BY <1>0, <1>2, <3>1, CountUnchanged DEF LutOK
  <2>2. CASE p \in m.data_map
    BY <1>0, <1>1, <1>2, <2>2, CountAfterFree DEF LutOK
  <2> QED BY <2>1, <2>2
<1>4. \A l \in Log : n.block_table[l] # INVALID =>
                       n.block_table[l] = m.block_table[l] /\ n.block_table[l] # p
  BY <1>1, UnmapOnlyOwner, InvalidAssumption DEF LutOK, MappedInUse
<1>5. MappedInUse(n)
  BY <1>1, <1>4 DEF LutOK, MappedInUse
<1>6. MappedOnce(n)
  BY <1>4 DEF LutOK, MappedOnce
<1> QED BY <1>2, <1>3, <1>5, <1>6 DEF LutOK

\* flash_bd_set_full(.., FLASH_BD_INVALID)
LEMMA SetReservedOK ==
  ASSUME NEW m, LutOK(m), NEW p \in Phy
  PROVE  LutOK(SetReserved(m, p))
<1> DEFINE n == SetReserved(m, p)
<1>0. m \in Lut /\ p[1] \in Zones
  BY DEF LutOK, Phy
<1>1. /\ n.data_map = m.data_map \cup {p}
      /\ n.block_table = IF p \in m.data_map THEN Unmap(m, p) ELSE m.block_table
      /\ n.free_cnt = IF p \in m.data_map THEN m.free_cnt ELSE DecFree(m, p[1])
  BY <1>0 DEF SetReserved, Lut
<1>2. n \in Lut
  BY <1>0, CntTypes, UnmapOnlyOwner DEF Lut, SetReserved
<1>3. FreeCntExact(n)
  <2>1. CASE p \in m.data_map
    <3>1. n.data_map = m.data_map /\ n.free_cnt = m.free_cnt
      BY <1>1, <2>1
    <3> QED BY <1>0, <1>2, <3>1, CountUnchanged DEF LutOK
  <2>2. CASE p \notin m.data_map
    BY <1>0, <1>1, <1>2, <2>2, CountAfterUse DEF LutOK
  <2> QED BY <2>1, <2>2
<1>4. \A l \in Log : n.block_table[l] # INVALID => n.block_table[l] = m.block_table[l]
  BY <1>1, UnmapOnlyOwner
<1>5. MappedInUse(n) /\ MappedOnce(n)
  BY <1>1, <1>4 DEF LutOK, MappedInUse, MappedOnce
<1> QED BY <1>2, <1>3, <1>5 DEF LutOK

\* flash_bd_set_full(.., log_block), of a block that is not in use
LEMMA SetFullOK ==
  ASSUME NEW m, LutOK(m), NEW p \in Phy, p \notin m.data_map,
         NEW l \in Log, l[1] = p[1]
  PROVE  LutOK(SetFull(m, p, l))
<1> DEFINE n == SetFull(m, p, l)
<1>0. m \in Lut /\ p[1] \in Zones /\ m.block_table \in [Log -> Phy \cup {INVALID}]
  BY DEF LutOK, Phy, Lut
<1>1. /\ n.data_map = m.data_map \cup {p}
      /\ n.block_table = [m.block_table EXCEPT ![l] = p]
      /\ n.free_cnt = DecFree(m, p[1])
  BY <1>0 DEF SetFull, Lut
<1>2. n \in Lut
  BY <1>0, CntTypes DEF Lut, SetFull
<1>3. FreeCntExact(n)
  BY <1>0, <1>1, <1>2, CountAfterUse DEF LutOK
<1>4. MappedInUse(n) /\ MappedOnce(n)
  BY <1>0, <1>1 DEF LutOK, MappedInUse, MappedOnce
<1> QED BY <1>2, <1>3, <1>4 DEF LutOK

\* What the functions a scan calls do to the two bitmaps.
LEMMA BitsAfter ==
  ASSUME NEW m \in Lut, NEW p \in Phy
  PROVE  /\ SetReserved(m, p).data_map = m.data_map \cup {p}
         /\ SetReserved(m, p).erase_map = m.erase_map \ {p}
         /\ SetEmpty(m, p, FALSE).data_map = m.data_map \ {p}
         /\ SetEmpty(m, p, FALSE).erase_map = m.erase_map
<1>1. /\ SetReserved(m, p).data_map = m.data_map \cup {p}
      /\ SetReserved(m, p).erase_map = m.erase_map \ {p}
  BY DEF SetReserved, Lut
<1>2. /\ SetEmpty(m, p, FALSE).data_map = m.data_map \ {p}
      /\ SetEmpty(m, p, FALSE).erase_map = m.erase_map
  BY DEF SetEmpty, Lut
<1> QED BY <1>1, <1>2

LEMMA SetFullBits ==
  ASSUME NEW m \in Lut, NEW p \in Phy, NEW l \in Log
  PROVE  /\ SetFull(m, p, l).data_map = m.data_map \cup {p}
         /\ SetFull(m, p, l).erase_map = m.erase_map \ {p}
BY DEF SetFull, Lut

\* flash_bd_get_free(): what is handed out was free, and in the zone asked for.
LEMMA GetFreeIsFree ==
  ASSUME NEW m, NEW z, NEW p \in GetFree(m, z), p # INVALID
  PROVE  p \in Phy /\ p[1] = z /\ p \notin m.data_map
BY DEF GetFree, FreeBlocks

LEMMA TakeOK ==
  ASSUME NEW m, LutOK(m), NEW p \in Phy, p \notin m.data_map
  PROVE  LutOK(Take(m, p))
<1> DEFINE n == Take(m, p)
<1>0. m \in Lut /\ p[1] \in Zones /\ p # INVALID
  BY InvalidAssumption DEF LutOK, Phy
<1>1. /\ n.data_map = m.data_map \cup {p} /\ n.block_table = m.block_table
      /\ n.free_cnt = DecFree(m, p[1])
  BY <1>0 DEF Take, Lut
<1>2. n \in Lut
  BY <1>0, CntTypes DEF Lut, Take
<1>3. FreeCntExact(n)
  BY <1>0, <1>1, <1>2, CountAfterUse DEF LutOK
<1>4. MappedInUse(n) /\ MappedOnce(n)
  BY <1>1 DEF LutOK, MappedInUse, MappedOnce
<1> QED BY <1>2, <1>3, <1>4 DEF LutOK

\* The maps of a new card agree: flash_bd_init() and xd_card_find_cis().
LEMMA FreshOK ==
  ASSUME NEW cis \in Blocks
  PROVE  LutOK(FreshLut(cis))
<1> DEFINE n == FreshLut(cis)
<1>0. cis \in Nat /\ cis < PhyBlockCnt /\ PhyBlockCnt \in Nat
  BY GeometryAssumption DEF Blocks
<1>1. n \in Lut
  BY <1>0 DEF FreshLut, Lut, Reserved
<1>2. FreeCntExact(n)
  <2> SUFFICES ASSUME NEW z \in Zones
               PROVE  n.free_cnt[z] = Cardinality(FreeBlocks(n, z))
    BY DEF FreeCntExact
  <2> DEFINE lo == IF z = 0 THEN cis + 1 ELSE 0
             f  == [b \in lo .. PhyBlockCnt - 1 |-> <<z, b>>]
  <2>1. n.free_cnt[z] = PhyBlockCnt - lo
    BY <1>0 DEF FreshLut
  <2>2. /\ IsFiniteSet(lo .. PhyBlockCnt - 1)
        /\ Cardinality(lo .. PhyBlockCnt - 1) = PhyBlockCnt - lo
    <3>1. /\ lo \in Int /\ PhyBlockCnt - 1 \in Int /\ lo <= PhyBlockCnt
          /\ (PhyBlockCnt - 1) - lo + 1 = PhyBlockCnt - lo
      BY <1>0
    <3>2. /\ IsFiniteSet(lo .. PhyBlockCnt - 1)
          /\ Cardinality(lo .. PhyBlockCnt - 1) =
               IF lo > PhyBlockCnt - 1 THEN 0 ELSE (PhyBlockCnt - 1) - lo + 1
      BY <3>1, FS_Interval
    <3> HIDE DEF lo
    <3> QED BY <1>0, <3>1, <3>2
  <2>3. f \in Bijection(lo .. PhyBlockCnt - 1, FreeBlocks(n, z))
    <3>1. FreeBlocks(n, z) = {p \in Phy : p[1] = z /\ ~ (z = 0 /\ p[2] <= cis)}
      BY DEF FreeBlocks, FreshLut, Reserved
    <3>2. \A b \in lo .. PhyBlockCnt - 1 : <<z, b>> \in FreeBlocks(n, z)
      BY <1>0, <3>1 DEF Phy, Blocks
    <3>3. \A p \in FreeBlocks(n, z) : \E b \in lo .. PhyBlockCnt - 1 : <<z, b>> = p
      <4> SUFFICES ASSUME NEW p \in FreeBlocks(n, z)
                   PROVE  \E b \in lo .. PhyBlockCnt - 1 : <<z, b>> = p
        OBVIOUS
      <4>1. p \in Zones \X Blocks /\ p[1] = z /\ ~ (z = 0 /\ p[2] <= cis)
        BY <3>1 DEF Phy
      <4>2. p = <<z, p[2]>> /\ p[2] \in Blocks
        BY <4>1
      <4>3. p[2] \in lo .. PhyBlockCnt - 1
        BY <1>0, <4>1, <4>2 DEF Blocks
      <4> QED BY <4>2, <4>3
    <3>4. f \in [lo .. PhyBlockCnt - 1 -> FreeBlocks(n, z)]
      BY <3>2
    <3>5. \A a, b \in lo .. PhyBlockCnt - 1 : f[a] = f[b] => a = b
      OBVIOUS
    <3>6. \A p \in FreeBlocks(n, z) : \E b \in lo .. PhyBlockCnt - 1 : f[b] = p
      BY <3>3
    <3> QED BY <3>4, <3>5, <3>6 DEF Bijection, Injection, Surjection, IsInjective
  <2>4. Cardinality(FreeBlocks(n, z)) = PhyBlockCnt - lo
    BY <2>2, <2>3, FS_Bijection DEF ExistsBijection
  <2> QED BY <2>1, <2>4
<1>3. MappedInUse(n) /\ MappedOnce(n)
  BY DEF FreshLut, MappedInUse, MappedOnce
<1> QED BY <1>1, <1>2, <1>3 DEF LutOK

-----------------------------------------------------------------------------
(***************************************************************************)
(* What the handlers rely on from one to the next.                         *)
(***************************************************************************)

\* What the handlers need of io; the counts are bounded by TypeOK, here their
\* being integers is enough.
ActiveIo ==
  [handler : Handlers, byte_offset : Int, t_count : Int, rem_count : Int,
   val : Values \cup {BLANK}, w_log : Log \cup {INVALID},
   w_src : Phy \cup {INVALID}, w_dst : Phy \cup {INVALID},
   buf_offset : Int, buf_count : Int, req_count : Int]

\* Between the choice of a destination and the commit of a block, the destination
\* is in use and no other logical block maps to it; the source is the block that
\* is still mapped.
WriteFits(m, i) ==
  /\ i.w_log \in Log
  /\ i.w_dst \in Phy /\ i.w_dst \in m.data_map /\ i.w_dst[1] = i.w_log[1]
  /\ i.w_src = m.block_table[i.w_log]
  /\ \A l \in Log : m.block_table[l] = i.w_dst => l = i.w_log

\* After the commit no logical block maps to the source, so it may be freed.
SrcUnmapped(m, i) == /\ i.w_src \in Phy
                     /\ \A l \in Log : m.block_table[l] # i.w_src

\* What handler h finds when it is called.
Fits(m, i, h) ==
  /\ h \in {"read_tmp_w", "fill_tmp", "erase_dst", "write_inc"} => WriteFits(m, i)
  /\ h = "erase_src" => SrcUnmapped(m, i)

Before(p, q) == p[1] < q[1] \/ (p[1] = q[1] /\ p[2] < q[2])

\* The failure after which h_flash_bd_erase_src() does not know what it erased is
\* not considered.
EraseOutcomeKnown == <<"erase_src", "EIO">> \notin Faults

\* What the maps m call clean is erased.
Clean(m) == EraseOutcomeKnown =>
              \A p \in m.erase_map \ m.data_map : media[p] = ErasedBlock

\* Commands change blocks in use only, never a clean one.
Changing == {"ERASE", "WRITE", "WRITE_TMP", "MARK_BAD"}
ReqFits == /\ req.cmd \in Changing => req.phy \in lut.data_map
           /\ io.handler = "erase_src" => req.cmd = "ERASE" /\ req.phy = io.w_src

SrcErased == EraseOutcomeKnown /\ ret.error # "EFAULT" => media[io.w_src] = ErasedBlock

\* A scan has only put blocks in use that it has passed.
ScanFits(m, s) == /\ s \in Nat \X Blocks /\ \A p \in m.data_map : Before(p, s)
                  /\ m.erase_map = {}

\* The invariant that is preserved by every step.
IInv == /\ LutOK(lut)
        /\ phase \in {"exec", "call"} => io \in ActiveIo /\ Fits(lut, io, io.handler)
        /\ phase = "mount" => ScanFits(lut, scan)
        /\ media = [p \in Phy |-> media[p]]
        /\ Clean(lut)
        /\ phase = "exec" => ReqFits
        /\ phase = "call" /\ io.handler = "erase_src" => SrcErased

-----------------------------------------------------------------------------
(* How the handlers end.                                                   *)

LEMMA FinishInv ==
  ASSUME IInv, HandlerFrame, NEW m, LutOK(m), Clean(m), Finish(m)
  PROVE  IInv'
BY DEF Finish, IInv, HandlerFrame, Clean, EraseOutcomeKnown

LEMMA GoToIo ==
  ASSUME NEW i \in ActiveIo, NEW h \in Handlers, NEW n \in Int
  PROVE  /\ GoTo(i, h, n) \in ActiveIo
         /\ GoTo(i, h, n).handler = h
         /\ \A m : WriteFits(m, GoTo(i, h, n)) = WriteFits(m, i)
         /\ \A m : SrcUnmapped(m, GoTo(i, h, n)) = SrcUnmapped(m, i)
<1> DEFINE j == GoTo(i, h, n)
<1>1. /\ j \in ActiveIo /\ j.handler = h /\ j.w_log = i.w_log
      /\ j.w_src = i.w_src /\ j.w_dst = i.w_dst
  BY DEF GoTo, ActiveIo
<1> HIDE DEF j
<1>2. \A m : WriteFits(m, j) = WriteFits(m, i) /\ SrcUnmapped(m, j) = SrcUnmapped(m, i)
  BY <1>1 DEF WriteFits, SrcUnmapped
<1> QED BY <1>1, <1>2 DEF j

LEMMA IssueInv ==
  ASSUME IInv, HandlerFrame, NEW m, LutOK(m), Clean(m),
         NEW i \in ActiveIo, NEW h \in Handlers, NEW n \in Int, Fits(m, i, h),
         NEW cmd, NEW phy, NEW off, NEW cnt,
         cmd \in Changing => phy \in m.data_map,
         h = "erase_src" => cmd = "ERASE" /\ phy = i.w_src,
         Issue(cmd, phy, off, cnt, GoTo(i, h, n), m)
  PROVE  IInv'
<1>1. io' = GoTo(i, h, n) /\ lut' = m /\ phase' = "exec"
  BY DEF Issue
<1>2. io' \in ActiveIo /\ io'.handler = h
  BY <1>1, GoToIo
<1>3. Fits(m, GoTo(i, h, n), h)
  BY GoToIo DEF Fits
<1>4. Fits(lut, io, io.handler)'
  BY <1>1, <1>2, <1>3
<1>5. ReqFits'
  <2>1. req'.cmd = cmd /\ req'.phy = phy /\ io'.w_src = i.w_src
    BY <1>1 DEF Issue, GoTo, ActiveIo
  <2> QED BY <1>1, <1>2, <2>1 DEF ReqFits
<1>6. Clean(lut)' /\ (media = [p \in Phy |-> media[p]])'
  BY <1>1 DEF Clean, EraseOutcomeKnown, HandlerFrame, IInv
<1> QED BY <1>1, <1>2, <1>4, <1>5, <1>6 DEF IInv

LEMMA BlockSizeType == BlockSize \in Nat /\ BlockSize # 0
BY PageAssumption DEF BlockSize

LEMMA HandlerNames ==
  {"read", "read_tmp_r", "write", "read_tmp_w", "fill_tmp", "erase_dst",
   "mark_dst_bad", "write_inc", "erase_src", "mark_src_bad", "null"} \subseteq Handlers
BY DEF Handlers

LEMMA LogOfType ==
  ASSUME NEW i \in ActiveIo, ZoneNo(i) \in Zones
  PROVE  LogOf(i) \in Log /\ LogOf(i)[1] = ZoneNo(i)
<1>1. Position(i) \in Int
  BY DEF Position, ActiveIo
<1>2. BlockNo(i) \in Int
  BY <1>1, BlockSizeType DEF BlockNo
<1>3. BlockNo(i) % LogBlockCnt \in LogBlocks
  BY <1>2, GeometryAssumption DEF LogBlocks
<1> QED BY <1>3 DEF LogOf, Log

LEMMA WithBlockIo ==
  ASSUME NEW i \in ActiveIo, ZoneNo(i) \in Zones
  PROVE  /\ WithBlock(i) \in ActiveIo /\ WithBlock(i).w_log = LogOf(i)
<1>1. Position(i) \in Int
  BY DEF Position, ActiveIo
<1>2. InBlock(i) \in Int
  BY <1>1, BlockSizeType DEF InBlock
<1>3. CountDue(i) \in Int
  BY <1>2, BlockSizeType DEF CountDue, ActiveIo
<1> QED BY <1>2, <1>3, LogOfType DEF WithBlock, ActiveIo

-----------------------------------------------------------------------------
(* The parts of the write handlers.                                        *)

LEMMA EraseDstInv ==
  ASSUME IInv, HandlerFrame, NEW m, LutOK(m), Clean(m),
         NEW i \in ActiveIo, WriteFits(m, i), NEW error,
         EraseDst(i, m, error)
  PROVE  IInv'
<1>1. /\ Fits(m, i, "mark_dst_bad") /\ Fits(m, i, "write_inc")
      /\ i.w_dst \in m.data_map
  BY DEF Fits, WriteFits
<1>2. CASE Issue("MARK_BAD", i.w_dst, 0, BlockSize, GoTo(i, "mark_dst_bad", 0), m)
  BY <1>1, <1>2, HandlerNames, IssueInv
<1>3. CASE Finish(m)
  BY <1>3, FinishInv
<1>4. CASE Issue("WRITE_TMP", i.w_dst, 0, BlockSize, GoTo(i, "write_inc", BlockSize), m)
  BY <1>1, <1>4, HandlerNames, BlockSizeType, IssueInv
<1>5. CASE Issue("WRITE", i.w_dst, 0, BlockSize, GoTo(i, "write_inc", BlockSize), m)
  BY <1>1, <1>5, HandlerNames, BlockSizeType, IssueInv
<1> QED BY <1>2, <1>3, <1>4, <1>5 DEF EraseDst

LEMMA PrepareDstInv ==
  ASSUME IInv, HandlerFrame, NEW m, LutOK(m), Clean(m),
         NEW i \in ActiveIo, WriteFits(m, i), PrepareDst(i, m)
  PROVE  IInv'
<1>1. CASE EraseDst(i, m, "OK")
  BY <1>1, EraseDstInv
<1>2. CASE Issue("ERASE", i.w_dst, 0, 0, GoTo(i, "erase_dst", 0), m)
  <2>1. Fits(m, i, "erase_dst") /\ i.w_dst \in m.data_map
    BY DEF Fits, WriteFits
  <2> QED BY <1>2, <2>1, HandlerNames, IssueInv
<1> QED BY <1>1, <1>2 DEF PrepareDst

LEMMA WriteBlockInv ==
  ASSUME IInv, HandlerFrame, NEW m, LutOK(m), Clean(m),
         NEW i \in ActiveIo, i.w_dst # INVALID => WriteFits(m, i),
         WriteBlock(i, m)
  PROVE  IInv'
<1>1. CASE i.w_dst = INVALID
  BY <1>1, FinishInv DEF WriteBlock
<1>2. CASE i.w_dst # INVALID
  <2>1. WriteFits(m, i) /\ Fits(m, i, "read_tmp_w")
    BY <1>2 DEF Fits
  <2>2. CASE Issue("ERASE_TMP", INVALID, 0, BlockSize,
                   GoTo(i, "read_tmp_w", BlockSize), m)
    BY <2>1, <2>2, HandlerNames, BlockSizeType, IssueInv DEF Changing
  <2>3. CASE Issue("READ_TMP", i.w_src, 0, BlockSize,
                   GoTo(i, "read_tmp_w", BlockSize), m)
    BY <2>1, <2>3, HandlerNames, BlockSizeType, IssueInv DEF Changing
  <2>4. CASE PrepareDst(i, m)
    BY <2>1, <2>4, PrepareDstInv
  <2> QED BY <1>2, <2>2, <2>3, <2>4 DEF WriteBlock
<1> QED BY <1>1, <1>2

\* The destination h_flash_bd_write() chooses is a free block, which it takes, or
\* the block the logical block has.
LEMMA WriteNextInv ==
  ASSUME IInv, HandlerFrame, NEW m, LutOK(m), Clean(m),
         NEW i \in ActiveIo, WriteNext(i, m)
  PROVE  IInv'
<1>1. CASE Finish(m)
  BY <1>1, FinishInv
<1>2. ASSUME ZoneNo(i) \in Zones, NEW free \in GetFree(m, ZoneNo(i)),
             LET src == m.block_table[LogOf(i)]
                 dst == IF free = INVALID THEN src ELSE free
             IN  WriteBlock([WithBlock(i) EXCEPT !.w_src = src, !.w_dst = dst],
                            Take(m, free))
      PROVE  IInv'
  <2> DEFINE src == m.block_table[LogOf(i)]
             dst == IF free = INVALID THEN src ELSE free
             j   == [WithBlock(i) EXCEPT !.w_src = src, !.w_dst = dst]
             n   == Take(m, free)
  <2>1. LogOf(i) \in Log /\ LogOf(i)[1] = ZoneNo(i)
    BY <1>2, LogOfType
  <2>2. m \in Lut /\ m.block_table \in [Log -> Phy \cup {INVALID}]
    BY DEF LutOK, Lut
  <2>3. src \in Phy \cup {INVALID}
    BY <2>1, <2>2
  <2>4. free # INVALID => free \in Phy /\ free[1] = ZoneNo(i) /\ free \notin m.data_map
    BY <1>2, GetFreeIsFree
  <2>5. dst \in Phy \cup {INVALID}
    BY <2>3, <2>4
  <2>6. j \in ActiveIo /\ j.w_log = LogOf(i) /\ j.w_src = src /\ j.w_dst = dst
    <3> HIDE DEF src, dst
    <3> QED BY <1>2, <2>3, <2>5, WithBlockIo DEF ActiveIo
  <2>7. LutOK(n) /\ Clean(n)
    <3>1. CASE free = INVALID
      BY <3>1 DEF Take
    <3>2. CASE free # INVALID
      <4>1. LutOK(n)
        BY <2>4, <3>2, TakeOK
      <4>2. n.erase_map = m.erase_map /\ n.data_map = m.data_map \cup {free}
        BY <2>2, <3>2 DEF Take, Lut
      <4>3. Clean(n)
        BY <4>2 DEF Clean
      <4> QED BY <4>1, <4>3
    <3> QED BY <3>1, <3>2
  <2>8. n.block_table = m.block_table /\ m.data_map \subseteq n.data_map
    BY <2>2 DEF Take, Lut
  <2>9. dst # INVALID => WriteFits(n, j)
    <3>1. CASE free = INVALID
      BY <2>1, <2>3, <2>6, <2>8, <3>1
      DEF WriteFits, LutOK, MappedInUse, MappedOnce
    <3>2. CASE free # INVALID
      <4>1. free \in n.data_map
        BY <2>2, <3>2 DEF Take, Lut
      <4>2. \A l \in Log : m.block_table[l] # free
        BY <2>4, <3>2 DEF LutOK, MappedInUse
      <4> QED BY <2>1, <2>4, <2>6, <2>8, <3>2, <4>1, <4>2 DEF WriteFits
    <3> QED BY <3>1, <3>2
  <2>10. WriteBlock(j, n)
    BY <1>2
  <2> HIDE DEF src, dst, j, n
  <2> QED BY <2>6, <2>7, <2>9, <2>10, WriteBlockInv
<1> QED BY <1>1, <1>2 DEF WriteNext

LEMMA NextBlockOrEndInv ==
  ASSUME IInv, HandlerFrame, NEW m, LutOK(m), Clean(m),
         NEW i \in ActiveIo, NextBlockOrEnd(i, m)
  PROVE  IInv'
BY FinishInv, WriteNextInv DEF NextBlockOrEnd

LEMMA AdvanceIo ==
  ASSUME NEW i \in ActiveIo, NEW n \in Int
  PROVE  /\ Advance(i, n) \in ActiveIo
         /\ Advance(i, n).w_src = i.w_src /\ Advance(i, n).w_dst = i.w_dst
<1>1. i.t_count + n \in Int /\ i.rem_count - n \in Int
  BY DEF ActiveIo
<1> DEFINE t == i.t_count + n
           r == i.rem_count - n
<1>2. Advance(i, n) = [i EXCEPT !.t_count = t, !.rem_count = r]
  BY DEF Advance
<1> HIDE DEF t, r
<1> QED BY <1>1, <1>2 DEF ActiveIo, t, r

\* The logical block moves to the destination, and leaves the source unmapped
\* unless that is the same block.
LEMMA CommitOK ==
  ASSUME NEW m, LutOK(m), NEW i \in ActiveIo, WriteFits(m, i)
  PROVE  /\ LutOK(Commit(m, i))
         /\ Commit(m, i).erase_map = m.erase_map /\ Commit(m, i).data_map = m.data_map
         /\ i.w_src \notin {i.w_dst, INVALID} => SrcUnmapped(Commit(m, i), i)
<1> DEFINE n == Commit(m, i)
<1>0. m \in Lut /\ m.block_table \in [Log -> Phy \cup {INVALID}]
  BY DEF LutOK, Lut
<1>1. /\ n.data_map = m.data_map /\ n.free_cnt = m.free_cnt
      /\ n.erase_map = m.erase_map
      /\ n.block_table = [m.block_table EXCEPT ![i.w_log] = i.w_dst]
  BY <1>0 DEF Commit, Lut
<1>2. n \in Lut
  BY <1>0 DEF Commit, Lut, WriteFits
<1>3. FreeCntExact(n)
  BY <1>0, <1>1, <1>2, CountUnchanged DEF LutOK
<1>4. MappedInUse(n) /\ MappedOnce(n)
  BY <1>0, <1>1 DEF LutOK, MappedInUse, MappedOnce, WriteFits
<1>5. i.w_src \notin {i.w_dst, INVALID} => SrcUnmapped(n, i)
  BY <1>0, <1>1 DEF LutOK, MappedOnce, WriteFits, SrcUnmapped
<1> QED BY <1>1, <1>2, <1>3, <1>4, <1>5 DEF LutOK

-----------------------------------------------------------------------------
(* The handlers.                                                           *)

LEMMA HReadInv == IInv /\ HRead => IInv'
<1> SUFFICES ASSUME IInv, HRead, HandlerFrame PROVE IInv'
  BY DEF HRead
<1>0. io \in ActiveIo /\ LutOK(lut) /\ Clean(lut) /\ io.req_count \in Int
  BY DEF IInv, HRead, Called, ActiveIo
<1>1. CASE Finish(lut)
  BY <1>0, <1>1, FinishInv
<1>2. CASE /\ ~ Short /\ ZoneNo(Advance(io, ret.count)) \in Zones
           /\ ReadChunk(WithBlock(Advance(io, ret.count)), lut)
  <2> DEFINE i == WithBlock(Advance(io, ret.count))
  <2>1. i \in ActiveIo
    BY <1>0, <1>2, AdvanceIo, WithBlockIo DEF Short
  <2> HIDE DEF i
  <2>2. i.buf_count \in Int /\ PageSpan(i) * PageSize \in Int
    BY <2>1, PageAssumption DEF ActiveIo, PageSpan, FirstPage, PageOf
  <2>3. ReadChunk(i, lut)
    BY <1>2 DEF i
  <2>4. Fits(lut, i, "read") /\ Fits(lut, i, "read_tmp_r")
    BY DEF Fits
  <2> QED BY <1>0, <2>1, <2>2, <2>3, <2>4, HandlerNames, IssueInv
         DEF ReadChunk, Changing
<1> QED BY <1>1, <1>2 DEF HRead

LEMMA HReadTmpRInv == IInv /\ HReadTmpR => IInv'
<1> SUFFICES ASSUME IInv, HReadTmpR, HandlerFrame PROVE IInv'
  BY DEF HReadTmpR
<1>1. /\ io \in ActiveIo /\ LutOK(lut) /\ Clean(lut) /\ io.buf_count \in Int
      /\ Fits(lut, io, "read")
  BY DEF IInv, HReadTmpR, Called, ActiveIo, Fits
<1> QED BY <1>1, HandlerNames, FinishInv, IssueInv DEF HReadTmpR, Changing

LEMMA HWriteInv == IInv /\ HWrite => IInv'
<1> SUFFICES ASSUME IInv, HWrite, HandlerFrame PROVE IInv'
  BY DEF HWrite
<1>1. io \in ActiveIo /\ LutOK(lut) /\ Clean(lut)
  BY DEF IInv, HWrite, Called
<1> QED BY <1>1, FinishInv, WriteNextInv DEF HWrite

LEMMA HReadTmpWInv == IInv /\ HReadTmpW => IInv'
<1> SUFFICES ASSUME IInv, HReadTmpW, HandlerFrame PROVE IInv'
  BY DEF HReadTmpW
<1>1. /\ io \in ActiveIo /\ LutOK(lut) /\ Clean(lut) /\ io.buf_count \in Int
      /\ Fits(lut, io, "fill_tmp")
  BY DEF IInv, HReadTmpW, Called, ActiveIo, Fits
<1> QED BY <1>1, HandlerNames, FinishInv, IssueInv DEF HReadTmpW, Changing

LEMMA HFillTmpInv == IInv /\ HFillTmp => IInv'
<1> SUFFICES ASSUME IInv, HFillTmp, HandlerFrame PROVE IInv'
  BY DEF HFillTmp
<1>1. io \in ActiveIo /\ LutOK(lut) /\ Clean(lut) /\ WriteFits(lut, io)
  BY DEF IInv, HFillTmp, Called, Fits
<1> QED BY <1>1, FinishInv, PrepareDstInv DEF HFillTmp

LEMMA HEraseDstInv == IInv /\ HEraseDst => IInv'
<1> SUFFICES ASSUME IInv, HEraseDst, HandlerFrame PROVE IInv'
  BY DEF HEraseDst
<1>1. io \in ActiveIo /\ LutOK(lut) /\ Clean(lut) /\ WriteFits(lut, io)
  BY DEF IInv, HEraseDst, Called, Fits
<1> QED BY <1>1, EraseDstInv DEF HEraseDst

LEMMA HWriteIncInv == IInv /\ HWriteInc => IInv'
<1> SUFFICES ASSUME IInv, HWriteInc, HandlerFrame PROVE IInv'
  BY DEF HWriteInc
<1> DEFINE i == Advance(io, io.buf_count)
           m == Commit(lut, io)
           e == [m EXCEPT !.erase_map = @ \ {io.w_src}]
<1>1. io \in ActiveIo /\ LutOK(lut) /\ Clean(lut) /\ WriteFits(lut, io) /\ io.buf_count \in Int
  BY DEF IInv, HWriteInc, Called, Fits, ActiveIo
<1>2. i \in ActiveIo /\ i.w_src = io.w_src
  BY <1>1, AdvanceIo
<1>3. /\ LutOK(m) /\ m.erase_map = lut.erase_map /\ m.data_map = lut.data_map
      /\ io.w_src \notin {io.w_dst, INVALID} => SrcUnmapped(m, io)
  BY <1>1, CommitOK
<1>4. CASE Issue("MARK_BAD", io.w_dst, 0, BlockSize, GoTo(io, "null", 0),
                 MarkUsed(lut, io.w_dst))
  <2>1. LutOK(MarkUsed(lut, io.w_dst)) /\ Fits(MarkUsed(lut, io.w_dst), io, "null")
    BY <1>1, MarkUsedOK DEF Fits, WriteFits
  <2> DEFINE u == MarkUsed(lut, io.w_dst)
  <2>2. u.data_map = lut.data_map \cup {io.w_dst} /\ u.erase_map = lut.erase_map \ {io.w_dst}
    BY <1>1, MarkUsedBits DEF LutOK, WriteFits
  <2> HIDE DEF u
  <2>3. Clean(u) /\ io.w_dst \in u.data_map
    BY <1>1, <2>2 DEF Clean
  <2> QED BY <1>1, <1>4, <2>1, <2>3, HandlerNames, IssueInv DEF u
<1>5. CASE Finish(lut)
  BY <1>1, <1>5, FinishInv
<1>6. CASE /\ io.w_src \notin {io.w_dst, INVALID}
           /\ Issue("ERASE", io.w_src, 0, 0, GoTo(i, "erase_src", 0), e)
  <2>1. m \in Lut
    BY <1>3 DEF LutOK
  <2>2. /\ e \in Lut /\ e.data_map = m.data_map /\ e.free_cnt = m.free_cnt
        /\ e.block_table = m.block_table /\ e.erase_map \subseteq m.erase_map
    <3> HIDE DEF m
    <3> QED BY <2>1 DEF Lut
  <2> HIDE DEF i, m, e
  <2>3. LutOK(e)
    BY <1>3, <2>1, <2>2, CountUnchanged DEF LutOK, MappedInUse, MappedOnce
  <2>4. SrcUnmapped(e, i)
    BY <1>2, <1>3, <1>6, <2>2 DEF SrcUnmapped
  <2>5. Fits(e, i, "erase_src")
    BY <2>4 DEF Fits
  <2>6. Clean(e)
    BY <1>1, <1>3, <2>2 DEF Clean
  <2>7. io.w_src \in e.data_map
    BY <1>1, <1>3, <1>6, <2>2 DEF WriteFits, LutOK, MappedInUse
  <2> QED BY <1>2, <1>6, <2>3, <2>5, <2>6, <2>7, HandlerNames, IssueInv
<1>7. CASE NextBlockOrEnd(i, m)
  <2>1. Clean(m)
    BY <1>1, <1>3 DEF Clean
  <2> QED BY <1>2, <1>3, <1>7, <2>1, NextBlockOrEndInv
<1> QED BY <1>4, <1>5, <1>6, <1>7 DEF HWriteInc

LEMMA HEraseSrcInv == IInv /\ HEraseSrc => IInv'
<1> SUFFICES ASSUME IInv, HEraseSrc, HandlerFrame PROVE IInv'
  BY DEF HEraseSrc
<1> DEFINE m == MarkErased(lut, io.w_src)
<1>1. io \in ActiveIo /\ LutOK(lut) /\ Clean(lut) /\ SrcUnmapped(lut, io)
  BY DEF IInv, HEraseSrc, Called, Fits
<1>2. LutOK(m) /\ io.w_src \in Phy
  BY <1>1, MarkErasedOK DEF SrcUnmapped
<1>3. /\ m.data_map = lut.data_map \ {io.w_src}
      /\ m.erase_map = lut.erase_map \cup {io.w_src}
  BY <1>1 DEF MarkErased, LutOK, Lut
<1>4. ret.error # "EFAULT" => Clean(m)
  BY <1>1, <1>3 DEF IInv, HEraseSrc, Called, SrcErased, Clean
<1> HIDE DEF m
<1>5. CASE Issue("MARK_BAD", io.w_src, 0, BlockSize, GoTo(io, "mark_src_bad", 0),
                 MarkUsed(m, io.w_src))
  <2> DEFINE u == MarkUsed(m, io.w_src)
  <2>1. LutOK(u) /\ Fits(u, io, "mark_src_bad")
    BY <1>2, MarkUsedOK DEF Fits
  <2>2. u.data_map = m.data_map \cup {io.w_src} /\ u.erase_map = m.erase_map \ {io.w_src}
    BY <1>2, MarkUsedBits DEF LutOK
  <2> HIDE DEF u
  <2>3. Clean(u) /\ io.w_src \in u.data_map
    BY <1>1, <1>3, <2>2 DEF Clean
  <2> QED BY <1>1, <1>5, <2>1, <2>3, HandlerNames, IssueInv DEF u
<1>6. CASE ret.error = "EIO" /\ Finish(m)
  BY <1>2, <1>4, <1>6, FinishInv
<1>7. CASE ret.error = "OK" /\ NextBlockOrEnd(io, m)
  BY <1>1, <1>2, <1>4, <1>7, NextBlockOrEndInv
<1> QED BY <1>5, <1>6, <1>7 DEF HEraseSrc, m

LEMMA HBadInv == IInv /\ (HMarkDstBad \/ HMarkSrcBad \/ HNull) => IInv'
<1> SUFFICES ASSUME IInv, HMarkDstBad \/ HMarkSrcBad \/ HNull, HandlerFrame
             PROVE  IInv'
  BY DEF HMarkDstBad, HMarkSrcBad, HNull
<1>1. io \in ActiveIo /\ LutOK(lut) /\ Clean(lut)
  BY DEF IInv, HMarkDstBad, HMarkSrcBad, HNull, Called
<1> QED BY <1>1, FinishInv, WriteNextInv DEF HMarkDstBad, HMarkSrcBad, HNull

LEMMA HandlerInv == IInv /\ Handler => IInv'
BY HReadInv, HReadTmpRInv, HWriteInv, HReadTmpWInv, HFillTmpInv, HEraseDstInv,
   HWriteIncInv, HEraseSrcInv, HBadInv DEF Handler

\* A command leaves every block but the one it names as it was, and all of them
\* unless it is one that changes the card.
LEMMA InterruptedElsewhere ==
  ASSUME media = [p \in Phy |-> media[p]], NEW c \in Interrupted
  PROVE  /\ c = [p \in Phy |-> c[p]]
         /\ \A p \in Phy : p # req.phy => c[p] = media[p]
         /\ req.cmd \notin Changing => c = media
<1>1. CASE c = media
  BY <1>1
<1>2. ASSUME NEW b, c = [media EXCEPT ![req.phy] = b]
      PROVE  /\ c = [p \in Phy |-> c[p]]
             /\ \A p \in Phy : p # req.phy => c[p] = media[p]
  BY <1>2
<1>3. CASE req.cmd = "ERASE" /\ c = Erased
  BY <1>2, <1>3 DEF Erased, Changing
<1>4. CASE req.cmd \in {"WRITE", "WRITE_TMP"} /\ \E k \in 1 .. PageCnt : c = Written(k)
  BY <1>2, <1>4 DEF Written, Changing
<1>5. CASE req.cmd \in {"WRITE", "WRITE_TMP"} /\ \E k \in Pages : c = Torn(k)
  <2>1. PICK k \in Pages : c = Torn(k)
    BY <1>5
  <2>2. /\ Written(k) = [p \in Phy |-> Written(k)[p]]
        /\ \A p \in Phy : p # req.phy => Written(k)[p] = media[p]
    BY <1>2 DEF Written
  <2> DEFINE w == Written(k)
  <2> HIDE DEF w
  <2>3. /\ c = [p \in Phy |-> c[p]]
        /\ \A p \in Phy : p # req.phy => c[p] = w[p]
    BY <2>1, <2>2 DEF Torn, w
  <2> QED BY <1>5, <2>2, <2>3 DEF Changing, w
<1> QED BY <1>1, <1>3, <1>4, <1>5 DEF Interrupted

\* Commands do not touch the maps, nor any clean block.
LEMMA ExecuteInv == IInv /\ Execute => IInv'
<1> SUFFICES ASSUME IInv, Execute PROVE IInv'
  OBVIOUS
<1>1. phase = "exec" /\ phase' = "call" /\ UNCHANGED <<lut, io>>
  BY DEF Execute, ExecRead, ExecReadTmp, ExecFlushTmp, ExecSkip, ExecEraseTmp,
         ExecFillTmp, ExecErase, ExecWrite, ExecMarkBad, Fault, Exec, ExecFrame, Done
<1>2. /\ media' = [p \in Phy |-> media'[p]]
      /\ \A p \in Phy : p # req.phy => media'[p] = media[p]
      /\ req.cmd \notin Changing => media' = media
  <2>0. media = [p \in Phy |-> media[p]]
    BY DEF IInv
  <2>1. ASSUME NEW b, media' = [media EXCEPT ![req.phy] = b], req.cmd \in Changing
        PROVE  /\ media' = [p \in Phy |-> media'[p]]
               /\ \A p \in Phy : p # req.phy => media'[p] = media[p]
               /\ req.cmd \notin Changing => media' = media
    BY <2>0, <2>1
  <2>2. CASE ExecRead \/ ExecReadTmp \/ ExecFlushTmp \/ ExecSkip \/ ExecEraseTmp
               \/ ExecFillTmp
    BY <2>0, <2>2 DEF ExecRead, ExecReadTmp, ExecFlushTmp, ExecSkip, ExecEraseTmp,
                      ExecFillTmp
  <2>3. CASE ExecErase
    BY <2>1, <2>3 DEF ExecErase, Exec, Erased, Changing
  <2>4. CASE ExecWrite
    BY <2>1, <2>4 DEF ExecWrite, Exec, Written, Changing
  <2>5. CASE ExecMarkBad
    BY <2>1, <2>5 DEF ExecMarkBad, Exec, Changing
  <2>6. CASE Fault
    BY <2>0, <2>6, InterruptedElsewhere DEF Fault
  <2> QED BY <2>2, <2>3, <2>4, <2>5, <2>6 DEF Execute
<1>3. Clean(lut)'
  <2>1. \A p \in lut.erase_map \ lut.data_map : p \in Phy /\ media'[p] = media[p]
    BY <1>1, <1>2 DEF IInv, ReqFits, LutOK, Lut
  <2> QED BY <1>1, <2>1 DEF IInv, Clean, EraseOutcomeKnown
<1>4. ASSUME io.handler = "erase_src" PROVE SrcErased'
  <2>1. req.cmd = "ERASE" /\ req.phy = io.w_src /\ io.w_src \in Phy
    BY <1>1, <1>4 DEF IInv, ReqFits, Fits, SrcUnmapped
  <2>2. ExecErase \/ Fault
    BY <2>1 DEF Execute, ExecRead, ExecReadTmp, ExecFlushTmp, ExecSkip, ExecEraseTmp,
                ExecFillTmp, ExecWrite, ExecMarkBad, Exec
  <2>3. CASE ExecErase
    <3>1. media'[io.w_src] = ErasedBlock
      BY <2>1, <2>3 DEF ExecErase, Erased, IInv
    <3> QED BY <1>1, <3>1 DEF SrcErased, EraseOutcomeKnown
  <2>4. CASE Fault
    <3>1. EraseOutcomeKnown => ret'.error = "EFAULT"
      BY <1>4, <2>1, <2>4 DEF Fault, CanFail, Errors, EraseOutcomeKnown
    <3> QED BY <3>1 DEF SrcErased, EraseOutcomeKnown
  <2> QED BY <2>2, <2>3, <2>4
<1> QED BY <1>1, <1>2, <1>3, <1>4 DEF IInv

-----------------------------------------------------------------------------
(* Mounting.                                                               *)

LEMMA NextPhyAfter ==
  ASSUME NEW p \in Phy
  PROVE  /\ NextPhy(p) \in Nat \X Blocks
         /\ Before(p, NextPhy(p))
         /\ \A q \in Phy : Before(q, p) => Before(q, NextPhy(p))
BY GeometryAssumption DEF NextPhy, Phy, Zones, Blocks, Before

LEMMA FreshFits == LutOK(FreshLut(CisBlock)) /\ ScanFits(FreshLut(CisBlock), FirstScan)
<1>1. CisBlock \in Blocks /\ <<0, CisBlock>> \in Phy
  BY PageAssumption, GeometryAssumption DEF Phy, Zones
<1>2. \A p \in Reserved(CisBlock) :
        p \in Phy /\ (p = <<0, CisBlock>> \/ Before(p, <<0, CisBlock>>))
  BY <1>1, GeometryAssumption DEF Reserved, Phy, Zones, Blocks, Before
<1>3. ScanFits(FreshLut(CisBlock), FirstScan)
  BY <1>1, <1>2, NextPhyAfter DEF ScanFits, FirstScan, FreshLut
<1> QED BY <1>1, <1>3, FreshOK

LEMMA InitInv == Init => IInv
<1> SUFFICES ASSUME Init PROVE IInv
  OBVIOUS
<1>1. media = [p \in Phy |-> media[p]]
  BY MediaAssumption DEF Init, Media
<1>2. Clean(lut)
  BY FreshFits DEF Init, Clean, ScanFits
<1> QED BY <1>1, <1>2, FreshFits DEF Init, IInv

LEMMA ResetInv ==
  ASSUME Reset, media' = [p \in Phy |-> media'[p]]
  PROVE  IInv'
<1>1. Clean(lut)'
  BY FreshFits DEF Reset, Clean, ScanFits, EraseOutcomeKnown
<1> QED BY <1>1, FreshFits DEF Reset, IInv

\* The scan never meets a block that is in use: flash_bd_set_full() cannot
\* return -EEXIST, and xd_card_resolve_conflict() is never called.
LEMMA ScanInv ==
  ASSUME IInv, Scan
  PROVE  IInv' /\ ~ SetFullExists(lut, scan)
<1>1. /\ LutOK(lut) /\ ScanFits(lut, scan) /\ scan \in Phy /\ phase = "mount"
      /\ lut' = ScanBlock(lut, scan) /\ scan' = NextPhy(scan) /\ phase' = phase
  BY DEF IInv, Scan
<1>2. scan \notin lut.data_map
  BY <1>1, GeometryAssumption DEF ScanFits, Before, Phy, Zones, Blocks
<1>3. lut \in Lut /\ lut.data_map \subseteq Phy
  BY <1>1 DEF LutOK, Lut
<1>4. /\ LutOK(lut') /\ lut'.data_map \subseteq lut.data_map \cup {scan}
      /\ lut'.erase_map = {}
  <2>1. CASE media[scan].bad
    <3>1. lut' = SetReserved(lut, scan)
      BY <1>1, <2>1 DEF ScanBlock
    <3>2. LutOK(SetReserved(lut, scan))
      BY <1>1, SetReservedOK
    <3>3. /\ SetReserved(lut, scan).data_map = lut.data_map \cup {scan}
          /\ SetReserved(lut, scan).erase_map = lut.erase_map \ {scan}
      BY <1>1, <1>3, BitsAfter
    <3> QED BY <1>1, <3>1, <3>2, <3>3 DEF ScanFits
  <2>2. CASE ~ media[scan].bad /\ media[scan].tag[0] \notin LogBlocks
    <3>1. lut' = SetEmpty(lut, scan, FALSE)
      BY <1>1, <2>2 DEF ScanBlock
    <3>2. LutOK(SetEmpty(lut, scan, FALSE))
      BY <1>1, SetEmptyOK
    <3>3. /\ SetEmpty(lut, scan, FALSE).data_map = lut.data_map \ {scan}
          /\ SetEmpty(lut, scan, FALSE).erase_map = lut.erase_map
      BY <1>1, <1>3, BitsAfter
    <3> QED BY <1>1, <3>1, <3>2, <3>3 DEF ScanFits
  <2>3. CASE ~ media[scan].bad /\ media[scan].tag[0] \in LogBlocks
    <3> DEFINE l == <<scan[1], media[scan].tag[0]>>
    <3>1. l \in Log /\ l[1] = scan[1]
      BY <1>1, <2>3 DEF Log, Phy
    <3>2. lut' = SetFull(lut, scan, l)
      BY <1>1, <1>2, <2>3 DEF ScanBlock, SetFullExists
    <3> HIDE DEF l
    <3>3. LutOK(SetFull(lut, scan, l))
      BY <1>1, <1>2, <3>1, SetFullOK
    <3>4. /\ SetFull(lut, scan, l).data_map = lut.data_map \cup {scan}
          /\ SetFull(lut, scan, l).erase_map = lut.erase_map \ {scan}
      BY <1>1, <1>3, <3>1, SetFullBits
    <3> QED BY <1>1, <3>2, <3>3, <3>4 DEF ScanFits
  <2> QED BY <2>1, <2>2, <2>3
<1>5. ScanFits(lut', scan')
  BY <1>1, <1>3, <1>4, NextPhyAfter DEF ScanFits
<1>6. Clean(lut)' /\ media' = media
  BY <1>4 DEF Clean, EraseOutcomeKnown, Scan
<1> QED BY <1>1, <1>2, <1>4, <1>5, <1>6 DEF IInv, SetFullExists

LEMMA MountInv == IInv /\ Mount => IInv'
<1> SUFFICES ASSUME IInv, Mount PROVE IInv'
  OBVIOUS
<1>1. CASE Scan
  BY <1>1, ScanInv
<1>2. CASE ScanEnd
  BY <1>2 DEF ScanEnd, IInv, Clean, EraseOutcomeKnown
<1>3. CASE Remount
  BY <1>3, ResetInv DEF Remount, IInv
<1>4. CASE PowerLoss
  <2>1. media' = [p \in Phy |-> media'[p]]
    BY <1>4, InterruptedElsewhere DEF PowerLoss, IInv
  <2> QED BY <1>4, <2>1, ResetInv DEF PowerLoss
<1> QED BY <1>1, <1>2, <1>3, <1>4 DEF Mount

LEMMA StartInv == IInv /\ (StartReading \/ StartWriting) => IInv'
<1> SUFFICES ASSUME IInv, NEW h \in {"read", "write"}, NEW r \in Requests,
                    NEW v \in Values \cup {BLANK}, Start(h, r, v)
             PROVE  IInv'
  BY DEF StartReading, StartWriting
<1>1. r[1] \in Int /\ r[2] \in Int
  BY PageAssumption
<1>2. StartIo(h, r, v) \in ActiveIo
  BY <1>1, HandlerNames DEF StartIo, ActiveIo
<1>3. Fits(lut, StartIo(h, r, v), StartIo(h, r, v).handler)
  BY DEF Fits, StartIo
<1>4. Clean(lut)' /\ media' = media /\ io'.handler # "erase_src"
  BY DEF Start, StartIo, IInv, Clean, EraseOutcomeKnown
<1> QED BY <1>2, <1>3, <1>4 DEF Start, IInv

-----------------------------------------------------------------------------

\* Every step keeps the invariant.
THEOREM Invariant == Spec => []IInv
<1>1. IInv /\ UNCHANGED vars => IInv'
  BY DEF IInv, vars, Clean, ReqFits, SrcErased, EraseOutcomeKnown
<1>2. IInv /\ [Next]_vars => IInv'
  BY <1>1, MountInv, StartInv, HandlerInv, ExecuteInv DEF Next
<1> QED BY <1>2, InitInv, PTL DEF Spec

\* The block maps agree with each other in every reachable state: free_cnt is
\* the number of free blocks, flash_bd_get_free() never gives out a block that
\* holds data, no two logical blocks share a physical one.
THEOREM BdMapsAgree == Spec => []MapsAgree
BY Invariant, PTL DEF IInv, MapsAgree

\* What the maps call clean is erased on the card, so that it may be written
\* without an erase: whatever fails, but for the host's side of the erase of a
\* replaced block.
THEOREM BdCleanIsErased ==
  ASSUME <<"erase_src", "EIO">> \notin Faults
  PROVE  Spec => []CleanIsErased
<1>1. IInv => CleanIsErased
  BY DEF IInv, Clean, EraseOutcomeKnown, CleanIsErased
<1> QED BY <1>1, Invariant, PTL

\* A mount never meets a block that is in use already: flash_bd_set_full() does
\* not return -EEXIST and xd_card_resolve_conflict() is not called, whatever the
\* card holds.
THEOREM BdNoConflictSeen == Spec => [][Scan => ~ SetFullExists(lut, scan)]_vars
<1>1. IInv /\ [Next]_vars => [Scan => ~ SetFullExists(lut, scan)]_vars
  BY ScanInv
<1> QED BY <1>1, Invariant, PTL DEF Spec
-----------------------------------------------------------------------------
(* Numbers.                                                                *)

LEMMA Division ==
  ASSUME NEW a \in Nat, NEW b \in Nat \ {0}
  PROVE  a = b * (a \div b) + (a % b) /\ a % b \in 0 .. b - 1 /\ a \div b \in Nat
OBVIOUS

LEMMA DivisionUnique ==
  ASSUME NEW b \in Nat \ {0}, NEW q \in Nat, NEW r \in 0 .. b - 1
  PROVE  (b * q + r) \div b = q /\ ((b * q + r) % b) = r
OBVIOUS

\* Steps that stay below the next multiple.
LEMMA DivisionStep ==
  ASSUME NEW a \in Nat, NEW b \in Nat \ {0}, NEW k \in Nat, (a % b) + k < b
  PROVE  (a + k) \div b = a \div b /\ (a + k) % b = (a % b) + k
OBVIOUS

LEMMA DivisionBound ==
  ASSUME NEW a \in Nat, NEW b \in Nat \ {0}, NEW c \in Nat
  PROVE  a \div b < c <=> a < c * b
OBVIOUS

\* The fields of struct flash_bd while a request is in progress.
ExactIo ==
  [handler : Handlers, byte_offset : Nat, t_count : Nat, rem_count : Nat,
   val : Values \cup {BLANK}, w_log : Log \cup {INVALID},
   w_src : Phy \cup {INVALID}, w_dst : Phy \cup {INVALID},
   buf_offset : Offsets, buf_count : 0 .. BlockSize, req_count : 0 .. BlockSize]

\* i is at work on a run of sectors of one block, the next one of its request.
Chunk(i) ==
  /\ ZoneNo(i) \in Zones /\ i.rem_count # 0
  /\ i.buf_offset = InBlock(i) /\ i.buf_count = CountDue(i) /\ i.w_log = LogOf(i)

\* i and j have come to the same place of the same request.
SameRun(i, j) ==
  /\ i.byte_offset = j.byte_offset /\ i.t_count = j.t_count
  /\ i.rem_count = j.rem_count /\ i.val = j.val

LEMMA SizesExact ==
  /\ BlockSize \in Nat \ {0} /\ PageSize \in Nat \ {0} /\ PageCnt \in Nat \ {0}
  /\ BlockSize = PageCnt * PageSize /\ LogBlockCnt \in Nat \ {0} /\ ZoneCnt \in Nat \ {0}
  /\ 0 \in Offsets
BY PageAssumption, GeometryAssumption, BlockSizeType DEF BlockSize, Offsets

LEMMA Places ==
  ASSUME NEW i \in ExactIo
  PROVE  /\ Position(i) \in Nat /\ BlockNo(i) \in Nat /\ ZoneNo(i) \in Nat
         /\ InBlock(i) \in Offsets /\ CountDue(i) \in 0 .. BlockSize
         /\ CountDue(i) <= i.rem_count /\ InBlock(i) + CountDue(i) <= BlockSize
         /\ i.rem_count # 0 => CountDue(i) # 0
         /\ Position(i) = BlockSize * BlockNo(i) + InBlock(i)
         /\ ZoneNo(i) \in Zones => LogOf(i) \in Log /\ LogOf(i)[1] = ZoneNo(i)
<1>1. Position(i) \in Nat /\ i.rem_count \in Nat
  BY DEF Position, ExactIo
<1>2. BlockNo(i) \in Nat /\ InBlock(i) \in Offsets /\ Position(i) = BlockSize * BlockNo(i) + InBlock(i)
  BY <1>1, Division, SizesExact DEF BlockNo, InBlock, Offsets
<1>3. ZoneNo(i) \in Nat /\ BlockNo(i) % LogBlockCnt \in LogBlocks
  BY <1>2, Division, SizesExact DEF ZoneNo, LogBlocks
<1>4. /\ CountDue(i) \in 0 .. BlockSize /\ CountDue(i) <= i.rem_count
      /\ InBlock(i) + CountDue(i) <= BlockSize /\ (i.rem_count # 0 => CountDue(i) # 0)
  BY <1>1, <1>2, SizesExact DEF CountDue, Offsets
<1>5. ZoneNo(i) \in Zones => LogOf(i) \in Log /\ LogOf(i)[1] = ZoneNo(i)
  BY <1>3 DEF LogOf, Log
<1> QED BY <1>1, <1>2, <1>3, <1>4, <1>5

\* Where a request has come to depends on its place only.
LEMMA SamePlace ==
  ASSUME NEW i, NEW j, SameRun(i, j)
  PROVE  /\ ZoneNo(i) = ZoneNo(j) /\ LogOf(i) = LogOf(j)
         /\ InBlock(i) = InBlock(j) /\ CountDue(i) = CountDue(j) /\ Position(i) = Position(j)
BY DEF SameRun, ZoneNo, LogOf, InBlock, CountDue, Position, BlockNo

LEMMA ChunkFits ==
  ASSUME NEW i \in ExactIo, Chunk(i)
  PROVE  /\ i.buf_count \in 1 .. BlockSize /\ i.buf_offset + i.buf_count <= BlockSize
         /\ i.buf_count <= i.rem_count /\ i.w_log \in Log /\ i.w_log[1] = ZoneNo(i)
         /\ Position(i) \in Nat /\ BlockNo(i) \in Nat
         /\ Position(i) = BlockSize * BlockNo(i) + i.buf_offset
BY Places DEF Chunk

LEMMA WithBlockExact ==
  ASSUME NEW i \in ExactIo, ZoneNo(i) \in Zones, i.rem_count # 0,
         NEW s \in Phy \cup {INVALID}, NEW d \in Phy \cup {INVALID}
  PROVE  /\ WithBlock(i) \in ExactIo /\ Chunk(WithBlock(i)) /\ SameRun(WithBlock(i), i)
         /\ [WithBlock(i) EXCEPT !.w_src = s, !.w_dst = d] \in ExactIo
         /\ Chunk([WithBlock(i) EXCEPT !.w_src = s, !.w_dst = d])
         /\ SameRun([WithBlock(i) EXCEPT !.w_src = s, !.w_dst = d], i)
<1> DEFINE w == WithBlock(i)
           v == [w EXCEPT !.w_src = s, !.w_dst = d]
           o == InBlock(i)
           c == CountDue(i)
           l == LogOf(i)
<1>1. o \in Offsets /\ c \in 0 .. BlockSize /\ l \in Log
  BY Places
<1>2. w = [i EXCEPT !.buf_offset = o, !.buf_count = c, !.w_log = l]
  BY DEF WithBlock
<1> HIDE DEF o, c, l
<1>3. /\ w \in ExactIo /\ SameRun(w, i)
      /\ w.buf_offset = o /\ w.buf_count = c /\ w.w_log = l
  BY <1>1, <1>2 DEF ExactIo, SameRun
<1> HIDE DEF w
<1>4. /\ v \in ExactIo /\ SameRun(v, i)
      /\ v.buf_offset = o /\ v.buf_count = c /\ v.w_log = l
  BY <1>3 DEF ExactIo, SameRun
<1> HIDE DEF v
<1>5. Chunk(w) /\ Chunk(v)
  BY <1>3, <1>4, SamePlace DEF Chunk, o, c, l, SameRun
<1> QED BY <1>3, <1>4, <1>5 DEF w, v

LEMMA GoToExact ==
  ASSUME NEW i \in ExactIo, NEW h \in Handlers, NEW n \in 0 .. BlockSize
  PROVE  /\ GoTo(i, h, n) \in ExactIo /\ SameRun(GoTo(i, h, n), i)
         /\ GoTo(i, h, n).handler = h /\ GoTo(i, h, n).req_count = n
         /\ GoTo(i, h, n).w_log = i.w_log /\ GoTo(i, h, n).w_src = i.w_src
         /\ GoTo(i, h, n).w_dst = i.w_dst /\ GoTo(i, h, n).buf_offset = i.buf_offset
         /\ GoTo(i, h, n).buf_count = i.buf_count
         /\ Chunk(GoTo(i, h, n)) <=> Chunk(i)
<1> DEFINE j == GoTo(i, h, n)
<1>1. /\ j \in ExactIo /\ SameRun(j, i) /\ j.handler = h /\ j.req_count = n
      /\ j.w_log = i.w_log /\ j.w_src = i.w_src /\ j.w_dst = i.w_dst
      /\ j.buf_offset = i.buf_offset /\ j.buf_count = i.buf_count
  BY DEF GoTo, ExactIo, SameRun
<1> HIDE DEF j
<1>2. Chunk(j) <=> Chunk(i)
  BY <1>1, SamePlace DEF Chunk, SameRun
<1> QED BY <1>1, <1>2 DEF j

LEMMA AdvanceExact ==
  ASSUME NEW i \in ExactIo, NEW n \in 0 .. i.rem_count
  PROVE  /\ Advance(i, n) \in ExactIo
         /\ Advance(i, n).byte_offset = i.byte_offset /\ Advance(i, n).val = i.val
         /\ Advance(i, n).t_count = i.t_count + n /\ Advance(i, n).rem_count = i.rem_count - n
         /\ Advance(i, n).w_src = i.w_src /\ Advance(i, n).w_dst = i.w_dst
         /\ Advance(i, n).handler = i.handler
<1> DEFINE t == i.t_count + n
           r == i.rem_count - n
<1>1. i.t_count \in Nat /\ i.rem_count \in Nat
  BY DEF ExactIo
<1>2. Advance(i, n) = [i EXCEPT !.t_count = t, !.rem_count = r] /\ t \in Nat /\ r \in Nat
  BY <1>1 DEF Advance
<1> HIDE DEF t, r
<1> QED BY <1>1, <1>2 DEF ExactIo, t, r

LEMMA Multiples ==
  ASSUME NEW a \in Int, NEW b \in Int, NEW c \in Nat
  PROVE  /\ a <= b => a * c <= b * c
         /\ (a - b) * c = a * c - b * c /\ (a + b) * c = a * c + b * c
         /\ a * c \in Int /\ 1 * c = c
OBVIOUS

\* The pages a run of c sectors from a on touches, in a block of n pages.
LEMMA PagesOfSectors ==
  ASSUME NEW p \in Nat \ {0}, NEW n \in Nat, NEW a \in Nat, NEW c \in Nat \ {0}, a + c <= n * p,
         NEW f \in Nat, f = a \div p, NEW l \in Nat, l = (a + c - 1) \div p
  PROVE  /\ f * p \in Nat /\ f * p <= a /\ (l - f + 1) * p \in Nat
         /\ f * p + (l - f + 1) * p <= n * p
         /\ a - f * p + c <= (l - f + 1) * p
<1> DEFINE e == a + c - 1
<1>1. e \in Nat /\ e < n * p
  OBVIOUS
<1>2. f \in Nat /\ a = p * f + (a % p) /\ a % p \in 0 .. p - 1
  BY Division
<1>3. l \in Nat /\ e = p * l + (e % p) /\ e % p \in 0 .. p - 1
  BY <1>1, Division
<1>4. l < n
  BY <1>1, DivisionBound
<1> DEFINE fp == f * p
           lp == l * p
<1>5. /\ fp \in Int /\ lp \in Int /\ a = fp + (a % p) /\ e = lp + (e % p)
  BY <1>2, <1>3
<1>6. (l - f + 1) * p = lp - fp + p
  BY <1>2, <1>3, Multiples
<1>7. lp + p <= n * p
  <2>1. (l + 1) * p <= n * p /\ (l + 1) * p = lp + p
    BY <1>3, <1>4, Multiples
  <2> QED BY <2>1
<1>9. fp <= a /\ fp >= 0
  BY <1>2, <1>5, Multiples
<1>10. lp - fp + p >= 0
  <2>1. fp <= lp + p
    BY <1>5, <1>2, <1>3, <1>9
  <2> QED BY <2>1, <1>5
<1> HIDE DEF fp, lp
<1> QED BY <1>2, <1>3, <1>5, <1>6, <1>7, <1>9, <1>10 DEF fp

\* If it is aligned, it is those pages.
LEMMA WholePages ==
  ASSUME NEW p \in Nat \ {0}, NEW a \in Nat, NEW c \in Nat \ {0}, NEW q \in Nat, c = p * q,
         NEW f \in Nat, a = p * f, NEW l \in Nat, NEW r \in 0 .. p - 1, a + c - 1 = p * l + r
  PROVE  f * p = a /\ (l - f + 1) * p = c
<1>2. q # 0
  OBVIOUS
<1> DEFINE k == f + q - 1
           pk == p * k
<1>3. k \in Nat
  BY <1>2
<1>4. pk = a + c - p
  <2>1. (f + q) * p = a + c
    BY Multiples
  <2>2. k * p = (f + q) * p - 1 * p
    BY Multiples
  <2> QED BY <1>3, <2>1, <2>2, Multiples
<1> HIDE DEF k, pk
<1>5. a + c - 1 = p * k + (p - 1)
  BY <1>4 DEF pk
<1>6. l = k
  <2>1. (p * k + (p - 1)) \div p = k /\ (p * l + r) \div p = l
    BY <1>3, DivisionUnique
  <2> QED BY <1>5, <2>1
<1>7. (l - f + 1) * p = c
  BY <1>6, Multiples DEF k
<1> QED BY <1>7

LEMMA PagesOfRun ==
  ASSUME NEW i \in ExactIo, i.buf_count # 0, i.buf_offset + i.buf_count <= BlockSize
  PROVE  /\ FirstPage(i) * PageSize \in Offsets /\ PageSpan(i) * PageSize \in 1 .. BlockSize
         /\ FirstPage(i) * PageSize + PageSpan(i) * PageSize <= BlockSize
         /\ i.buf_offset - FirstPage(i) * PageSize \in Offsets
         /\ i.buf_offset - FirstPage(i) * PageSize + i.buf_count <= PageSpan(i) * PageSize
         /\ i.buf_offset % PageSize = 0 /\ i.buf_count % PageSize = 0 =>
              FirstPage(i) * PageSize = i.buf_offset /\ PageSpan(i) * PageSize = i.buf_count
<1> DEFINE a == i.buf_offset
           c == i.buf_count
           f == a \div PageSize
           l == (a + c - 1) \div PageSize
<1>0. f = a \div PageSize /\ l = (a + c - 1) \div PageSize
  OBVIOUS
<1>1. a \in Nat /\ a < BlockSize /\ c \in Nat \ {0} /\ a + c <= PageCnt * PageSize
  BY SizesExact DEF ExactIo, Offsets
<1>3. FirstPage(i) = f /\ PageSpan(i) = l - f + 1
  BY DEF FirstPage, PageSpan, PageOf
<1> HIDE DEF a, c, f, l
<1>8. PageSize \in Nat \ {0} /\ PageCnt \in Nat
  BY SizesExact
<1>9. f \in Nat /\ l \in Nat
  <2>1. a + c - 1 \in Nat
    BY <1>1
  <2>2. a \div PageSize \in Nat /\ (a + c - 1) \div PageSize \in Nat
    BY <1>1, <1>8, <2>1, Division
  <2> QED BY <1>0, <2>2
<1>2. /\ f * PageSize \in Nat /\ f * PageSize <= a /\ (l - f + 1) * PageSize \in Nat
      /\ f * PageSize + (l - f + 1) * PageSize <= PageCnt * PageSize
      /\ a - f * PageSize + c <= (l - f + 1) * PageSize
  BY <1>0, <1>1, <1>8, <1>9, PagesOfSectors
<1>7. ASSUME a % PageSize = 0, c % PageSize = 0
      PROVE  f * PageSize = a /\ (l - f + 1) * PageSize = c
  <2> DEFINE q == c \div PageSize
             e == a + c - 1
             r == e % PageSize
  <2>1. q \in Nat /\ c = PageSize * q /\ a = PageSize * f
    <3>1. /\ c = PageSize * (c \div PageSize) + (c % PageSize)
          /\ a = PageSize * (a \div PageSize) + (a % PageSize)
          /\ c \div PageSize \in Nat /\ a \div PageSize \in Nat
      BY <1>1, <1>8, Division
    <3> QED BY <1>0, <1>1, <1>7, <1>8, <3>1
  <2>2. e \in Nat /\ e = a + c - 1
    BY <1>1
  <2> HIDE DEF q, e
  <2>3. l = e \div PageSize
    BY <1>0, <2>2
  <2>4. r \in 0 .. PageSize - 1 /\ e = PageSize * l + r
    BY <1>8, <2>2, <2>3, Division
  <2> HIDE DEF r
  <2>5. a + c - 1 = PageSize * l + r
    BY <2>2, <2>4
  <2> QED BY <1>1, <1>8, <1>9, <2>1, <2>4, <2>5, WholePages
<1> DEFINE fp == f * PageSize
           sp == (l - f + 1) * PageSize
<1> HIDE DEF fp, sp
<1>4. /\ fp \in Nat /\ fp <= a /\ sp \in Nat /\ fp + sp <= BlockSize /\ a - fp + c <= sp
      /\ (a % PageSize = 0 /\ c % PageSize = 0) => fp = a /\ sp = c
  BY <1>2, <1>7, SizesExact DEF fp, sp
<1>5. /\ fp \in Offsets /\ sp \in 1 .. BlockSize /\ a - fp \in Offsets
  BY <1>1, <1>4, SizesExact DEF Offsets
<1>6. FirstPage(i) * PageSize = fp /\ PageSpan(i) * PageSize = sp
  BY <1>3 DEF fp, sp
<1> QED BY <1>4, <1>5, <1>6 DEF a, c

-----------------------------------------------------------------------------
(* Types, and what a handler has asked for.                                *)

Reading == {"read", "read_tmp_r"}
\* The handlers that have a destination: the block in w_dst is not mapped yet.
Writing == {"read_tmp_w", "fill_tmp", "erase_dst", "mark_dst_bad", "write_inc", "null"}

\* Handler h of request i asks for a command and expects the count n back.
Asks(h, i, m, cmd, phy, off, cnt, n) ==
  LET block == m.block_table[i.w_log]
      first == FirstPage(i) * PageSize
  IN
  \/ /\ h = "read" /\ cnt = i.buf_count /\ n = i.buf_count
     /\ \/ cmd = "SKIP" /\ block = INVALID
        \/ cmd = "READ" /\ phy = block /\ block # INVALID /\ off = i.buf_offset
        \/ cmd = "FLUSH_TMP" /\ block # INVALID /\ off = i.buf_offset - first
  \/ /\ h = "read_tmp_r" /\ cnt = PageSpan(i) * PageSize /\ n = cnt
     /\ cmd = "READ_TMP" /\ phy = block /\ block # INVALID /\ off = first
  \/ /\ h = "read_tmp_w" /\ cnt = BlockSize /\ n = BlockSize /\ off = 0
     /\ \/ cmd = "ERASE_TMP" /\ i.w_src = INVALID
        \/ cmd = "READ_TMP" /\ phy = i.w_src /\ i.w_src # INVALID
  \/ /\ h = "fill_tmp" /\ cmd = "FILL_TMP"
     /\ off = i.buf_offset /\ cnt = i.buf_count /\ n = i.buf_count
  \/ h = "erase_dst" /\ cmd = "ERASE" /\ phy = i.w_dst /\ cnt = 0 /\ n = 0
  \/ /\ h = "write_inc" /\ phy = i.w_dst /\ cnt = BlockSize /\ n = BlockSize
     /\ \/ cmd = "WRITE_TMP" /\ (i.buf_count < BlockSize \/ i.w_src = i.w_dst)
        \/ cmd = "WRITE" /\ i.buf_count = BlockSize /\ i.w_src # i.w_dst
  \/ h \in {"mark_dst_bad", "null"} /\ cmd = "MARK_BAD" /\ phy = i.w_dst
  \/ h = "erase_src" /\ cmd = "ERASE" /\ phy = i.w_src /\ cnt = 0 /\ n = 0
  \/ h = "mark_src_bad" /\ cmd = "MARK_BAD" /\ phy = i.w_src

\* What each handler relies on while its request lasts.
AtWork(h, i) ==
  /\ h \in Writing \cup {"read_tmp_r"} => Chunk(i)
  /\ h \notin Reading => out = <<>> /\ i.val \in Values

Asked == /\ io.handler # "write"
         /\ io.handler = "read" => Chunk(io)
         /\ io.handler \in Reading => Len(out) = io.t_count
         /\ Asks(io.handler, io, lut, req.cmd, req.phy, req.off, req.cnt, io.req_count)

Answered ==
  /\ io.handler = "read" =>
       /\ Len(out) = io.t_count + ret.count
       /\ ret.count = 0 \/ (Chunk(io) /\ ret.count = io.buf_count)
  /\ io.handler = "read_tmp_r" =>
       Len(out) = io.t_count /\ lut.block_table[io.w_log] # INVALID
  /\ io.handler = "write" => ret = NoRet /\ io.rem_count # 0
  /\ io.handler \in {"read_tmp_r", "read_tmp_w", "fill_tmp", "write_inc"} =>
       Failed \/ ~ Short

Sized == /\ TypeOK
         /\ phase \in {"mount", "idle"} => out = <<>> /\ io = IdleIo
         /\ phase \in {"exec", "call"} => io \in ExactIo /\ AtWork(io.handler, io)
         /\ phase = "exec" => Asked
         /\ phase = "call" => Answered

LEMMA IoExact == IoType = {IdleIo} \cup ExactIo /\ IdleIo \notin ExactIo
<1>1. IoType = {IdleIo} \cup ExactIo
  BY DEF IoType, ExactIo
<1>2. IdleIo \notin ExactIo
  BY DEF IdleIo, ExactIo, Handlers
<1> QED BY <1>1, <1>2

LEMMA StaleTmpType == StaleTmp \in [Offsets -> Cell]
BY DEF StaleTmp, Cell

LEMMA NoRetType == NoRet \in [count : 0 .. BlockSize, error : Errors]
BY SizesExact DEF NoRet, Errors

LEMMA FinishSized ==
  ASSUME Sized, IInv', HandlerFrame, NEW m, Finish(m)
  PROVE  Sized'
<1>1. lut' \in Lut
  BY DEF IInv, LutOK
<1>2. TypeOK'
  BY <1>1, IoExact, StaleTmpType, NoRetType DEF Finish, Sized, TypeOK, HandlerFrame, ReqType
<1> QED BY <1>2 DEF Finish, Sized

LEMMA IssueSized ==
  ASSUME Sized, IInv', HandlerFrame, NEW m,
         NEW i \in ExactIo, NEW h \in Handlers \ {"write"}, NEW n \in 0 .. BlockSize,
         NEW cmd \in Cmds, NEW phy \in Phy \cup {INVALID}, NEW off \in Offsets,
         NEW cnt \in 0 .. BlockSize,
         AtWork(h, i), h = "read" => Chunk(i), h \in Reading => Len(out) = i.t_count,
         Asks(h, i, m, cmd, phy, off, cnt, n),
         Issue(cmd, phy, off, cnt, GoTo(i, h, n), m)
  PROVE  Sized'
<1> DEFINE j == GoTo(i, h, n)
<1>1. /\ j \in ExactIo /\ SameRun(j, i) /\ j.handler = h /\ j.req_count = n
      /\ j.w_log = i.w_log /\ j.w_src = i.w_src /\ j.w_dst = i.w_dst
      /\ j.buf_offset = i.buf_offset /\ j.buf_count = i.buf_count
      /\ Chunk(j) <=> Chunk(i)
  BY GoToExact
<1>2. /\ io' = j /\ lut' = m /\ phase' = "exec" /\ ret' = NoRet /\ out' = out /\ tmp' = tmp
      /\ req' = [cmd |-> cmd, phy |-> phy, off |-> off, cnt |-> cnt]
  BY DEF Issue
<1> HIDE DEF j
<1>3. /\ req'.cmd = cmd /\ req'.phy = phy /\ req'.off = off /\ req'.cnt = cnt
      /\ req' \in ReqType
  BY <1>2 DEF ReqType
<1>4. TypeOK'
  <2>1. lut' \in Lut
    BY DEF IInv, LutOK
  <2> QED BY <1>1, <1>2, <1>3, <2>1, IoExact, NoRetType DEF Sized, TypeOK, HandlerFrame
<1>5. AtWork(io.handler, io)'
  BY <1>1, <1>2 DEF AtWork, SameRun
<1>6. Asks(h, j, m, cmd, phy, off, cnt, n)
  BY <1>1 DEF Asks, FirstPage, PageSpan
<1>7. Asked'
  BY <1>1, <1>2, <1>3, <1>6 DEF Asked, SameRun
<1> QED BY <1>1, <1>2, <1>4, <1>5, <1>7 DEF Sized

\* Request i has come to its next block: j has the block's source and destination,
\* and n is m with the destination taken, a free block if there is one.
NextBlock(i, m, j, n) ==
  /\ j \in ExactIo /\ Chunk(j) /\ SameRun(j, i)
  /\ j.w_src = m.block_table[j.w_log]
  /\ LutOK(n) /\ WriteFits(n, j)
  /\ n.block_table = m.block_table /\ n.erase_map = m.erase_map
  /\ \/ j.w_dst \notin m.data_map /\ n.data_map = m.data_map \cup {j.w_dst}
     \/ j.w_dst = j.w_src /\ n = m /\ m.free_cnt[ZoneNo(i)] = 0

LEMMA WriteNextCases ==
  ASSUME NEW m, LutOK(m), NEW i \in ExactIo, i.rem_count # 0, WriteNext(i, m)
  PROVE  \/ Finish(m)
         \/ \E j, n : NextBlock(i, m, j, n) /\ WriteBlock(j, n)
<1>1. CASE ZoneNo(i) \notin Zones
  BY <1>1 DEF WriteNext
<1>2. CASE ZoneNo(i) \in Zones
  <2>0. PICK free \in GetFree(m, ZoneNo(i)) :
          LET src == m.block_table[LogOf(i)]
              dst == IF free = INVALID THEN src ELSE free
          IN  WriteBlock([WithBlock(i) EXCEPT !.w_src = src, !.w_dst = dst], Take(m, free))
    BY <1>2 DEF WriteNext
  <2> DEFINE src == m.block_table[LogOf(i)]
             dst == IF free = INVALID THEN src ELSE free
             w   == WithBlock(i)
             j   == [w EXCEPT !.w_src = src, !.w_dst = dst]
             n   == Take(m, free)
  <2>1. LogOf(i) \in Log /\ LogOf(i)[1] = ZoneNo(i)
    BY <1>2, Places
  <2>2. m \in Lut /\ m.block_table \in [Log -> Phy \cup {INVALID}]
    BY DEF LutOK, Lut
  <2>3. src \in Phy \cup {INVALID}
    BY <2>1, <2>2
  <2>4. free # INVALID => free \in Phy /\ free[1] = ZoneNo(i) /\ free \notin m.data_map
    BY GetFreeIsFree
  <2>5. dst \in Phy \cup {INVALID}
    BY <2>3, <2>4
  <2>6. j \in ExactIo /\ Chunk(j) /\ SameRun(j, i)
    <3> HIDE DEF src, dst
    <3> QED BY <1>2, <2>3, <2>5, WithBlockExact
  <2>7. j.w_log = LogOf(i) /\ j.w_src = src /\ j.w_dst = dst
    <3>1. w \in ExactIo
      BY <1>2, <2>3, WithBlockExact
    <3>2. w.w_log = LogOf(i)
      BY DEF WithBlock, ExactIo
    <3> HIDE DEF src, dst, w
    <3> QED BY <3>1, <3>2 DEF ExactIo
  <2>8. WriteBlock(j, n)
    BY <2>0
  <2>9. /\ LutOK(n) /\ n.block_table = m.block_table /\ n.erase_map = m.erase_map
        /\ n.data_map = IF free = INVALID THEN m.data_map ELSE m.data_map \cup {free}
        /\ free = INVALID => n = m
    <3>1. CASE free = INVALID
      BY <3>1 DEF Take
    <3>2. CASE free # INVALID
      BY <2>2, <2>4, <3>2, TakeOK DEF Take, Lut
    <3> QED BY <3>1, <3>2
  <2>10. free = INVALID => m.free_cnt[ZoneNo(i)] = 0
    <3>1. /\ m.free_cnt[ZoneNo(i)] = Cardinality(FreeBlocks(m, ZoneNo(i)))
          /\ Cardinality(FreeBlocks(m, ZoneNo(i))) \in Nat
      BY <1>2, FreeFinite DEF LutOK, FreeCntExact
    <3>2. INVALID \notin FreeBlocks(m, ZoneNo(i))
      BY InvalidAssumption DEF FreeBlocks
    <3> HIDE DEF src, dst, j, n
    <3> QED BY <3>1, <3>2 DEF GetFree
  <2> HIDE DEF w, n, j
  <2>11. CASE dst = INVALID
    <3>1. free = INVALID
      BY <2>4, <2>11, InvalidAssumption
    <3>2. n = m
      BY <2>9, <3>1
    <3> QED BY <2>7, <2>8, <2>11, <3>2 DEF WriteBlock
  <2>12. CASE dst # INVALID
    <3>1. WriteFits(n, j)
      <4>1. CASE free = INVALID
        BY <2>1, <2>3, <2>7, <2>9, <2>12, <4>1
        DEF WriteFits, LutOK, MappedInUse, MappedOnce
      <4>2. CASE free # INVALID
        <5>1. \A l \in Log : m.block_table[l] # free
          BY <2>4, <4>2 DEF LutOK, MappedInUse
        <5> QED BY <2>1, <2>4, <2>7, <2>9, <4>2, <5>1 DEF WriteFits
      <4> QED BY <4>1, <4>2
    <3>2. NextBlock(i, m, j, n)
      BY <2>4, <2>6, <2>7, <2>9, <2>10, <3>1 DEF NextBlock
    <3> QED BY <2>8, <3>2
  <2> QED BY <2>11, <2>12
<1> QED BY <1>1, <1>2

LEMMA CmdNames ==
  {"READ", "READ_TMP", "FLUSH_TMP", "SKIP", "ERASE_TMP", "ERASE", "WRITE", "WRITE_TMP",
   "FILL_TMP", "MARK_BAD"} \subseteq Cmds
BY DEF Cmds

LEMMA EraseDstSized ==
  ASSUME Sized, IInv', HandlerFrame, NEW m, NEW i \in ExactIo,
         Chunk(i), out = <<>>, i.val \in Values, WriteFits(m, i),
         NEW error, EraseDst(i, m, error)
  PROVE  Sized'
<1>1. AtWork("mark_dst_bad", i) /\ AtWork("write_inc", i)
  BY DEF AtWork
<1>2. i.w_dst \in Phy /\ i.buf_count \in 0 .. BlockSize
  BY DEF WriteFits, ExactIo
<1>3. CASE Issue("MARK_BAD", i.w_dst, 0, BlockSize, GoTo(i, "mark_dst_bad", 0), m)
  <2>1. Asks("mark_dst_bad", i, m, "MARK_BAD", i.w_dst, 0, BlockSize, 0)
    BY DEF Asks
  <2> QED BY <1>1, <1>2, <1>3, <2>1, HandlerNames, CmdNames, SizesExact, IssueSized DEF Reading
<1>4. CASE Finish(m)
  BY <1>4, FinishSized
<1>5. CASE /\ i.buf_count < BlockSize \/ i.w_src = i.w_dst
           /\ Issue("WRITE_TMP", i.w_dst, 0, BlockSize, GoTo(i, "write_inc", BlockSize), m)
  <2>1. Asks("write_inc", i, m, "WRITE_TMP", i.w_dst, 0, BlockSize, BlockSize)
    BY <1>5 DEF Asks
  <2> QED BY <1>1, <1>2, <1>5, <2>1, HandlerNames, CmdNames, SizesExact, IssueSized DEF Reading
<1>6. CASE /\ ~ (i.buf_count < BlockSize \/ i.w_src = i.w_dst)
           /\ Issue("WRITE", i.w_dst, 0, BlockSize, GoTo(i, "write_inc", BlockSize), m)
  <2>1. Asks("write_inc", i, m, "WRITE", i.w_dst, 0, BlockSize, BlockSize)
    BY <1>2, <1>6, SizesExact DEF Asks
  <2> QED BY <1>1, <1>2, <1>6, <2>1, HandlerNames, CmdNames, SizesExact, IssueSized DEF Reading
<1> QED BY <1>3, <1>4, <1>5, <1>6 DEF EraseDst

LEMMA PrepareDstSized ==
  ASSUME Sized, IInv', HandlerFrame, NEW m, NEW i \in ExactIo,
         Chunk(i), out = <<>>, i.val \in Values, WriteFits(m, i), PrepareDst(i, m)
  PROVE  Sized'
<1>1. CASE EraseDst(i, m, "OK")
  BY <1>1, EraseDstSized
<1>2. CASE Issue("ERASE", i.w_dst, 0, 0, GoTo(i, "erase_dst", 0), m)
  <2>1. /\ Asks("erase_dst", i, m, "ERASE", i.w_dst, 0, 0, 0)
        /\ AtWork("erase_dst", i) /\ i.w_dst \in Phy
    BY DEF Asks, AtWork, WriteFits
  <2> QED BY <1>2, <2>1, HandlerNames, CmdNames, SizesExact, IssueSized DEF Reading
<1> QED BY <1>1, <1>2 DEF PrepareDst

LEMMA WriteBlockSized ==
  ASSUME Sized, IInv', HandlerFrame, NEW m, NEW i \in ExactIo,
         Chunk(i), out = <<>>, i.val \in Values, WriteFits(m, i), WriteBlock(i, m)
  PROVE  Sized'
<1>0. AtWork("read_tmp_w", i) /\ i.w_dst # INVALID
  BY InvalidAssumption DEF AtWork, WriteFits
<1>1. CASE i.w_src = INVALID /\ Issue("ERASE_TMP", INVALID, 0, BlockSize,
                                      GoTo(i, "read_tmp_w", BlockSize), m)
  <2>1. Asks("read_tmp_w", i, m, "ERASE_TMP", INVALID, 0, BlockSize, BlockSize)
    BY <1>1 DEF Asks
  <2> QED BY <1>0, <1>1, <2>1, HandlerNames, CmdNames, SizesExact, IssueSized DEF Reading
<1>2. CASE i.w_src # INVALID /\ Issue("READ_TMP", i.w_src, 0, BlockSize,
                                      GoTo(i, "read_tmp_w", BlockSize), m)
  <2>1. /\ Asks("read_tmp_w", i, m, "READ_TMP", i.w_src, 0, BlockSize, BlockSize)
        /\ i.w_src \in Phy \cup {INVALID}
    BY <1>2 DEF Asks, ExactIo
  <2> QED BY <1>0, <1>2, <2>1, HandlerNames, CmdNames, SizesExact, IssueSized DEF Reading
<1>3. CASE PrepareDst(i, m)
  BY <1>3, PrepareDstSized
<1> QED BY <1>0, <1>1, <1>2, <1>3 DEF WriteBlock

LEMMA WriteNextSized ==
  ASSUME Sized, IInv', HandlerFrame, NEW m, LutOK(m), NEW i \in ExactIo, i.rem_count # 0,
         out = <<>>, i.val \in Values, WriteNext(i, m)
  PROVE  Sized'
<1>1. CASE Finish(m)
  BY <1>1, FinishSized
<1>2. ASSUME NEW j, NEW n, NextBlock(i, m, j, n), WriteBlock(j, n)
      PROVE  Sized'
  BY <1>2, WriteBlockSized DEF NextBlock, SameRun
<1> QED BY <1>1, <1>2, WriteNextCases

LEMMA NextBlockOrEndSized ==
  ASSUME Sized, IInv', HandlerFrame, NEW m, LutOK(m), NEW i \in ExactIo,
         out = <<>>, i.val \in Values, NextBlockOrEnd(i, m)
  PROVE  Sized'
BY FinishSized, WriteNextSized DEF NextBlockOrEnd

LEMMA ReadChunkSized ==
  ASSUME Sized, IInv', HandlerFrame, LutOK(lut), NEW i \in ExactIo, Chunk(i),
         Len(out) = i.t_count, ReadChunk(i, lut)
  PROVE  Sized'
<1> DEFINE phy == lut.block_table[i.w_log]
           off == FirstPage(i) * PageSize
           cnt == PageSpan(i) * PageSize
           n   == i.buf_count
<1>1. AtWork("read", i) /\ AtWork("read_tmp_r", i)
  BY DEF AtWork, Reading, Writing
<1>2. n \in 0 .. BlockSize /\ off \in Offsets /\ cnt \in 0 .. BlockSize
  BY ChunkFits, PagesOfRun, SizesExact
<1>3. phy \in Phy \cup {INVALID}
  BY ChunkFits DEF LutOK, Lut
<1>4. CASE phy = INVALID /\ Issue("SKIP", INVALID, 0, n, GoTo(i, "read", n), lut)
  <2>1. Asks("read", i, lut, "SKIP", INVALID, 0, n, n)
    BY <1>4 DEF Asks
  <2> QED BY <1>1, <1>2, <1>4, <2>1, HandlerNames, CmdNames, SizesExact, IssueSized
<1>5. CASE phy # INVALID /\ Issue("READ_TMP", phy, off, cnt, GoTo(i, "read_tmp_r", cnt), lut)
  <2>1. Asks("read_tmp_r", i, lut, "READ_TMP", phy, off, cnt, cnt)
    BY <1>5 DEF Asks
  <2> HIDE DEF phy, off, cnt, n
  <2> QED BY <1>1, <1>2, <1>3, <1>5, <2>1, HandlerNames, CmdNames, IssueSized DEF Reading
<1>6. CASE /\ phy # INVALID /\ i.buf_offset % PageSize = 0 /\ i.buf_count % PageSize = 0
           /\ Issue("READ", phy, off, cnt, GoTo(i, "read", cnt), lut)
  <2>1. off = i.buf_offset /\ cnt = n
    BY <1>6, ChunkFits, PagesOfRun, SizesExact
  <2>2. Asks("read", i, lut, "READ", phy, off, cnt, cnt)
    BY <1>6, <2>1 DEF Asks
  <2> HIDE DEF phy, off, cnt, n
  <2> QED BY <1>1, <1>2, <1>3, <1>6, <2>2, HandlerNames, CmdNames, IssueSized DEF Reading
<1> QED BY <1>4, <1>5, <1>6 DEF ReadChunk

\* Where h_flash_bd_read() goes on.
LEMMA ReadPlace ==
  ASSUME Sized, IInv, HRead
  PROVE  /\ Advance(io, ret.count) \in ExactIo
         /\ Advance(io, ret.count).byte_offset = io.byte_offset
         /\ Advance(io, ret.count).val = io.val
         /\ Advance(io, ret.count).t_count = io.t_count + ret.count
         /\ Advance(io, ret.count).rem_count = io.rem_count - ret.count
         /\ Len(out) = io.t_count + ret.count
         /\ \/ Finish(lut)
            \/ LET w == WithBlock(Advance(io, ret.count))
               IN  /\ w \in ExactIo /\ Chunk(w) /\ SameRun(w, Advance(io, ret.count))
                   /\ ReadChunk(w, lut)
<1> DEFINE i == Advance(io, ret.count)
           w == WithBlock(i)
<1>1. io \in ExactIo /\ Answered /\ io.handler = "read"
  BY DEF Sized, HRead, Called
<1>2. ret.count \in 0 .. io.rem_count
  <2>1. ret.count \in Nat /\ io.rem_count \in Nat
    BY <1>1 DEF Sized, TypeOK, ExactIo
  <2> QED BY <1>1, <2>1, ChunkFits DEF Answered
<1>3. /\ i \in ExactIo /\ i.byte_offset = io.byte_offset /\ i.val = io.val
      /\ i.t_count = io.t_count + ret.count /\ i.rem_count = io.rem_count - ret.count
  BY <1>1, <1>2, AdvanceExact
<1>4. Len(out) = io.t_count + ret.count
  BY <1>1 DEF Answered
<1>5. CASE Finish(lut)
  BY <1>3, <1>4, <1>5
<1>6. CASE /\ Advance(io, ret.count).rem_count # 0 /\ ZoneNo(Advance(io, ret.count)) \in Zones
           /\ ReadChunk(WithBlock(Advance(io, ret.count)), lut)
  <2>1. ReadChunk(w, lut) /\ ZoneNo(i) \in Zones /\ i.rem_count # 0
    BY <1>6
  <2> HIDE DEF i
  <2>2. w \in ExactIo /\ Chunk(w) /\ SameRun(w, i)
    BY <1>3, <2>1, InvalidAssumption, WithBlockExact
  <2> HIDE DEF w
  <2> QED BY <1>3, <1>4, <2>1, <2>2 DEF i, w
<1> QED BY <1>5, <1>6 DEF HRead

LEMMA HReadSized ==
  ASSUME Sized, IInv, IInv', HRead PROVE Sized'
<1> DEFINE i == Advance(io, ret.count)
           w == WithBlock(i)
<1>1. LutOK(lut) /\ HandlerFrame
  BY DEF HRead, IInv
<1>2. CASE Finish(lut)
  BY <1>1, <1>2, FinishSized
<1>3. CASE w \in ExactIo /\ Chunk(w) /\ SameRun(w, i) /\ ReadChunk(w, lut)
  <2>1. Len(out) = i.t_count
    BY ReadPlace
  <2> HIDE DEF i
  <2>2. Len(out) = w.t_count
    BY <1>3, <2>1 DEF SameRun
  <2> HIDE DEF w
  <2> QED BY <1>1, <1>3, <2>2, ReadChunkSized
<1> QED BY <1>2, <1>3, ReadPlace

LEMMA HReadTmpRSized ==
  ASSUME Sized, IInv, IInv', HReadTmpR PROVE Sized'
<1>1. /\ io \in ExactIo /\ Answered /\ AtWork("read_tmp_r", io) /\ io.handler = "read_tmp_r"
      /\ HandlerFrame
  BY DEF Sized, HReadTmpR, Called
<1>2. Chunk(io) /\ Len(out) = io.t_count
  BY <1>1 DEF AtWork, Answered
<1>3. CASE Finish(lut)
  BY <1>1, <1>3, FinishSized
<1>4. CASE Issue("FLUSH_TMP", INVALID, io.buf_offset - FirstPage(io) * PageSize,
                 io.buf_count, GoTo(io, "read", io.buf_count), lut)
  <2> DEFINE off == io.buf_offset - FirstPage(io) * PageSize
  <2>1. off \in Offsets /\ io.buf_count \in 0 .. BlockSize
    BY <1>1, <1>2, ChunkFits, PagesOfRun, SizesExact
  <2>2. lut.block_table[io.w_log] # INVALID
    BY <1>1 DEF Answered
  <2>3. Asks("read", io, lut, "FLUSH_TMP", INVALID, off, io.buf_count, io.buf_count)
    BY <2>2 DEF Asks
  <2>4. AtWork("read", io)
    BY DEF AtWork, Reading, Writing
  <2> HIDE DEF off
  <2> QED BY <1>1, <1>2, <1>4, <2>1, <2>3, <2>4, HandlerNames, CmdNames, IssueSized DEF off
<1> QED BY <1>3, <1>4 DEF HReadTmpR

LEMMA WriteHandlersSized ==
  ASSUME Sized, IInv, IInv', HWrite \/ HReadTmpW \/ HFillTmp \/ HEraseDst \/ HMarkDstBad
                               \/ HMarkSrcBad \/ HNull
  PROVE  Sized'
<1>1. /\ io \in ExactIo /\ Answered /\ AtWork(io.handler, io) /\ LutOK(lut)
      /\ Fits(lut, io, io.handler) /\ phase = "call" /\ HandlerFrame
      /\ io.handler \notin Reading
  BY DEF Sized, IInv, HWrite, HReadTmpW, HFillTmp, HEraseDst, HMarkDstBad, HMarkSrcBad,
         HNull, Called, Reading
<1>2. out = <<>> /\ io.val \in Values
  BY <1>1 DEF AtWork
<1>3. CASE Finish(lut)
  BY <1>1, <1>3, FinishSized
<1>4. CASE io.rem_count # 0 /\ WriteNext(io, lut)
  BY <1>1, <1>2, <1>4, WriteNextSized
<1>5. CASE HWrite
  BY <1>1, <1>3, <1>4, <1>5 DEF HWrite, Called, Answered
<1>6. CASE HReadTmpW
  <2>1. Chunk(io) /\ AtWork("fill_tmp", io)
    BY <1>1, <1>6 DEF HReadTmpW, Called, AtWork, Writing, Reading
  <2>2. CASE Issue("FILL_TMP", INVALID, io.buf_offset, io.buf_count,
                   GoTo(io, "fill_tmp", io.buf_count), lut)
    <3>1. Asks("fill_tmp", io, lut, "FILL_TMP", INVALID, io.buf_offset, io.buf_count,
               io.buf_count)
      BY DEF Asks
    <3>2. io.buf_offset \in Offsets /\ io.buf_count \in 0 .. BlockSize
      BY <1>1 DEF ExactIo
    <3> QED BY <1>1, <2>1, <2>2, <3>1, <3>2, HandlerNames, CmdNames, IssueSized DEF Reading
  <2> QED BY <1>3, <1>6, <2>2 DEF HReadTmpW
<1>7. CASE HFillTmp
  <2>1. Chunk(io) /\ WriteFits(lut, io)
    BY <1>1, <1>7 DEF HFillTmp, Called, AtWork, Writing, Fits
  <2> QED BY <1>1, <1>2, <1>3, <1>7, <2>1, PrepareDstSized DEF HFillTmp
<1>8. CASE HEraseDst
  <2>1. Chunk(io) /\ WriteFits(lut, io)
    BY <1>1, <1>8 DEF HEraseDst, Called, AtWork, Writing, Fits
  <2> QED BY <1>1, <1>2, <1>8, <2>1, EraseDstSized DEF HEraseDst
<1>9. CASE HMarkDstBad \/ HMarkSrcBad \/ HNull
  BY <1>3, <1>4, <1>9 DEF HMarkDstBad, HMarkSrcBad, HNull
<1> QED BY <1>5, <1>6, <1>7, <1>8, <1>9

LEMMA HWriteIncSized ==
  ASSUME Sized, IInv, IInv', HWriteInc PROVE Sized'
<1> DEFINE i == Advance(io, io.buf_count)
           m == Commit(lut, io)
           e == [m EXCEPT !.erase_map = @ \ {io.w_src}]
<1>1. /\ io \in ExactIo /\ AtWork("write_inc", io) /\ LutOK(lut) /\ io \in ActiveIo
      /\ WriteFits(lut, io) /\ HandlerFrame
  BY DEF Sized, IInv, HWriteInc, Called, Fits
<1>2. Chunk(io) /\ out = <<>> /\ io.val \in Values
  BY <1>1 DEF AtWork, Writing, Reading
<1>3. /\ i \in ExactIo /\ i.val = io.val /\ i.w_src = io.w_src
  BY <1>1, <1>2, ChunkFits, AdvanceExact
<1>4. LutOK(m)
  BY <1>1, CommitOK
<1> HIDE DEF i, m, e
<1>5. CASE Issue("MARK_BAD", io.w_dst, 0, BlockSize, GoTo(io, "null", 0),
                 MarkUsed(lut, io.w_dst))
  <2> DEFINE u == MarkUsed(lut, io.w_dst)
  <2> HIDE DEF u
  <2>1. Asks("null", io, u, "MARK_BAD", io.w_dst, 0, BlockSize, 0)
    BY DEF Asks
  <2>2. AtWork("null", io) /\ io.w_dst \in Phy
    BY <1>1, <1>2 DEF AtWork, WriteFits
  <2> QED BY <1>1, <1>5, <2>1, <2>2, HandlerNames, CmdNames, SizesExact, IssueSized
      DEF Reading, u
<1>6. CASE Finish(lut)
  BY <1>1, <1>6, FinishSized
<1>7. CASE /\ io.w_src \notin {io.w_dst, INVALID}
           /\ Issue("ERASE", io.w_src, 0, 0, GoTo(i, "erase_src", 0), e)
  <2>1. Asks("erase_src", i, e, "ERASE", io.w_src, 0, 0, 0)
    BY <1>3 DEF Asks
  <2>2. AtWork("erase_src", i) /\ io.w_src \in Phy
    BY <1>1, <1>2, <1>3, <1>7 DEF AtWork, Writing, ExactIo
  <2> QED BY <1>1, <1>3, <1>7, <2>1, <2>2, HandlerNames, CmdNames, SizesExact, IssueSized
      DEF Reading
<1>8. CASE NextBlockOrEnd(i, m)
  BY <1>1, <1>2, <1>3, <1>4, <1>8, NextBlockOrEndSized
<1> QED BY <1>5, <1>6, <1>7, <1>8 DEF HWriteInc, i, m, e

LEMMA HEraseSrcSized ==
  ASSUME Sized, IInv, IInv', HEraseSrc PROVE Sized'
<1> DEFINE m == MarkErased(lut, io.w_src)
<1>1. /\ io \in ExactIo /\ AtWork("erase_src", io) /\ LutOK(lut) /\ SrcUnmapped(lut, io)
      /\ HandlerFrame
  BY DEF Sized, IInv, HEraseSrc, Called, Fits
<1>2. out = <<>> /\ io.val \in Values /\ io.w_src \in Phy
  BY <1>1 DEF AtWork, Reading, SrcUnmapped
<1>3. LutOK(m)
  BY <1>1, <1>2, MarkErasedOK DEF SrcUnmapped
<1> HIDE DEF m
<1>4. CASE Issue("MARK_BAD", io.w_src, 0, BlockSize, GoTo(io, "mark_src_bad", 0),
                 MarkUsed(m, io.w_src))
  <2> DEFINE u == MarkUsed(m, io.w_src)
  <2> HIDE DEF u
  <2>1. Asks("mark_src_bad", io, u, "MARK_BAD", io.w_src, 0, BlockSize, 0)
    BY DEF Asks
  <2>2. AtWork("mark_src_bad", io)
    BY <1>1, <1>2 DEF AtWork, Writing
  <2> QED BY <1>1, <1>2, <1>4, <2>1, <2>2, HandlerNames, CmdNames, SizesExact, IssueSized
      DEF Reading, u
<1>5. CASE Finish(m)
  BY <1>1, <1>5, FinishSized
<1>6. CASE NextBlockOrEnd(io, m)
  BY <1>1, <1>2, <1>3, <1>6, NextBlockOrEndSized
<1> QED BY <1>4, <1>5, <1>6 DEF HEraseSrc, m

LEMMA HandlerSized == Sized /\ IInv /\ IInv' /\ Handler => Sized'
BY HReadSized, HReadTmpRSized, WriteHandlersSized, HWriteIncSized, HEraseSrcSized DEF Handler

-----------------------------------------------------------------------------
(* Commands.                                                               *)

LEMMA Appended ==
  ASSUME NEW o \in Seq(Cell), NEW n \in Nat, NEW s \in [1 .. n -> Cell]
  PROVE  o \o s \in Seq(Cell) /\ Len(o \o s) = Len(o) + n
<1>1. s \in Seq(Cell) /\ Len(s) = n
  OBVIOUS
<1> QED BY <1>1

LEMMA LogAddress ==
  ASSUME Sized, phase = "exec", req.cmd \in {"WRITE", "WRITE_TMP"}
  PROVE  /\ io.w_log \in Log /\ io.w_log[2] \in LogBlocks
         /\ io.handler = "write_inc" /\ req.phy = io.w_dst
<1>1. io.handler = "write_inc" /\ req.phy = io.w_dst /\ Chunk(io) /\ io \in ExactIo
  BY DEF Sized, Asked, Asks, AtWork, Writing
<1>2. io.w_log \in Log
  BY <1>1, ChunkFits
<1> QED BY <1>1, <1>2 DEF Log

LEMMA ErasedType == ErasedBlock \in MediaBlock
BY DEF ErasedBlock, MediaBlock, Cell

LEMMA PageOfSector ==
  ASSUME NEW s \in Offsets
  PROVE  PageOf(s) \in Pages
<1>1. s \in Nat /\ s < PageCnt * PageSize
  BY SizesExact DEF Offsets
<1>2. s \div PageSize \in Nat
  BY <1>1, Division, SizesExact
<1>3. s \div PageSize < PageCnt
  BY <1>1, DivisionBound, SizesExact
<1> QED BY <1>2, <1>3, SizesExact DEF PageOf, Pages

LEMMA ProgramFields ==
  ASSUME NEW b \in MediaBlock, NEW l \in LogBlocks, NEW d \in [Offsets -> Cell], NEW k
  PROVE  /\ Program(b, l, d, k) \in MediaBlock
         /\ Program(b, l, d, k).bad = b.bad
         /\ Program(b, l, d, k).tag =
              [g \in Pages |-> IF g >= k THEN b.tag[g]
                               ELSE IF b.tag[g] \in {ERASED, l} THEN l ELSE GARBLED]
         /\ Program(b, l, d, k).data =
              [s \in Offsets |-> IF PageOf(s) >= k THEN b.data[s]
                                 ELSE IF b.tag[PageOf(s)] = ERASED THEN d[s] ELSE JUNK]
<1> DEFINE t == [g \in Pages |-> IF g >= k THEN b.tag[g]
                                 ELSE IF b.tag[g] \in {ERASED, l} THEN l ELSE GARBLED]
           e == [s \in Offsets |-> IF PageOf(s) >= k THEN b.data[s]
                                   ELSE IF b.tag[PageOf(s)] = ERASED THEN d[s] ELSE JUNK]
<1>1. /\ b = [bad |-> b.bad, tag |-> b.tag, data |-> b.data] /\ b.bad \in BOOLEAN
      /\ b.tag \in [Pages -> LogBlocks \cup {ERASED, GARBLED}] /\ b.data \in [Offsets -> Cell]
  BY DEF MediaBlock
<1>2. t \in [Pages -> LogBlocks \cup {ERASED, GARBLED}]
  BY <1>1
<1>3. e \in [Offsets -> Cell]
  BY <1>1 DEF Cell
<1>4. Program(b, l, d, k) = [b EXCEPT !.tag = t, !.data = e]
  BY DEF Program
<1> HIDE DEF t, e
<1>5. Program(b, l, d, k) = [bad |-> b.bad, tag |-> t, data |-> e]
  BY <1>1, <1>4
<1>6. /\ Program(b, l, d, k) \in MediaBlock /\ Program(b, l, d, k).bad = b.bad
      /\ Program(b, l, d, k).tag = t /\ Program(b, l, d, k).data = e
  BY <1>1, <1>2, <1>3, <1>5 DEF MediaBlock
<1> QED BY <1>6 DEF t, e

LEMMA SourceType ==
  ASSUME Sized, phase = "exec", req.cmd \in {"WRITE", "WRITE_TMP"}
  PROVE  SourceData \in [Offsets -> Cell]
<1>1. io.val \in Values /\ tmp \in [Offsets -> Cell]
  BY LogAddress DEF Sized, AtWork, Reading, TypeOK
<1> QED BY <1>1 DEF SourceData, Cell

\* Only the block a command names can change.
LEMMA ReplacedType ==
  ASSUME NEW c \in Media, NEW p \in Phy, NEW b \in MediaBlock
  PROVE  [c EXCEPT ![p] = b] \in Media
BY DEF Media

LEMMA WrittenBlock ==
  ASSUME Sized, IInv, phase = "exec", req.cmd \in {"WRITE", "WRITE_TMP"}, NEW k
  PROVE  /\ Written(k) = [media EXCEPT ![req.phy] =
                            Program(media[req.phy], io.w_log[2], SourceData, k)]
         /\ Written(k) \in Media
         /\ Program(media[req.phy], io.w_log[2], SourceData, k) \in MediaBlock
         /\ req.phy \in Phy /\ media \in Media /\ media[req.phy] \in MediaBlock
<1>1. media \in Media /\ req.phy \in Phy
  BY DEF Sized, TypeOK, IInv, ReqFits, Changing, LutOK, Lut
<1>2. media[req.phy] \in MediaBlock
  BY <1>1 DEF Media
<1>3. Program(media[req.phy], io.w_log[2], SourceData, k) \in MediaBlock
  BY <1>2, LogAddress, SourceType, ProgramFields
<1>4. Written(k) = [media EXCEPT ![req.phy] =
                      Program(media[req.phy], io.w_log[2], SourceData, k)]
  BY DEF Written
<1>5. [media EXCEPT ![req.phy] = Program(media[req.phy], io.w_log[2], SourceData, k)] \in Media
  BY <1>1, <1>3, ReplacedType
<1> QED BY <1>1, <1>2, <1>3, <1>4, <1>5

LEMMA ErasedCard ==
  ASSUME Sized, IInv, phase = "exec", req.cmd \in Changing
  PROVE  /\ Erased = [media EXCEPT ![req.phy] = ErasedBlock] /\ Erased \in Media
         /\ req.phy \in Phy
<1>1. media \in Media /\ req.phy \in Phy
  BY DEF Sized, TypeOK, IInv, ReqFits, LutOK, Lut
<1> QED BY <1>1, ErasedType, ReplacedType DEF Erased

LEMMA TornBlock ==
  ASSUME Sized, IInv, phase = "exec", req.cmd \in {"WRITE", "WRITE_TMP"}, NEW k \in Pages
  PROVE  Torn(k) \in Media
<1> DEFINE w == Written(k)
           p == req.phy
           b == [bad |-> w[p].bad, tag |-> [w[p].tag EXCEPT ![k] = GARBLED],
                 data |-> [s \in Offsets |-> IF PageOf(s) = k THEN JUNK ELSE w[p].data[s]]]
<1>1. w \in Media /\ p \in Phy
  BY WrittenBlock
<1>2. Torn(k) = [w EXCEPT ![p].tag[k] = GARBLED,
                   ![p].data = [s \in Offsets |-> IF PageOf(s) = k THEN JUNK ELSE @[s]]]
  BY DEF Torn
<1> HIDE DEF w, p
<1>3. /\ w[p] \in MediaBlock /\ w[p].tag \in [Pages -> LogBlocks \cup {ERASED, GARBLED}]
      /\ w[p].data \in [Offsets -> Cell] /\ w[p].bad \in BOOLEAN
      /\ w[p] = [bad |-> w[p].bad, tag |-> w[p].tag, data |-> w[p].data]
  BY <1>1 DEF Media, MediaBlock
<1>4. Torn(k) = [w EXCEPT ![p] = b]
  BY <1>1, <1>2, <1>3 DEF Media
<1>5. b \in MediaBlock
  <2>1. [w[p].tag EXCEPT ![k] = GARBLED] \in [Pages -> LogBlocks \cup {ERASED, GARBLED}]
    BY <1>3
  <2>2. [s \in Offsets |-> IF PageOf(s) = k THEN JUNK ELSE w[p].data[s]] \in [Offsets -> Cell]
    BY <1>3 DEF Cell
  <2> QED BY <1>3, <2>1, <2>2 DEF MediaBlock
<1> HIDE DEF b
<1> QED BY <1>1, <1>4, <1>5, ReplacedType

LEMMA InterruptedType ==
  ASSUME Sized, IInv, phase = "exec", NEW c \in Interrupted
  PROVE  c \in Media
<1>1. CASE c = media
  BY <1>1 DEF Sized, TypeOK
<1>2. CASE req.cmd = "ERASE" /\ c = Erased
  BY <1>2, ErasedCard DEF Changing
<1>3. CASE req.cmd \in {"WRITE", "WRITE_TMP"} /\ \E k \in 1 .. PageCnt : c = Written(k)
  BY <1>3, WrittenBlock
<1>4. CASE req.cmd \in {"WRITE", "WRITE_TMP"} /\ \E k \in Pages : c = Torn(k)
  BY <1>4, TornBlock
<1> QED BY <1>1, <1>2, <1>3, <1>4 DEF Interrupted

\* What is known of the command to execute.
LEMMA Command ==
  ASSUME Sized, IInv, phase = "exec"
  PROVE  /\ io \in ExactIo /\ AtWork(io.handler, io) /\ Asked
         /\ req.cmd \in Cmds /\ req.off \in Offsets /\ req.cnt \in 0 .. BlockSize
         /\ io.handler \in {"read", "read_tmp_r", "read_tmp_w", "fill_tmp", "erase_dst",
                            "write_inc", "erase_src"} => req.cnt = io.req_count
         /\ req.cmd \in {"READ", "READ_TMP"} => req.phy \in Phy
         /\ req.cmd \in {"READ", "READ_TMP"} => req.off + req.cnt <= BlockSize
         /\ req.cmd = "FLUSH_TMP" => req.off + req.cnt <= BlockSize
<1>1. /\ io \in ExactIo /\ AtWork(io.handler, io) /\ Asked /\ req \in ReqType /\ LutOK(lut)
  BY DEF Sized, TypeOK, IInv
<1>2. Asks(io.handler, io, lut, req.cmd, req.phy, req.off, req.cnt, io.req_count)
  BY <1>1 DEF Asked
<1>3. req # NoReq
  <2>1. req.cmd \in Cmds
    BY <1>2, CmdNames DEF Asks
  <2> QED BY <2>1 DEF NoReq, Cmds
<1>4. /\ req.cmd \in Cmds /\ req.off \in Offsets /\ req.cnt \in 0 .. BlockSize
      /\ req.phy \in Phy \cup {INVALID}
  BY <1>1, <1>3 DEF ReqType
<1>5. io.handler \in {"read", "read_tmp_r", "read_tmp_w", "fill_tmp", "erase_dst",
                      "write_inc", "erase_src"} => req.cnt = io.req_count
  BY <1>2 DEF Asks
<1>6. req.cmd \in {"READ", "READ_TMP"} => req.phy # INVALID
  BY <1>2 DEF Asks
<1>7. io.handler \in Reading => Chunk(io)
  BY <1>1 DEF AtWork, Asked, Reading
<1>8. io.handler = "read" /\ req.cmd = "READ" => req.off + req.cnt <= BlockSize
  BY <1>1, <1>2, <1>7, ChunkFits DEF Asks, Reading
<1>9. io.handler = "read" /\ req.cmd = "FLUSH_TMP" => req.off + req.cnt <= BlockSize
  <2> SUFFICES ASSUME io.handler = "read", req.cmd = "FLUSH_TMP"
               PROVE  req.off + req.cnt <= BlockSize
    OBVIOUS
  <2>0. req.off = io.buf_offset - FirstPage(io) * PageSize /\ req.cnt = io.buf_count
    BY <1>2 DEF Asks
  <2> DEFINE fp == FirstPage(io) * PageSize
             sp == PageSpan(io) * PageSize
  <2>1. /\ fp \in Offsets /\ sp \in 1 .. BlockSize /\ io.buf_offset - fp + io.buf_count <= sp
    BY <1>1, <1>7, ChunkFits, PagesOfRun DEF Reading
  <2>2. io.buf_offset \in Nat /\ io.buf_count \in Nat
    BY <1>1, SizesExact DEF ExactIo, Offsets
  <2> HIDE DEF fp, sp
  <2>3. io.buf_offset - fp + io.buf_count <= BlockSize
    BY <2>1, <2>2, SizesExact DEF Offsets
  <2> QED BY <2>0, <2>3 DEF fp
<1>10. io.handler = "read_tmp_r" => req.off + req.cnt <= BlockSize
  BY <1>1, <1>2, <1>7, ChunkFits, PagesOfRun DEF Asks, Reading
<1>11. io.handler = "read_tmp_w" => req.off + req.cnt <= BlockSize
  BY <1>2, SizesExact DEF Asks
<1>12. /\ req.cmd = "READ" => io.handler = "read"
       /\ req.cmd = "FLUSH_TMP" => io.handler = "read"
       /\ req.cmd = "READ_TMP" => io.handler \in {"read_tmp_r", "read_tmp_w"}
  BY <1>2 DEF Asks
<1> QED BY <1>1, <1>4, <1>5, <1>6, <1>8, <1>9, <1>10, <1>11, <1>12

LEMMA CellAt ==
  ASSUME Sized, IInv, phase = "exec", req.cmd \in {"READ", "READ_TMP"},
         NEW k \in 0 .. req.cnt - 1
  PROVE  media[req.phy].data[req.off + k] \in Cell
<1>1. req.phy \in Phy /\ req.off + k \in Offsets
  <2>1. req.off \in Nat /\ req.cnt \in Nat /\ req.off + req.cnt <= BlockSize /\ req.phy \in Phy
    BY Command, SizesExact DEF Offsets
  <2> QED BY <2>1, SizesExact DEF Offsets
<1>2. media[req.phy] \in MediaBlock
  BY <1>1 DEF Sized, TypeOK, Media
<1> QED BY <1>1, <1>2 DEF MediaBlock

LEMMA LoadTmpType ==
  ASSUME Sized, IInv, phase = "exec", req.cmd = "READ_TMP"
  PROVE  LoadTmp(req.phy, req.off, req.cnt) \in [Offsets -> Cell]
<1> SUFFICES ASSUME NEW s \in Offsets
             PROVE  (IF s < req.cnt THEN media[req.phy].data[req.off + s] ELSE tmp[s]) \in Cell
  BY DEF LoadTmp
<1>1. s \in Nat /\ tmp[s] \in Cell /\ req.cnt \in Nat
  BY Command, SizesExact DEF Sized, TypeOK, Offsets
<1>2. CASE s < req.cnt
  BY <1>1, <1>2, CellAt
<1> QED BY <1>1, <1>2

\* What a command leaves besides its answer.
ExecKeeps == /\ phase = "exec" /\ phase' = "call"
             /\ UNCHANGED <<lut, io, req, scan>>
             /\ media' \in Media /\ tmp' \in [Offsets -> Cell] /\ out' \in Seq(Cell)
             /\ ret' \in [count : 0 .. BlockSize, error : Errors]
             /\ faults' \in 0 .. MaxFaults

LEMMA CallSized ==
  ASSUME Sized, IInv', ExecKeeps, AtWork(io.handler, io)', Answered'
  PROVE  Sized'
<1>1. TypeOK'
  BY DEF ExecKeeps, Sized, TypeOK, IInv, LutOK
<1> QED BY <1>1 DEF Sized, ExecKeeps

\* A command that is done: what it puts into out, if anything.
LEMMA DoneSized ==
  ASSUME Sized, IInv, IInv', phase = "exec", ExecFrame, Done(req.cnt),
         media' \in Media, tmp' \in [Offsets -> Cell],
         io.handler \notin {"mark_dst_bad", "null", "mark_src_bad"},
         \/ req.cmd \notin {"READ", "FLUSH_TMP", "SKIP"} /\ out' = out
         \/ /\ req.cmd \in {"READ", "FLUSH_TMP", "SKIP"}
            /\ \E s \in [1 .. req.cnt -> Cell] : out' = out \o s
  PROVE  Sized'
<1>1. /\ io \in ExactIo /\ AtWork(io.handler, io) /\ Asked
      /\ req.cnt \in 0 .. BlockSize /\ req.cnt = io.req_count
      /\ out \in Seq(Cell)
  <2>1. io.handler \in {"read", "read_tmp_r", "read_tmp_w", "fill_tmp", "erase_dst",
                        "write_inc", "erase_src"}
    BY Command DEF ExactIo, Handlers, Asked
  <2> QED BY <2>1, Command DEF Sized, TypeOK
<1>2. /\ io' = io /\ lut' = lut /\ ret' = [count |-> req.cnt, error |-> "OK"] /\ phase' = "call"
  BY DEF ExecFrame, Done
<1>3. CASE req.cmd \notin {"READ", "FLUSH_TMP", "SKIP"} /\ out' = out
  <2>1. io.handler \notin {"read", "write"}
    BY <1>1, <1>3 DEF Asked, Asks
  <2>2. AtWork(io.handler, io)'
    BY <1>1, <1>2, <1>3 DEF AtWork
  <2>3. io.handler = "read_tmp_r" => Len(out) = io.t_count /\ lut.block_table[io.w_log] # INVALID
    BY <1>1 DEF Asked, Asks, Reading
  <2>4. Answered'
    BY <1>1, <1>2, <1>3, <2>1, <2>3 DEF Answered, Short
  <2>5. ExecKeeps
    BY <1>1, <1>2, <1>3 DEF ExecKeeps, ExecFrame, Errors, Sized, TypeOK
  <2> QED BY <2>2, <2>4, <2>5, CallSized
<1>4. CASE /\ req.cmd \in {"READ", "FLUSH_TMP", "SKIP"}
           /\ \E s \in [1 .. req.cnt -> Cell] : out' = out \o s
  <2>1. io.handler = "read" /\ req.cnt = io.buf_count
    BY <1>1, <1>4 DEF Asked, Asks
  <2>2. Chunk(io) /\ Len(out) = io.t_count
    BY <1>1, <2>1 DEF Asked, Reading
  <2>3. AtWork(io.handler, io)'
    BY <1>2, <2>1 DEF AtWork, Writing, Reading
  <2>4. out' \in Seq(Cell) /\ Len(out') = Len(out) + req.cnt
    <3>1. PICK s \in [1 .. req.cnt -> Cell] : out' = out \o s
      BY <1>4
    <3>2. req.cnt \in Nat
      BY <1>1, SizesExact
    <3> QED BY <1>1, <3>1, <3>2, Appended
  <2>5. Answered'
    BY <1>2, <2>1, <2>2, <2>4 DEF Answered, Chunk, ZoneNo, InBlock, CountDue, LogOf, Position, BlockNo
  <2>6. ExecKeeps
    BY <1>1, <1>2, <2>4 DEF ExecKeeps, ExecFrame, Errors, Sized, TypeOK
  <2> QED BY <2>3, <2>5, <2>6, CallSized
<1> QED BY <1>3, <1>4

LEMMA ReadsSized ==
  ASSUME Sized, IInv, IInv', ExecRead \/ ExecFlushTmp \/ ExecSkip
  PROVE  Sized'
<1>1. /\ phase = "exec" /\ ExecFrame /\ Done(req.cnt) /\ media' = media /\ tmp' = tmp
      /\ req.cmd \in {"READ", "FLUSH_TMP", "SKIP"}
  BY DEF ExecRead, ExecFlushTmp, ExecSkip, Exec
<1>2. /\ media' \in Media /\ tmp' \in [Offsets -> Cell]
      /\ io.handler \notin {"mark_dst_bad", "null", "mark_src_bad"}
  BY <1>1, Command, SizesExact DEF Sized, TypeOK, Asked, Asks, Offsets
<1>3. \E s \in [1 .. req.cnt -> Cell] : out' = out \o s
  <2>1. CASE ExecRead
    <3> DEFINE s == PhyData(req.phy, req.off, req.cnt)
    <3>1. req.cnt \in Nat /\ req.off \in Nat
      BY <1>1, Command, SizesExact DEF Offsets
    <3>2. ASSUME NEW k \in 1 .. req.cnt
          PROVE  media[req.phy].data[req.off + k - 1] \in Cell
      <4>1. k - 1 \in 0 .. req.cnt - 1 /\ req.off + (k - 1) = req.off + k - 1
        BY <3>1
      <4>2. media[req.phy].data[req.off + (k - 1)] \in Cell
        BY <1>1, <2>1, <4>1, CellAt DEF ExecRead, Exec
      <4> QED BY <4>1, <4>2
    <3>3. s \in [1 .. req.cnt -> Cell]
      BY <3>2 DEF PhyData
    <3>4. out' = out \o s
      BY <2>1 DEF ExecRead
    <3> HIDE DEF s
    <3> QED BY <3>3, <3>4
  <2>2. CASE ExecFlushTmp
    <3> DEFINE s == [k \in 1 .. req.cnt |-> tmp[req.off + k - 1]]
    <3>1. req.cnt \in Nat /\ req.off \in Nat /\ req.off + req.cnt <= BlockSize
      BY <1>1, <2>2, Command, SizesExact DEF Offsets, ExecFlushTmp, Exec
    <3>2. \A k \in 1 .. req.cnt : req.off + k - 1 \in Offsets
      BY <3>1, SizesExact DEF Offsets
    <3>3. s \in [1 .. req.cnt -> Cell]
      BY <3>2 DEF Sized, TypeOK
    <3>4. out' = out \o s
      BY <2>2 DEF ExecFlushTmp
    <3> HIDE DEF s
    <3> QED BY <3>3, <3>4
  <2>3. CASE ExecSkip
    <3> DEFINE s == [k \in 1 .. req.cnt |-> BLANK]
    <3>1. s \in [1 .. req.cnt -> Cell]
      BY DEF Cell
    <3>2. out' = out \o s
      BY <2>3 DEF ExecSkip
    <3> HIDE DEF s
    <3> QED BY <3>1, <3>2
  <2> QED BY <2>1, <2>2, <2>3
<1> QED BY <1>1, <1>2, <1>3, DoneSized

LEMMA MovesSized ==
  ASSUME Sized, IInv, IInv',
         ExecReadTmp \/ ExecEraseTmp \/ ExecFillTmp \/ ExecErase \/ ExecWrite
  PROVE  Sized'
<1>1. /\ phase = "exec" /\ ExecFrame /\ out' = out
      /\ req.cmd \in {"READ_TMP", "ERASE_TMP", "FILL_TMP", "ERASE", "WRITE", "WRITE_TMP"}
  BY DEF ExecReadTmp, ExecEraseTmp, ExecFillTmp, ExecErase, ExecWrite, Exec
<1>2. Asked /\ Asks(io.handler, io, lut, req.cmd, req.phy, req.off, req.cnt, io.req_count)
  BY <1>1, Command DEF Asked
<1>3. io.handler \notin {"mark_dst_bad", "null", "mark_src_bad"}
  BY <1>1, <1>2 DEF Asks
<1>4. Done(req.cnt)
  <2>1. /\ req.cmd = "ERASE" => req.cnt = 0
        /\ req.cmd \in {"WRITE", "WRITE_TMP"} => req.cnt = BlockSize
    BY <1>2 DEF Asks
  <2> QED BY <2>1 DEF ExecReadTmp, ExecEraseTmp, ExecFillTmp, ExecErase, ExecWrite, Exec
<1>5. tmp' \in [Offsets -> Cell]
  <2>1. tmp \in [Offsets -> Cell]
    BY DEF Sized, TypeOK
  <2>2. CASE ExecReadTmp
    BY <1>1, <2>2, LoadTmpType DEF ExecReadTmp, Exec
  <2>3. CASE ExecEraseTmp
    BY <2>1, <2>3 DEF ExecEraseTmp, Cell
  <2>4. CASE ExecFillTmp
    <3>1. io.val \in Cell
      BY <1>1, <1>2, <2>4, Command DEF ExecFillTmp, Exec, Asks, AtWork, Reading, Cell
    <3> QED BY <2>1, <2>4, <3>1 DEF ExecFillTmp
  <2> QED BY <2>1, <2>2, <2>3, <2>4 DEF ExecErase, ExecWrite
<1>6. media' \in Media
  <2>1. CASE ExecErase
    BY <1>1, <2>1, ErasedCard DEF ExecErase, Exec, Changing
  <2>2. CASE ExecWrite
    BY <1>1, <2>2, WrittenBlock DEF ExecWrite, Exec
  <2>3. CASE media' = media
    BY <2>3 DEF Sized, TypeOK
  <2> QED BY <2>1, <2>2, <2>3 DEF ExecReadTmp, ExecEraseTmp, ExecFillTmp
<1> QED BY <1>1, <1>3, <1>4, <1>5, <1>6, DoneSized

LEMMA MarkBadSized ==
  ASSUME Sized, IInv, IInv', ExecMarkBad
  PROVE  Sized'
<1>1. /\ phase = "exec" /\ phase' = "call" /\ req.cmd = "MARK_BAD" /\ ExecFrame
      /\ ret' = [count |-> BlockSize, error |-> "OK"] /\ out' = out
      /\ tmp' = [s \in Offsets |-> BLANK]
      /\ media' = [media EXCEPT ![req.phy].bad = TRUE]
  BY DEF ExecMarkBad, Exec, Done
<1>2. media' \in Media
  <2>1. media \in Media /\ req.phy \in Phy
    BY <1>1, ErasedCard DEF Sized, TypeOK, Changing
  <2> DEFINE b == [media[req.phy] EXCEPT !.bad = TRUE]
  <2>2. media[req.phy] \in MediaBlock
    BY <2>1 DEF Media
  <2>3. b \in MediaBlock /\ media' = [media EXCEPT ![req.phy] = b]
    BY <1>1, <2>1, <2>2 DEF MediaBlock, Media
  <2> HIDE DEF b
  <2> QED BY <2>1, <2>3, ReplacedType
<1>3. /\ io.handler \in {"mark_dst_bad", "null", "mark_src_bad"}
      /\ AtWork(io.handler, io) /\ io \in ExactIo
  BY <1>1, Command DEF Asked, Asks
<1>4. ExecKeeps
  <2>1. tmp' \in [Offsets -> Cell]
    BY <1>1 DEF Cell
  <2>2. ret' \in [count : 0 .. BlockSize, error : Errors]
    BY <1>1, SizesExact DEF Errors
  <2> QED BY <1>1, <1>2, <2>1, <2>2 DEF ExecKeeps, ExecFrame, Sized, TypeOK
<1>5. AtWork(io.handler, io)' /\ Answered'
  BY <1>1, <1>3 DEF AtWork, Answered, ExecFrame, Chunk, ZoneNo, InBlock, CountDue, LogOf,
                    Position, BlockNo
<1> QED BY <1>4, <1>5, CallSized

LEMMA FaultSized ==
  ASSUME Sized, IInv, IInv', Fault
  PROVE  Sized'
<1>1. PICK e \in Errors : CanFail(e) /\ ret' = [count |-> 0, error |-> e]
  BY DEF Fault
<1>2. /\ phase = "exec" /\ phase' = "call" /\ UNCHANGED <<lut, io, req, scan, out>>
      /\ faults < MaxFaults /\ faults' = faults + 1 /\ media' \in Interrupted
  BY DEF Fault
<1>3. tmp' \in [Offsets -> Cell]
  BY <1>2, LoadTmpType DEF Fault, Sized, TypeOK
<1>4. ExecKeeps
  <2>1. ret' \in [count : 0 .. BlockSize, error : Errors]
    BY <1>1, SizesExact
  <2>2. media' \in Media /\ faults' \in 0 .. MaxFaults /\ out' \in Seq(Cell)
    BY <1>2, InterruptedType, PageAssumption DEF Sized, TypeOK
  <2> QED BY <1>2, <1>3, <2>1, <2>2 DEF ExecKeeps
<1>5. AtWork(io.handler, io) /\ Asked
  BY <1>2, Command
<1>6. AtWork(io.handler, io)'
  BY <1>2, <1>5 DEF AtWork, Chunk, ZoneNo, InBlock, CountDue, LogOf, Position, BlockNo
<1>7. Answered'
  <2>1. Asks(io.handler, io, lut, req.cmd, req.phy, req.off, req.cnt, io.req_count)
    BY <1>5 DEF Asked
  <2>2. io.handler = "read" => Len(out) = io.t_count + 0
    <3>1. io.handler = "read" => Len(out) = io.t_count /\ io.t_count \in Nat
      BY <1>2, <1>5, Command DEF Asked, Reading, ExactIo
    <3> QED BY <3>1
  <2>3. io.handler = "read_tmp_r" => Len(out) = io.t_count /\ lut.block_table[io.w_log] # INVALID
    BY <1>5, <2>1 DEF Asked, Reading, Asks
  <2>4. io.handler \in {"read_tmp_r", "read_tmp_w", "fill_tmp", "write_inc"} => e # "OK"
    BY <1>1, <2>1 DEF CanFail, Asks
  <2>5. io.handler # "write"
    BY <1>5 DEF Asked
  <2> QED BY <1>1, <1>2, <2>2, <2>3, <2>4, <2>5 DEF Answered, Failed
<1> QED BY <1>4, <1>6, <1>7, CallSized

LEMMA ExecuteSized == Sized /\ IInv /\ IInv' /\ Execute => Sized'
BY ReadsSized, MovesSized, MarkBadSized, FaultSized DEF Execute

LEMMA StartSized ==
  ASSUME Sized, IInv', StartReading \/ StartWriting
  PROVE  Sized'
<1> SUFFICES ASSUME NEW h \in {"read", "write"}, NEW r \in Requests,
                    NEW v \in Values \cup {BLANK}, h = "write" => v \in Values, Start(h, r, v)
             PROVE  Sized'
  BY DEF StartReading, StartWriting
<1> DEFINE i == StartIo(h, r, v)
<1>1. r[1] \in Nat /\ r[2] \in Nat \ {0}
  BY PageAssumption
<1>2. /\ i \in ExactIo /\ i.handler = h /\ i.t_count = 0 /\ i.rem_count = r[2] /\ i.val = v
  BY <1>1, HandlerNames, SizesExact DEF StartIo, ExactIo
<1> HIDE DEF i
<1>3. /\ phase = "idle" /\ io' = i /\ phase' = "call" /\ ret' = NoRet
      /\ UNCHANGED <<lut, req, scan, media, tmp, out, faults>>
  BY DEF Start, i
<1>4. out = <<>>
  BY <1>3 DEF Sized
<1>5. TypeOK'
  BY <1>2, <1>3, IoExact, NoRetType DEF Sized, TypeOK
<1>6. AtWork(h, i)'
  BY <1>2, <1>3, <1>4 DEF AtWork, Writing, Reading
<1>7. Answered'
  BY <1>1, <1>2, <1>3, <1>4 DEF Answered, NoRet
<1> QED BY <1>2, <1>3, <1>5, <1>6, <1>7 DEF Sized

LEMMA ResetSized ==
  ASSUME IInv', Reset, media' \in Media, faults \in 0 .. MaxFaults
  PROVE  Sized'
<1>1. lut' \in Lut /\ scan' \in Nat \X Blocks
  BY DEF IInv, LutOK, Reset, ScanFits
<1>2. TypeOK'
  BY <1>1, IoExact, StaleTmpType, NoRetType DEF Reset, TypeOK, ReqType
<1> QED BY <1>2 DEF Reset, Sized

LEMMA MountSized ==
  ASSUME Sized, IInv, IInv', Mount
  PROVE  Sized'
<1>1. CASE Scan
  <2>1. scan' \in Nat \X Blocks
    BY <1>1, NextPhyAfter DEF Scan
  <2>2. TypeOK'
    BY <1>1, <2>1 DEF Scan, Sized, TypeOK, IInv, LutOK
  <2> QED BY <1>1, <2>2 DEF Scan, Sized
<1>2. CASE ScanEnd
  BY <1>2 DEF ScanEnd, Sized, TypeOK
<1>3. CASE Remount
  BY <1>3, ResetSized DEF Remount, Sized, TypeOK
<1>4. CASE PowerLoss
  BY <1>4, InterruptedType, ResetSized DEF PowerLoss, Sized, TypeOK
<1> QED BY <1>1, <1>2, <1>3, <1>4 DEF Mount

LEMMA InitSized == Init /\ IInv => Sized
<1> SUFFICES ASSUME Init, IInv PROVE Sized
  OBVIOUS
<1>1. /\ lut \in Lut /\ media \in Media /\ scan \in Nat \X Blocks /\ faults \in 0 .. MaxFaults
  BY FreshFits, MediaAssumption, PageAssumption DEF Init, IInv, LutOK, ScanFits
<1>2. TypeOK
  BY <1>1, IoExact, StaleTmpType, NoRetType DEF Init, TypeOK, ReqType
<1> QED BY <1>2 DEF Init, Sized

LEMMA StutterSized == Sized /\ UNCHANGED vars => Sized'
BY DEF Sized, TypeOK, AtWork, Asked, Asks, Answered, Failed, Short, Chunk, ZoneNo, InBlock,
       CountDue, LogOf, Position, BlockNo, FirstPage, PageSpan, PageOf, vars

LEMMA AlwaysSized == Spec => []Sized
<1>1. Sized /\ IInv /\ IInv' /\ [Next]_vars => Sized'
  BY StutterSized, MountSized, StartSized, HandlerSized, ExecuteSized DEF Next
<1> QED BY <1>1, Invariant, InitSized, PTL DEF Spec

\* The fields of the request in progress, the counts of commands and answers and
\* the position of a request in its block stay in their ranges: no command goes
\* past the end of a block, whatever the request and the card's geometry.
THEOREM BdTypeOK == Spec => []TypeOK
<1>1. Sized => TypeOK
  BY DEF Sized
<1> QED BY <1>1, AlwaysSized, PTL

-----------------------------------------------------------------------------
(* The destination is erased when it is written.                           *)

\* The destination is erased, as far as handler h and the maps m say so.
ErasedFor(h, i, m) ==
  /\ EraseOutcomeKnown /\ i.w_src # i.w_dst
  /\ h = "write_inc" \/ (h \in {"read_tmp_w", "fill_tmp"} /\ i.w_dst \in m.erase_map)
  => media[i.w_dst] = ErasedBlock

Erasable ==
  /\ phase = "exec" => ErasedFor(io.handler, io, lut)
  /\ phase = "call" /\ io.handler # "write_inc" => ErasedFor(io.handler, io, lut)
  /\ phase = "call" /\ io.handler = "erase_dst" /\ ret.error = "OK" =>
       media[io.w_dst] = ErasedBlock

LEMMA FinishErasable ==
  ASSUME NEW m, Finish(m)
  PROVE  Erasable'
BY DEF Finish, Erasable

LEMMA IssueErasable ==
  ASSUME HandlerFrame, NEW m, NEW i \in ExactIo, NEW h \in Handlers, NEW n \in 0 .. BlockSize,
         ErasedFor(h, i, m), NEW cmd, NEW phy, NEW off, NEW cnt,
         Issue(cmd, phy, off, cnt, GoTo(i, h, n), m)
  PROVE  Erasable'
<1> DEFINE j == GoTo(i, h, n)
<1>1. j.handler = h /\ j.w_src = i.w_src /\ j.w_dst = i.w_dst
  BY GoToExact
<1>2. io' = j /\ lut' = m /\ phase' = "exec" /\ media' = media
  BY DEF Issue, HandlerFrame
<1> HIDE DEF j
<1> QED BY <1>1, <1>2 DEF Erasable, ErasedFor, EraseOutcomeKnown

LEMMA EraseDstErasable ==
  ASSUME HandlerFrame, NEW m, NEW i \in ExactIo, NEW error,
         EraseOutcomeKnown /\ error = "OK" /\ i.w_src # i.w_dst => media[i.w_dst] = ErasedBlock,
         EraseDst(i, m, error)
  PROVE  Erasable'
<1>1. ErasedFor("mark_dst_bad", i, m) /\ (error = "OK" => ErasedFor("write_inc", i, m))
  BY DEF ErasedFor
<1> QED BY <1>1, HandlerNames, SizesExact, FinishErasable, IssueErasable DEF EraseDst

LEMMA PrepareDstErasable ==
  ASSUME HandlerFrame, NEW m, NEW i \in ExactIo,
         ErasedFor("fill_tmp", i, m), PrepareDst(i, m)
  PROVE  Erasable'
<1>1. CASE i.w_dst \in m.erase_map /\ EraseDst(i, m, "OK")
  <2>1. EraseOutcomeKnown /\ i.w_src # i.w_dst => media[i.w_dst] = ErasedBlock
    BY <1>1 DEF ErasedFor
  <2> QED BY <1>1, <2>1, EraseDstErasable
<1>2. CASE Issue("ERASE", i.w_dst, 0, 0, GoTo(i, "erase_dst", 0), m)
  BY <1>2, HandlerNames, SizesExact, IssueErasable DEF ErasedFor
<1> QED BY <1>1, <1>2 DEF PrepareDst

LEMMA WriteNextErasable ==
  ASSUME HandlerFrame, NEW m, LutOK(m), Clean(m), NEW i \in ExactIo, i.rem_count # 0,
         WriteNext(i, m)
  PROVE  Erasable'
<1>1. CASE Finish(m)
  BY <1>1, FinishErasable
<1>2. ASSUME NEW j, NEW n, NextBlock(i, m, j, n), WriteBlock(j, n)
      PROVE  Erasable'
  <2>1. j \in ExactIo /\ n.erase_map = m.erase_map
        /\ (j.w_src # j.w_dst => j.w_dst \notin m.data_map)
    BY <1>2 DEF NextBlock
  <2>2. ErasedFor("fill_tmp", j, n) /\ ErasedFor("read_tmp_w", j, n)
    BY <2>1 DEF Clean, ErasedFor
  <2> QED BY <1>2, <2>1, <2>2, HandlerNames, SizesExact, FinishErasable, IssueErasable,
             PrepareDstErasable DEF WriteBlock
<1> QED BY <1>1, <1>2, WriteNextCases

LEMMA NextBlockOrEndErasable ==
  ASSUME HandlerFrame, NEW m, LutOK(m), Clean(m), NEW i \in ExactIo, NextBlockOrEnd(i, m)
  PROVE  Erasable'
BY FinishErasable, WriteNextErasable DEF NextBlockOrEnd

LEMMA ReadsErasable ==
  ASSUME Sized, IInv, HRead \/ HReadTmpR
  PROVE  Erasable'
<1>1. HandlerFrame /\ io \in ExactIo /\ io.buf_count \in 0 .. BlockSize
  BY DEF HRead, HReadTmpR, Sized, Called, ExactIo
<1>2. \A i, m : ErasedFor("read", i, m) /\ ErasedFor("read_tmp_r", i, m)
  BY DEF ErasedFor
<1>3. CASE Finish(lut)
  BY <1>3, FinishErasable
<1>4. ASSUME NEW w \in ExactIo, Chunk(w), ReadChunk(w, lut)
      PROVE  Erasable'
  <2>1. w.buf_count \in 0 .. BlockSize /\ PageSpan(w) * PageSize \in 0 .. BlockSize
    BY <1>4, ChunkFits, PagesOfRun, SizesExact
  <2> QED BY <1>1, <1>2, <1>4, <2>1, HandlerNames, IssueErasable DEF ReadChunk
<1>5. CASE HRead
  BY <1>3, <1>4, <1>5, ReadPlace
<1>6. CASE HReadTmpR
  BY <1>1, <1>2, <1>3, <1>6, HandlerNames, IssueErasable DEF HReadTmpR
<1> QED BY <1>5, <1>6

LEMMA WritesErasable ==
  ASSUME Sized, IInv, Erasable, HWrite \/ HReadTmpW \/ HFillTmp \/ HEraseDst \/ HMarkDstBad
                                  \/ HMarkSrcBad \/ HNull
  PROVE  Erasable'
<1>1. /\ io \in ExactIo /\ Answered /\ LutOK(lut) /\ Clean(lut) /\ phase = "call"
      /\ HandlerFrame /\ io.buf_count \in 0 .. BlockSize
  BY DEF Sized, IInv, HWrite, HReadTmpW, HFillTmp, HEraseDst, HMarkDstBad, HMarkSrcBad,
         HNull, Called, ExactIo
<1>2. CASE Finish(lut)
  BY <1>2, FinishErasable
<1>3. CASE io.rem_count # 0 /\ WriteNext(io, lut)
  BY <1>1, <1>3, WriteNextErasable
<1>4. CASE HWrite
  BY <1>1, <1>2, <1>3, <1>4 DEF HWrite, Called, Answered
<1>5. CASE HReadTmpW
  <2>1. ErasedFor("fill_tmp", io, lut)
    BY <1>1, <1>5 DEF HReadTmpW, Called, Erasable, ErasedFor
  <2> QED BY <1>1, <1>2, <1>5, <2>1, HandlerNames, IssueErasable DEF HReadTmpW
<1>6. CASE HFillTmp
  <2>1. ErasedFor("fill_tmp", io, lut)
    BY <1>1, <1>6 DEF HFillTmp, Called, Erasable
  <2> QED BY <1>1, <1>2, <1>6, <2>1, PrepareDstErasable DEF HFillTmp
<1>7. CASE HEraseDst
  BY <1>1, <1>7, EraseDstErasable DEF HEraseDst, Called, Erasable
<1>8. CASE HMarkDstBad \/ HMarkSrcBad \/ HNull
  BY <1>2, <1>3, <1>8 DEF HMarkDstBad, HMarkSrcBad, HNull
<1> QED BY <1>4, <1>5, <1>6, <1>7, <1>8

LEMMA HWriteIncErasable ==
  ASSUME Sized, IInv, HWriteInc
  PROVE  Erasable'
<1> DEFINE i == Advance(io, io.buf_count)
           m == Commit(lut, io)
           e == [m EXCEPT !.erase_map = @ \ {io.w_src}]
<1>1. /\ io \in ExactIo /\ Chunk(io) /\ LutOK(lut) /\ Clean(lut) /\ io \in ActiveIo
      /\ WriteFits(lut, io) /\ HandlerFrame
  BY DEF Sized, IInv, HWriteInc, Called, Fits, AtWork, Writing
<1>2. i \in ExactIo
  BY <1>1, ChunkFits, AdvanceExact
<1>3. LutOK(m) /\ Clean(m)
  BY <1>1, CommitOK DEF Clean
<1> HIDE DEF i, m, e
<1>4. CASE \/ Issue("MARK_BAD", io.w_dst, 0, BlockSize, GoTo(io, "null", 0),
                    MarkUsed(lut, io.w_dst))
           \/ Issue("ERASE", io.w_src, 0, 0, GoTo(i, "erase_src", 0), e)
  <2>1. \A x, y : ErasedFor("null", x, y) /\ ErasedFor("erase_src", x, y)
    BY DEF ErasedFor
  <2> QED BY <1>1, <1>2, <1>4, <2>1, HandlerNames, SizesExact, IssueErasable
<1>5. CASE Finish(lut)
  BY <1>5, FinishErasable
<1>6. CASE NextBlockOrEnd(i, m)
  BY <1>1, <1>2, <1>3, <1>6, NextBlockOrEndErasable
<1> QED BY <1>4, <1>5, <1>6 DEF HWriteInc, i, m, e

LEMMA HEraseSrcErasable ==
  ASSUME Sized, IInv, HEraseSrc
  PROVE  Erasable'
<1> DEFINE m == MarkErased(lut, io.w_src)
<1>1. /\ io \in ExactIo /\ LutOK(lut) /\ Clean(lut) /\ SrcUnmapped(lut, io) /\ HandlerFrame
      /\ phase = "call" /\ io.handler = "erase_src"
  BY DEF Sized, IInv, HEraseSrc, Called, Fits
<1>2. LutOK(m)
  BY <1>1, MarkErasedOK DEF SrcUnmapped
<1>3. m.data_map = lut.data_map \ {io.w_src} /\ m.erase_map = lut.erase_map \cup {io.w_src}
  BY <1>1 DEF MarkErased, LutOK, Lut
<1> HIDE DEF m
<1>4. ASSUME ret.error # "EFAULT" PROVE Clean(m)
  BY <1>1, <1>3, <1>4 DEF Clean, IInv, SrcErased
<1>5. CASE Issue("MARK_BAD", io.w_src, 0, BlockSize, GoTo(io, "mark_src_bad", 0),
                 MarkUsed(m, io.w_src))
  <2>1. \A x, y : ErasedFor("mark_src_bad", x, y)
    BY DEF ErasedFor
  <2> QED BY <1>1, <1>5, <2>1, HandlerNames, SizesExact, IssueErasable
<1>6. CASE Finish(m)
  BY <1>6, FinishErasable
<1>7. CASE ret.error = "OK" /\ NextBlockOrEnd(io, m)
  BY <1>1, <1>2, <1>4, <1>7, NextBlockOrEndErasable
<1> QED BY <1>5, <1>6, <1>7 DEF HEraseSrc, m

LEMMA ExecuteErasable ==
  ASSUME Sized, IInv, Erasable, Execute
  PROVE  Erasable'
<1>1. phase = "exec" /\ phase' = "call" /\ UNCHANGED <<lut, io>>
  BY DEF Execute, ExecRead, ExecReadTmp, ExecFlushTmp, ExecSkip, ExecEraseTmp,
         ExecFillTmp, ExecErase, ExecWrite, ExecMarkBad, Fault, Exec, ExecFrame, Done
<1>2. Asks(io.handler, io, lut, req.cmd, req.phy, req.off, req.cnt, io.req_count)
  BY <1>1, Command DEF Asked
<1>3. ASSUME io.handler \in {"read_tmp_w", "fill_tmp"} PROVE media' = media
  <2>1. req.cmd \in {"ERASE_TMP", "READ_TMP", "FILL_TMP"}
    BY <1>2, <1>3 DEF Asks
  <2>2. media = [p \in Phy |-> media[p]]
    BY DEF IInv
  <2> QED BY <2>1, <2>2, InterruptedElsewhere DEF Execute, ExecRead, ExecReadTmp, ExecFlushTmp,
         ExecSkip, ExecEraseTmp, ExecFillTmp, ExecErase, ExecWrite, ExecMarkBad, Fault, Exec,
         Changing
<1>4. ASSUME io.handler # "write_inc" PROVE ErasedFor(io.handler, io, lut)'
  BY <1>1, <1>3, <1>4 DEF Erasable, ErasedFor, EraseOutcomeKnown
<1>5. ASSUME io.handler = "erase_dst", ret'.error = "OK"
      PROVE  media'[io.w_dst] = ErasedBlock
  <2>1. req.cmd = "ERASE" /\ req.phy = io.w_dst /\ req.phy \in Phy
    BY <1>1, <1>2, <1>5, ErasedCard DEF Asks, Changing
  <2>2. ~ Fault
    BY <1>5, <2>1 DEF Fault, CanFail, Errors
  <2>3. ExecErase
    BY <2>1, <2>2 DEF Execute, ExecRead, ExecReadTmp, ExecFlushTmp, ExecSkip, ExecEraseTmp,
                      ExecFillTmp, ExecWrite, ExecMarkBad, Exec
  <2> QED BY <2>1, <2>3 DEF ExecErase, Erased, IInv
<1> QED BY <1>1, <1>4, <1>5 DEF Erasable

LEMMA OthersErasable ==
  ASSUME Erasable, Mount \/ StartReading \/ StartWriting \/ UNCHANGED vars
  PROVE  Erasable'
<1>1. CASE Mount
  BY <1>1 DEF Mount, Scan, ScanEnd, Remount, PowerLoss, Reset, Erasable
<1>2. CASE StartReading \/ StartWriting
  BY <1>2 DEF StartReading, StartWriting, Start, StartIo, Erasable, ErasedFor
<1>3. CASE UNCHANGED vars
  BY <1>3 DEF vars, Erasable, ErasedFor, EraseOutcomeKnown
<1> QED BY <1>1, <1>2, <1>3

LEMMA AlwaysErasable == Spec => []Erasable
<1>1. Sized /\ IInv /\ Erasable /\ [Next]_vars => Erasable'
  BY OthersErasable, ReadsErasable, WritesErasable, HWriteIncErasable, HEraseSrcErasable,
     ExecuteErasable DEF Next, Handler
<1>2. Init => Erasable
  BY DEF Init, Erasable
<1> QED BY <1>1, <1>2, Invariant, AlwaysSized, PTL DEF Spec

\* With no free block left h_flash_bd_write() writes the new data over the old
\* block of the same logical block.
InPlace == phase = "exec" /\ io.w_src = io.w_dst

\* A block is only written after an erase, whatever fails and whenever power is
\* lost, but for two cases: a logical block rewritten in place for want of a free
\* one, and a card whose answer to the erase of a replaced block got lost.
THEOREM BdWriteTargetErased ==
  ASSUME <<"erase_src", "EIO">> \notin Faults
  PROVE  Spec => [](~ InPlace => WriteTargetErased)
<1>1. ASSUME Sized, IInv, Erasable, ~ InPlace, phase = "exec", req.cmd \in {"WRITE", "WRITE_TMP"}
      PROVE  media[req.phy] = ErasedBlock
  <2>1. io.handler = "write_inc" /\ req.phy = io.w_dst /\ io.w_src # io.w_dst
    BY <1>1, LogAddress DEF InPlace
  <2> QED BY <1>1, <2>1 DEF Erasable, ErasedFor, EraseOutcomeKnown
<1>2. Sized /\ IInv /\ Erasable => (~ InPlace => WriteTargetErased)
  BY <1>1 DEF WriteTargetErased
<1> QED BY <1>2, Invariant, AlwaysSized, AlwaysErasable, PTL

-----------------------------------------------------------------------------
(***************************************************************************)
(* On a card that keeps what it is told, FlashBd implements LogicalStore:  *)
(* the block layer sees an array of sectors.  A card may have bad blocks   *)
(* from the start, and commands may fail, as long as a zone has a block to *)
(* spare for each of them; after a new mount the same is found again.      *)
(***************************************************************************)
(* No block is lost, and none is missing, while the card is reliable.      *)

Own == Reserved(CisBlock)
BlockClaims(b, n) == ~ b.bad /\ b.tag[0] = n

\* In a zone, no two blocks claim the same logical block, and the blocks that
\* claim one were written in full.
WellWritten(c) ==
  /\ \A p, q \in Phy \ Own, n \in LogBlocks :
       BlockClaims(c[p], n) /\ BlockClaims(c[q], n) /\ p[1] = q[1] => p = q
  /\ \A p \in Phy \ Own, n \in LogBlocks :
       BlockClaims(c[p], n) => \A s \in Offsets : c[p].data[s] # JUNK

Spoilt(c, z) == {p \in Phy : p[1] = z /\ (c[p].bad \/ p \in Own)}

\* The cards and failures considered from here on.  Power stays on, and a card
\* is not taken out after a failure; a zone has a block for each logical one, one
\* more to write to, and one more for each failure there may be.
Reliable ==
  /\ EraseOutcomeKnown
  /\ ~ CanLosePower /\ (CanRemount => MaxFaults = 0)
  /\ JUNK \notin Values \cup {BLANK} /\ ERASED \notin LogBlocks
  /\ \A c \in InitMedia :
       /\ WellWritten(c)
       /\ \A z \in Zones :
            Cardinality(Spoilt(c, z)) + LogBlockCnt + MaxFaults < PhyBlockCnt

\* Blocks in use that hold no logical block.
Strays(m) == {p \in m.data_map \ Own : \A l \in Log : m.block_table[l] # p}

\* H is the block the request at work holds, if any, n the number of failures
\* that have not cost a block yet.
Gone(m, H)     == {p \in Strays(m) \ H : ~ media[p].bad}
Waste(m, H, z) == {p \in Phy : p[1] = z /\ p \notin H
                                 /\ (media[p].bad \/ p \in Own \/ p \in Strays(m))}
Counted(m, H, n) ==
  /\ Cardinality(Gone(m, H)) + n <= faults
  /\ \A z \in Zones :
       Cardinality(Waste(m, H, z)) + n + LogBlockCnt + MaxFaults < PhyBlockCnt + faults

Apart(m, H) == /\ Own \subseteq m.data_map /\ H \subseteq Phy \ Own
               /\ \A l \in Log : m.block_table[l] \notin H

\* What is mapped was written in full, for that logical block.
Fine(m) ==
  \A l \in Log : m.block_table[l] # INVALID =>
     /\ m.block_table[l] \notin Own
     /\ BlockClaims(media[m.block_table[l]], l[2])
     /\ \A s \in Offsets : media[m.block_table[l]].data[s] # JUNK

\* What claims a logical block is mapped to it.
Found(m, H, S) ==
  \A p \in S \ Own, n \in LogBlocks :
     BlockClaims(media[p], n) /\ p \notin H => m.block_table[<<p[1], n>>] = p

Sound(m, H, n) == /\ Apart(m, H) /\ Counted(m, H, n) /\ Fine(m)
                  /\ MaxFaults = 0 => Found(m, H, Phy)

LEMMA PhyFinite == IsFiniteSet(Phy)
<1>1. IsFiniteSet(Zones) /\ IsFiniteSet(Blocks)
  BY FS_Interval, GeometryAssumption DEF Zones, Blocks
<1> QED BY <1>1, FS_Product DEF Phy

\* One element more, or less.
LEMMA CountUpTo ==
  ASSUME NEW S, S \subseteq Phy, NEW T, NEW X \in Phy
  PROVE  /\ IsFiniteSet(S) /\ Cardinality(S) \in Nat
         /\ T \subseteq S => Cardinality(T) \in Nat /\ Cardinality(T) <= Cardinality(S)
         /\ T \subseteq S \cup {X} => Cardinality(T) \in Nat /\ Cardinality(T) <= Cardinality(S) + 1
<1>1. IsFiniteSet(S) /\ Cardinality(S) \in Nat
  BY PhyFinite, FS_Subset, FS_CardinalityType
<1>2. ASSUME T \subseteq S
      PROVE  Cardinality(T) \in Nat /\ Cardinality(T) <= Cardinality(S)
  BY <1>1, <1>2, FS_Subset, FS_CardinalityType
<1>3. ASSUME T \subseteq S \cup {X}
      PROVE  Cardinality(T) \in Nat /\ Cardinality(T) <= Cardinality(S) + 1
  <2>1. /\ IsFiniteSet(S \cup {X})
        /\ Cardinality(S \cup {X}) = IF X \in S THEN Cardinality(S) ELSE Cardinality(S) + 1
    BY <1>1, FS_AddElement
  <2>2. Cardinality(T) <= Cardinality(S \cup {X}) /\ Cardinality(T) \in Nat
    BY <1>3, <2>1, FS_Subset, FS_CardinalityType
  <2> QED BY <1>1, <2>1, <2>2
<1> QED BY <1>1, <1>2, <1>3

LEMMA CountTypes ==
  ASSUME NEW m, m \in Lut, NEW H
  PROVE  /\ Gone(m, H) \subseteq Phy /\ Cardinality(Gone(m, H)) \in Nat
         /\ \A z \in Zones : Waste(m, H, z) \subseteq Phy /\ Cardinality(Waste(m, H, z)) \in Nat
<1>1. Gone(m, H) \subseteq Phy /\ \A z \in Zones : Waste(m, H, z) \subseteq Phy
  BY DEF Gone, Strays, Waste, Lut
<1>2. IsFiniteSet(Gone(m, H)) /\ \A z \in Zones : IsFiniteSet(Waste(m, H, z))
  BY <1>1, PhyFinite, FS_Subset
<1> QED BY <1>1, <1>2, FS_CardinalityType

\* Nothing more is lost, at no less a price.
LEMMA CountedLess ==
  ASSUME Sized, NEW m, m \in Lut, NEW H, NEW n \in Nat, Counted(m, H, n),
         NEW u, u \in Lut, NEW G, NEW k \in 0 .. n,
         Gone(u, G) \subseteq Gone(m, H),
         \A z \in Zones : Waste(u, G, z) \subseteq Waste(m, H, z)
  PROVE  Counted(u, G, k)
<1>1. PICK x \in Phy : TRUE
  <2>1. <<0, CisBlock>> \in Phy
    BY PageAssumption, GeometryAssumption DEF Phy, Zones
  <2> QED BY <2>1
<1>2. faults \in Nat /\ MaxFaults \in Nat /\ LogBlockCnt \in Nat /\ PhyBlockCnt \in Nat
  BY PageAssumption, GeometryAssumption DEF Sized, TypeOK
<1>3. Cardinality(Gone(u, G)) + k <= faults
  BY <1>1, <1>2, CountTypes, CountUpTo DEF Counted
<1>4. ASSUME NEW z \in Zones
      PROVE  Cardinality(Waste(u, G, z)) + k + LogBlockCnt + MaxFaults < PhyBlockCnt + faults
  <2>1. /\ Cardinality(Waste(u, G, z)) <= Cardinality(Waste(m, H, z))
        /\ Cardinality(Waste(u, G, z)) \in Nat /\ Cardinality(Waste(m, H, z)) \in Nat
    BY <1>1, CountTypes, CountUpTo
  <2> QED BY <1>2, <2>1 DEF Counted
<1> QED BY <1>3, <1>4 DEF Counted

\* One block more is lost, for one failure.
LEMMA CountedMore ==
  ASSUME Sized, NEW m, m \in Lut, NEW H, Counted(m, H, 1),
         NEW u, u \in Lut, NEW G, NEW x \in Phy,
         Gone(u, G) \subseteq Gone(m, H) \cup {x},
         \A z \in Zones : Waste(u, G, z) \subseteq Waste(m, H, z) \cup {x}
  PROVE  Counted(u, G, 0)
<1>2. faults \in Nat /\ MaxFaults \in Nat /\ LogBlockCnt \in Nat /\ PhyBlockCnt \in Nat
  BY PageAssumption, GeometryAssumption DEF Sized, TypeOK
<1>3. Cardinality(Gone(u, G)) + 0 <= faults
  BY <1>2, CountTypes, CountUpTo DEF Counted
<1>4. ASSUME NEW z \in Zones
      PROVE  Cardinality(Waste(u, G, z)) + 0 + LogBlockCnt + MaxFaults < PhyBlockCnt + faults
  <2>1. /\ Cardinality(Waste(u, G, z)) <= Cardinality(Waste(m, H, z)) + 1
        /\ Cardinality(Waste(u, G, z)) \in Nat /\ Cardinality(Waste(m, H, z)) \in Nat
    BY CountTypes, CountUpTo
  <2> QED BY <1>2, <2>1 DEF Counted
<1> QED BY <1>3, <1>4 DEF Counted

LEMMA SoundLess ==
  ASSUME Sized, NEW m, LutOK(m), NEW H, NEW n \in {0, 1}, Sound(m, H, n)
  PROVE  Sound(m, H, 0)
<1>1. Counted(m, H, 0)
  BY CountedLess DEF Sound, LutOK
<1> QED BY <1>1 DEF Sound

LEMMA NoFaults == Sized /\ MaxFaults = 0 => faults = 0
BY DEF Sized, TypeOK

\* The request gives the block it holds up, for the failure.
LEMMA SoundDrop ==
  ASSUME Sized, NEW m, LutOK(m), NEW x \in Phy, Sound(m, {x}, 1)
  PROVE  Sound(m, {}, 0)
<1>1. Gone(m, {}) \subseteq Gone(m, {x}) \cup {x}
  BY DEF Gone
<1>2. \A z \in Zones : Waste(m, {}, z) \subseteq Waste(m, {x}, z) \cup {x}
  BY DEF Waste
<1>3. Counted(m, {}, 0)
  BY <1>1, <1>2, CountedMore DEF Sound, LutOK
<1>4. MaxFaults # 0
  <2>1. Cardinality(Gone(m, {x})) + 1 <= faults /\ Cardinality(Gone(m, {x})) \in Nat
    BY CountTypes DEF Sound, Counted, LutOK
  <2> QED BY <2>1, NoFaults
<1> QED BY <1>3, <1>4 DEF Sound, Apart

\* A free block is taken.
LEMMA SoundTake ==
  ASSUME Sized, NEW m, LutOK(m), Sound(m, {}, 0), NEW n, LutOK(n), NEW x \in Phy,
         x \notin m.data_map, n.data_map = m.data_map \cup {x}, n.block_table = m.block_table
  PROVE  Sound(n, {x}, 0)
<1>0. /\ m.block_table \in [Log -> Phy \cup {INVALID}]
      /\ \A l \in Log : m.block_table[l] # x
  BY InvalidAssumption DEF LutOK, Lut, MappedInUse
<1>1. Gone(n, {x}) \subseteq Gone(m, {})
  BY DEF Gone, Strays
<1>2. \A z \in Zones : Waste(n, {x}, z) \subseteq Waste(m, {}, z)
  BY DEF Waste, Strays
<1>3. Counted(n, {x}, 0)
  <2>1. m \in Lut /\ n \in Lut /\ Counted(m, {}, 0) /\ 0 \in Nat /\ 0 \in 0 .. 0
    BY DEF Sound, LutOK
  <2> QED BY <1>1, <1>2, <2>1, CountedLess
<1>4. Apart(n, {x})
  BY <1>0 DEF Sound, Apart
<1>5. Fine(n) /\ (MaxFaults = 0 => Found(n, {x}, Phy))
  BY DEF Sound, Fine, Found
<1> QED BY <1>3, <1>4, <1>5 DEF Sound

\* A zone has a free block as long as nothing is lost but for a failure.
LEMMA HasFree ==
  ASSUME Sized, NEW m, LutOK(m), Sound(m, {}, 0), NEW z \in Zones
  PROVE  m.free_cnt[z] # 0
<1> DEFINE Z == {p \in Phy : p[1] = z}
           F == FreeBlocks(m, z)
           W == Waste(m, {}, z)
           L == {l \in Log : l[1] = z}
           B == {p \in Z : \E l \in L : m.block_table[l] = p}
<1>1. m \in Lut /\ m.free_cnt[z] = Cardinality(F)
  BY DEF LutOK, FreeCntExact
<1>2. Z \subseteq F \cup W \cup B
  <2> SUFFICES ASSUME NEW p \in Z, p \notin F, p \notin W
               PROVE  p \in B
    OBVIOUS
  <2>1. p \in m.data_map /\ p \notin Own /\ p \notin Strays(m)
    BY DEF FreeBlocks, Waste
  <2>2. PICK l \in Log : m.block_table[l] = p
    BY <2>1 DEF Strays
  <2>3. l[1] = z
    BY <2>2, InvalidAssumption DEF LutOK, MappedInUse
  <2> QED BY <2>2, <2>3
<1>3. IsFiniteSet(Z) /\ Cardinality(Z) = PhyBlockCnt
  <2> DEFINE f == [b \in Blocks |-> <<z, b>>]
  <2>1. f \in Bijection(Blocks, Z)
    <3>1. f \in [Blocks -> Z]
      BY DEF Phy
    <3>2. \A p \in Z : \E b \in Blocks : f[b] = p
      BY DEF Phy
    <3>3. \A a, b \in Blocks : f[a] = f[b] => a = b
      OBVIOUS
    <3> QED BY <3>1, <3>2, <3>3 DEF Bijection, Injection, Surjection, IsInjective
  <2>2. IsFiniteSet(Blocks) /\ Cardinality(Blocks) = PhyBlockCnt
    BY FS_Interval, GeometryAssumption DEF Blocks
  <2> QED BY <2>1, <2>2, FS_Bijection DEF ExistsBijection
<1>4. IsFiniteSet(B) /\ Cardinality(B) <= LogBlockCnt
  <2> DEFINE f == [b \in LogBlocks |-> <<z, b>>]
  <2>1. f \in Surjection(LogBlocks, L)
    <3>1. f \in [LogBlocks -> L]
      BY DEF Log
    <3>2. \A l \in L : \E b \in LogBlocks : f[b] = l
      BY DEF Log
    <3> QED BY <3>1, <3>2 DEF Surjection
  <2>2. IsFiniteSet(LogBlocks) /\ Cardinality(LogBlocks) = LogBlockCnt
    BY FS_Interval, GeometryAssumption DEF LogBlocks
  <2>3. IsFiniteSet(L) /\ Cardinality(L) <= LogBlockCnt
    BY <2>1, <2>2, FS_Surjection
  <2> DEFINE D == {l \in L : m.block_table[l] \in B}
             g == [l \in D |-> m.block_table[l]]
  <2>4. g \in Surjection(D, B)
    <3>1. g \in [D -> B]
      OBVIOUS
    <3>2. \A p \in B : \E l \in D : g[l] = p
      OBVIOUS
    <3> QED BY <3>1, <3>2 DEF Surjection
  <2>5. IsFiniteSet(D) /\ Cardinality(D) <= Cardinality(L) /\ Cardinality(D) \in Nat
        /\ Cardinality(L) \in Nat
    BY <2>3, FS_Subset, FS_CardinalityType
  <2>6. IsFiniteSet(B) /\ Cardinality(B) <= Cardinality(D) /\ Cardinality(B) \in Nat
    BY <2>4, <2>5, FS_Surjection, FS_CardinalityType
  <2> QED BY <2>3, <2>5, <2>6, GeometryAssumption
<1>5. IsFiniteSet(F) /\ Cardinality(F) \in Nat /\ IsFiniteSet(W) /\ Cardinality(W) \in Nat
  BY <1>1, FreeFinite, CountTypes, CountUpTo, PhyFinite, FS_Subset
<1>6. Cardinality(W) + LogBlockCnt < PhyBlockCnt
  <2>1. Cardinality(W) + 0 + LogBlockCnt + MaxFaults < PhyBlockCnt + faults
    BY DEF Sound, Counted
  <2>2. faults \in 0 .. MaxFaults
    BY DEF Sized, TypeOK
  <2> QED BY <1>5, <2>1, <2>2, PageAssumption, GeometryAssumption
<1> HIDE DEF Z, F, W, B, L
<1>7. CASE Cardinality(F) = 0
  <2>1. F = {}
    BY <1>5, <1>7, FS_EmptySet
  <2>2. Z \subseteq W \cup B
    BY <1>2, <2>1
  <2>3. /\ IsFiniteSet(W \cup B)
        /\ Cardinality(W \cup B) = Cardinality(W) + Cardinality(B) - Cardinality(W \cap B)
    BY <1>4, <1>5, FS_Union
  <2>4. Cardinality(W \cap B) \in Nat /\ Cardinality(B) \in Nat /\ Cardinality(W \cup B) \in Nat
    BY <1>4, <1>5, <2>3, FS_Intersection, FS_CardinalityType
  <2>5. Cardinality(Z) <= Cardinality(W \cup B)
    BY <2>2, <2>3, FS_Subset
  <2> QED BY <1>3, <1>4, <1>5, <1>6, <2>3, <2>4, <2>5, GeometryAssumption
<1> QED BY <1>1, <1>7

\* The block is written: the logical block leaves the source, which is held next.
LEMMA SoundCommit ==
  ASSUME Sized, NEW m, LutOK(m), NEW i \in ExactIo, WriteFits(m, i), i.w_src # i.w_dst,
         Sound(m, {i.w_dst}, 0),
         BlockClaims(media[i.w_dst], i.w_log[2]), \A s \in Offsets : media[i.w_dst].data[s] # JUNK,
         NEW n, LutOK(n), n.data_map = m.data_map,
         n.block_table = [m.block_table EXCEPT ![i.w_log] = i.w_dst]
  PROVE  Sound(n, IF i.w_src = INVALID THEN {} ELSE {i.w_src}, 0)
<1> DEFINE H == IF i.w_src = INVALID THEN {} ELSE {i.w_src}
           d == i.w_dst
           l == i.w_log
<1>1. /\ m \in Lut /\ n \in Lut /\ m.data_map \subseteq Phy
      /\ m.block_table \in [Log -> Phy \cup {INVALID}]
  BY DEF LutOK, Lut
<1>2. /\ l \in Log /\ d \in Phy /\ d # INVALID /\ d \in m.data_map /\ d[1] = l[1]
      /\ i.w_src = m.block_table[l] /\ \A k \in Log : m.block_table[k] # d
      /\ i.w_src \in Phy \cup {INVALID} /\ i.w_src # d
      /\ n.data_map = m.data_map /\ n.block_table = [m.block_table EXCEPT ![l] = d]
      /\ ~ media[d].bad
  BY <1>1, InvalidAssumption DEF WriteFits, BlockClaims
<1>3. /\ \A k \in Log : k # l => n.block_table[k] = m.block_table[k]
      /\ n.block_table[l] = d
  BY <1>1, <1>2
<1>4. Apart(m, {d}) /\ Counted(m, {d}, 0) /\ Fine(m)
  BY DEF Sound
<1>5. BlockClaims(media[d], l[2]) /\ \A s \in Offsets : media[d].data[s] # JUNK
  OBVIOUS
<1> HIDE DEF d, l
<1>6. \A p : p \in Strays(n) /\ p \notin H => p \in Strays(m) /\ p # d
  BY <1>1, <1>2, <1>3, InvalidAssumption DEF Strays
<1>7. Gone(n, H) \subseteq Gone(m, {d})
  BY <1>6 DEF Gone
<1>8. \A z \in Zones : Waste(n, H, z) \subseteq Waste(m, {d}, z)
  BY <1>2, <1>4, <1>6 DEF Waste, Apart
<1>9. Counted(n, H, 0)
  <2>1. 0 \in Nat /\ 0 \in 0 .. 0
    OBVIOUS
  <2> HIDE DEF H
  <2> QED BY <1>1, <1>4, <1>7, <1>8, <2>1, CountedLess
<1>10. Apart(n, H)
  <2>1. i.w_src # INVALID => i.w_src \notin Own
    BY <1>2, <1>4 DEF Fine
  <2>2. \A k \in Log : n.block_table[k] # INVALID => n.block_table[k] # i.w_src
    BY <1>2, <1>3 DEF LutOK, MappedOnce
  <2> QED BY <1>2, <1>4, <2>1, <2>2 DEF Apart
<1>11. Fine(n)
  BY <1>2, <1>3, <1>4, <1>5 DEF Fine, Apart
<1>12. ASSUME MaxFaults = 0 PROVE Found(n, H, Phy)
  <2> SUFFICES ASSUME NEW p \in Phy \ Own, NEW b \in LogBlocks, BlockClaims(media[p], b), p \notin H
               PROVE  n.block_table[<<p[1], b>>] = p
    BY DEF Found
  <2>1. CASE p = d
    <3>1. b = l[2] /\ l = <<l[1], l[2]>>
      BY <1>2, <1>5, <2>1 DEF BlockClaims, Log
    <3> QED BY <1>2, <1>3, <2>1, <3>1
  <2>2. CASE p # d
    <3>1. m.block_table[<<p[1], b>>] = p
      BY <1>12, <2>2 DEF Sound, Found, d
    <3>2. <<p[1], b>> \in Log
      BY DEF Phy, Log
    <3>3. <<p[1], b>> # l
      BY <1>2, <3>1, InvalidAssumption
    <3> QED BY <1>3, <3>1, <3>2, <3>3
  <2> QED BY <2>1, <2>2
<1> QED BY <1>9, <1>10, <1>11, <1>12 DEF Sound

\* The block held changes its bits in the maps.
LEMMA SoundHeld ==
  ASSUME Sized, NEW m, LutOK(m), NEW x \in Phy, NEW k \in {0, 1}, Sound(m, {x}, k),
         NEW n, LutOK(n), n.block_table = m.block_table,
         n.data_map \ {x} = m.data_map \ {x}
  PROVE  Sound(n, {x}, k)
<1>1. m \in Lut /\ n \in Lut /\ k \in Nat /\ k \in 0 .. k
  BY DEF LutOK
<1>2. Gone(n, {x}) \subseteq Gone(m, {x})
  BY DEF Gone, Strays
<1>3. \A z \in Zones : Waste(n, {x}, z) \subseteq Waste(m, {x}, z)
  BY DEF Waste, Strays
<1>4. Counted(n, {x}, k)
  BY <1>1, <1>2, <1>3, CountedLess DEF Sound
<1>5. Apart(n, {x})
  BY DEF Sound, Apart
<1> QED BY <1>4, <1>5 DEF Sound, Fine, Found

\* The block held is erased and made free.
LEMMA SoundFreed ==
  ASSUME Sized, NEW m, LutOK(m), NEW x \in Phy, NEW k \in {0, 1}, Sound(m, {x}, k),
         media[x] = ErasedBlock, ERASED \notin LogBlocks,
         NEW n, LutOK(n), n.block_table = m.block_table, n.data_map = m.data_map \ {x}
  PROVE  Sound(n, {}, k)
<1>1. m \in Lut /\ n \in Lut /\ k \in Nat /\ k \in 0 .. k
  BY DEF LutOK
<1>2. Apart(m, {x}) /\ Counted(m, {x}, k)
  BY DEF Sound
<1>3. ~ media[x].bad /\ \A b \in LogBlocks : ~ BlockClaims(media[x], b)
  BY SizesExact DEF ErasedBlock, BlockClaims, Pages
<1>4. Gone(n, {}) \subseteq Gone(m, {x})
  BY DEF Gone, Strays
<1>5. \A z \in Zones : Waste(n, {}, z) \subseteq Waste(m, {x}, z)
  BY <1>2, <1>3 DEF Waste, Strays, Apart
<1>6. Counted(n, {}, k)
  BY <1>1, <1>2, <1>4, <1>5, CountedLess
<1>7. Apart(n, {})
  BY <1>2 DEF Apart
<1> QED BY <1>3, <1>6, <1>7 DEF Sound, Fine, Found

Marking == {"mark_dst_bad", "mark_src_bad", "null"}
HeldBy(h, i) == IF h \in Writing THEN {i.w_dst}
                ELSE IF h \in {"erase_src", "mark_src_bad"} THEN {i.w_src} ELSE {}
Held == IF phase \in {"exec", "call"} THEN HeldBy(io.handler, io) ELSE {}
Pend == IF \/ phase \in {"exec", "call"} /\ io.handler \in Marking
           \/ phase = "call" /\ Failed THEN 1 ELSE 0

\* What the logical block at hand holds, and what it shall hold.
Old(i) == [s \in Offsets |-> IF i.w_src = INVALID THEN BLANK ELSE media[i.w_src].data[s]]
New(i) == [s \in Offsets |-> IF s \in i.buf_offset .. i.buf_offset + i.buf_count - 1
                             THEN i.val ELSE Old(i)[s]]
\* t_buf holds the pages with the sectors to read.
PagesLoaded(i, m) ==
  \A k \in 0 .. PageSpan(i) * PageSize - 1 :
     tmp[k] = media[m.block_table[i.w_log]].data[FirstPage(i) * PageSize + k]

\* When handler h has issued cmd, and when a command is done.
Ready(h, i, m, cmd) ==
  /\ h \in Writing => i.w_src # i.w_dst
  /\ h = "fill_tmp" => tmp = Old(i)
  /\ h \in {"erase_dst", "write_inc"} /\ i.buf_count < BlockSize => tmp = New(i)
  /\ cmd = "FLUSH_TMP" => PagesLoaded(i, m)
Result(h, i, m) ==
  /\ h \in Writing => i.w_src # i.w_dst
  /\ ~ Failed =>
       /\ h = "read_tmp_w" => tmp = Old(i)
       /\ h = "fill_tmp" => tmp = New(i)
       /\ h = "erase_dst" /\ i.buf_count < BlockSize => tmp = New(i)
       /\ h = "write_inc" =>
            media[i.w_dst] = [bad |-> FALSE, tag |-> [g \in Pages |-> i.w_log[2]],
                              data |-> New(i)]
       /\ h = "read_tmp_r" => PagesLoaded(i, m)

Kept == /\ phase # "mount" => Sound(lut, Held, Pend)
        /\ phase = "mount" => /\ Apart(lut, {}) /\ Counted(lut, {}, 0) /\ Fine(lut)
                              /\ Found(lut, {}, {p \in Phy : Before(p, scan)})
                              /\ WellWritten(media)
        /\ phase = "exec" => Ready(io.handler, io, lut, req.cmd)
        /\ phase = "call" => Result(io.handler, io, lut)

LEMMA SoundNext ==
  ASSUME HandlerFrame, lut' \in Lut, NEW H, NEW n, Sound(lut', H, n), Held' = H, Pend' = n
  PROVE  Sound(lut, Held, Pend)'
<1>1. media' = media /\ faults' = faults
  BY DEF HandlerFrame
<1> QED BY <1>1 DEF Sound, Apart, Counted, Gone, Waste, Strays, Fine, Found

LEMMA FinishKept ==
  ASSUME HandlerFrame, NEW m, m \in Lut, Sound(m, {}, 0), Finish(m)
  PROVE  Kept'
<1>1. lut' = m /\ phase' = "idle"
  BY DEF Finish
<1>2. Held' = {} /\ Pend' = 0
  BY <1>1 DEF Held, Pend
<1>3. Sound(lut, Held, Pend)'
  BY <1>1, <1>2, SoundNext
<1> QED BY <1>1, <1>3 DEF Kept

LEMMA IssueKept ==
  ASSUME HandlerFrame, NEW m, m \in Lut, NEW i \in ExactIo, NEW h \in Handlers,
         NEW n \in 0 .. BlockSize, NEW cmd, NEW phy, NEW off, NEW cnt,
         Sound(m, HeldBy(h, i), IF h \in Marking THEN 1 ELSE 0), Ready(h, i, m, cmd),
         Issue(cmd, phy, off, cnt, GoTo(i, h, n), m)
  PROVE  Kept'
<1> DEFINE j == GoTo(i, h, n)
<1>1. /\ j.handler = h /\ j.w_log = i.w_log /\ j.w_src = i.w_src /\ j.w_dst = i.w_dst
      /\ j.buf_offset = i.buf_offset /\ j.buf_count = i.buf_count /\ j.val = i.val
  BY GoToExact DEF SameRun
<1>2. io' = j /\ lut' = m /\ phase' = "exec" /\ tmp' = tmp /\ media' = media /\ req'.cmd = cmd
  BY DEF Issue, HandlerFrame
<1> HIDE DEF j
<1>3. Held' = HeldBy(h, i) /\ Pend' = IF h \in Marking THEN 1 ELSE 0
  BY <1>1, <1>2 DEF Held, HeldBy, Pend
<1>4. Sound(lut, Held, Pend)'
  BY <1>2, <1>3, SoundNext
<1>5. Old(io)' = Old(i) /\ New(io)' = New(i)
  <2>1. Old(io)' = Old(i)
    BY <1>1, <1>2 DEF Old
  <2> QED BY <1>1, <1>2, <2>1 DEF New
<1>6. PagesLoaded(i, m) => PagesLoaded(io, lut)'
  BY <1>1, <1>2 DEF PagesLoaded, PageSpan, FirstPage, PageOf
<1>7. Ready(io.handler, io, lut, req.cmd)'
  BY <1>1, <1>2, <1>5, <1>6 DEF Ready
<1> QED BY <1>2, <1>4, <1>7 DEF Kept

LEMMA EraseDstKept ==
  ASSUME Sized, HandlerFrame, NEW m, LutOK(m), NEW i \in ExactIo, i.w_dst \in Phy,
         i.w_src # i.w_dst, NEW error \in Errors,
         Sound(m, {i.w_dst}, IF error = "OK" THEN 0 ELSE 1),
         error = "OK" /\ i.buf_count < BlockSize => tmp = New(i),
         EraseDst(i, m, error)
  PROVE  Kept'
<1>0. m \in Lut
  BY DEF LutOK
<1>1. /\ HeldBy("mark_dst_bad", i) = {i.w_dst} /\ HeldBy("write_inc", i) = {i.w_dst}
      /\ "mark_dst_bad" \in Marking /\ "write_inc" \notin Marking
  BY DEF HeldBy, Writing, Marking
<1>2. CASE error = "EFAULT" /\ Issue("MARK_BAD", i.w_dst, 0, BlockSize, GoTo(i, "mark_dst_bad", 0), m)
  <2>1. Ready("mark_dst_bad", i, m, "MARK_BAD")
    BY DEF Ready
  <2>2. Sound(m, HeldBy("mark_dst_bad", i), 1)
    BY <1>1, <1>2
  <2> QED BY <1>0, <1>1, <1>2, <2>1, <2>2, HandlerNames, SizesExact, IssueKept
<1>3. CASE error = "EIO" /\ Finish(m)
  BY <1>0, <1>3, SoundDrop, FinishKept
<1>4. ASSUME error = "OK", NEW cmd \in {"WRITE", "WRITE_TMP"},
             Issue(cmd, i.w_dst, 0, BlockSize, GoTo(i, "write_inc", BlockSize), m)
      PROVE  Kept'
  <2>1. Ready("write_inc", i, m, cmd)
    BY <1>4 DEF Ready
  <2>2. Sound(m, HeldBy("write_inc", i), 0)
    BY <1>1, <1>4
  <2> QED BY <1>0, <1>1, <1>4, <2>1, <2>2, HandlerNames, SizesExact, IssueKept
<1> QED BY <1>2, <1>3, <1>4 DEF EraseDst

LEMMA PrepareDstKept ==
  ASSUME Sized, HandlerFrame, NEW m, LutOK(m), NEW i \in ExactIo, i.w_dst \in Phy,
         i.w_src # i.w_dst, Sound(m, {i.w_dst}, 0), i.buf_count < BlockSize => tmp = New(i),
         PrepareDst(i, m)
  PROVE  Kept'
<1>1. CASE EraseDst(i, m, "OK")
  BY <1>1, EraseDstKept DEF Errors
<1>2. CASE Issue("ERASE", i.w_dst, 0, 0, GoTo(i, "erase_dst", 0), m)
  <2>1. HeldBy("erase_dst", i) = {i.w_dst} /\ "erase_dst" \notin Marking /\ m \in Lut
    BY DEF HeldBy, Writing, Marking, LutOK
  <2>2. Ready("erase_dst", i, m, "ERASE")
    BY DEF Ready
  <2>3. Sound(m, HeldBy("erase_dst", i), 0)
    BY <2>1
  <2> QED BY <1>2, <2>1, <2>2, <2>3, HandlerNames, SizesExact, IssueKept
<1> QED BY <1>1, <1>2 DEF PrepareDst

\* There is a free block to write to, so that no block is written in place.
LEMMA WriteNextKept ==
  ASSUME Sized, HandlerFrame, NEW m, LutOK(m), NEW i \in ExactIo, i.rem_count # 0,
         Sound(m, {}, 0), WriteNext(i, m)
  PROVE  Kept'
<1>1. CASE Finish(m)
  BY <1>1, FinishKept DEF LutOK
<1>2. ASSUME NEW j, NEW n, NextBlock(i, m, j, n), WriteBlock(j, n)
      PROVE  Kept'
  <2>1. /\ j \in ExactIo /\ Chunk(j) /\ LutOK(n) /\ WriteFits(n, j)
        /\ j.w_src = m.block_table[j.w_log] /\ n.block_table = m.block_table
        /\ ZoneNo(i) \in Zones
    BY <1>2, SamePlace DEF NextBlock, Chunk
  <2>2. j.w_dst \notin m.data_map /\ n.data_map = m.data_map \cup {j.w_dst}
    BY <1>2, <2>1, HasFree DEF NextBlock
  <2>3. /\ j.w_dst \in Phy /\ j.w_dst # INVALID
        /\ j.w_src # j.w_dst
    BY <2>1, <2>2, ChunkFits, InvalidAssumption DEF WriteFits, LutOK, MappedInUse
  <2>4. Sound(n, {j.w_dst}, 0)
    BY <2>1, <2>2, <2>3, SoundTake
  <2>5. HeldBy("read_tmp_w", j) = {j.w_dst} /\ "read_tmp_w" \notin Marking /\ n \in Lut
    BY <2>1 DEF HeldBy, Writing, Marking, LutOK
  <2>6. Sound(n, HeldBy("read_tmp_w", j), 0)
    BY <2>4, <2>5
  <2>7. ASSUME NEW cmd \in {"ERASE_TMP", "READ_TMP"}, NEW phy,
               Issue(cmd, phy, 0, BlockSize, GoTo(j, "read_tmp_w", BlockSize), n)
        PROVE  Kept'
    <3>1. Ready("read_tmp_w", j, n, cmd)
      BY <2>3 DEF Ready
    <3> QED BY <2>1, <2>5, <2>6, <2>7, <3>1, HandlerNames, SizesExact, IssueKept
  <2>8. CASE j.buf_count = BlockSize /\ PrepareDst(j, n)
    <3>1. ~ (j.buf_count < BlockSize)
      BY <2>8, SizesExact
    <3> QED BY <2>1, <2>3, <2>4, <2>8, <3>1, PrepareDstKept
  <2> QED BY <1>2, <2>3, <2>7, <2>8 DEF WriteBlock
<1> QED BY <1>1, <1>2, WriteNextCases

LEMMA NextBlockOrEndKept ==
  ASSUME Sized, HandlerFrame, NEW m, LutOK(m), NEW i \in ExactIo,
         Sound(m, {}, 0), NextBlockOrEnd(i, m)
  PROVE  Kept'
<1>1. m \in Lut
  BY DEF LutOK
<1> QED BY <1>1, FinishKept, WriteNextKept DEF NextBlockOrEnd

\* A request that fails leaves no block held.
LEMMA FailedDrop ==
  ASSUME Sized, IInv, Kept, phase = "call"
  PROVE  /\ Sound(lut, HeldBy(io.handler, io), Pend)
         /\ Failed => Pend = 1
         /\ Pend = IF io.handler \in Marking \/ Failed THEN 1 ELSE 0
         /\ HeldBy(io.handler, io) = {} => Sound(lut, {}, 0)
         /\ Pend = 1 => Sound(lut, {}, 0)
<1>1. /\ LutOK(lut) /\ io \in ExactIo
  BY DEF Sized, IInv
<1>2. Pend = IF io.handler \in Marking \/ Failed THEN 1 ELSE 0
  BY DEF Pend
<1>3. Sound(lut, HeldBy(io.handler, io), Pend)
  BY DEF Kept, Held
<1>4. HeldBy(io.handler, io) = {} => Sound(lut, {}, 0)
  BY <1>1, <1>2, <1>3, SoundLess
<1>5. ASSUME NEW x, HeldBy(io.handler, io) = {x} PROVE x \in Phy
  BY <1>3, <1>5 DEF Sound, Apart
<1>6. HeldBy(io.handler, io) # {} => \E x : HeldBy(io.handler, io) = {x}
  BY DEF HeldBy
<1>7. Pend = 1 => Sound(lut, {}, 0)
  BY <1>1, <1>3, <1>4, <1>5, <1>6, SoundDrop
<1> QED BY <1>2, <1>3, <1>4, <1>7

LEMMA ReadsKept ==
  ASSUME Sized, IInv, Kept, HRead \/ HReadTmpR
  PROVE  Kept'
<1>1. /\ HandlerFrame /\ io \in ExactIo /\ phase = "call" /\ lut \in Lut
      /\ io.handler \in Reading /\ io.buf_count \in 0 .. BlockSize
  BY DEF HRead, HReadTmpR, Called, Sized, IInv, LutOK, Reading, ExactIo
<1>2. \A i, h : h \in Reading => HeldBy(h, i) = {} /\ h \notin Marking
  BY DEF HeldBy, Reading, Writing, Marking
<1>3. Sound(lut, {}, 0)
  BY <1>1, <1>2, FailedDrop
<1>4. CASE Finish(lut)
  BY <1>1, <1>3, <1>4, FinishKept
<1>5. ASSUME NEW i \in ExactIo, NEW h \in Reading, NEW n \in 0 .. BlockSize,
             NEW cmd, NEW phy, NEW off, NEW cnt, cmd = "FLUSH_TMP" => PagesLoaded(i, lut),
             Issue(cmd, phy, off, cnt, GoTo(i, h, n), lut)
      PROVE  Kept'
  <2>1. Ready(h, i, lut, cmd)
    BY <1>5 DEF Ready, Reading, Writing
  <2>2. Sound(lut, HeldBy(h, i), IF h \in Marking THEN 1 ELSE 0)
    BY <1>2, <1>3
  <2>3. h \in Handlers
    BY HandlerNames DEF Reading
  <2> QED BY <1>1, <1>5, <2>1, <2>2, <2>3, IssueKept
<1>6. CASE HRead
  <2>1. ASSUME NEW w \in ExactIo, Chunk(w), ReadChunk(w, lut)
        PROVE  Kept'
    <3>1. w.buf_count \in 0 .. BlockSize /\ PageSpan(w) * PageSize \in 0 .. BlockSize
      BY <2>1, ChunkFits, PagesOfRun, SizesExact
    <3> QED BY <1>5, <2>1, <3>1 DEF ReadChunk, Reading
  <2> QED BY <1>4, <1>6, <2>1, ReadPlace
<1>7. CASE HReadTmpR
  <2>1. ~ Failed => PagesLoaded(io, lut)
    BY <1>7 DEF HReadTmpR, Called, Kept, Result
  <2> QED BY <1>1, <1>4, <1>5, <1>7, <2>1 DEF HReadTmpR, Reading
<1> QED BY <1>6, <1>7

LEMMA WritesKept ==
  ASSUME Sized, IInv, Kept, HWrite \/ HReadTmpW \/ HFillTmp \/ HEraseDst \/ HMarkDstBad
                              \/ HMarkSrcBad \/ HNull
  PROVE  Kept'
<1>1. /\ io \in ExactIo /\ Answered /\ LutOK(lut) /\ lut \in Lut /\ phase = "call"
      /\ HandlerFrame /\ io.buf_count \in 0 .. BlockSize
  BY DEF Sized, IInv, HWrite, HReadTmpW, HFillTmp, HEraseDst, HMarkDstBad, HMarkSrcBad,
         HNull, Called, ExactIo, LutOK
<1>2. /\ Sound(lut, HeldBy(io.handler, io), Pend)
      /\ Pend = IF io.handler \in Marking \/ Failed THEN 1 ELSE 0
      /\ HeldBy(io.handler, io) = {} \/ Pend = 1 => Sound(lut, {}, 0)
  BY <1>1, FailedDrop
<1>3. ASSUME Finish(lut), HeldBy(io.handler, io) = {} \/ Pend = 1
      PROVE  Kept'
  BY <1>1, <1>2, <1>3, FinishKept
<1>4. ASSUME io.rem_count # 0, WriteNext(io, lut), HeldBy(io.handler, io) = {} \/ Pend = 1
      PROVE  Kept'
  BY <1>1, <1>2, <1>4, WriteNextKept
<1>5. ASSUME io.handler \in Writing \ Marking
      PROVE  /\ HeldBy(io.handler, io) = {io.w_dst} /\ io.w_dst \in Phy
             /\ io.w_src # io.w_dst /\ Pend = (IF Failed THEN 1 ELSE 0)
  <2>1. HeldBy(io.handler, io) = {io.w_dst}
    BY <1>5 DEF HeldBy
  <2> QED BY <1>1, <1>2, <1>5, <2>1 DEF Sound, Apart, Kept, Result
<1>6. CASE HWrite
  BY <1>1, <1>3, <1>4, <1>6 DEF HWrite, Called, Answered, HeldBy, Writing
<1>7. CASE HReadTmpW
  <2>1. io.handler \in Writing \ Marking /\ io.handler = "read_tmp_w"
    BY <1>7 DEF HReadTmpW, Called, Writing, Marking
  <2>2. CASE Failed \/ Short
    <3>1. Failed
      BY <1>1, <2>1, <2>2 DEF Answered
    <3> QED BY <1>2, <1>3, <1>7, <3>1 DEF HReadTmpW
  <2>3. CASE ~ Failed /\ ~ Short
    <3>1. Issue("FILL_TMP", INVALID, io.buf_offset, io.buf_count,
                 GoTo(io, "fill_tmp", io.buf_count), lut)
      BY <1>7, <2>3 DEF HReadTmpW
    <3>2. Ready("fill_tmp", io, lut, "FILL_TMP")
      BY <1>1, <1>5, <2>1, <2>3 DEF Ready, Kept, Result
    <3>3. HeldBy("fill_tmp", io) = {io.w_dst} /\ "fill_tmp" \notin Marking
      BY DEF HeldBy, Writing, Marking
    <3>4. Sound(lut, HeldBy("fill_tmp", io), 0)
      BY <1>2, <1>5, <2>1, <2>3, <3>3
    <3> QED BY <1>1, <3>1, <3>2, <3>3, <3>4, HandlerNames, IssueKept
  <2> QED BY <2>2, <2>3
<1>8. CASE HFillTmp
  <2>1. io.handler \in Writing \ Marking /\ io.handler = "fill_tmp"
    BY <1>8 DEF HFillTmp, Called, Writing, Marking
  <2>2. CASE Failed \/ Short
    <3>1. Failed
      BY <1>1, <2>1, <2>2 DEF Answered
    <3> QED BY <1>2, <1>3, <1>8, <3>1 DEF HFillTmp
  <2>3. CASE ~ Failed /\ ~ Short
    <3>1. PrepareDst(io, lut)
      BY <1>8, <2>3 DEF HFillTmp
    <3>2. tmp = New(io) /\ Sound(lut, {io.w_dst}, 0)
      BY <1>1, <1>2, <1>5, <2>1, <2>3 DEF Kept, Result
    <3> QED BY <1>1, <1>5, <2>1, <3>1, <3>2, PrepareDstKept
  <2> QED BY <2>2, <2>3
<1>9. CASE HEraseDst
  <2>1. io.handler \in Writing \ Marking /\ io.handler = "erase_dst"
    BY <1>9 DEF HEraseDst, Called, Writing, Marking
  <2>2. EraseDst(io, lut, ret.error) /\ ret.error \in Errors
    BY <1>9 DEF HEraseDst, Sized, TypeOK
  <2>3. ret.error = "OK" /\ io.buf_count < BlockSize => tmp = New(io)
    BY <1>1, <2>1 DEF Kept, Result, Failed
  <2>4. Sound(lut, {io.w_dst}, IF ret.error = "OK" THEN 0 ELSE 1)
    BY <1>2, <1>5, <2>1 DEF Failed
  <2> QED BY <1>1, <1>5, <2>1, <2>2, <2>3, <2>4, EraseDstKept
<1>10. CASE HMarkDstBad \/ HMarkSrcBad \/ HNull
  <2>1. Pend = 1
    BY <1>2, <1>10 DEF HMarkDstBad, HMarkSrcBad, HNull, Called, Marking
  <2> QED BY <1>3, <1>4, <1>10, <2>1 DEF HMarkDstBad, HMarkSrcBad, HNull
<1> QED BY <1>6, <1>7, <1>8, <1>9, <1>10

LEMMA HWriteIncKept ==
  ASSUME Reliable, Sized, IInv, Kept, HWriteInc
  PROVE  Kept'
<1> DEFINE i == Advance(io, io.buf_count)
           m == Commit(lut, io)
           e == [m EXCEPT !.erase_map = @ \ {io.w_src}]
           H == IF io.w_src = INVALID THEN {} ELSE {io.w_src}
<1>1. /\ io \in ExactIo /\ Answered /\ Chunk(io) /\ LutOK(lut) /\ lut \in Lut /\ io \in ActiveIo
      /\ WriteFits(lut, io) /\ HandlerFrame /\ phase = "call" /\ io.handler = "write_inc"
      /\ io.val \in Values
  BY DEF Sized, IInv, HWriteInc, Called, Fits, AtWork, Writing, Reading, LutOK
<1>2. /\ i \in ExactIo /\ i.w_src = io.w_src
  BY <1>1, ChunkFits, AdvanceExact
<1>3. /\ LutOK(m) /\ m.data_map = lut.data_map
      /\ m.block_table = [lut.block_table EXCEPT ![io.w_log] = io.w_dst]
  BY <1>1, CommitOK DEF Commit, Lut
<1>4. /\ e.data_map = m.data_map /\ e.block_table = m.block_table /\ e.free_cnt = m.free_cnt
      /\ e \in Lut
  <2>1. m \in Lut
    BY <1>3 DEF LutOK
  <2> HIDE DEF m
  <2> QED BY <2>1 DEF Lut
<1>5. LutOK(e)
  BY <1>3, <1>4, CountUnchanged DEF LutOK, MappedInUse, MappedOnce
<1>6. /\ HeldBy("write_inc", io) = {io.w_dst} /\ HeldBy("null", io) = {io.w_dst}
      /\ "null" \in Marking /\ "write_inc" \notin Marking
      /\ HeldBy("erase_src", i) = {i.w_src} /\ "erase_src" \notin Marking
  BY DEF HeldBy, Writing, Marking
<1>7. /\ Sound(lut, {io.w_dst}, Pend) /\ Pend = IF Failed THEN 1 ELSE 0
      /\ Pend = 1 => Sound(lut, {}, 0)
  BY <1>1, <1>6, FailedDrop
<1>8. io.w_src # io.w_dst /\ io.w_dst \in Phy
  BY <1>1, <1>6 DEF Kept, Result, Writing, WriteFits
<1>9. ASSUME ~ Failed PROVE Sound(m, H, 0) /\ Sound(e, H, 0)
  <2>1. media[io.w_dst] = [bad |-> FALSE, tag |-> [g \in Pages |-> io.w_log[2]], data |-> New(io)]
    BY <1>1, <1>9 DEF Kept, Result
  <2>2. BlockClaims(media[io.w_dst], io.w_log[2])
    BY <2>1, SizesExact DEF BlockClaims, Pages
  <2>3. \A s \in Offsets : media[io.w_dst].data[s] # JUNK
    <3>1. io.w_src # INVALID => \A s \in Offsets : media[io.w_src].data[s] # JUNK
      BY <1>1, <1>7 DEF Sound, Fine, WriteFits
    <3>2. \A s \in Offsets : New(io)[s] # JUNK
      BY <1>1, <3>1 DEF New, Old, Reliable
    <3> QED BY <2>1, <3>2
  <2>4. Sound(lut, {io.w_dst}, 0)
    BY <1>7, <1>9
  <2> HIDE DEF m, e
  <2>5. Sound(m, H, 0)
    BY <1>1, <1>3, <1>8, <2>2, <2>3, <2>4, SoundCommit
  <2>6. Sound(e, H, 0)
    BY <1>1, <1>3, <1>4, <1>5, <1>8, <2>2, <2>3, <2>4, SoundCommit
  <2> QED BY <2>5, <2>6
<1> HIDE DEF i, m, e
<1>10. CASE /\ ret.error = "EFAULT"
            /\ Issue("MARK_BAD", io.w_dst, 0, BlockSize, GoTo(io, "null", 0),
                     MarkUsed(lut, io.w_dst))
  <2> DEFINE u == MarkUsed(lut, io.w_dst)
  <2>1. /\ LutOK(u) /\ u.block_table = lut.block_table /\ u.data_map = lut.data_map \cup {io.w_dst}
    BY <1>1, <1>8, MarkUsedOK DEF MarkUsed, Lut
  <2> HIDE DEF u
  <2>2. Sound(u, HeldBy("null", io), 1)
    BY <1>1, <1>6, <1>7, <1>8, <1>10, <2>1, SoundHeld DEF Failed
  <2>3. Ready("null", io, u, "MARK_BAD") /\ u \in Lut
    BY <1>8, <2>1 DEF Ready, LutOK
  <2> QED BY <1>1, <1>6, <1>10, <2>2, <2>3, HandlerNames, SizesExact, IssueKept DEF u
<1>11. CASE (ret.error = "EIO" \/ (ret.error = "OK" /\ Short)) /\ Finish(lut)
  <2>1. Failed
    BY <1>1, <1>11 DEF Answered, Failed
  <2> QED BY <1>1, <1>7, <1>11, <2>1, FinishKept
<1>12. CASE /\ ~ Failed /\ io.w_src \notin {io.w_dst, INVALID}
            /\ Issue("ERASE", io.w_src, 0, 0, GoTo(i, "erase_src", 0), e)
  <2>1. Sound(e, HeldBy("erase_src", i), 0)
    BY <1>2, <1>6, <1>9, <1>12
  <2>2. Ready("erase_src", i, e, "ERASE")
    BY DEF Ready, Writing
  <2> QED BY <1>1, <1>2, <1>4, <1>6, <1>12, <2>1, <2>2, HandlerNames, SizesExact, IssueKept
<1>13. CASE ~ Failed /\ io.w_src \in {io.w_dst, INVALID} /\ NextBlockOrEnd(i, m)
  <2>1. Sound(m, {}, 0)
    BY <1>8, <1>9, <1>13
  <2> QED BY <1>1, <1>2, <1>3, <1>13, <2>1, NextBlockOrEndKept
<1> QED BY <1>10, <1>11, <1>12, <1>13 DEF HWriteInc, i, m, e

LEMMA HEraseSrcKept ==
  ASSUME Reliable, Sized, IInv, Kept, HEraseSrc
  PROVE  Kept'
<1> DEFINE m == MarkErased(lut, io.w_src)
           u == MarkUsed(m, io.w_src)
<1>1. /\ io \in ExactIo /\ LutOK(lut) /\ lut \in Lut /\ SrcUnmapped(lut, io) /\ HandlerFrame
      /\ phase = "call" /\ io.handler = "erase_src" /\ io.w_src \in Phy
  BY DEF Sized, IInv, HEraseSrc, Called, Fits, LutOK, SrcUnmapped
<1>2. LutOK(m) /\ m \in Lut
  BY <1>1, MarkErasedOK DEF SrcUnmapped, LutOK
<1>3. m.data_map = lut.data_map \ {io.w_src} /\ m.block_table = lut.block_table
  BY <1>1 DEF MarkErased, Lut
<1> HIDE DEF m
<1>4. /\ LutOK(u) /\ u \in Lut /\ u.block_table = lut.block_table
      /\ u.data_map \ {io.w_src} = lut.data_map \ {io.w_src}
  <2>1. LutOK(u) /\ u \in Lut
    BY <1>1, <1>2, MarkUsedOK DEF LutOK
  <2>2. u.block_table = m.block_table /\ u.data_map = m.data_map \cup {io.w_src}
    BY <1>2 DEF MarkUsed, Lut
  <2> QED BY <1>3, <2>1, <2>2
<1> HIDE DEF u
<1>5. /\ HeldBy("erase_src", io) = {io.w_src} /\ "erase_src" \notin Marking
      /\ HeldBy("mark_src_bad", io) = {io.w_src} /\ "mark_src_bad" \in Marking
  BY DEF HeldBy, Writing, Marking
<1>6. Sound(lut, {io.w_src}, Pend) /\ Pend = (IF Failed THEN 1 ELSE 0) /\ Pend \in {0, 1}
  BY <1>1, <1>5, FailedDrop
<1>7. ASSUME ret.error # "EFAULT" PROVE Sound(m, {}, 0)
  <2>1. media[io.w_src] = ErasedBlock /\ ERASED \notin LogBlocks
    BY <1>1, <1>7 DEF IInv, SrcErased, Reliable
  <2>2. Sound(m, {}, Pend)
    BY <1>1, <1>2, <1>3, <1>6, <2>1, SoundFreed
  <2> QED BY <1>2, <1>6, <2>2, SoundLess
<1>8. CASE /\ ret.error = "EFAULT"
           /\ Issue("MARK_BAD", io.w_src, 0, BlockSize, GoTo(io, "mark_src_bad", 0), u)
  <2>1. Sound(u, HeldBy("mark_src_bad", io), 1)
    BY <1>1, <1>4, <1>5, <1>6, <1>8, SoundHeld DEF Failed
  <2>2. Ready("mark_src_bad", io, u, "MARK_BAD")
    BY DEF Ready, Writing
  <2> QED BY <1>1, <1>4, <1>5, <1>8, <2>1, <2>2, HandlerNames, SizesExact, IssueKept
<1>9. CASE ret.error = "EIO" /\ Finish(m)
  BY <1>1, <1>2, <1>7, <1>9, FinishKept
<1>10. CASE ret.error = "OK" /\ NextBlockOrEnd(io, m)
  BY <1>1, <1>2, <1>7, <1>10, NextBlockOrEndKept
<1> QED BY <1>8, <1>9, <1>10 DEF HEraseSrc, m, u

LEMMA HandlerKept ==
  ASSUME Reliable, Sized, IInv, Kept, Handler
  PROVE  Kept'
BY ReadsKept, WritesKept, HWriteIncKept, HEraseSrcKept DEF Handler

-----------------------------------------------------------------------------
(* Commands change the card in the block held only.                        *)

LEMMA ExecSound ==
  ASSUME Sized, IInv, Kept, phase = "exec", phase' = "call", UNCHANGED <<lut, io>>,
         \A p \in Phy : p \notin Held => media'[p] = media[p],
         \/ faults' = faults /\ Pend' = Pend
         \/ faults' = faults + 1 /\ Pend' \in {Pend, Pend + 1}
  PROVE  Sound(lut, Held, Pend)'
<1>1. /\ Sound(lut, Held, Pend) /\ Held' = Held /\ lut' = lut /\ lut \in Lut /\ LutOK(lut)
  BY DEF Kept, Held, IInv, LutOK
<1>2. /\ lut.data_map \subseteq Phy /\ lut.block_table \in [Log -> Phy \cup {INVALID}]
  BY <1>1 DEF Lut
<1>3. Gone(lut, Held)' = Gone(lut, Held)
  BY <1>1, <1>2 DEF Gone, Strays
<1>4. \A z \in Zones : Waste(lut, Held, z)' = Waste(lut, Held, z)
  BY <1>1, <1>2 DEF Waste, Strays
<1>5. Counted(lut, Held, Pend)'
  <2>0. Pend \in Nat
    BY DEF Pend
  <2>1. /\ faults \in Nat /\ Pend \in Nat /\ LogBlockCnt \in Nat /\ PhyBlockCnt \in Nat
        /\ MaxFaults \in Nat /\ Cardinality(Gone(lut, Held)) \in Nat
        /\ \A z \in Zones : Cardinality(Waste(lut, Held, z)) \in Nat
    <3>1. faults \in Nat /\ MaxFaults \in Nat /\ LogBlockCnt \in Nat /\ PhyBlockCnt \in Nat
      BY PageAssumption, GeometryAssumption DEF Sized, TypeOK
    <3> QED BY <1>1, <2>0, <3>1, CountTypes
  <2>2. Counted(lut, Held, Pend)
    BY <1>1 DEF Sound
  <2>3. Cardinality(Gone(lut, Held)) + Pend' <= faults'
    BY <2>1, <2>2 DEF Counted
  <2>4. ASSUME NEW z \in Zones
        PROVE  Cardinality(Waste(lut, Held, z)) + Pend' + LogBlockCnt + MaxFaults
                 < PhyBlockCnt + faults'
    BY <2>1, <2>2 DEF Counted
  <2> QED BY <1>3, <1>4, <2>3, <2>4 DEF Counted
<1>6. Apart(lut, Held)'
  BY <1>1 DEF Sound, Apart
<1>7. Fine(lut)'
  <2>1. \A l \in Log : lut.block_table[l] # INVALID =>
          media'[lut.block_table[l]] = media[lut.block_table[l]]
    BY <1>1, <1>2 DEF Sound, Apart
  <2> QED BY <1>1, <2>1 DEF Sound, Fine
<1>8. (MaxFaults = 0 => Found(lut, Held, Phy))'
  BY <1>1 DEF Sound, Found
<1> QED BY <1>5, <1>6, <1>7, <1>8 DEF Sound

\* What a command does to what the request relies on.
LEMMA Executed ==
  ASSUME Sized, IInv, Kept, Execute
  PROVE  /\ phase = "exec" /\ phase' = "call" /\ UNCHANGED <<lut, io>>
         /\ \A p \in Phy : p \notin Held => media'[p] = media[p]
         /\ req.cmd \notin Changing => media' = media
         /\ Asks(io.handler, io, lut, req.cmd, req.phy, req.off, req.cnt, io.req_count)
         /\ io \in ExactIo /\ Held = HeldBy(io.handler, io)
         /\ Fault => faults' = faults + 1 /\ Pend' \in {Pend, Pend + 1}
         /\ ~ Fault => faults' = faults /\ Pend' = Pend
         /\ io.handler # "read" /\ ~ Failed' => ~ Fault
<1>1. phase = "exec" /\ phase' = "call" /\ UNCHANGED <<lut, io>>
  BY DEF Execute, ExecRead, ExecReadTmp, ExecFlushTmp, ExecSkip, ExecEraseTmp,
         ExecFillTmp, ExecErase, ExecWrite, ExecMarkBad, Fault, Exec, ExecFrame, Done
<1>2. /\ Asks(io.handler, io, lut, req.cmd, req.phy, req.off, req.cnt, io.req_count)
      /\ io \in ExactIo
  BY <1>1, Command DEF Asked
<1>3. Held = HeldBy(io.handler, io)
  BY <1>1 DEF Held
<1>4. req.cmd \in Changing => req.phy \in Held
  BY <1>2, <1>3 DEF Asks, HeldBy, Writing, Changing
<1>5. /\ \A p \in Phy : p # req.phy => media'[p] = media[p]
      /\ req.cmd \notin Changing => media' = media
  <2>0. media = [p \in Phy |-> media[p]]
    BY DEF IInv
  <2>1. ASSUME NEW b, media' = [media EXCEPT ![req.phy] = b]
        PROVE  \A p \in Phy : p # req.phy => media'[p] = media[p]
    BY <2>0, <2>1
  <2>2. CASE ExecErase
    BY <2>1, <2>2 DEF ExecErase, Exec, Erased, Changing
  <2>3. CASE ExecWrite
    BY <2>1, <2>3 DEF ExecWrite, Exec, Written, Changing
  <2>4. CASE ExecMarkBad
    BY <2>0, <2>4 DEF ExecMarkBad, Exec, Changing
  <2>5. CASE Fault
    BY <2>0, <2>5, InterruptedElsewhere DEF Fault
  <2>6. CASE ExecRead \/ ExecReadTmp \/ ExecFlushTmp \/ ExecSkip \/ ExecEraseTmp \/ ExecFillTmp
    BY <2>6 DEF ExecRead, ExecReadTmp, ExecFlushTmp, ExecSkip, ExecEraseTmp, ExecFillTmp
  <2> QED BY <2>2, <2>3, <2>4, <2>5, <2>6 DEF Execute
<1>6. \A p \in Phy : p \notin Held => media'[p] = media[p]
  BY <1>4, <1>5
<1>7. Fault => faults' = faults + 1 /\ Pend' \in {Pend, Pend + 1}
  BY <1>1 DEF Fault, Pend
<1>8. ~ Fault => faults' = faults /\ Pend' = Pend
  <2> SUFFICES ASSUME ~ Fault PROVE faults' = faults /\ Pend' = Pend
    OBVIOUS
  <2>1. faults' = faults /\ ~ Failed'
    BY DEF Execute, ExecRead, ExecReadTmp, ExecFlushTmp, ExecSkip, ExecEraseTmp,
           ExecFillTmp, ExecErase, ExecWrite, ExecMarkBad, ExecFrame, Done, Failed
  <2> QED BY <1>1, <2>1 DEF Pend
<1>9. io.handler # "read" /\ ~ Failed' => ~ Fault
  <2> SUFFICES ASSUME Fault, ~ Failed' PROVE io.handler = "read"
    OBVIOUS
  <2>1. PICK e \in Errors : CanFail(e) /\ ret' = [count |-> 0, error |-> e]
    BY DEF Fault
  <2>2. e = "OK"
    BY <2>1 DEF Failed
  <2>3. req.cmd = "READ"
    BY <2>1, <2>2 DEF CanFail
  <2> QED BY <1>2, <2>3 DEF Asks
<1> QED BY <1>1, <1>2, <1>3, <1>5, <1>6, <1>7, <1>8, <1>9

LEMMA SameData ==
  ASSUME Sized, IInv, Kept, Execute, io.handler \in Writing
  PROVE  Old(io)' = Old(io) /\ New(io)' = New(io) /\ io.w_src # io.w_dst
<1>1. /\ io' = io /\ io \in ExactIo /\ Held = {io.w_dst}
      /\ \A p \in Phy : p \notin Held => media'[p] = media[p]
      /\ io.w_src # io.w_dst
  <2>1. phase = "exec"
    BY Executed
  <2> QED BY <2>1, Executed DEF HeldBy, Kept, Ready
<1>2. io.w_src \in Phy \cup {INVALID}
  BY <1>1 DEF ExactIo
<1>3. Old(io)' = Old(io)
  BY <1>1, <1>2 DEF Old
<1> QED BY <1>1, <1>3 DEF New

LEMMA BlockWritten ==
  ASSUME Reliable, Sized, IInv, Erasable, Kept, Execute, io.handler = "write_inc", ~ Fault
  PROVE  media'[io.w_dst] = [bad |-> FALSE, tag |-> [g \in Pages |-> io.w_log[2]],
                             data |-> New(io)]
<1>1. /\ phase = "exec" /\ io \in ExactIo /\ io.w_src # io.w_dst
      /\ Asks("write_inc", io, lut, req.cmd, req.phy, req.off, req.cnt, io.req_count)
  BY Executed, SameData DEF Writing
<1>2. /\ req.cmd \in {"WRITE", "WRITE_TMP"} /\ req.phy = io.w_dst
      /\ req.cmd = "WRITE" => io.buf_count = BlockSize
      /\ req.cmd = "WRITE_TMP" => io.buf_count < BlockSize
  BY <1>1 DEF Asks
<1>3. ExecWrite
  BY <1>2 DEF Execute, ExecRead, ExecReadTmp, ExecFlushTmp, ExecSkip, ExecEraseTmp,
              ExecFillTmp, ExecErase, ExecMarkBad, Exec
<1>4. media[io.w_dst] = ErasedBlock /\ ERASED \notin LogBlocks
  BY <1>1 DEF Erasable, ErasedFor, Reliable
<1> DEFINE l == io.w_log[2]
           b == Program(ErasedBlock, l, SourceData, PageCnt)
<1>5. l \in LogBlocks /\ SourceData \in [Offsets -> Cell]
  BY <1>1, <1>2, LogAddress, SourceType
<1>6. media'[io.w_dst] = b
  BY <1>1, <1>2, <1>3, <1>4, WrittenBlock DEF ExecWrite, Media
<1> HIDE DEF l
<1>7. /\ b \in MediaBlock /\ b.bad = FALSE
      /\ b.tag = [g \in Pages |-> l] /\ b.data = [s \in Offsets |-> SourceData[s]]
  <2>1. /\ ErasedBlock.bad = FALSE /\ \A g \in Pages : ErasedBlock.tag[g] = ERASED
    BY DEF ErasedBlock
  <2>2. /\ \A g \in Pages : ~ (g >= PageCnt)
        /\ \A s \in Offsets : ~ (PageOf(s) >= PageCnt) /\ PageOf(s) \in Pages
    BY PageOfSector, SizesExact DEF Pages
  <2> HIDE DEF b
  <2>3. /\ b \in MediaBlock /\ b.bad = ErasedBlock.bad
        /\ b.tag = [g \in Pages |-> IF g >= PageCnt THEN ErasedBlock.tag[g]
                                    ELSE IF ErasedBlock.tag[g] \in {ERASED, l} THEN l ELSE GARBLED]
        /\ b.data = [s \in Offsets |-> IF PageOf(s) >= PageCnt THEN ErasedBlock.data[s]
                                       ELSE IF ErasedBlock.tag[PageOf(s)] = ERASED
                                            THEN SourceData[s] ELSE JUNK]
    BY <1>5, ErasedType, ProgramFields DEF b
  <2> QED BY <2>1, <2>2, <2>3
<1> HIDE DEF b
<1>8. SourceData = New(io)
  <2>1. CASE req.cmd = "WRITE"
    <3>1. io.buf_offset = 0 /\ io.buf_count = BlockSize
      <4>1. Chunk(io)
        BY <1>1, Executed DEF Sized, AtWork, Writing
      <4>2. io.buf_offset + io.buf_count <= BlockSize /\ io.buf_offset \in Nat
        BY <1>1, <4>1, ChunkFits, SizesExact DEF ExactIo, Offsets
      <4> QED BY <1>2, <2>1, <4>2, SizesExact
    <3>2. \A s \in Offsets : s \in io.buf_offset .. io.buf_offset + io.buf_count - 1
      BY <3>1, SizesExact DEF Offsets
    <3>3. SourceData = [s \in Offsets |-> io.val]
      BY <2>1 DEF SourceData
    <3> QED BY <3>2, <3>3 DEF New
  <2>2. CASE req.cmd = "WRITE_TMP"
    BY <1>1, <1>2, <2>2, Executed DEF SourceData, Kept, Ready
  <2> QED BY <1>2, <2>1, <2>2
<1>9. b.data = New(io)
  BY <1>5, <1>7, <1>8
<1>10. b = [bad |-> b.bad, tag |-> b.tag, data |-> b.data]
  BY <1>7 DEF MediaBlock
<1> QED BY <1>6, <1>7, <1>9, <1>10 DEF l

LEMMA ExecResult ==
  ASSUME Reliable, Sized, IInv, Erasable, Kept, Execute
  PROVE  Result(io.handler, io, lut)'
<1>1. /\ phase = "exec" /\ phase' = "call" /\ lut' = lut /\ io' = io /\ io \in ExactIo
      /\ Asks(io.handler, io, lut, req.cmd, req.phy, req.off, req.cnt, io.req_count)
      /\ req.cmd \notin Changing => media' = media
  BY Executed
<1>2. io.handler \in Writing => /\ Old(io)' = Old(io) /\ New(io)' = New(io)
                                /\ io.w_src # io.w_dst
  BY SameData
<1>3. tmp \in [Offsets -> Cell]
  BY DEF Sized, TypeOK
<1>4. CASE Failed' \/ io.handler = "read"
  BY <1>1, <1>2, <1>4 DEF Result, Writing
<1>5. CASE ~ Failed' /\ io.handler = "read_tmp_r"
  <2>1. /\ ExecReadTmp /\ req.phy = lut.block_table[io.w_log]
        /\ req.cnt = PageSpan(io) * PageSize /\ req.off = FirstPage(io) * PageSize
        /\ media' = media
    <3>1. ~ Fault /\ req.cmd = "READ_TMP"
      BY <1>1, <1>5, Executed DEF Asks
    <3> QED BY <1>1, <1>5, <3>1 DEF Asks, Execute, ExecRead, ExecReadTmp, ExecFlushTmp, ExecSkip,
            ExecEraseTmp, ExecFillTmp, ExecErase, ExecWrite, ExecMarkBad, Exec
  <2>2. req.cnt \in 0 .. BlockSize
    BY <1>1, Command
  <2>3. PageSpan(io)' = PageSpan(io) /\ FirstPage(io)' = FirstPage(io)
    BY <1>1 DEF PageSpan, FirstPage, PageOf
  <2>4. ASSUME NEW k \in 0 .. PageSpan(io) * PageSize - 1
        PROVE  tmp'[k] = media[lut.block_table[io.w_log]].data[FirstPage(io) * PageSize + k]
    <3>1. k \in 0 .. req.cnt - 1
      BY <2>1
    <3>2. k \in Offsets /\ k < req.cnt
      BY <2>2, <3>1, SizesExact DEF Offsets
    <3>3. tmp' = LoadTmp(req.phy, req.off, req.cnt)
      BY <2>1 DEF ExecReadTmp
    <3> QED BY <2>1, <3>2, <3>3 DEF LoadTmp
  <2>5. PagesLoaded(io, lut)'
    BY <1>1, <2>1, <2>3, <2>4 DEF PagesLoaded
  <2> QED BY <1>1, <1>5, <2>5 DEF Result, Writing
<1>6. CASE ~ Failed' /\ io.handler = "read_tmp_w"
  <2>1. /\ ~ Fault /\ req.cmd \in {"ERASE_TMP", "READ_TMP"} /\ req.cnt = BlockSize /\ req.off = 0
        /\ req.cmd = "ERASE_TMP" => io.w_src = INVALID
        /\ req.cmd = "READ_TMP" => req.phy = io.w_src /\ io.w_src # INVALID
    BY <1>1, <1>6, Executed DEF Asks
  <2>2. \A s \in Offsets : s \in Nat /\ s < BlockSize /\ s \in 0 .. 0 + BlockSize - 1 /\ 0 + s = s
    BY SizesExact DEF Offsets
  <2>3. CASE req.cmd = "ERASE_TMP"
    <3>1. tmp' = [s \in Offsets |-> IF s \in 0 .. 0 + BlockSize - 1 THEN BLANK ELSE tmp[s]]
      BY <2>1, <2>3 DEF Execute, ExecRead, ExecReadTmp, ExecFlushTmp, ExecSkip,
           ExecEraseTmp, ExecFillTmp, ExecErase, ExecWrite, ExecMarkBad, Exec
    <3>2. tmp' = Old(io)
      BY <2>1, <2>2, <2>3, <3>1 DEF Old
    <3> QED BY <1>1, <1>2, <1>6, <3>2 DEF Result, Writing
  <2>4. CASE req.cmd = "READ_TMP"
    <3>1. tmp' = LoadTmp(io.w_src, 0, BlockSize)
      BY <2>1, <2>4 DEF Execute, ExecRead, ExecReadTmp, ExecFlushTmp, ExecSkip,
           ExecEraseTmp, ExecFillTmp, ExecErase, ExecWrite, ExecMarkBad, Exec
    <3>2. tmp' = Old(io)
      BY <2>1, <2>2, <2>4, <3>1 DEF Old, LoadTmp
    <3> QED BY <1>1, <1>2, <1>6, <3>2 DEF Result, Writing
  <2> QED BY <2>1, <2>3, <2>4
<1>7. CASE ~ Failed' /\ io.handler = "fill_tmp"
  <2>1. ~ Fault /\ req.cmd = "FILL_TMP" /\ req.off = io.buf_offset /\ req.cnt = io.buf_count
    BY <1>1, <1>7, Executed DEF Asks
  <2>2. tmp' = [s \in Offsets |-> IF s \in req.off .. req.off + req.cnt - 1
                                  THEN io.val ELSE tmp[s]]
    BY <2>1 DEF Execute, ExecRead, ExecReadTmp, ExecFlushTmp, ExecSkip,
           ExecEraseTmp, ExecFillTmp, ExecErase, ExecWrite, ExecMarkBad, Exec
  <2>3. tmp = Old(io)
    BY <1>1, <1>7 DEF Kept, Ready
  <2>4. tmp' = New(io)
    BY <2>1, <2>2, <2>3 DEF New
  <2> QED BY <1>1, <1>2, <1>7, <2>4 DEF Result, Writing
<1>8. CASE ~ Failed' /\ io.handler = "erase_dst"
  <2>1. ~ Fault /\ req.cmd = "ERASE"
    BY <1>1, <1>8, Executed DEF Asks
  <2>2. tmp' = tmp
    BY <2>1 DEF Execute, ExecRead, ExecReadTmp, ExecFlushTmp, ExecSkip,
           ExecEraseTmp, ExecFillTmp, ExecErase, ExecWrite, ExecMarkBad, Exec
  <2>3. io.buf_count < BlockSize => tmp = New(io)
    BY <1>1, <1>8 DEF Kept, Ready
  <2> QED BY <1>1, <1>2, <1>8, <2>2, <2>3 DEF Result, Writing
<1>9. CASE ~ Failed' /\ io.handler = "write_inc"
  <2>1. ~ Fault
    BY <1>9, Executed
  <2>2. media'[io.w_dst] = [bad |-> FALSE, tag |-> [g \in Pages |-> io.w_log[2]],
                            data |-> New(io)]
    BY <1>9, <2>1, BlockWritten
  <2> QED BY <1>1, <1>2, <1>9, <2>2 DEF Result, Writing
<1>10. CASE io.handler \in {"mark_dst_bad", "null", "erase_src", "mark_src_bad"}
  BY <1>1, <1>2, <1>10 DEF Result, Writing
<1>11. io.handler \notin {"write"} /\ io.handler \in Handlers
  BY <1>1 DEF Asks, ExactIo
<1> QED BY <1>4, <1>5, <1>6, <1>7, <1>8, <1>9, <1>10, <1>11 DEF Handlers

LEMMA ExecuteKept ==
  ASSUME Reliable, Sized, IInv, Erasable, Kept, Execute
  PROVE  Kept'
<1>1. phase' = "call" /\ Sound(lut, Held, Pend)'
  BY Executed, ExecSound
<1>2. Result(io.handler, io, lut)'
  BY ExecResult
<1> QED BY <1>1, <1>2 DEF Kept

-----------------------------------------------------------------------------
(* The scan of a card.                                                     *)

LEMMA BeforeNext ==
  ASSUME NEW p \in Phy, NEW q \in Phy, Before(q, NextPhy(p))
  PROVE  Before(q, p) \/ q = p
<1>1. /\ p = <<p[1], p[2]>> /\ q = <<q[1], q[2]>> /\ p[1] \in Nat /\ q[1] \in Nat
      /\ p[2] \in Blocks /\ q[2] \in Blocks
  BY DEF Phy, Zones
<1>2. CASE p[2] + 1 < PhyBlockCnt
  <2>1. NextPhy(p) = <<p[1], p[2] + 1>>
    BY <1>2 DEF NextPhy
  <2> QED BY <1>1, <2>1, GeometryAssumption DEF Before, Blocks
<1>3. CASE ~ (p[2] + 1 < PhyBlockCnt)
  <2>1. NextPhy(p) = <<p[1] + 1, 0>>
    BY <1>3 DEF NextPhy
  <2> QED BY <1>1, <1>3, <2>1, GeometryAssumption DEF Before, Blocks
<1> QED BY <1>2, <1>3

\* The maps a scan starts from.
LEMMA FreshParts ==
  /\ FreshLut(CisBlock) \in Lut
  /\ Apart(FreshLut(CisBlock), {}) /\ Fine(FreshLut(CisBlock))
  /\ Found(FreshLut(CisBlock), {}, {p \in Phy : Before(p, FirstScan)})
  /\ Strays(FreshLut(CisBlock)) = {}
<1> DEFINE f == FreshLut(CisBlock)
<1>1. f \in Lut /\ f.data_map = Own /\ f.block_table = [l \in Log |-> INVALID]
  BY FreshFits DEF LutOK, FreshLut, Own
<1> HIDE DEF f
<1>2. Apart(f, {}) /\ Fine(f) /\ Strays(f) = {}
  BY <1>1 DEF Apart, Fine, Strays
<1>3. ASSUME NEW p \in Phy, Before(p, FirstScan) PROVE p \in Own
  <2>1. <<0, CisBlock>> \in Phy
    BY PageAssumption, GeometryAssumption DEF Phy, Zones
  <2>2. Before(p, <<0, CisBlock>>) \/ p = <<0, CisBlock>>
    BY <1>3, <2>1, BeforeNext DEF FirstScan
  <2>3. p[1] \in Nat /\ p[2] \in Nat /\ CisBlock \in Nat
    BY PageAssumption, GeometryAssumption DEF Phy, Zones, Blocks
  <2> QED BY <2>2, <2>3 DEF Before, Own, Reserved
<1>4. Found(f, {}, {p \in Phy : Before(p, FirstScan)})
  BY <1>3 DEF Found
<1> QED BY <1>1, <1>2, <1>4 DEF f

\* A block that claims a logical block is put in the table when the scan comes to
\* it, and no other block was.
LEMMA ScanStep ==
  ASSUME Sized, IInv, Kept, Scan
  PROVE  /\ lut' \in Lut /\ Apart(lut', {}) /\ Counted(lut', {}, 0) /\ Fine(lut')
         /\ Found(lut', {}, {p \in Phy : Before(p, scan')})
         /\ \A l \in Log : \/ lut'.block_table[l] = lut.block_table[l]
                           \/ /\ lut.block_table[l] = INVALID
                              /\ lut'.block_table[l] = scan
                              /\ scan \notin Own /\ scan[1] = l[1]
                              /\ BlockClaims(media[scan], l[2])
<1> DEFINE p == scan
           S == {q \in Phy : Before(q, scan)}
<1>1. /\ phase = "mount" /\ p \in Phy /\ lut' = ScanBlock(lut, p) /\ scan' = NextPhy(p)
      /\ LutOK(lut) /\ ScanFits(lut, p) /\ lut \in Lut
  BY DEF Scan, IInv, LutOK
<1>2. /\ Apart(lut, {}) /\ Counted(lut, {}, 0) /\ Fine(lut) /\ Found(lut, {}, S)
      /\ WellWritten(media)
  BY <1>1 DEF Kept
<1>3. p \notin lut.data_map /\ p \notin Own
  <2>1. ~ Before(p, p)
    BY <1>1, GeometryAssumption DEF Before, Phy, Zones, Blocks
  <2> QED BY <1>1, <1>2, <2>1 DEF ScanFits, Apart
<1>4. LutOK(lut') /\ lut' \in Lut
  BY ScanInv DEF IInv, LutOK
<1>5. \A q \in Phy : Before(q, scan') => q \in S \/ q = p
  BY <1>1, BeforeNext
<1>6. lut.block_table \in [Log -> Phy \cup {INVALID}] /\ lut.data_map \subseteq Phy
  BY <1>1 DEF Lut
<1>7. 0 \in Nat /\ 0 \in 0 .. 0
  OBVIOUS
<1> HIDE DEF p
<1>8. CASE media[p].bad
  <2>1. lut' = SetReserved(lut, p)
    BY <1>1, <1>8 DEF ScanBlock
  <2>2. lut'.block_table = lut.block_table /\ lut'.data_map = lut.data_map \cup {p}
    BY <1>1, <1>3, <2>1 DEF SetReserved, Lut
  <2>3. /\ Gone(lut', {}) \subseteq Gone(lut, {})
        /\ \A z \in Zones : Waste(lut', {}, z) \subseteq Waste(lut, {}, z)
    BY <1>8, <2>2 DEF Gone, Waste, Strays
  <2>4. Counted(lut', {}, 0)
    BY <1>1, <1>2, <1>4, <1>7, <2>3, CountedLess
  <2>5. Apart(lut', {}) /\ Fine(lut')
    BY <1>2, <2>2 DEF Apart, Fine
  <2>6. Found(lut', {}, {q \in Phy : Before(q, scan')})
    BY <1>2, <1>5, <1>8, <2>2 DEF Found, BlockClaims
  <2> QED BY <1>4, <2>2, <2>4, <2>5, <2>6
<1>9. CASE ~ media[p].bad /\ media[p].tag[0] \notin LogBlocks
  <2>1. lut' = SetEmpty(lut, p, FALSE)
    BY <1>1, <1>9 DEF ScanBlock
  <2>2. lut'.block_table = lut.block_table /\ lut'.data_map = lut.data_map
    BY <1>1, <1>3, <2>1 DEF SetEmpty, Lut
  <2>3. /\ Gone(lut', {}) \subseteq Gone(lut, {})
        /\ \A z \in Zones : Waste(lut', {}, z) \subseteq Waste(lut, {}, z)
    BY <2>2 DEF Gone, Waste, Strays
  <2>4. Counted(lut', {}, 0)
    BY <1>1, <1>2, <1>4, <1>7, <2>3, CountedLess
  <2>5. Apart(lut', {}) /\ Fine(lut')
    BY <1>2, <2>2 DEF Apart, Fine
  <2>6. Found(lut', {}, {q \in Phy : Before(q, scan')})
    BY <1>2, <1>5, <1>9, <2>2 DEF Found, BlockClaims
  <2> QED BY <1>4, <2>2, <2>4, <2>5, <2>6
<1>10. CASE ~ media[p].bad /\ media[p].tag[0] \in LogBlocks
  <2> DEFINE n == media[p].tag[0]
             l == <<p[1], n>>
  <2>1. lut' = SetFull(lut, p, l)
    BY <1>1, <1>3, <1>10 DEF ScanBlock, SetFullExists
  <2>2. l \in Log /\ l[1] = p[1] /\ l[2] = n
    BY <1>1, <1>10 DEF Log, Phy
  <2>3. BlockClaims(media[p], n) /\ n \in LogBlocks
    BY <1>10 DEF BlockClaims
  <2> HIDE DEF n, l
  <2>4. /\ lut'.block_table = [lut.block_table EXCEPT ![l] = p]
        /\ lut'.data_map = lut.data_map \cup {p}
    BY <1>1, <2>1 DEF SetFull, Lut
  <2>5. lut.block_table[l] = INVALID
    <3> SUFFICES ASSUME lut.block_table[l] # INVALID PROVE FALSE
      OBVIOUS
    <3> DEFINE q == lut.block_table[l]
    <3>1. q \in Phy /\ q \in lut.data_map /\ q[1] = l[1]
      BY <1>1, <1>6, <2>2 DEF LutOK, MappedInUse
    <3>2. q \notin Own /\ BlockClaims(media[q], l[2])
      BY <1>2, <2>2 DEF Fine
    <3> HIDE DEF q
    <3>3. p \in Phy
      BY <1>1
    <3> QED BY <1>2, <1>3, <2>2, <2>3, <3>1, <3>2, <3>3 DEF WellWritten
  <2>6. /\ \A k \in Log : k # l => lut'.block_table[k] = lut.block_table[k]
        /\ lut'.block_table[l] = p
    BY <1>6, <2>2, <2>4
  <2>7. Strays(lut') \subseteq Strays(lut)
    <3> SUFFICES ASSUME NEW q \in Strays(lut') PROVE q \in Strays(lut)
      OBVIOUS
    <3>1. q # p /\ q \in lut.data_map \ Own
      BY <2>2, <2>4, <2>6 DEF Strays
    <3>2. q # INVALID
      BY <1>6, <3>1, InvalidAssumption
    <3>3. \A k \in Log : lut.block_table[k] # q
      BY <2>5, <2>6, <3>2 DEF Strays
    <3> QED BY <3>1, <3>3 DEF Strays
  <2>8. /\ Gone(lut', {}) \subseteq Gone(lut, {})
        /\ \A z \in Zones : Waste(lut', {}, z) \subseteq Waste(lut, {}, z)
    BY <2>7 DEF Gone, Waste
  <2>9. Counted(lut', {}, 0)
    BY <1>1, <1>2, <1>4, <1>7, <2>8, CountedLess
  <2>10. Apart(lut', {})
    BY <1>2, <2>4 DEF Apart
  <2>11. \A s \in Offsets : media[p].data[s] # JUNK
    BY <1>1, <1>2, <1>3, <2>3 DEF WellWritten, p
  <2>12. Fine(lut')
    BY <1>2, <1>3, <2>2, <2>3, <2>6, <2>11 DEF Fine
  <2>13. Found(lut', {}, {q \in Phy : Before(q, scan')})
    <3> SUFFICES ASSUME NEW q \in Phy \ Own, Before(q, scan'), NEW b \in LogBlocks,
                        BlockClaims(media[q], b)
                 PROVE  lut'.block_table[<<q[1], b>>] = q
      BY DEF Found
    <3>1. <<q[1], b>> \in Log
      BY DEF Phy, Log
    <3>2. CASE <<q[1], b>> = l
      <4>1. q[1] = p[1] /\ b = n
        BY <2>2, <3>2
      <4>2. p \in Phy
        BY <1>1
      <4>3. q = p
        BY <1>2, <1>3, <2>3, <4>1, <4>2 DEF WellWritten
      <4> QED BY <2>6, <3>2, <4>3
    <3>3. CASE <<q[1], b>> # l
      <4>1. q # p
        BY <2>3, <3>3 DEF BlockClaims, l, n
      <4>2. lut.block_table[<<q[1], b>>] = q
        BY <1>2, <1>5, <4>1 DEF Found
      <4> QED BY <2>6, <3>1, <3>3, <4>2
    <3> QED BY <3>2, <3>3
  <2> QED BY <1>3, <1>4, <2>2, <2>3, <2>5, <2>6, <2>9, <2>10, <2>12, <2>13 DEF p
<1> QED BY <1>8, <1>9, <1>10

LEMMA ScanKept ==
  ASSUME Sized, IInv, Kept, Scan
  PROVE  Kept'
<1>1. /\ phase = "mount" /\ phase' = phase /\ media' = media /\ faults' = faults
  BY DEF Scan
<1>2. /\ Apart(lut, {})' /\ Fine(lut)' /\ Counted(lut, {}, 0)'
      /\ Found(lut, {}, {p \in Phy : Before(p, scan)})'
  BY <1>1, ScanStep DEF Apart, Fine, Counted, Gone, Waste, Strays, Found
<1>3. WellWritten(media)'
  BY <1>1 DEF Kept
<1> QED BY <1>1, <1>2, <1>3 DEF Kept

LEMMA ScanEndKept ==
  ASSUME Sized, IInv, Kept, ScanEnd
  PROVE  Kept'
<1>1. /\ phase = "mount" /\ phase' = "idle" /\ UNCHANGED <<lut, media, faults>>
      /\ scan \in Nat \X Blocks /\ scan \notin Phy
  BY DEF ScanEnd, Sized, TypeOK
<1>2. \A p \in Phy : Before(p, scan)
  BY <1>1, GeometryAssumption DEF Before, Phy, Zones
<1>3. Found(lut, {}, Phy)
  BY <1>1, <1>2 DEF Kept, Found
<1>4. Sound(lut, {}, 0)
  BY <1>1, <1>3 DEF Kept, Sound
<1>5. Held' = {} /\ Pend' = 0
  BY <1>1 DEF Held, Pend
<1>6. Sound(lut, Held, Pend)'
  BY <1>1, <1>4, <1>5 DEF Sound, Apart, Fine, Counted, Gone, Waste, Strays, Found
<1> QED BY <1>1, <1>6 DEF Kept

\* A card that is taken out and put back: what was stored on it is found again.
LEMMA IdleWellWritten ==
  ASSUME Sized, Kept, phase = "idle", MaxFaults = 0
  PROVE  WellWritten(media)
<1>1. Found(lut, {}, Phy) /\ Fine(lut)
  BY DEF Kept, Sound, Held
<1>2. ASSUME NEW p \in Phy \ Own, NEW n \in LogBlocks, BlockClaims(media[p], n)
      PROVE  /\ <<p[1], n>> \in Log /\ lut.block_table[<<p[1], n>>] = p /\ p # INVALID
             /\ \A s \in Offsets : media[p].data[s] # JUNK
  <2>1. <<p[1], n>> \in Log /\ p # INVALID
    BY InvalidAssumption DEF Phy, Log
  <2>2. lut.block_table[<<p[1], n>>] = p
    BY <1>1, <1>2 DEF Found
  <2> QED BY <1>1, <2>1, <2>2 DEF Fine
<1>3. ASSUME NEW p \in Phy \ Own, NEW q \in Phy \ Own, NEW n \in LogBlocks,
             BlockClaims(media[p], n), BlockClaims(media[q], n), p[1] = q[1]
      PROVE  p = q
  <2>1. lut.block_table[<<p[1], n>>] = p /\ lut.block_table[<<q[1], n>>] = q
    BY <1>2, <1>3
  <2> QED BY <1>3, <2>1
<1> QED BY <1>2, <1>3 DEF WellWritten

LEMMA RemountKept ==
  ASSUME Reliable, Sized, IInv, Kept, Remount
  PROVE  Kept'
<1> DEFINE f == FreshLut(CisBlock)
<1>1. /\ phase = "idle" /\ phase' = "mount" /\ media' = media /\ faults' = faults
      /\ lut' = f /\ scan' = FirstScan /\ MaxFaults = 0
  BY DEF Remount, Reset, Reliable
<1>2. lut \in Lut /\ f \in Lut
  BY FreshParts DEF IInv, LutOK
<1> HIDE DEF f
<1>3. Counted(lut, {}, 0)
  BY <1>1 DEF Kept, Held, Pend, Sound
<1>4. Strays(f) = {}
  BY FreshParts DEF f
<1>5. /\ Gone(f, {}) \subseteq Gone(lut, {})
      /\ \A z \in Zones : Waste(f, {}, z) \subseteq Waste(lut, {}, z)
  BY <1>4 DEF Gone, Waste
<1>6. Counted(f, {}, 0)
  <2>1. 0 \in Nat /\ 0 \in 0 .. 0
    OBVIOUS
  <2> QED BY <1>2, <1>3, <1>5, <2>1, CountedLess
<1>7. /\ Apart(f, {}) /\ Fine(f) /\ Found(f, {}, {p \in Phy : Before(p, FirstScan)})
  BY FreshParts DEF f
<1>8. WellWritten(media)
  BY <1>1, IdleWellWritten
<1>9. /\ Apart(lut, {})' /\ Fine(lut)' /\ Counted(lut, {}, 0)' /\ WellWritten(media)'
      /\ Found(lut, {}, {p \in Phy : Before(p, scan)})'
  BY <1>1, <1>6, <1>7, <1>8 DEF Apart, Fine, Counted, Gone, Waste, Strays, Found
<1> QED BY <1>1, <1>9 DEF Kept

LEMMA InitKept ==
  ASSUME Reliable, Init
  PROVE  Kept
<1>1. /\ lut = FreshLut(CisBlock) /\ media \in InitMedia /\ phase = "mount" /\ scan = FirstScan
      /\ faults = 0
  BY DEF Init
<1>2. /\ Apart(lut, {}) /\ Fine(lut) /\ Found(lut, {}, {p \in Phy : Before(p, scan)})
      /\ Strays(lut) = {} /\ WellWritten(media)
  BY <1>1, FreshParts DEF Reliable
<1>3. Counted(lut, {}, 0)
  <2>1. Cardinality(Gone(lut, {})) = 0
    BY <1>2, FS_EmptySet DEF Gone
  <2>2. ASSUME NEW z \in Zones
        PROVE  Cardinality(Waste(lut, {}, z)) + 0 + LogBlockCnt + MaxFaults < PhyBlockCnt + faults
    <3>1. Waste(lut, {}, z) = Spoilt(media, z)
      BY <1>2 DEF Waste, Spoilt
    <3>2. IsFiniteSet(Spoilt(media, z))
      BY PhyFinite, FS_Subset DEF Spoilt
    <3>3. Cardinality(Spoilt(media, z)) \in Nat
      BY <3>2, FS_CardinalityType
    <3>4. Cardinality(Spoilt(media, z)) + LogBlockCnt + MaxFaults < PhyBlockCnt
      BY <1>1 DEF Reliable
    <3> QED BY <1>1, <3>1, <3>3, <3>4, PageAssumption, GeometryAssumption
  <2> QED BY <1>1, <2>1, <2>2 DEF Counted
<1> QED BY <1>1, <1>2, <1>3 DEF Kept

LEMMA StartKept ==
  ASSUME Kept, StartReading \/ StartWriting
  PROVE  Kept'
<1>1. /\ phase = "idle" /\ phase' = "call" /\ UNCHANGED <<lut, media, faults>>
      /\ io'.handler \in {"read", "write"} /\ ~ Failed'
  BY DEF StartReading, StartWriting, Start, StartIo, Failed, NoRet
<1>2. Sound(lut, {}, 0)
  BY <1>1 DEF Kept, Held, Pend
<1>3. Held' = {} /\ Pend' = 0
  BY <1>1 DEF Held, HeldBy, Writing, Pend, Marking
<1>4. Sound(lut, Held, Pend)'
  BY <1>1, <1>2, <1>3 DEF Sound, Apart, Fine, Counted, Gone, Waste, Strays, Found
<1>5. Result(io.handler, io, lut)'
  BY <1>1 DEF Result, Writing
<1> QED BY <1>1, <1>4, <1>5 DEF Kept

LEMMA StutterKept ==
  ASSUME Kept, UNCHANGED vars
  PROVE  Kept'
<1>1. /\ UNCHANGED <<lut, io, req, ret, phase, scan, media, tmp, out, faults>>
  BY DEF vars
<1>2. Held' = Held /\ Pend' = Pend
  BY <1>1 DEF Held, HeldBy, Pend, Failed
<1>3. Sound(lut, Held, Pend) => Sound(lut, Held, Pend)'
  BY <1>1, <1>2 DEF Sound, Apart, Fine, Counted, Gone, Waste, Strays, Found
<1>4. phase = "mount" => (/\ Apart(lut, {}) /\ Counted(lut, {}, 0) /\ Fine(lut)
                          /\ Found(lut, {}, {p \in Phy : Before(p, scan)}))'
  BY <1>1 DEF Kept, Apart, Fine, Counted, Gone, Waste, Strays, Found
<1>5. Old(io)' = Old(io)
  BY <1>1 DEF Old
<1>6. New(io)' = New(io)
  BY <1>1, <1>5 DEF New
<1>7. /\ PagesLoaded(io, lut)' = PagesLoaded(io, lut)
  BY <1>1 DEF PagesLoaded, PageSpan, FirstPage, PageOf
<1>8. Ready(io.handler, io, lut, req.cmd) => Ready(io.handler, io, lut, req.cmd)'
  BY <1>1, <1>5, <1>6, <1>7 DEF Ready
<1>9. Result(io.handler, io, lut) => Result(io.handler, io, lut)'
  BY <1>1, <1>5, <1>6, <1>7 DEF Result, Failed
<1> QED BY <1>1, <1>3, <1>4, <1>8, <1>9 DEF Kept

LEMMA AlwaysKept == Reliable => (Spec => []Kept)
<1> SUFFICES ASSUME Reliable PROVE Spec => []Kept
  OBVIOUS
<1>1. Init => Kept
  BY InitKept
<1>2. Sized /\ IInv /\ Erasable /\ Kept /\ [Next]_vars => Kept'
  <2>1. ~ PowerLoss
    BY DEF PowerLoss, Reliable
  <2> QED BY <2>1, StutterKept, ScanKept, ScanEndKept, RemountKept, StartKept, HandlerKept,
             ExecuteKept DEF Next, Mount
<1> QED BY <1>1, <1>2, Invariant, AlwaysSized, AlwaysErasable, PTL DEF Spec

\* No sector of a block written from t_buf is one that was never put there, while
\* the card is reliable: the pages of the old block are read before, or filled with
\* 0xff, and none of them was left half written.
THEOREM BdTmpIsFilled == Reliable => (Spec => []TmpIsFilled)
<1> SUFFICES ASSUME Reliable PROVE Spec => []TmpIsFilled
  OBVIOUS
<1>1. ASSUME Sized, IInv, Kept, phase = "exec", req.cmd = "WRITE_TMP", NEW s \in Offsets
      PROVE  tmp[s] # JUNK
  <2>1. /\ io.handler = "write_inc" /\ io \in ExactIo /\ io.w_src # io.w_dst /\ Chunk(io)
        /\ io.buf_count < BlockSize \/ io.w_src = io.w_dst
        /\ io.val \in Values
    BY <1>1, Command, LogAddress DEF Asked, Asks, Kept, Ready, Writing, AtWork, Reading
  <2>2. tmp = New(io)
    BY <1>1, <2>1 DEF Kept, Ready
  <2>3. io.w_src = lut.block_table[io.w_log] /\ io.w_log \in Log
    BY <1>1, <2>1 DEF IInv, Fits, WriteFits
  <2>4. io.w_src # INVALID => media[io.w_src].data[s] # JUNK
    BY <1>1, <2>3 DEF Kept, Sound, Fine
  <2>5. New(io)[s] # JUNK
    BY <2>1, <2>4 DEF New, Old, Reliable
  <2> QED BY <2>2, <2>5
<1>2. Sized /\ IInv /\ Kept => TmpIsFilled
  BY <1>1 DEF TmpIsFilled
<1> QED BY <1>2, Invariant, AlwaysSized, AlwaysKept, PTL

\* With a free block left in every zone nothing is written in place: the
\* destination is always erased when it is written.
THEOREM BdWritesErased == Reliable => (Spec => []WriteTargetErased)
<1> SUFFICES ASSUME Reliable PROVE Spec => []WriteTargetErased
  OBVIOUS
<1>1. ASSUME Sized, IInv, Erasable, Kept, phase = "exec", req.cmd \in {"WRITE", "WRITE_TMP"}
      PROVE  media[req.phy] = ErasedBlock
  <2>1. io.handler = "write_inc" /\ req.phy = io.w_dst
    BY <1>1, LogAddress
  <2>2. io.w_src # io.w_dst
    BY <1>1, <2>1 DEF Kept, Ready, Writing
  <2> QED BY <1>1, <2>1, <2>2 DEF Erasable, ErasedFor, Reliable
<1>2. Sized /\ IInv /\ Erasable /\ Kept => WriteTargetErased
  BY <1>1 DEF WriteTargetErased
<1> QED BY <1>2, Invariant, AlwaysSized, AlwaysErasable, AlwaysKept, PTL

\* Each failed command costs the translation layer one block at most, and success
\* costs it none, whatever the requests and wherever the failures fall.
THEOREM BdLossNeedsFault == Reliable => (Spec => []LossNeedsFault)
<1> SUFFICES ASSUME Reliable PROVE Spec => []LossNeedsFault
  OBVIOUS
<1>1. ASSUME Sized, IInv, Kept, phase = "idle"
      PROVE  Cardinality(Lost) <= faults
  <2>1. lut \in Lut /\ Counted(lut, {}, 0)
    BY <1>1 DEF IInv, LutOK, Kept, Sound, Held, Pend
  <2>2. Lost \subseteq Gone(lut, {})
    <3> SUFFICES ASSUME NEW p \in Lost PROVE p \in Gone(lut, {})
      OBVIOUS
    <3>1. p \in lut.data_map \ Own /\ ~ media[p].bad /\ p \notin Mapped
      BY DEF Lost, Own
    <3>2. p # INVALID
      BY <2>1, <3>1, InvalidAssumption DEF Lut
    <3>3. \A l \in Log : lut.block_table[l] # p
      BY <3>1, <3>2 DEF Mapped
    <3> QED BY <3>1, <3>3 DEF Gone, Strays
  <2>3. /\ IsFiniteSet(Gone(lut, {})) /\ Cardinality(Gone(lut, {})) \in Nat
    BY <2>1, CountTypes, PhyFinite, FS_Subset
  <2>4. Cardinality(Lost) <= Cardinality(Gone(lut, {})) /\ Cardinality(Lost) \in Nat
    BY <2>2, <2>3, FS_Subset, FS_CardinalityType
  <2>5. faults \in Nat
    BY <1>1, PageAssumption DEF Sized, TypeOK
  <2> QED BY <2>1, <2>3, <2>4, <2>5 DEF Counted
<1>2. Sized /\ IInv /\ Kept => LossNeedsFault
  BY <1>1 DEF LossNeedsFault
<1> QED BY <1>2, Invariant, AlwaysSized, AlwaysKept, PTL

-----------------------------------------------------------------------------
(* The device is an array of sectors: LogicalStore.                        *)

\* Where the sectors of the run at hand are stored.
LEMMA RunPlace ==
  ASSUME NEW i \in ExactIo, Chunk(i)
  PROVE  /\ Position(i) + i.buf_count <= SectorCnt /\ SectorCnt \in Nat
         /\ Position(i) % BlockSize = i.buf_offset
         /\ \A k \in 0 .. i.buf_count - 1 :
              /\ LogOfSector(Position(i) + k) = i.w_log
              /\ (Position(i) + k) % BlockSize = i.buf_offset + k
<1> DEFINE at == Position(i)
           b  == BlockNo(i)
           o  == i.buf_offset
           n  == i.buf_count
           zl == ZoneCnt * LogBlockCnt
<1>1. /\ at \in Nat /\ b \in Nat /\ o \in Nat /\ n \in Nat \ {0} /\ o + n <= BlockSize
      /\ at = BlockSize * b + o /\ o \in 0 .. BlockSize - 1
  BY ChunkFits, SizesExact DEF ExactIo, Offsets
<1>2. BlockNo(i) = b /\ Position(i) = at
  OBVIOUS
<1>3. b < zl /\ zl \in Nat
  <2>1. b \div LogBlockCnt < ZoneCnt
    BY SizesExact DEF Chunk, ZoneNo, Zones
  <2>2. b < ZoneCnt * LogBlockCnt
    BY <1>1, <2>1, DivisionBound, SizesExact
  <2> QED BY <2>2, SizesExact
<1>4. SectorCnt = zl * BlockSize /\ SectorCnt \in Nat
  BY <1>3, SizesExact DEF SectorCnt
<1> HIDE DEF at, b, o, n, zl
<1>5. (b + 1) * BlockSize <= zl * BlockSize /\ (b + 1) * BlockSize = b * BlockSize + BlockSize
  BY <1>1, <1>3, SizesExact, Multiples
<1>6. at + n <= SectorCnt
  <2>1. BlockSize * b = b * BlockSize
    BY <1>1, SizesExact
  <2> DEFINE x == b * BlockSize
  <2>2. x \in Nat
    BY <1>1, SizesExact
  <2> HIDE DEF x
  <2>3. at = x + o /\ x + BlockSize <= SectorCnt
    BY <1>1, <1>4, <1>5, <2>1 DEF x
  <2> QED BY <1>1, <1>4, <2>2, <2>3, SizesExact
<1>7. at % BlockSize = o
  BY <1>1, DivisionUnique, SizesExact
<1>8. ASSUME NEW k \in 0 .. n - 1
      PROVE  LogOfSector(at + k) = i.w_log /\ (at + k) % BlockSize = o + k
  <2>1. o + k \in 0 .. BlockSize - 1
    BY <1>1, SizesExact
  <2>2. at + k = BlockSize * b + (o + k)
    <3> DEFINE x == BlockSize * b
    <3>1. x \in Nat /\ at = x + o
      BY <1>1, SizesExact
    <3> HIDE DEF x
    <3>2. at + k = x + (o + k)
      BY <1>1, <3>1
    <3> QED BY <3>2 DEF x
  <2>3. (at + k) \div BlockSize = b /\ (at + k) % BlockSize = o + k
    <3>1. /\ (BlockSize * b + (o + k)) \div BlockSize = b
          /\ (BlockSize * b + (o + k)) % BlockSize = o + k
      BY <1>1, <2>1, DivisionUnique, SizesExact
    <3> QED BY <2>2, <3>1
  <2>4. LogOfSector(at + k) = <<b \div LogBlockCnt, b % LogBlockCnt>>
    BY <2>3 DEF LogOfSector
  <2>5. i.w_log = <<b \div LogBlockCnt, b % LogBlockCnt>>
    BY DEF Chunk, LogOf, ZoneNo, b
  <2> QED BY <2>3, <2>4, <2>5
<1> QED BY <1>4, <1>6, <1>7, <1>8 DEF at, o, n

LEMMA SectorLog ==
  ASSUME NEW s \in 0 .. SectorCnt - 1
  PROVE  /\ LogOfSector(s) \in Log /\ s % BlockSize \in Offsets /\ s \in Nat
         /\ s \div BlockSize \in Nat /\ s = BlockSize * (s \div BlockSize) + (s % BlockSize)
<1> DEFINE b  == s \div BlockSize
           zl == ZoneCnt * LogBlockCnt
<1>1. zl \in Nat /\ SectorCnt = zl * BlockSize /\ SectorCnt \in Nat
  BY SizesExact DEF SectorCnt
<1>2. s \in Nat /\ s < zl * BlockSize
  BY <1>1
<1>3. /\ b \in Nat /\ s % BlockSize \in Offsets
      /\ s = BlockSize * b + (s % BlockSize)
  BY <1>2, Division, SizesExact DEF Offsets
<1>4. b < zl
  BY <1>1, <1>2, DivisionBound, SizesExact
<1> HIDE DEF b
<1>5. b \div LogBlockCnt < ZoneCnt /\ b \div LogBlockCnt \in Nat /\ b % LogBlockCnt \in LogBlocks
  BY <1>3, <1>4, Division, DivisionBound, SizesExact DEF LogBlocks
<1>6. LogOfSector(s) = <<b \div LogBlockCnt, b % LogBlockCnt>>
  BY DEF LogOfSector, b
<1>7. b \div LogBlockCnt \in Zones
  BY <1>5, SizesExact DEF Zones
<1>8. LogOfSector(s) \in Log
  BY <1>5, <1>6, <1>7 DEF Log
<1> QED BY <1>2, <1>3, <1>8 DEF b

\* A sector of the logical block at hand is in the run by its offset.
LEMMA SectorOfRun ==
  ASSUME NEW i \in ExactIo, Chunk(i), NEW s \in 0 .. SectorCnt - 1
  PROVE  s \in Position(i) .. Position(i) + i.buf_count - 1 <=>
           /\ LogOfSector(s) = i.w_log
           /\ s % BlockSize \in i.buf_offset .. i.buf_offset + i.buf_count - 1
<1> DEFINE at == Position(i)
           b  == BlockNo(i)
           o  == i.buf_offset
           n  == i.buf_count
           c  == s \div BlockSize
           r  == s % BlockSize
<1>1. /\ at \in Nat /\ b \in Nat /\ o \in Nat /\ n \in Nat \ {0}
      /\ at = BlockSize * b + o
  BY ChunkFits, SizesExact DEF ExactIo, Offsets
<1>2. /\ s \in Nat /\ c \in Nat /\ r \in Nat /\ s = BlockSize * c + r
  BY SectorLog, SizesExact DEF Offsets
<1>3. ASSUME s \in at .. at + n - 1
      PROVE  LogOfSector(s) = i.w_log /\ r \in o .. o + n - 1
  <2> DEFINE k == s - at
  <2>1. k \in 0 .. n - 1 /\ at + k = s
    BY <1>1, <1>2, <1>3
  <2> HIDE DEF k
  <2>2. LogOfSector(at + k) = i.w_log /\ (at + k) % BlockSize = o + k
    BY <2>1, RunPlace
  <2>3. r = o + k
    BY <2>1, <2>2
  <2> QED BY <1>1, <2>1, <2>2, <2>3
<1>4. ASSUME LogOfSector(s) = i.w_log, r \in o .. o + n - 1
      PROVE  s \in at .. at + n - 1
  <2>1. /\ c \div LogBlockCnt = b \div LogBlockCnt /\ c % LogBlockCnt = b % LogBlockCnt
    BY <1>4 DEF Chunk, LogOf, ZoneNo, LogOfSector
  <2> HIDE DEF c, b, at, o, n, r
  <2>2. /\ c = LogBlockCnt * (c \div LogBlockCnt) + (c % LogBlockCnt)
        /\ b = LogBlockCnt * (b \div LogBlockCnt) + (b % LogBlockCnt)
    BY <1>1, <1>2, Division, SizesExact
  <2>3. c = b
    BY <2>1, <2>2
  <2> DEFINE x == BlockSize * b
  <2>4. x \in Nat /\ at = x + o /\ s = x + r
    BY <1>1, <1>2, <2>3, SizesExact
  <2> HIDE DEF x
  <2> QED BY <1>1, <1>2, <1>4, <2>4
<1> HIDE DEF c, r
<1> QED BY <1>3, <1>4 DEF r

\* What is stored, the one way to read it that LogicalStore knows.
Array == [s \in 0 .. SectorCnt - 1 |-> Stored(s)]
NotSeen == UNCHANGED <<Array, Job, out>>

LEMMA StoreEnd ==
  ASSUME Array' = Array, Job' = Store!NoJob, out' = <<>>
  PROVE  Store!Next
BY DEF Store!Next, Store!End, Array

LEMMA StoreStart ==
  ASSUME Array' = Array, out' = out, Job = Store!NoJob,
         NEW op \in {"read", "write"}, NEW at \in Nat, NEW left \in Nat \ {0}, NEW v,
         op = "write" => v \in Values,
         Job' = [op |-> op, at |-> at, left |-> left, val |-> v]
  PROVE  Store!Next
<1>1. Store!Start
  BY DEF Store!Start, Array
<1> QED BY <1>1 DEF Store!Next

LEMMA StoreWrite ==
  ASSUME NEW at \in Nat, NEW left \in Nat, NEW v, NEW n \in 1 .. BlockSize,
         Job = [op |-> "write", at |-> at, left |-> left, val |-> v],
         n <= left, at + n <= SectorCnt, (at % BlockSize) + n <= BlockSize,
         Job' \in {[op |-> "write", at |-> at + n, left |-> left - n, val |-> v], Store!NoJob},
         Array' = [s \in 0 .. SectorCnt - 1 |-> IF s \in at .. at + n - 1 THEN v ELSE Array[s]],
         out' = out
  PROVE  Store!Next
<1>0. /\ Job.op = "write" /\ Job.at = at /\ Job.left = left /\ Job.val = v
      /\ [Job EXCEPT !.at = @ + n, !.left = @ - n]
           = [op |-> "write", at |-> at + n, left |-> left - n, val |-> v]
  <2> DEFINE a == at + n
             r == left - n
  <2>1. Job.op = "write" /\ Job.at = at /\ Job.left = left /\ Job.val = v
    OBVIOUS
  <2>2. [Job EXCEPT !.at = @ + n, !.left = @ - n] = [Job EXCEPT !.at = a, !.left = r]
    BY <2>1
  <2> HIDE DEF a, r
  <2>3. [Job EXCEPT !.at = a, !.left = r] = [op |-> "write", at |-> a, left |-> r, val |-> v]
    <3>1. DOMAIN Job = {"op", "at", "left", "val"}
      OBVIOUS
    <3>2. [Job EXCEPT !.at = a, !.left = r]
            = [f \in {"op", "at", "left", "val"} |->
                 IF f = "at" THEN a ELSE IF f = "left" THEN r ELSE Job[f]]
      BY <3>1
    <3> QED BY <2>1, <3>2
  <2> QED BY <2>1, <2>2, <2>3 DEF a, r
<1>1. Store!NextRun(n)
  BY <1>0 DEF Store!NextRun
<1>2. Store!Write(n)
  BY <1>0, <1>1 DEF Store!Write, Array, Store!Sectors
<1> QED BY <1>2 DEF Store!Next

LEMMA StoreRead ==
  ASSUME NEW at \in Nat, NEW left \in Nat, NEW v, NEW n \in 1 .. BlockSize,
         Job = [op |-> "read", at |-> at, left |-> left, val |-> v],
         n <= left, at + n <= SectorCnt, (at % BlockSize) + n <= BlockSize,
         Job' = [op |-> "read", at |-> at + n, left |-> left - n, val |-> v],
         Array' = Array, out' = out \o [k \in 1 .. n |-> Array[at + k - 1]]
  PROVE  Store!Next
<1>0. /\ Job.op = "read" /\ Job.at = at /\ Job.left = left /\ Job.val = v
      /\ [Job EXCEPT !.at = @ + n, !.left = @ - n]
           = [op |-> "read", at |-> at + n, left |-> left - n, val |-> v]
  <2> DEFINE a == at + n
             r == left - n
  <2>1. Job.op = "read" /\ Job.at = at /\ Job.left = left /\ Job.val = v
    OBVIOUS
  <2>2. [Job EXCEPT !.at = @ + n, !.left = @ - n] = [Job EXCEPT !.at = a, !.left = r]
    BY <2>1
  <2> HIDE DEF a, r
  <2>3. [Job EXCEPT !.at = a, !.left = r] = [op |-> "read", at |-> a, left |-> r, val |-> v]
    <3>1. DOMAIN Job = {"op", "at", "left", "val"}
      OBVIOUS
    <3>2. [Job EXCEPT !.at = a, !.left = r]
            = [f \in {"op", "at", "left", "val"} |->
                 IF f = "at" THEN a ELSE IF f = "left" THEN r ELSE Job[f]]
      BY <3>1
    <3> QED BY <2>1, <3>2
  <2> QED BY <2>1, <2>2, <2>3 DEF a, r
<1>1. Store!NextRun(n)
  BY <1>0 DEF Store!NextRun
<1>2. Store!Read(n)
  BY <1>0, <1>1 DEF Store!Read, Array
<1> QED BY <1>2 DEF Store!Next

\* While a card is mounted the table says where a logical block is.
LEMMA HomeMounted ==
  /\ phase # "mount" => \A l \in Log : Home(l) = lut.block_table[l]
  /\ phase' # "mount" => \A l \in Log : Home(l)' = lut'.block_table[l]
BY DEF Home

LEMMA SameArray ==
  ASSUME \A l \in Log : Home(l)' = Home(l),
         \A l \in Log : Home(l) # INVALID => media'[Home(l)].data = media[Home(l)].data
  PROVE  Array' = Array
<1>1. ASSUME NEW s \in 0 .. SectorCnt - 1
      PROVE  Stored(s)' = Stored(s)
  <2>1. LogOfSector(s) \in Log
    BY SectorLog
  <2> DEFINE l == LogOfSector(s)
  <2>2. l' = l
    BY DEF LogOfSector
  <2>3. Home(l)' = Home(l) /\ (Home(l) # INVALID => media'[Home(l)].data = media[Home(l)].data)
    BY <2>1
  <2>4. Stored(s) = IF Home(l) = INVALID THEN BLANK ELSE media[Home(l)].data[s % BlockSize]
    BY DEF Stored
  <2>5. Stored(s)' = IF Home(l)' = INVALID THEN BLANK ELSE media'[Home(l)'].data[s % BlockSize]
    BY DEF Stored
  <2> HIDE DEF l
  <2> QED BY <2>3, <2>4, <2>5
<1> QED BY <1>1 DEF Array

LEMMA SameTable ==
  ASSUME phase # "mount", phase' # "mount", lut'.block_table = lut.block_table,
         \A l \in Log : lut.block_table[l] # INVALID =>
            media'[lut.block_table[l]].data = media[lut.block_table[l]].data
  PROVE  Array' = Array
<1>1. \A l \in Log : Home(l) = lut.block_table[l] /\ Home(l)' = lut.block_table[l]
  BY HomeMounted
<1> QED BY <1>1, SameArray

\* How a handler leaves a request: ended, or on its way from where i has come to.
Ends == phase' = "idle" /\ out' = <<>>
GoesOn(i) == /\ phase' = "exec" /\ out' = out
             /\ SameRun(io', i) /\ io'.handler \notin Reading

LEMMA EndsSeen ==
  ASSUME Ends, Array' = Array
  PROVE  Store!Next
<1>1. Job' = Store!NoJob
  BY DEF Ends, Job, Store!NoJob
<1> QED BY <1>1, StoreEnd DEF Ends

LEMMA WriteJob ==
  ASSUME phase \in {"exec", "call"}, io.handler \notin Reading
  PROVE  Job = [op |-> "write", at |-> Position(io), left |-> io.rem_count, val |-> io.val]
BY DEF Job, Reading, Position

LEMMA WriteJobNext ==
  ASSUME NEW i, GoesOn(i)
  PROVE  Job' = [op |-> "write", at |-> Position(i), left |-> i.rem_count, val |-> i.val]
<1>1. Position(io)' = Position(i)
  BY DEF GoesOn, SameRun, Position
<1> QED BY <1>1 DEF GoesOn, SameRun, Job, Reading, Position

LEMMA WaitsSeen ==
  ASSUME phase = "call", io.handler \notin Reading, media' = media,
         lut'.block_table = lut.block_table, Ends \/ GoesOn(io)
  PROVE  NotSeen \/ Store!Next
<1>1. Array' = Array
  BY SameTable DEF Ends, GoesOn
<1>2. CASE GoesOn(io)
  BY <1>1, <1>2, WriteJob, WriteJobNext DEF NotSeen, GoesOn
<1> QED BY <1>1, <1>2, EndsSeen

LEMMA FinishEnds ==
  ASSUME NEW m, Finish(m)
  PROVE  Ends /\ lut' = m
BY DEF Finish, Ends

LEMMA IssueGoesOn ==
  ASSUME NEW i \in ExactIo, NEW h \in Handlers, h \notin Reading, NEW n \in 0 .. BlockSize,
         NEW m, NEW cmd, NEW phy, NEW off, NEW cnt, Issue(cmd, phy, off, cnt, GoTo(i, h, n), m)
  PROVE  GoesOn(i) /\ lut' = m
BY GoToExact DEF Issue, GoesOn

LEMMA EraseDstGoesOn ==
  ASSUME NEW i \in ExactIo, NEW m, NEW error, EraseDst(i, m, error)
  PROVE  (Ends \/ GoesOn(i)) /\ lut' = m
BY IssueGoesOn, FinishEnds, HandlerNames, SizesExact DEF EraseDst, Reading

LEMMA PrepareDstGoesOn ==
  ASSUME NEW i \in ExactIo, NEW m, PrepareDst(i, m)
  PROVE  (Ends \/ GoesOn(i)) /\ lut' = m
BY EraseDstGoesOn, IssueGoesOn, HandlerNames, SizesExact DEF PrepareDst, Reading

LEMMA WriteNextGoesOn ==
  ASSUME NEW m, LutOK(m), NEW i \in ExactIo, i.rem_count # 0, WriteNext(i, m)
  PROVE  (Ends \/ GoesOn(i)) /\ lut'.block_table = m.block_table
<1>1. CASE Finish(m)
  BY <1>1, FinishEnds
<1>2. ASSUME NEW j, NEW n, NextBlock(i, m, j, n), WriteBlock(j, n)
      PROVE  (Ends \/ GoesOn(i)) /\ lut'.block_table = m.block_table
  <2>1. j \in ExactIo /\ SameRun(j, i) /\ n.block_table = m.block_table
    BY <1>2 DEF NextBlock
  <2>2. (Ends \/ GoesOn(j)) /\ lut' = n
    BY <1>2, <2>1, FinishEnds, IssueGoesOn, PrepareDstGoesOn, HandlerNames, SizesExact
    DEF WriteBlock, Reading
  <2>3. GoesOn(j) => GoesOn(i)
    BY <2>1 DEF GoesOn, SameRun
  <2> QED BY <2>1, <2>2, <2>3
<1> QED BY <1>1, <1>2, WriteNextCases

LEMMA NextBlockOrEndGoesOn ==
  ASSUME NEW m, LutOK(m), NEW i \in ExactIo, NextBlockOrEnd(i, m)
  PROVE  (Ends \/ GoesOn(i)) /\ lut'.block_table = m.block_table
BY FinishEnds, WriteNextGoesOn DEF NextBlockOrEnd

LEMMA WritesSeen ==
  ASSUME Sized, IInv, HWrite \/ HReadTmpW \/ HFillTmp \/ HEraseDst \/ HMarkDstBad
                        \/ HMarkSrcBad \/ HNull \/ HEraseSrc
  PROVE  NotSeen \/ Store!Next
<1>1. /\ io \in ExactIo /\ Answered /\ LutOK(lut) /\ phase = "call" /\ media' = media
      /\ io.buf_count \in 0 .. BlockSize /\ io.handler \notin Reading
  BY DEF Sized, IInv, HWrite, HReadTmpW, HFillTmp, HEraseDst, HMarkDstBad, HMarkSrcBad,
         HNull, HEraseSrc, Called, HandlerFrame, ExactIo, Reading
<1>2. (Ends \/ GoesOn(io)) /\ lut'.block_table = lut.block_table
  <2>1. CASE HWrite
    BY <1>1, <2>1, FinishEnds, WriteNextGoesOn DEF HWrite, Called, Answered
  <2>2. CASE HReadTmpW
    BY <1>1, <2>2, FinishEnds, IssueGoesOn, HandlerNames DEF HReadTmpW, Reading
  <2>3. CASE HFillTmp
    BY <1>1, <2>3, FinishEnds, PrepareDstGoesOn DEF HFillTmp
  <2>4. CASE HEraseDst
    BY <1>1, <2>4, EraseDstGoesOn DEF HEraseDst
  <2>5. CASE HMarkDstBad \/ HMarkSrcBad \/ HNull
    BY <1>1, <2>5, FinishEnds, WriteNextGoesOn DEF HMarkDstBad, HMarkSrcBad, HNull
  <2>6. CASE HEraseSrc
    <3> DEFINE m == MarkErased(lut, io.w_src)
               u == MarkUsed(m, io.w_src)
    <3>1. SrcUnmapped(lut, io) /\ io.w_src \in Phy /\ lut \in Lut
      BY <2>6 DEF IInv, HEraseSrc, Called, Fits, SrcUnmapped, LutOK
    <3>2. LutOK(m) /\ m \in Lut
      BY <1>1, <3>1, MarkErasedOK DEF SrcUnmapped, LutOK
    <3>3. m.block_table = lut.block_table
      BY <3>1 DEF MarkErased, Lut
    <3> HIDE DEF m
    <3>4. u.block_table = lut.block_table
      BY <3>2, <3>3 DEF MarkUsed, Lut
    <3> HIDE DEF u
    <3>5. CASE Issue("MARK_BAD", io.w_src, 0, BlockSize, GoTo(io, "mark_src_bad", 0), u)
      BY <1>1, <3>4, <3>5, IssueGoesOn, HandlerNames, SizesExact DEF Reading
    <3>6. CASE Finish(m) \/ NextBlockOrEnd(io, m)
      BY <1>1, <3>2, <3>3, <3>6, FinishEnds, NextBlockOrEndGoesOn
    <3> QED BY <2>6, <3>5, <3>6 DEF HEraseSrc, m, u
  <2> QED BY <2>1, <2>2, <2>3, <2>4, <2>5, <2>6
<1> QED BY <1>1, <1>2, WaitsSeen

LEMMA ReadsSeen ==
  ASSUME Sized, IInv, HRead \/ HReadTmpR
  PROVE  NotSeen \/ Store!Next
<1>1. /\ io \in ExactIo /\ phase = "call" /\ media' = media /\ io.handler \in Reading
      /\ io.buf_count \in 0 .. BlockSize /\ io.t_count \in Nat /\ io.rem_count \in Nat
      /\ ret.count \in Nat
  BY DEF Sized, TypeOK, HRead, HReadTmpR, Called, HandlerFrame, ExactIo, Reading
<1>2. Finish(lut) => Store!Next
  BY <1>1, FinishEnds, EndsSeen, SameTable DEF Ends
<1>3. ASSUME NEW i \in ExactIo, i.byte_offset = io.byte_offset, i.val = io.val,
             i.t_count + i.rem_count = io.t_count + io.rem_count,
             NEW h \in Reading, NEW n \in 0 .. BlockSize, NEW cmd, NEW phy, NEW off, NEW cnt,
             Issue(cmd, phy, off, cnt, GoTo(i, h, n), lut)
      PROVE  NotSeen
  <2>0. h \in Handlers
    BY HandlerNames DEF Reading
  <2>1. /\ io'.byte_offset = io.byte_offset /\ io'.val = io.val /\ io'.handler \in Reading
        /\ io'.t_count + io'.rem_count = io.t_count + io.rem_count
        /\ phase' = "exec" /\ lut' = lut /\ out' = out
        /\ io'.t_count \in Nat /\ io'.rem_count \in Nat /\ io.byte_offset \in Nat
    <3>1. /\ SameRun(GoTo(i, h, n), i) /\ GoTo(i, h, n).handler = h
          /\ i.t_count \in Nat /\ i.rem_count \in Nat /\ io.byte_offset \in Nat
      BY <1>1, <1>3, <2>0, GoToExact DEF ExactIo
    <3> QED BY <1>3, <3>1 DEF Issue, SameRun
  <2>2. Array' = Array
    BY <1>1, <2>1, SameTable
  <2>5. Job' = Job
    <3> DEFINE a     == io.t_count + io.rem_count
               b     == io'.t_count + io'.rem_count
               k     == Len(out)
               at1   == io.byte_offset + k
               left1 == a - k
               at2   == io'.byte_offset + Len(out')
               left2 == b - Len(out')
    <3>1. a = b /\ Len(out') = k /\ io'.byte_offset = io.byte_offset
      BY <2>1
    <3>2. Job = [op |-> "read", at |-> at1, left |-> left1, val |-> io.val]
      BY <1>1 DEF Job, Reading
    <3>3. Job' = [op |-> "read", at |-> at2, left |-> left2, val |-> io'.val]
      BY <2>1 DEF Job, Reading
    <3> HIDE DEF a, b, k
    <3>4. at2 = at1 /\ left2 = left1
      BY <3>1
    <3> HIDE DEF at1, left1, at2, left2
    <3> QED BY <2>1, <3>2, <3>3, <3>4
  <2> QED BY <2>1, <2>2, <2>5 DEF NotSeen
<1>4. CASE HRead
  <2> DEFINE i == Advance(io, ret.count)
             w == WithBlock(i)
  <2>1. CASE Finish(lut)
    BY <1>2, <2>1
  <2>2. CASE w \in ExactIo /\ Chunk(w) /\ SameRun(w, i) /\ ReadChunk(w, lut)
    <3>1. /\ w.byte_offset = io.byte_offset /\ w.val = io.val
          /\ w.t_count = io.t_count + ret.count /\ w.rem_count = io.rem_count - ret.count
      BY <1>4, <2>2, ReadPlace DEF SameRun
    <3> HIDE DEF w
    <3>2. w.t_count + w.rem_count = io.t_count + io.rem_count
      BY <1>1, <3>1
    <3>3. w.buf_count \in 0 .. BlockSize /\ PageSpan(w) * PageSize \in 0 .. BlockSize
      BY <2>2, ChunkFits, PagesOfRun, SizesExact
    <3>4. NotSeen
      BY <1>3, <2>2, <3>1, <3>2, <3>3 DEF ReadChunk, Reading
    <3> QED BY <3>4
  <2> QED BY <1>4, <2>1, <2>2, ReadPlace
<1>5. CASE HReadTmpR
  BY <1>1, <1>2, <1>3, <1>5 DEF HReadTmpR, Reading
<1> QED BY <1>4, <1>5

\* While a card is scanned, a logical block is where the table says, or where the
\* scan will find it.
Ahead(p, l) == /\ p \in Phy /\ p[1] = l[1] /\ BlockClaims(media[p], l[2])
               /\ ~ Before(p, scan)
HomeKnown ==
  phase = "mount" /\ scan \in Nat \X Blocks /\ ScanFits(lut, scan)
    /\ Own \subseteq lut.data_map /\ WellWritten(media)
  => \A l \in Log :
       /\ lut.block_table[l] # INVALID => Home(l) = lut.block_table[l]
       /\ lut.block_table[l] = INVALID =>
            /\ \A p \in Phy : Ahead(p, l) => Home(l) = p
            /\ (\A p \in Phy : ~ Ahead(p, l)) => Home(l) = INVALID

LEMMA HomeOnScan == HomeKnown
<1> SUFFICES ASSUME phase = "mount", scan \in Nat \X Blocks, ScanFits(lut, scan),
                    Own \subseteq lut.data_map, WellWritten(media), NEW l \in Log
             PROVE  /\ lut.block_table[l] # INVALID => Home(l) = lut.block_table[l]
                    /\ lut.block_table[l] = INVALID =>
                         /\ \A p \in Phy : Ahead(p, l) => Home(l) = p
                         /\ (\A p \in Phy : ~ Ahead(p, l)) => Home(l) = INVALID
  BY DEF HomeKnown
<1>1. ASSUME NEW p \in Phy
      PROVE  Holds(p, l) <=> Ahead(p, l)
  <2>1. /\ p[1] \in Nat /\ p[2] \in Nat /\ scan[1] \in Nat /\ scan[2] \in Nat
    BY GeometryAssumption DEF Phy, Zones, Blocks
  <2>2. ~ Before(p, scan) <=> (scan[1] < p[1] \/ (scan[1] = p[1] /\ scan[2] <= p[2]))
    BY <2>1 DEF Before
  <2> QED BY <2>2 DEF Holds, Ahead, BlockClaims
<1>2. ASSUME NEW p \in Phy, Ahead(p, l), NEW q \in Phy, Ahead(q, l)
      PROVE  p = q
  <2>1. p \notin Own /\ q \notin Own
    BY <1>2 DEF Ahead, ScanFits
  <2>2. l[2] \in LogBlocks /\ p[1] = q[1]
    BY <1>2 DEF Log, Ahead
  <2> QED BY <1>2, <2>1, <2>2 DEF Ahead, WellWritten
<1>3. ASSUME lut.block_table[l] = INVALID, NEW p \in Phy, Ahead(p, l)
      PROVE  Home(l) = p
  <2>1. \E q \in Phy : Holds(q, l)
    BY <1>1, <1>3
  <2> DEFINE h == CHOOSE q \in Phy : Holds(q, l)
  <2>2. h \in Phy /\ Holds(h, l)
    BY <2>1
  <2>3. Home(l) = h
    BY <1>3, <2>1 DEF Home
  <2> HIDE DEF h
  <2> QED BY <1>1, <1>2, <1>3, <2>2, <2>3
<1>4. ASSUME lut.block_table[l] = INVALID, \A p \in Phy : ~ Ahead(p, l)
      PROVE  Home(l) = INVALID
  BY <1>1, <1>4 DEF Home
<1> QED BY <1>3, <1>4 DEF Home

LEMMA HomeOnScanNext == HomeKnown'
BY HomeOnScan, PTL

LEMMA MountFacts ==
  ASSUME Sized, IInv, Kept, phase = "mount"
  PROVE  /\ scan \in Nat \X Blocks /\ ScanFits(lut, scan) /\ Own \subseteq lut.data_map
         /\ WellWritten(media) /\ LutOK(lut) /\ lut \in Lut
BY DEF Sized, TypeOK, IInv, Kept, Apart, LutOK

LEMMA LogPair ==
  ASSUME NEW l \in Log
  PROVE  l = <<l[1], l[2]>> /\ l[2] \in LogBlocks
BY DEF Log

LEMMA ScanSeen ==
  ASSUME Sized, IInv, Kept, Sized', IInv', Kept', Scan
  PROVE  NotSeen
<1>1. /\ phase = "mount" /\ phase' = "mount" /\ scan \in Phy /\ scan' = NextPhy(scan)
      /\ media' = media /\ out' = out
  BY DEF Scan
<1>2. /\ scan \in Nat \X Blocks /\ ScanFits(lut, scan) /\ Own \subseteq lut.data_map
      /\ WellWritten(media)
  BY <1>1, MountFacts
<1>3. /\ scan' \in Nat \X Blocks /\ ScanFits(lut', scan') /\ Own \subseteq lut'.data_map
      /\ WellWritten(media') /\ Found(lut', {}, {p \in Phy : Before(p, scan')})
  <2>1. ScanFits(lut', scan')
    BY <1>1 DEF IInv, ScanFits, Before
  <2>2. scan' \in Nat \X Blocks
    BY DEF Sized, TypeOK
  <2>3. Own \subseteq lut'.data_map /\ Found(lut', {}, {p \in Phy : Before(p, scan')})
    BY ScanStep DEF Apart
  <2> QED BY <1>1, <1>2, <2>1, <2>2, <2>3
<1>4. ASSUME NEW l \in Log
      PROVE  Home(l)' = Home(l)
  <2>1. \/ lut'.block_table[l] = lut.block_table[l]
        \/ /\ lut.block_table[l] = INVALID /\ lut'.block_table[l] = scan
           /\ scan \notin Own /\ scan[1] = l[1] /\ BlockClaims(media[scan], l[2])
    BY ScanStep
  <2>2. /\ lut.block_table[l] # INVALID => Home(l) = lut.block_table[l]
        /\ lut.block_table[l] = INVALID =>
             /\ \A p \in Phy : Ahead(p, l) => Home(l) = p
             /\ (\A p \in Phy : ~ Ahead(p, l)) => Home(l) = INVALID
    BY <1>1, <1>2, HomeOnScan DEF HomeKnown
  <2>3. /\ lut'.block_table[l] # INVALID => Home(l)' = lut'.block_table[l]
        /\ lut'.block_table[l] = INVALID =>
             /\ \A p \in Phy : Ahead(p, l)' => Home(l)' = p
             /\ (\A p \in Phy : ~ Ahead(p, l)') => Home(l)' = INVALID
    <3>1. (ScanFits(lut, scan) /\ WellWritten(media) /\ Own \subseteq lut.data_map)'
      BY <1>3 DEF ScanFits, WellWritten, Before
    <3> QED BY <1>1, <1>3, <3>1, HomeOnScanNext DEF HomeKnown
  <2>4. CASE lut.block_table[l] # INVALID
    BY <2>1, <2>2, <2>3, <2>4
  <2>5. ~ Before(scan, scan) /\ scan # INVALID
    <3>1. scan[1] \in Nat /\ scan[2] \in Nat
      BY <1>1, GeometryAssumption DEF Phy, Zones, Blocks
    <3>2. ~ Before(scan, scan)
      BY <3>1 DEF Before
    <3> QED BY <1>1, <3>2, InvalidAssumption
  <2>6. CASE lut.block_table[l] = INVALID /\ lut'.block_table[l] # INVALID
    <3>1. lut'.block_table[l] = scan /\ Ahead(scan, l)
      BY <1>1, <2>1, <2>5, <2>6 DEF Ahead
    <3> QED BY <1>1, <2>2, <2>3, <2>6, <3>1
  <2>7. CASE lut.block_table[l] = INVALID /\ lut'.block_table[l] = INVALID
    <3>1. ASSUME NEW p \in Phy
          PROVE  Ahead(p, l)' <=> Ahead(p, l)
      <4>1. Ahead(p, l)' <=> /\ p[1] = l[1] /\ BlockClaims(media[p], l[2])
                             /\ ~ Before(p, NextPhy(scan))
        BY <1>1 DEF Ahead, BlockClaims, Before
      <4>2. Before(p, NextPhy(scan)) => Before(p, scan) \/ p = scan
        BY <1>1, BeforeNext
      <4>3. Before(p, scan) => Before(p, NextPhy(scan))
        BY <1>1, GeometryAssumption DEF Before, NextPhy, Phy, Zones, Blocks
      <4>4. p = scan => ~ Ahead(p, l)
        <5> SUFFICES ASSUME Ahead(scan, l) PROVE FALSE
          OBVIOUS
        <5>1. Before(scan, NextPhy(scan))
          BY <1>1, GeometryAssumption DEF Before, NextPhy, Phy, Zones, Blocks
        <5>2. scan \in Phy \ Own
          BY <1>1, <1>2, <2>5 DEF ScanFits
        <5>3. l = <<scan[1], l[2]>> /\ l[2] \in LogBlocks /\ BlockClaims(media[scan], l[2])
          BY LogPair DEF Ahead
        <5>4. lut'.block_table[<<scan[1], l[2]>>] = scan
          BY <1>1, <1>3, <5>1, <5>2, <5>3 DEF Found
        <5> QED BY <2>5, <2>7, <5>3, <5>4
      <4>5. p = scan => Before(p, NextPhy(scan))
        BY <1>1, GeometryAssumption DEF Before, NextPhy, Phy, Zones, Blocks
      <4> QED BY <4>1, <4>2, <4>3, <4>4, <4>5 DEF Ahead
    <3> QED BY <2>2, <2>3, <2>7, <3>1
  <2> QED BY <2>4, <2>6, <2>7
<1>5. Array' = Array
  BY <1>1, <1>4, SameArray
<1>6. Job' = Job
  BY <1>1 DEF Job
<1> QED BY <1>1, <1>5, <1>6 DEF NotSeen

LEMMA ScanEndSeen ==
  ASSUME Sized, IInv, Kept, ScanEnd
  PROVE  NotSeen
<1>1. /\ phase = "mount" /\ phase' = "idle" /\ scan \notin Phy /\ UNCHANGED <<lut, media, out>>
  BY DEF ScanEnd
<1>2. /\ scan \in Nat \X Blocks /\ ScanFits(lut, scan) /\ Own \subseteq lut.data_map
      /\ WellWritten(media)
  BY <1>1, MountFacts
<1>3. ASSUME NEW l \in Log
      PROVE  Home(l)' = Home(l)
  <2>1. \A p \in Phy : ~ Ahead(p, l)
    <3>1. \A p \in Phy : Before(p, scan)
      BY <1>1, <1>2, GeometryAssumption DEF Before, Phy, Zones
    <3> QED BY <3>1 DEF Ahead
  <2>2. Home(l) = lut.block_table[l]
    BY <1>1, <1>2, <2>1, HomeOnScan DEF HomeKnown
  <2>3. Home(l)' = lut'.block_table[l]
    BY <1>1, HomeMounted
  <2> QED BY <1>1, <2>2, <2>3
<1>4. Array' = Array
  BY <1>1, <1>3, SameArray
<1>5. Job' = Job
  BY <1>1 DEF Job
<1> QED BY <1>1, <1>4, <1>5 DEF NotSeen

\* A card that is put back is found as it was left.
LEMMA RemountSeen ==
  ASSUME Reliable, Sized, IInv, Kept, Sized', IInv', Kept', Remount
  PROVE  NotSeen
<1> DEFINE f == FreshLut(CisBlock)
<1>1. /\ phase = "idle" /\ phase' = "mount" /\ media' = media /\ lut' = f
      /\ scan' = FirstScan /\ MaxFaults = 0 /\ out' = <<>> /\ out = <<>>
  BY DEF Remount, Reset, Reliable, Sized
<1>2. /\ f.block_table = [l \in Log |-> INVALID]
      /\ Own \subseteq f.data_map /\ Found(f, {}, {p \in Phy : Before(p, FirstScan)})
  BY FreshParts DEF FreshLut, Apart
<1> HIDE DEF f
<1>3. Found(lut, {}, Phy) /\ Fine(lut) /\ WellWritten(media) /\ LutOK(lut) /\ lut \in Lut
  BY <1>1, IdleWellWritten DEF Kept, Sound, Held, IInv, LutOK
<1>4. (/\ scan \in Nat \X Blocks /\ ScanFits(lut, scan) /\ Own \subseteq lut.data_map
       /\ WellWritten(media))'
  BY <1>1, <1>2, <1>3 DEF Sized, TypeOK, IInv, WellWritten
<1>5. ASSUME NEW l \in Log
      PROVE  Home(l)' = Home(l)
  <2>1. Home(l) = lut.block_table[l]
    BY <1>1, HomeMounted
  <2>2. lut'.block_table[l] = INVALID
    BY <1>1, <1>2
  <2>3. /\ \A p \in Phy : Ahead(p, l)' => Home(l)' = p
        /\ (\A p \in Phy : ~ Ahead(p, l)') => Home(l)' = INVALID
    BY <1>1, <1>4, <2>2, HomeOnScanNext DEF HomeKnown
  <2>4. ASSUME NEW p \in Phy
        PROVE  Ahead(p, l)' <=> /\ p[1] = l[1] /\ BlockClaims(media[p], l[2])
                                /\ ~ Before(p, FirstScan)
    BY <1>1 DEF Ahead, BlockClaims, Before
  <2>5. CASE lut.block_table[l] # INVALID
    <3> DEFINE p == lut.block_table[l]
    <3>1. /\ p \in Phy /\ p \notin Own /\ p[1] = l[1] /\ BlockClaims(media[p], l[2])
          /\ l = <<p[1], l[2]>> /\ l[2] \in LogBlocks
      BY <1>3, <2>5, LogPair DEF Fine, LutOK, MappedInUse, Lut
    <3> HIDE DEF p
    <3>2. ~ Before(p, FirstScan)
      <4> SUFFICES ASSUME Before(p, FirstScan) PROVE FALSE
        OBVIOUS
      <4>1. f.block_table[<<p[1], l[2]>>] = p
        BY <1>2, <3>1 DEF Found
      <4> QED BY <1>2, <3>1, <4>1, InvalidAssumption
    <3>3. Home(l)' = p
      BY <2>3, <2>4, <3>1, <3>2
    <3> QED BY <2>1, <3>3 DEF p
  <2>6. CASE lut.block_table[l] = INVALID
    <3>1. ASSUME NEW p \in Phy, Ahead(p, l)'
          PROVE  FALSE
      <4>1. p[1] = l[1] /\ BlockClaims(media[p], l[2]) /\ ~ Before(p, FirstScan)
        BY <2>4, <3>1
      <4>2. p \notin Own
        BY <1>1, <1>4, <4>1 DEF ScanFits, Before
      <4>3. l = <<p[1], l[2]>> /\ l[2] \in LogBlocks
        BY <4>1, LogPair
      <4>4. lut.block_table[l] = p
        BY <1>3, <4>1, <4>2, <4>3 DEF Found
      <4> QED BY <2>6, <4>4, InvalidAssumption
    <3> QED BY <2>1, <2>3, <2>6, <3>1
  <2> QED BY <2>5, <2>6
<1>6. Array' = Array
  BY <1>1, <1>5, SameArray
<1>7. Job' = Job
  BY <1>1 DEF Job
<1> QED BY <1>1, <1>6, <1>7 DEF NotSeen

LEMMA StartSeen ==
  ASSUME Sized, Kept, StartReading \/ StartWriting
  PROVE  Store!Next
<1> SUFFICES ASSUME NEW h \in {"read", "write"}, NEW r \in Requests,
                    NEW v, h = "write" => v \in Values, Start(h, r, v)
             PROVE  Store!Next
  BY DEF StartReading, StartWriting
<1>1. r[1] \in Nat /\ r[2] \in Nat \ {0}
  BY PageAssumption
<1>2. /\ phase = "idle" /\ phase' = "call" /\ UNCHANGED <<lut, media, out>> /\ out = <<>>
      /\ io' = StartIo(h, r, v)
  BY DEF Start, Sized
<1>3. Array' = Array
  BY <1>2, SameTable
<1>4. Job = Store!NoJob
  BY <1>2 DEF Job, Store!NoJob
<1>5. /\ io'.handler = h /\ io'.byte_offset = r[1] /\ io'.t_count = 0
      /\ io'.rem_count = r[2] /\ io'.val = v
  BY <1>2 DEF StartIo
<1>6. Job' = [op |-> h, at |-> r[1], left |-> r[2], val |-> v]
  <2> DEFINE at1   == io'.byte_offset + Len(out')
             left1 == io'.t_count + io'.rem_count - Len(out')
             at2   == io'.byte_offset + io'.t_count
             left2 == io'.rem_count
  <2>1. /\ at1 = r[1] /\ left1 = r[2] /\ at2 = r[1] /\ left2 = r[2]
    <3>1. Len(out') = 0
      BY <1>2
    <3> QED BY <1>1, <1>5, <3>1
  <2>2. CASE h = "read"
    <3>1. Job' = [op |-> "read", at |-> at1, left |-> left1, val |-> io'.val]
      BY <1>2, <1>5, <2>2 DEF Job
    <3> HIDE DEF at1, left1
    <3> QED BY <1>5, <2>1, <2>2, <3>1
  <2>3. CASE h = "write"
    <3>1. Job' = [op |-> "write", at |-> at2, left |-> left2, val |-> io'.val]
      BY <1>2, <1>5, <2>3 DEF Job
    <3> HIDE DEF at2, left2
    <3> QED BY <1>5, <2>1, <2>3, <3>1
  <2> QED BY <2>2, <2>3
<1> QED BY <1>1, <1>2, <1>3, <1>4, <1>6, StoreStart

\* The other commands, and the failures, do not touch what is stored.
LEMMA ExecuteArray ==
  ASSUME Sized, IInv, Kept, Execute
  PROVE  Array' = Array
<1>1. /\ phase = "exec" /\ phase' = "call" /\ lut' = lut
      /\ \A p \in Phy : p \notin Held => media'[p] = media[p]
  BY Executed
<1>2. Apart(lut, Held) /\ lut.block_table \in [Log -> Phy \cup {INVALID}]
  BY <1>1 DEF Kept, Sound, IInv, LutOK, Lut
<1>3. \A l \in Log : lut.block_table[l] # INVALID =>
        media'[lut.block_table[l]].data = media[lut.block_table[l]].data
  BY <1>1, <1>2 DEF Apart
<1> QED BY <1>1, <1>3, SameTable

LEMMA ReadJob ==
  ASSUME phase \in {"exec", "call"}, io.handler \in Reading, NEW at, NEW left,
         at = io.byte_offset + Len(out), left = io.t_count + io.rem_count - Len(out)
  PROVE  Job = [op |-> "read", at |-> at, left |-> left, val |-> io.val]
BY DEF Job, Reading

LEMMA ExecuteSeen ==
  ASSUME Reliable, Sized, IInv, Kept, Sized', Execute
  PROVE  NotSeen \/ Store!Next
<1>1. /\ phase = "exec" /\ phase' = "call" /\ lut' = lut /\ io' = io /\ io \in ExactIo
      /\ Asks(io.handler, io, lut, req.cmd, req.phy, req.off, req.cnt, io.req_count)
  BY Executed
<1>2. Array' = Array
  BY ExecuteArray
<1>3. CASE out' = out
  <2>1. Job' = Job
    BY <1>1, <1>3 DEF Job
  <2> QED BY <1>2, <1>3, <2>1 DEF NotSeen
<1>4. CASE ~ Fault /\ req.cmd \in {"READ", "FLUSH_TMP", "SKIP"}
  <2> DEFINE n  == io.buf_count
             at == Position(io)
             r  == io.rem_count
             b  == lut.block_table[io.w_log]
  <2>1. /\ io.handler = "read" /\ Chunk(io) /\ Len(out) = io.t_count /\ req.cnt = n
        /\ \/ req.cmd = "SKIP" /\ b = INVALID
           \/ req.cmd = "READ" /\ req.phy = b /\ b # INVALID /\ req.off = io.buf_offset
           \/ /\ req.cmd = "FLUSH_TMP" /\ b # INVALID
              /\ req.off = io.buf_offset - FirstPage(io) * PageSize
    BY <1>1, <1>4 DEF Asks, Sized, Asked, Reading
  <2>2. /\ n \in 1 .. BlockSize /\ io.buf_offset + n <= BlockSize /\ n <= r /\ at \in Nat
        /\ r \in Nat /\ at + n <= SectorCnt /\ at % BlockSize = io.buf_offset
        /\ io.w_log \in Log /\ io.buf_offset \in Nat
        /\ \A k \in 0 .. n - 1 : /\ LogOfSector(at + k) = io.w_log
                                 /\ (at + k) % BlockSize = io.buf_offset + k
    BY <1>1, <2>1, ChunkFits, RunPlace DEF ExactIo, Offsets
  <2>3. ASSUME NEW k \in 1 .. n
        PROVE  /\ at + k - 1 \in 0 .. SectorCnt - 1
               /\ Array[at + k - 1] = IF b = INVALID THEN BLANK
                                      ELSE media[b].data[io.buf_offset + k - 1]
    <3> DEFINE j == k - 1
               s == at + j
    <3> HIDE DEF n, at, r, b
    <3>1. j \in 0 .. n - 1 /\ s = at + k - 1 /\ io.buf_offset + j = io.buf_offset + k - 1
      BY <2>2, SizesExact
    <3>2. s \in 0 .. SectorCnt - 1
      BY <2>2, <3>1, RunPlace, <1>1, <2>1
    <3>3. LogOfSector(s) = io.w_log /\ s % BlockSize = io.buf_offset + k - 1
      BY <2>2, <3>1
    <3>4. Home(io.w_log) = b
      BY <1>1, <2>2, HomeMounted DEF b
    <3> HIDE DEF j, s
    <3>5. Array[s] = Stored(s)
      BY <3>2 DEF Array
    <3>6. Stored(s) = IF b = INVALID THEN BLANK ELSE media[b].data[io.buf_offset + k - 1]
      BY <3>3, <3>4 DEF Stored
    <3> QED BY <3>1, <3>2, <3>5, <3>6
  <2>4. out' = out \o [k \in 1 .. n |-> Array[at + k - 1]]
    <3>1. CASE req.cmd = "SKIP"
      <4>1. out' = out \o [k \in 1 .. req.cnt |-> BLANK]
        BY <1>4, <3>1 DEF Execute, ExecRead, ExecReadTmp, ExecFlushTmp, ExecSkip,
           ExecEraseTmp, ExecFillTmp, ExecErase, ExecWrite, ExecMarkBad, Exec
      <4>2. \A k \in 1 .. n : Array[at + k - 1] = BLANK
        BY <2>1, <2>3, <3>1
      <4> HIDE DEF n, at
      <4> QED BY <2>1, <4>1, <4>2
    <3>2. CASE req.cmd = "READ"
      <4>1. out' = out \o [k \in 1 .. req.cnt |-> media[req.phy].data[req.off + k - 1]]
        BY <1>4, <3>2 DEF Execute, ExecRead, ExecReadTmp, ExecFlushTmp, ExecSkip,
           ExecEraseTmp, ExecFillTmp, ExecErase, ExecWrite, ExecMarkBad, Exec, PhyData
      <4>2. /\ \A k \in 1 .. n : Array[at + k - 1] = media[b].data[io.buf_offset + k - 1]
            /\ req.phy = b /\ req.off = io.buf_offset
        BY <2>1, <2>3, <3>2
      <4> HIDE DEF n, at, b
      <4> QED BY <2>1, <4>1, <4>2
    <3>3. CASE req.cmd = "FLUSH_TMP"
      <4>1. out' = out \o [k \in 1 .. req.cnt |-> tmp[req.off + k - 1]]
        BY <1>4, <3>3 DEF Execute, ExecRead, ExecReadTmp, ExecFlushTmp, ExecSkip,
           ExecEraseTmp, ExecFillTmp, ExecErase, ExecWrite, ExecMarkBad, Exec
      <4> DEFINE first == FirstPage(io) * PageSize
                 o     == io.buf_offset
                 span  == PageSpan(io) * PageSize
      <4>2. /\ b # INVALID /\ req.off = o - first
            /\ PagesLoaded(io, lut)
        BY <1>1, <2>1, <3>3 DEF Kept, Ready
      <4>3. /\ first \in Nat /\ first <= o /\ o + n <= first + span /\ span \in Nat
        BY <1>1, <2>2, PagesOfRun, SizesExact DEF Offsets
      <4>4. \A k \in 0 .. span - 1 : tmp[k] = media[b].data[first + k]
        BY <4>2 DEF PagesLoaded
      <4>5. ASSUME NEW k \in 1 .. n
            PROVE  tmp[req.off + k - 1] = Array[at + k - 1]
        <5> DEFINE j == o - first + k - 1
        <5>1. Array[at + k - 1] = media[b].data[o + k - 1]
          BY <2>3, <4>2
        <5> HIDE DEF n, at, b, first, o, span
        <5>2. j \in 0 .. span - 1 /\ first + j = o + k - 1 /\ req.off + k - 1 = j
          BY <2>2, <4>2, <4>3, SizesExact DEF o
        <5> HIDE DEF j
        <5> QED BY <4>4, <5>1, <5>2
      <4> HIDE DEF n, at, first, o, span
      <4> QED BY <2>1, <4>1, <4>5
    <3> QED BY <1>4, <3>1, <3>2, <3>3
  <2>5. at = io.byte_offset + Len(out) /\ r = io.t_count + io.rem_count - Len(out)
    <3>1. io.t_count \in Nat /\ io.rem_count \in Nat
      BY <1>1 DEF ExactIo
    <3> QED BY <2>1, <3>1 DEF Position
  <2>6. /\ at + n = io'.byte_offset + Len(out')
        /\ r - n = io'.t_count + io'.rem_count - Len(out')
    <3>1. /\ io.t_count \in Nat /\ io.rem_count \in Nat /\ io.byte_offset \in Nat
          /\ io.buf_count \in Nat
      BY <1>1 DEF ExactIo
    <3>2. Len(out') = io.t_count + n
      <4>1. ret'.count = req.cnt
        BY <1>4 DEF Execute, ExecRead, ExecReadTmp, ExecFlushTmp, ExecSkip,
           ExecEraseTmp, ExecFillTmp, ExecErase, ExecWrite, ExecMarkBad, Exec, Done
      <4>2. Len(out') = io'.t_count + ret'.count
        BY <1>1, <2>1 DEF Sized, Answered
      <4> QED BY <1>1, <2>1, <4>1, <4>2
    <3> QED BY <1>1, <3>1, <3>2 DEF Position
  <2> HIDE DEF n, at, r, b
  <2>7. Job = [op |-> "read", at |-> at, left |-> r, val |-> io.val]
    BY <1>1, <2>1, <2>5, ReadJob DEF Reading
  <2>8. Job' = [op |-> "read", at |-> at + n, left |-> r - n, val |-> io.val]
    <3> DEFINE a == at + n
               q == r - n
    <3>1. a = io'.byte_offset + Len(out') /\ q = io'.t_count + io'.rem_count - Len(out')
      BY <2>6
    <3> HIDE DEF a, q
    <3>2. Job' = [op |-> "read", at |-> a, left |-> q, val |-> io'.val]
      BY <1>1, <2>1, <3>1 DEF Job
    <3> QED BY <1>1, <3>2 DEF a, q
  <2> QED BY <1>2, <2>2, <2>4, <2>7, <2>8, StoreRead
<1>5. out' = out \/ (~ Fault /\ req.cmd \in {"READ", "FLUSH_TMP", "SKIP"})
  <2>1. Fault => out' = out
    BY DEF Fault
  <2>2. \/ ExecRead \/ ExecFlushTmp \/ ExecSkip => req.cmd \in {"READ", "FLUSH_TMP", "SKIP"}
    BY DEF ExecRead, ExecFlushTmp, ExecSkip, Exec
  <2>3. \/ ExecReadTmp \/ ExecEraseTmp \/ ExecFillTmp \/ ExecErase \/ ExecWrite \/ ExecMarkBad
        => out' = out
    BY DEF ExecReadTmp, ExecEraseTmp, ExecFillTmp, ExecErase, ExecWrite, ExecMarkBad
  <2> QED BY <2>1, <2>2, <2>3 DEF Execute
<1> QED BY <1>3, <1>4, <1>5

LEMMA MarkUsedTable ==
  ASSUME NEW m, m \in Lut, NEW p
  PROVE  MarkUsed(m, p).block_table = m.block_table
BY DEF MarkUsed, Lut

\* The run at hand is stored when the table is changed.
LEMMA CommitSeen ==
  ASSUME Sized, IInv, Kept, phase = "call", io.handler = "write_inc", ~ Failed,
         phase' # "mount", media' = media,
         lut'.block_table = [lut.block_table EXCEPT ![io.w_log] = io.w_dst]
  PROVE  Array' = [s \in 0 .. SectorCnt - 1 |->
                     IF s \in Position(io) .. Position(io) + io.buf_count - 1
                     THEN io.val ELSE Array[s]]
<1>1. /\ io \in ExactIo /\ Chunk(io) /\ WriteFits(lut, io) /\ lut \in Lut
      /\ lut.block_table \in [Log -> Phy \cup {INVALID}]
  BY DEF Sized, IInv, Fits, AtWork, Writing, LutOK, Lut
<1>2. /\ io.w_log \in Log /\ io.w_src = lut.block_table[io.w_log] /\ io.w_dst \in Phy
      /\ io.w_dst # INVALID
  BY <1>1, InvalidAssumption DEF WriteFits
<1>3. media[io.w_dst].data = New(io)
  BY DEF Kept, Result
<1>4. ASSUME NEW s \in 0 .. SectorCnt - 1
      PROVE  Stored(s)' = IF s \in Position(io) .. Position(io) + io.buf_count - 1
                          THEN io.val ELSE Stored(s)
  <2> DEFINE l == LogOfSector(s)
             o == s % BlockSize
  <2>1. l \in Log /\ o \in Offsets /\ l' = l
    BY SectorLog DEF LogOfSector
  <2>2. /\ s \in Position(io) .. Position(io) + io.buf_count - 1 <=>
             l = io.w_log /\ o \in io.buf_offset .. io.buf_offset + io.buf_count - 1
    BY <1>1, SectorOfRun
  <2>3. Home(l) = lut.block_table[l] /\ Home(l)' = lut'.block_table[l]
    BY <2>1, HomeMounted
  <2>4. /\ Stored(s) = IF Home(l) = INVALID THEN BLANK ELSE media[Home(l)].data[o]
        /\ Stored(s)' = IF Home(l)' = INVALID THEN BLANK ELSE media'[Home(l)'].data[o]
    BY DEF Stored
  <2> HIDE DEF l, o
  <2>5. CASE l = io.w_log
    <3>1. Stored(s)' = New(io)[o]
      BY <1>1, <1>2, <1>3, <2>3, <2>4, <2>5
    <3>2. Stored(s) = Old(io)[o]
      BY <1>2, <2>1, <2>3, <2>4, <2>5 DEF Old
    <3>3. New(io)[o] = IF o \in io.buf_offset .. io.buf_offset + io.buf_count - 1
                       THEN io.val ELSE Old(io)[o]
      BY <2>1 DEF New
    <3> QED BY <2>2, <2>5, <3>1, <3>2, <3>3
  <2>6. CASE l # io.w_log
    <3>1. lut'.block_table[l] = lut.block_table[l]
      BY <1>1, <2>1, <2>6
    <3> QED BY <2>2, <2>3, <2>4, <2>6, <3>1
  <2> QED BY <2>5, <2>6
<1> DEFINE run == Position(io) .. Position(io) + io.buf_count - 1
<1>5. Array' = [s \in 0 .. SectorCnt - 1 |-> Stored(s)']
  BY DEF Array
<1>6. \A s \in 0 .. SectorCnt - 1 : Array[s] = Stored(s)
  BY DEF Array
<1>7. \A s \in 0 .. SectorCnt - 1 : Stored(s)' = IF s \in run THEN io.val ELSE Stored(s)
  BY <1>4
<1> HIDE DEF run
<1>8. Array' = [s \in 0 .. SectorCnt - 1 |-> IF s \in run THEN io.val ELSE Array[s]]
  BY <1>5, <1>6, <1>7
<1> QED BY <1>8 DEF run

LEMMA HWriteIncSeen ==
  ASSUME Sized, IInv, Kept, HWriteInc
  PROVE  NotSeen \/ Store!Next
<1> DEFINE i == Advance(io, io.buf_count)
           m == Commit(lut, io)
           e == [m EXCEPT !.erase_map = @ \ {io.w_src}]
<1>1. /\ io \in ExactIo /\ AtWork("write_inc", io) /\ Chunk(io) /\ LutOK(lut) /\ lut \in Lut
      /\ WriteFits(lut, io) /\ media' = media /\ phase = "call" /\ io.handler = "write_inc"
      /\ io.handler \notin Reading /\ Answered /\ out = <<>>
  BY DEF Sized, IInv, HWriteInc, Called, Fits, AtWork, Writing, Reading, LutOK, HandlerFrame
<1>2. /\ i \in ExactIo /\ i.byte_offset = io.byte_offset /\ i.val = io.val
      /\ i.t_count = io.t_count + io.buf_count /\ i.rem_count = io.rem_count - io.buf_count
  BY <1>1, ChunkFits, AdvanceExact
<1>3. CASE Failed \/ Short
  <2>1. Failed
    BY <1>1, <1>3 DEF Answered
  <2>2. /\ Ends \/ GoesOn(io)
        /\ lut'.block_table = lut.block_table
    <3>1. CASE Finish(lut)
      BY <3>1, FinishEnds
    <3>2. CASE Issue("MARK_BAD", io.w_dst, 0, BlockSize, GoTo(io, "null", 0),
                     MarkUsed(lut, io.w_dst))
      <4>1. GoesOn(io) /\ lut' = MarkUsed(lut, io.w_dst)
        BY <1>1, <3>2, IssueGoesOn, HandlerNames, SizesExact DEF Reading
      <4> QED BY <1>1, <4>1, MarkUsedTable
    <3> QED BY <2>1, <3>1, <3>2 DEF HWriteInc, Failed
  <2> QED BY <1>1, <2>2, WaitsSeen
<1>4. CASE ~ Failed /\ ~ Short
  <2>1. /\ m.block_table = [lut.block_table EXCEPT ![io.w_log] = io.w_dst]
        /\ e.block_table = [lut.block_table EXCEPT ![io.w_log] = io.w_dst]
        /\ LutOK(m)
    <3>1. m.block_table = [lut.block_table EXCEPT ![io.w_log] = io.w_dst]
      BY <1>1 DEF Commit, Lut
    <3>2. m \in Lut /\ LutOK(m)
      <4>1. io \in ActiveIo
        BY <1>1 DEF IInv
      <4> QED BY <1>1, <4>1, CommitOK DEF LutOK
    <3>3. e.block_table = m.block_table
      BY <3>2 DEF Lut
    <3> QED BY <3>1, <3>2, <3>3
  <2>2. /\ Ends \/ GoesOn(i)
        /\ lut'.block_table = [lut.block_table EXCEPT ![io.w_log] = io.w_dst]
    <3> HIDE DEF i, m, e
    <3>1. CASE Issue("ERASE", io.w_src, 0, 0, GoTo(i, "erase_src", 0), e)
      BY <1>2, <2>1, <3>1, IssueGoesOn, HandlerNames, SizesExact DEF Reading
    <3>2. CASE NextBlockOrEnd(i, m)
      BY <1>2, <2>1, <3>2, NextBlockOrEndGoesOn
    <3> QED BY <1>4, <3>1, <3>2 DEF HWriteInc, Failed, i, m, e
  <2> HIDE DEF i, m, e
  <2>3. Array' = [s \in 0 .. SectorCnt - 1 |->
                    IF s \in Position(io) .. Position(io) + io.buf_count - 1
                    THEN io.val ELSE Array[s]]
    BY <1>1, <1>4, <2>2, CommitSeen DEF Ends, GoesOn
  <2> DEFINE n  == io.buf_count
             at == Position(io)
             r  == io.rem_count
             v  == io.val
  <2>4. /\ n \in 1 .. BlockSize /\ at \in Nat /\ r \in Nat /\ n <= r
        /\ at + n <= SectorCnt /\ (at % BlockSize) + n <= BlockSize
        /\ io.t_count \in Nat /\ io.byte_offset \in Nat
    <3>1. /\ n \in 1 .. BlockSize /\ at \in Nat /\ n <= r /\ io.buf_offset + n <= BlockSize
          /\ at + n <= SectorCnt /\ at % BlockSize = io.buf_offset
      BY <1>1, ChunkFits, RunPlace
    <3> QED BY <1>1, <3>1 DEF ExactIo
  <2>5. Position(i) = at + n /\ i.rem_count = r - n /\ i.val = v
    BY <1>2, <2>4 DEF Position
  <2>6. Job = [op |-> "write", at |-> at, left |-> r, val |-> v]
    BY <1>1, WriteJob
  <2>7. out' = out
    BY <1>1, <2>2 DEF Ends, GoesOn
  <2>8. Job' \in {[op |-> "write", at |-> at + n, left |-> r - n, val |-> v], Store!NoJob}
    <3>1. CASE Ends
      BY <3>1 DEF Ends, Job, Store!NoJob
    <3>2. CASE GoesOn(i)
      <4>1. Job' = [op |-> "write", at |-> Position(i), left |-> i.rem_count, val |-> i.val]
        BY <3>2, WriteJobNext
      <4> HIDE DEF at, n, r, v
      <4> QED BY <2>5, <4>1
    <3> QED BY <2>2, <3>1, <3>2
  <2> HIDE DEF at, n, r, v
  <2>9. Array' = [s \in 0 .. SectorCnt - 1 |->
                    IF s \in at .. at + n - 1 THEN v ELSE Array[s]]
    BY <2>3 DEF at, n, v
  <2> QED BY <2>4, <2>6, <2>7, <2>8, <2>9, StoreWrite
<1> QED BY <1>3, <1>4

LEMMA StepSeen ==
  ASSUME Reliable, Sized, IInv, Kept, Sized', IInv', Kept', [Next]_vars
  PROVE  [Store!Next]_<<Array, Job, out>>
<1>1. ~ PowerLoss
  BY DEF PowerLoss, Reliable
<1>2. CASE UNCHANGED vars
  <2>1. Job' = Job /\ out' = out
    BY <1>2 DEF vars, Job
  <2>2. Array' = Array
    BY <1>2 DEF vars, Array, Stored, Home, Holds, LogOfSector
  <2> QED BY <2>1, <2>2
<1>3. CASE Mount
  BY <1>1, <1>3, ScanSeen, ScanEndSeen, RemountSeen DEF Mount, NotSeen
<1>4. CASE StartReading \/ StartWriting
  BY <1>4, StartSeen
<1>5. CASE Handler
  BY <1>5, ReadsSeen, WritesSeen, HWriteIncSeen DEF Handler, NotSeen
<1>6. CASE Execute
  BY <1>6, ExecuteSeen DEF NotSeen
<1> QED BY <1>2, <1>3, <1>4, <1>5, <1>6 DEF Next

LEMMA InitSeen ==
  ASSUME Reliable, Init, Sized, IInv, Kept
  PROVE  Store!Init
<1>1. /\ phase = "mount" /\ out = <<>> /\ media \in Media
      /\ \A l \in Log : lut.block_table[l] = INVALID
  BY MediaAssumption DEF Init, FreshLut
<1>2. /\ scan \in Nat \X Blocks /\ ScanFits(lut, scan) /\ Own \subseteq lut.data_map
      /\ WellWritten(media)
  BY <1>1, MountFacts
<1>3. ASSUME NEW s \in 0 .. SectorCnt - 1
      PROVE  Stored(s) \in Values \cup {BLANK}
  <2> DEFINE l == LogOfSector(s)
             o == s % BlockSize
  <2>1. l \in Log /\ o \in Offsets
    BY SectorLog
  <2>2. Stored(s) = IF Home(l) = INVALID THEN BLANK ELSE media[Home(l)].data[o]
    BY DEF Stored
  <2> HIDE DEF l, o
  <2>3. /\ \A p \in Phy : Ahead(p, l) => Home(l) = p
        /\ (\A p \in Phy : ~ Ahead(p, l)) => Home(l) = INVALID
    BY <1>1, <1>2, <2>1, HomeOnScan DEF HomeKnown
  <2>4. ASSUME NEW p \in Phy, Ahead(p, l)
        PROVE  media[p].data[o] \in Values \cup {BLANK}
    <3>1. p \notin Own
      BY <1>2, <2>4 DEF Ahead, ScanFits
    <3>2. media[p].data[o] # JUNK
      BY <1>2, <2>1, <2>4, <3>1, LogPair DEF Ahead, WellWritten
    <3>3. media[p].data[o] \in Cell
      BY <1>1, <2>1 DEF Media, MediaBlock
    <3> QED BY <3>2, <3>3 DEF Cell
  <2> QED BY <2>2, <2>3, <2>4
<1>4. Job = Store!NoJob
  BY <1>1 DEF Job, Store!NoJob
<1> QED BY <1>1, <1>3, <1>4 DEF Store!Init, Store!Sectors

\* Every run of requests does what it would do to an array of sectors: the layer's
\* maps, t_buf and the copies on the card, through failed commands, bad blocks and
\* a new mount, show the block layer no other value than the last one written.
THEOREM BdStoresData == Reliable => (Spec => StoresData)
<1> SUFFICES ASSUME Reliable PROVE Spec => StoresData
  OBVIOUS
<1>1. Init /\ Sized /\ IInv /\ Kept => Store!Init
  BY InitSeen
<1>2. /\ Sized /\ IInv /\ Kept /\ Sized' /\ IInv' /\ Kept' /\ [Next]_vars
      => [Store!Next]_<<Array, Job, out>>
  BY StepSeen
<1> QED BY <1>1, <1>2, Invariant, AlwaysSized, AlwaysKept, PTL
        DEF Spec, StoresData, Store!Spec, Array

=============================================================================
