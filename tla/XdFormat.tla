------------------------------- MODULE XdFormat -------------------------------
(***************************************************************************)
(* What xd_card_blk.c and xd_card_ecc.c calculate: where a page is, what   *)
(* its extra data say, its error correction code, and the place reached in *)
(* a list of segments.  A word is the set of its bits that are 1, a byte   *)
(* buffer the set of <<byte, bit>> that are 1.                             *)
(***************************************************************************)
EXTENDS Integers, Sequences, FiniteSets, SequencesExt

Xor(a, b)      == (a \ b) \cup (b \ a)
Not(a, width)  == (0 .. width - 1) \ a
Shl(a, n)      == {b + n : b \in a}
Shr(a, n)      == {b - n : b \in {c \in a : c >= n}}
Odd(a)         == Cardinality(a) % 2 = 1
BitsOf(n, width) == {b \in 0 .. width - 1 : (n \div 2^b) % 2 = 1}
Num(a)         == FoldSet(LAMBDA b, n : n + 2^b, 0, a)

-----------------------------------------------------------------------------
(* xd_card_ecc.c                                                           *)

\* xd_card_ecc_table[], of the byte with the one bit i; that of another byte is the xor of
\* its bits', 0x40 being set if their number is odd.
EccTable(i) == {6} \cup {IF j \in BitsOf(i, 3) THEN 2 * j + 1 ELSE 2 * j : j \in 0 .. 2}

\* What the bit i of the byte at pos adds to the state in xd_card_ecc_step().
EccMark(pos, i) ==
  (EccTable(i) \cap 0 .. 5) \cup Shl(BitsOf(pos, 8), 16) \cup Shl(Not(BitsOf(pos, 8), 8), 8)

\* xd_card_ecc_step(), over the 256 bytes.
EccState(data) == {k \in 0 .. 23 : Odd({d \in data : k \in EccMark(d[1], d[2])})}

\* xd_card_ecc_value(): 32 bits of it.
EccValue(state) ==
  Not({15 - 2 * k : k \in {n \in 0 .. 7 : 23 - n \in state}}
        \cup {14 - 2 * k : k \in {n \in 0 .. 7 : 15 - n \in state}}, 16)
  \cup (Shl(Not(state \cap 0 .. 7, 32), 18) \cap 16 .. 31) \cup {16, 17}

\* The three bytes of it that go to the card.
EccBytes(data) == EccValue(EccState(data)) \cap 0 .. 23

\* Where the code says that the error is.
EccPlace(code) ==
  LET b == Shl(code \cap 0 .. 15, 8) \cup (Shr(code, 16) \cap 0 .. 7)
  IN  IF {2 * k : k \in 1 .. 11} \subseteq Xor(b, Shr(b, 1))
      THEN <<Num({7 - n : n \in {k \in 0 .. 7 : 23 - 2 * k \in b}}),
             Num({2 - n : n \in {k \in 0 .. 2 : 7 - 2 * k \in b}})>>
      ELSE <<>>

\* xd_card_fix_ecc(): no error, none that can be corrected, or the bit to invert.
FixEcc(act, ref) == IF act = ref THEN <<"ok">> ELSE EccPlace(ref)

-----------------------------------------------------------------------------
(* The extra data.                                                         *)

\* xd_card_addr_to_extra(): addr1; addr2 is the same.
AddrToExtra(addr) ==
  LET a == {4} \cup Shr(BitsOf(addr, 10), 7) \cup (Shl(BitsOf(addr, 10), 9) \cap 9 .. 15)
  IN  IF Odd(a) THEN Xor(a, {8}) ELSE a

Invalid == -1    \* FLASH_BD_INVALID

\* One half of xd_card_extra_to_addr()
HalfToAddr(a) ==
  LET addr == Shl(a \cap 0 .. 2, 7) \cup Shr(a \cap 9 .. 15, 9)
  IN  IF a = 0 .. 15 \/ Odd(addr) = (8 \in a) \/ 4 \notin a THEN Invalid ELSE Num(addr)

\* xd_card_extra_to_addr()
ExtraToAddr(addr1, addr2) ==
  IF HalfToAddr(addr1) = Invalid THEN HalfToAddr(addr2) ELSE HalfToAddr(addr1)

\* xd_card_set_extra(), xd_card_get_extra(): a part of host->extra, which is of 16 bytes,
\* and the place of the next one.
ExtraPart(pos, size) ==
  IF size <= 16 - pos THEN [bytes |-> pos .. pos + size - 1, next |-> (pos + size) % 16]
  ELSE [bytes |-> {}, next |-> pos]

-----------------------------------------------------------------------------
(* The geometry of a card.                                                 *)

Sizes(hw, capacity, zones, phy, log, pages) ==
  [hw_page_size |-> hw, capacity |-> capacity, zone_cnt |-> zones, phy_block_cnt |-> phy,
   log_block_cnt |-> log, page_cnt |-> pages]

\* xd_card_set_disk_size(), by the device codes of one size; page_size is 512.
DiskSizes(sm_media) ==
  {<<c, Sizes(256, 2000, 1, 256, 250, 8)>> : c \in {110, 232, 236}} \cup
  {<<c, Sizes(256, 4000, 1, 512, 500, 8)>> : c \in {234, 100}} \cup
  {<<93, Sizes(512, 4000, 1, 256, 250, 16)>>} \cup
  {<<c, Sizes(512, 8000, 1, 512, 500, 16)>> : c \in {227, 229, 107}} \cup
  {<<230, Sizes(512, 16000, 1, 1024, 1000, 16)>>} \cup
  {<<c, Sizes(512, 32000 * z, z, 1024, 1000, 32)>> :
     <<c, z>> \in {<<87, 1>>, <<115, 1>>, <<88, 2>>, <<117, 2>>, <<118, 4>>, <<218, 8>>,
                   <<121, 8>>, <<91, 16>>, <<113, 16>>}} \cup
  {<<220, Sizes(512, 1023120, 32, 1024, 1000, 32)>>,
   <<211, Sizes(512, 2047815, 64, 1024, 1000, 32)>>} \cup
  IF sm_media
  THEN {<<213, Sizes(512, 8000, 1, 512, 500, 16)>>, <<214, Sizes(512, 16000, 1, 1024, 1000, 16)>>,
        <<217, Sizes(512, 128000, 4, 1024, 1000, 32)>>}
  ELSE {<<213, Sizes(512, 4095630, 128, 1024, 1000, 32)>>}

\* xd_card_alloc_media(): the bits of a number below n, fls(n - 1) being enough.
AddrBits(n)   == CHOOSE b \in 0 .. 16 : n <= 2^b /\ \A a \in 0 .. b - 1 : n > 2^a
PageParts(g)  == 512 \div g.hw_page_size
PageBits(g)   == AddrBits(g.page_cnt * PageParts(g))
BlockBits(g)  == AddrBits(g.phy_block_cnt)
AddrBytes(g)  == IF g.capacity < 62236 THEN 3 ELSE 4

\* xd_card_req_address(), without the byte in the page, which is 0: what the card is sent
\* is AddrBytes(g) - 1 bytes of it.
ReqAddress(g, zone, block, page, byte_off) ==
  (zone * 2^BlockBits(g) + block) * 2^PageBits(g) + page * PageParts(g)
    + byte_off \div g.hw_page_size

-----------------------------------------------------------------------------
(* Segments: lengths, and a place <<segment, offset>>.                     *)

\* xd_card_advance(), forwards
RECURSIVE Forwards(_, _, _)
Forwards(len, p, count) ==
  LET s_len == IF count < len[p[1]] - p[2] THEN count ELSE len[p[1]] - p[2]
      off   == p[2] + s_len
  IN  IF count = 0 THEN p
      ELSE IF off < len[p[1]] THEN Forwards(len, <<p[1], off>>, count - s_len)
      ELSE IF p[1] < Len(len) THEN Forwards(len, <<p[1] + 1, 0>>, count - s_len)
      ELSE <<p[1], off>>

\* ... and backwards
RECURSIVE Backwards(_, _, _)
Backwards(len, p, count) ==
  IF count >= p[2]
  THEN IF p[1] = 1 THEN <<1, 0>> ELSE Backwards(len, <<p[1] - 1, len[p[1] - 1]>>, count - p[2])
  ELSE IF p[2] - count = len[p[1]] /\ p[1] < Len(len) THEN <<p[1] + 1, 0>>
  ELSE <<p[1], p[2] - count>>

Advance(len, p, count) == IF count >= 0 THEN Forwards(len, p, count)
                          ELSE Backwards(len, p, -count)

\* The bytes before a place.
Reached(len, p) == FoldSet(LAMBDA s, n : n + len[s], p[2], 1 .. p[1] - 1)

\* xd_card_copy_tmp(): the bytes of memory that are copied, in order.  start is where the
\* segments begin, page the size of a page.
RECURSIVE CopyTmp(_, _, _, _, _)
CopyTmp(len, start, page, p, count) ==
  IF count = 0 THEN <<>>
  ELSE IF p[2] = len[p[1]]
  THEN IF p[1] = Len(len) THEN <<>> ELSE CopyTmp(len, start, page, <<p[1] + 1, 0>>, count)
  ELSE LET from  == start[p[1]] + p[2]
           rest  == page - (from % page)
           p_cnt == IF rest < count THEN rest ELSE count
       IN  [i \in 1 .. p_cnt |-> from + i - 1]
             \o CopyTmp(len, start, page, <<p[1], p[2] + p_cnt>>, count - p_cnt)

\* The bytes that the segments hold from a place on.
SegmentBytes(len, start, p, count) ==
  LET all == FlattenSeq([s \in 1 .. Len(len) |-> [i \in 1 .. len[s] |-> start[s] + i - 1]])
      n   == Reached(len, p)
  IN  SubSeq(all, n + 1, IF n + count < Len(all) THEN n + count ELSE Len(all))
=============================================================================
