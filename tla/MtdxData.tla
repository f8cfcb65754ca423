------------------------------- MODULE MtdxData -------------------------------
(***************************************************************************)
(* What mtdx_core calculates: places in the data of a request              *)
(* (mtdx_data.c), regions of a bitmap and the list of page descriptions    *)
(* (mtdx_bus.c), zones (mtdx_common.h); and how long_map.c takes a search  *)
(* tree apart.  A word is the set of its bits that are 1.  The data of a   *)
(* request are a chain of bios, each a sequence of the lengths of its      *)
(* segments (bio_vec).                                                     *)
(***************************************************************************)
EXTENDS Integers, Sequences, FiniteSets, SequencesExt

Least(m, n) == IF m < n THEN m ELSE n
Sum(lens)   == FoldSeq(LAMBDA n, s : n + s, 0, lens)

-----------------------------------------------------------------------------
(* A buffer in one piece.                                                  *)

\* mtdx_data_iter_buf_set(), _inc(), _dec(): the position; length is that of the buffer.
BufSet(length, pos)      == Least(pos, length)
BufInc(length, pos, off) == BufSet(length, pos + off)
BufDec(length, pos, off) == BufSet(length, pos - Least(pos, off))

\* mtdx_data_iter_buf_fill(), _get_sg(), _get_bvec(): how much is taken, and the position.
BufTake(length, pos, count) ==
  LET c_sz == Least(count, length - pos)
  IN [len |-> c_sz, pos |-> IF c_sz = 0 THEN pos ELSE BufInc(length, pos, c_sz)]

-----------------------------------------------------------------------------
(* A chain of bios.  An iterator's seg is the bio it is in, counted from   *)
(* 1, Len(chain) + 1 being NULL; idx is counted from 0.                    *)

VecLen(chain, it) == chain[it.seg][it.idx + 1]

\* mtdx_data_iter_init_bio()
InitBio == [iter_pos |-> 0, seg |-> 1, seg_pos |-> 0, vec_pos |-> 0, idx |-> 0]

\* The loops of mtdx_data_iter_bio_set(), from the beginning of the chain.
RECURSIVE SetLoop(_, _, _)
SetLoop(chain, it, pos) ==
  IF it.seg > Len(chain) THEN [it EXCEPT !.iter_pos = it.vec_pos]
  ELSE IF it.idx = Len(chain[it.seg])
  THEN SetLoop(chain, [it EXCEPT !.seg = @ + 1, !.seg_pos = it.vec_pos, !.idx = 0], pos)
  ELSE IF pos - it.vec_pos < VecLen(chain, it) THEN it
  ELSE SetLoop(chain, [it EXCEPT !.vec_pos = @ + VecLen(chain, it), !.idx = @ + 1], pos)

BioSet(chain, pos) == SetLoop(chain, [InitBio EXCEPT !.iter_pos = pos], pos)

\* mtdx_data_iter_bio_inc()
RECURSIVE BioInc(_, _, _)
BioInc(chain, it, off) ==
  IF it.seg > Len(chain) THEN [it EXCEPT !.iter_pos = it.seg_pos]
  ELSE IF it.idx = Len(chain[it.seg])
  THEN BioInc(chain, [it EXCEPT !.seg = @ + 1, !.seg_pos = it.vec_pos, !.idx = 0], off)
  ELSE LET inc == it.vec_pos + VecLen(chain, it) - it.iter_pos
       IN  IF off < inc THEN [it EXCEPT !.iter_pos = @ + off]
           ELSE BioInc(chain, [it EXCEPT !.iter_pos = @ + inc, !.idx = @ + 1,
                                         !.vec_pos = @ + VecLen(chain, it)], off - inc)

\* ... and mtdx_data_iter_bio_dec(): inside a bio backwards, else from the beginning.
RECURSIVE DecLoop(_, _, _)
DecLoop(chain, it, pos) ==
  IF it.vec_pos <= pos THEN [it EXCEPT !.iter_pos = pos]
  ELSE DecLoop(chain, [it EXCEPT !.iter_pos = it.vec_pos, !.idx = @ - 1,
                                 !.vec_pos = @ - chain[it.seg][it.idx]], pos)

BioDec(chain, it, off) ==
  LET pos == it.iter_pos - Least(it.iter_pos, off)
  IN  IF it.seg_pos <= pos THEN DecLoop(chain, it, pos) ELSE BioSet(chain, pos)

\* What is left of the segment an iterator is in.
VecRest(chain, it) == VecLen(chain, it) - (it.iter_pos - it.vec_pos)

\* mtdx_data_iter_bio_get_bvec(): a piece of one segment.
GetBvec(chain, it, length) ==
  IF it.seg > Len(chain) THEN [len |-> 0, it |-> it]
  ELSE LET c_sz == Least(VecRest(chain, it), length)
       IN  [len |-> c_sz, it |-> BioInc(chain, it, c_sz)]

\* mtdx_data_iter_bio_get_sg(): one piece of memory, of as many segments as lie next to
\* each other: merges is the set of <<seg, idx>> that follow the one before in memory.
RECURSIVE MergeLoop(_, _, _, _)
MergeLoop(chain, merges, got, length) ==
  LET it == got.it
  IN  IF it.seg > Len(chain) \/ length = 0 \/ <<it.seg, it.idx>> \notin merges THEN got
      ELSE LET c_sz == Least(length, VecLen(chain, it))
           IN  MergeLoop(chain, merges,
                         [len |-> got.len + c_sz, it |-> BioInc(chain, it, c_sz)],
                         length - c_sz)

GetSg(chain, merges, it, length) ==
  LET first == GetBvec(chain, it, length)
  IN  MergeLoop(chain, merges, first, length - first.len)

\* mtdx_data_iter_bio_fill(): where the iterator is afterwards, everything before being
\* written.
RECURSIVE BioFill(_, _, _)
BioFill(chain, it, count) ==
  IF it.seg > Len(chain) \/ count = 0 THEN it
  ELSE LET c_sz == Least(count, VecRest(chain, it))
       IN  BioFill(chain, BioInc(chain, it, c_sz), count - c_sz)

\* mtdx_oob_iter_inc(), _dec(): entries of inc bytes, count bytes of them; the last entry
\* is not left.
OobInc(count, inc, pos, off) == Least(pos + off * inc, count - inc)
OobDec(inc, pos, off)        == IF off * inc <= pos THEN pos - off * inc ELSE 0

-----------------------------------------------------------------------------
(* Regions of a bitmap: bits[w] is a word of width bits.                   *)

MaskB(width, offset)         == (offset % width) .. width - 1
MaskE(width, offset, length) == 0 .. ((offset + length) % width) - 1

\* bitmap_region_empty().  In one word it tests what the two masks do not share.
RegionEmpty(bits, width, offset, length) ==
  LET w_b == offset \div width
      w_e == (offset + length) \div width
      m_b == MaskB(width, offset)
      m_e == MaskE(width, offset, length)
  IN  IF w_b = w_e THEN bits[w_b] \cap ((m_b \ m_e) \cup (m_e \ m_b)) = {}
      ELSE /\ bits[w_b] \cap m_b = {}
           /\ m_e # {} => bits[w_e] \cap m_e = {}
           /\ \A w \in w_b + 1 .. w_e - 1 : bits[w] = {}

\* What bitmap_clear_region() and bitmap_set_region() change in word w.
Region(bits, width, offset, length, w) ==
  LET w_b == offset \div width
      w_e == (offset + length) \div width
      m_b == MaskB(width, offset)
      m_e == MaskE(width, offset, length)
  IN  IF w_b = w_e THEN IF w = w_b THEN m_b \cap m_e ELSE {}
      ELSE IF w = w_b THEN m_b
      ELSE IF w = w_e THEN m_e
      ELSE IF w \in w_b + 1 .. w_e - 1 THEN 0 .. width - 1
      ELSE {}

ClearRegion(bits, width, offset, length) ==
  [w \in DOMAIN bits |-> bits[w] \ Region(bits, width, offset, length, w)]
SetRegion(bits, width, offset, length) ==
  [w \in DOMAIN bits |-> bits[w] \cup Region(bits, width, offset, length, w)]

-----------------------------------------------------------------------------
(* Pages and zones.                                                        *)

Before(a, b) == \/ a.phy_block < b.phy_block
                \/ a.phy_block = b.phy_block /\ a.page_offset < b.page_offset
SamePage(a, b) == a.phy_block = b.phy_block /\ a.page_offset = b.page_offset

\* mtdx_page_list_append(): the list is kept in order, a page is described once.
PageListAppend(head, info) ==
  LET n == Cardinality({i \in 1 .. Len(head) : \A j \in 1 .. i : Before(head[j], info)})
  IN  IF n < Len(head) /\ SamePage(head[n + 1], info)
      THEN [head EXCEPT ![n + 1].status = info.status]
      ELSE InsertAt(head, n + 1, info)

\* mtdx_geo_log_to_zone(), mtdx_geo_phy_to_zone() and back, of a device that has no
\* functions of its own; cnt is log_block_cnt or phy_block_cnt.
ToZone(cnt, zone_cnt, addr) ==
  LET z_sz == cnt \div zone_cnt IN [zone |-> addr \div z_sz, off |-> addr % z_sz]
FromZone(cnt, zone_cnt, zone, off) ==
  LET z_sz == cnt \div zone_cnt IN IF off < z_sz THEN zone * z_sz + off ELSE -1
-----------------------------------------------------------------------------
(* The search tree of long_map.c: <<>>, or <<left, key, right>>.           *)

\* long_map_put_tree(): the tree is turned until the root has nothing on its left, which is
\* then retired; out is the list so far.
RECURSIVE PutTree(_, _)
PutTree(p, out) ==
  IF p = <<>> THEN out
  ELSE IF p[1] = <<>> THEN PutTree(p[3], <<p[2]>> \o out)
  ELSE PutTree(<<p[1][1], p[1][2], <<p[1][3], p[2], p[3]>>>>, out)
=============================================================================
