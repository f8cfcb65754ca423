---------------------------- MODULE MCFtlSimple ----------------------------
(* One zone of three blocks and two logical blocks of three pages; requests inside a  *)
(* block, of a whole block, and over the end of one; with {0, 1} special, a zone that *)
(* has no spare block.  Or, as the initial state decides, two block devices that      *)
(* share a translation layer, which is only asked for requests then; or one map.      *)
EXTENDS FtlSimple, MtdxParts, SequencesExt, Functions

VARIABLE part

SomeShapes   == {<<0, 1>>, <<2, 2>>, <<3, 3>>}
OnePage      == {<<0, 1>>, <<1, 1>>, <<2, 1>>}
FirstOnly    == {0}
SomeSpecials == {{}, {0, 1}}

-----------------------------------------------------------------------------
(* What mtdx_core calculates, over small inputs.                              *)

Core == INSTANCE MtdxData

Chains     == {<<<<2>>>>, <<<<1, 2>>, <<2>>>>, <<<<2, 1>>, <<1, 1>>, <<1>>>>}
Total(c)   == Core!Sum(FlattenSeq(c))
BeforeSeg(c, s)    == Total(SubSeq(c, 1, s - 1))
BeforeVec(c, s, i) == BeforeSeg(c, s) + Core!Sum(SubSeq(c[s], 1, i))

\* Where an iterator is that has come to place.
At(c, place) ==
  IF place >= Total(c)
  THEN [iter_pos |-> Total(c), seg |-> Len(c) + 1, seg_pos |-> Total(c),
        vec_pos |-> Total(c), idx |-> 0]
  ELSE LET v == CHOOSE v \in (1 .. Len(c)) \X (0 .. 2) :
                  /\ v[2] < Len(c[v[1]]) /\ BeforeVec(c, v[1], v[2]) <= place
                  /\ place < BeforeVec(c, v[1], v[2] + 1)
       IN  [iter_pos |-> place, seg |-> v[1], seg_pos |-> BeforeSeg(c, v[1]),
            vec_pos |-> BeforeVec(c, v[1], v[2]), idx |-> v[2]]

\* mtdx_data.c: however it comes there, an iterator is in one place for each position.
ASSUME PlacesAgree ==
  \A c \in Chains : \A place \in 0 .. Total(c) + 1, off \in 0 .. Total(c) + 1 :
    /\ Core!BioSet(c, place) = At(c, place)
    /\ Core!BioInc(c, At(c, place), off) = At(c, place + off)
    /\ Core!BioFill(c, At(c, place), off) = At(c, place + off)
    /\ LET now == At(c, place).iter_pos
       IN  Core!BioDec(c, At(c, place), off) = At(c, IF off > now THEN 0 ELSE now - off)

\* ... and what is taken for a transfer is never more than asked for, something if there
\* is something, and left behind.
ASSUME TakesSome ==
  \A c \in Chains : \A place \in 0 .. Total(c), length \in 0 .. Total(c),
                       merges \in SUBSET {<<1, 1>>, <<2, 0>>} :
    \A took \in {Core!GetBvec(c, At(c, place), length), Core!GetSg(c, merges, At(c, place), length)} :
      /\ took.len <= length /\ (took.len = 0 => length = 0 \/ place = Total(c))
      /\ took.it = At(c, place + took.len)

\* A buffer's iterator stays in it.
ASSUME BufferKept ==
  \A length \in 0 .. 3 : \A place \in 0 .. length, off \in 0 .. 4 :
    /\ {Core!BufInc(length, place, off), Core!BufDec(length, place, off),
        Core!BufTake(length, place, off).pos} \subseteq 0 .. length
    /\ Core!BufTake(length, place, off).pos = place + Core!BufTake(length, place, off).len

\* An iterator over extra data points at an entry.
ASSUME EntryKept ==
  \A n \in 1 .. 3, off \in 0 .. 4 : \A place \in {0, 4, 8} \cap 0 .. 4 * (n - 1) :
    {Core!OobInc(4 * n, 4, place, off), Core!OobDec(4, place, off)}
      \subseteq {0, 4, 8} \cap 0 .. 4 * (n - 1)

BitSet(bits) == {2 * w + b : w \in 0 .. 2, b \in 0 .. 1} \cap
                {k \in 0 .. 5 : k % 2 \in bits[k \div 2]}

\* mtdx_bus.c, with words of two bits: a region that reaches into another word is found
\* empty if it is; inside one word it is if nothing else there is set.
ASSUME RegionsRight ==
  \A bits \in [0 .. 2 -> SUBSET {0, 1}], offset \in 0 .. 4, length \in 1 .. 4 :
    LET run == offset .. offset + length - 1
    IN  offset + length <= 5 =>
          /\ BitSet(Core!SetRegion(bits, 2, offset, length)) = BitSet(bits) \cup run
          /\ BitSet(Core!ClearRegion(bits, 2, offset, length)) = BitSet(bits) \ run
          /\ Core!RegionEmpty(bits, 2, offset, length) <=>
               IF offset \div 2 # (offset + length) \div 2 THEN BitSet(bits) \cap run = {}
               ELSE bits[offset \div 2] \subseteq {offset % 2}

PageInfos == [phy_block : 0 .. 1, page_offset : 0 .. 1, status : {"erased", "mapped"}]

\* mtdx_page_list_append(): in order, each page once, as it was described last.
ASSUME PageListRight ==
  \A infos \in [1 .. 3 -> PageInfos] :
    LET list == FoldLeft(LAMBDA h, i : Core!PageListAppend(h, i), <<>>, infos)
    IN  /\ \A i \in 1 .. Len(list) - 1 : Core!Before(list[i], list[i + 1])
        /\ Range(list) = {infos[i] : i \in {j \in 1 .. 3 : \A k \in j + 1 .. 3 :
                                                 ~Core!SamePage(infos[j], infos[k])}}

\* The zones of mtdx_common.h cover the addresses if these divide into them.
ASSUME ZonesCover ==
  \A zones \in 1 .. 3, size \in 1 .. 3 : \A addr \in 0 .. zones * size - 1 :
    LET z == Core!ToZone(zones * size, zones, addr)
    IN  z.zone < zones /\ Core!FromZone(zones * size, zones, z.zone, z.off) = addr

Trees == LET T0 == {<<>>}
             Some(l, k, r) == {<<a, k, b>> : a \in l, b \in r}
             Leaf(k) == {<<<<>>, k, <<>>>>}
             Two(a, b) == Some(T0, a, Leaf(b)) \cup Some(Leaf(a), b, T0)
             Three(a, b, c) == Some(T0, a, Two(b, c)) \cup Some(Leaf(a), b, Leaf(c))
                                 \cup Some(Two(a, b), c, T0)
         IN  Some(T0, 1, Three(2, 3, 4)) \cup Some(Leaf(1), 2, Two(3, 4))
               \cup Some(Two(1, 2), 3, Leaf(4)) \cup Some(Three(1, 2, 3), 4, T0)

\* long_map_put_tree(): no node of a tree is lost, whatever its form.
ASSUME TreeTakenApart == \A t \in Trees : Core!PutTree(t, <<>>) = <<4, 3, 2, 1>>

-----------------------------------------------------------------------------

\* Keys are longs.
ASSUME KeysAreLongs == Lm!MapAssumption

lmVars  == <<map, key, owned, pre, lm_store, ops>>
allVars == <<part, vars, mbVars, lmVars>>

PartsInit ==
  /\ part \in {"ftl", "devices", "map"}
  /\ Init /\ MbInit /\ Lm!Init
  /\ part # "ftl" => config = [mode |-> "inc", special |-> {}]

FtlStep     == part = "ftl"     /\ Next    /\ UNCHANGED <<part, mbVars, lmVars>>
DevicesStep == part = "devices" /\ MbNext /\ UNCHANGED <<part, vars, lmVars>>
MapStep     == part = "map"     /\ Lm!Next /\ UNCHANGED <<part, vars, mbVars>>

PartsNext == FtlStep \/ DevicesStep \/ MapStep

\* What is fair of one part is not enabled in the other.
PartsSpec == PartsInit /\ [][PartsNext]_allVars /\ Fairness /\ MbFairness

\* Every request from above ends, with success or not, in the layer and in the queues of
\* the block devices.
RequestsEnd == RequestEnds /\ MbRequestEnds
=============================================================================
