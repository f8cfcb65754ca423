------------------------------ MODULE MCXdCard ------------------------------
(* The xD card: its translation layer with what is on the card, power lost at any *)
(* moment, or the driver around the translation layer with its host, chosen in    *)
(* the initial state.  The one that is not chosen stays where it began: XdCard    *)
(* takes what flash_bd asks for as chosen freely.                                 *)
EXTENDS MCFlashBd, Jmb38xXd, Integers

VARIABLE part

SomeXdCmds == {"FBD_READ", "FBD_COPY", "FBD_WRITE", "FBD_ERASE"}

Fm == INSTANCE XdFormat

-----------------------------------------------------------------------------
(* What is calculated, over small or sampled inputs.                       *)

SomePages == {{}, {<<0, 0>>}, {<<3, 1>>, <<3, 6>>, <<200, 7>>},
              {<<p, p % 8>> : p \in {0, 17, 34, 255}}}

\* xd_card_ecc_value(): two pages that differ in one bit have codes that differ in the
\* place of that bit, so that it can be corrected.
ASSUME EccLocates ==
  \A page \in SomePages, i \in 0 .. 7, pos \in {0, 1, 2, 3, 4, 17, 85, 128, 170, 200, 254, 255} :
    Fm!EccPlace(Fm!Xor(Fm!EccBytes(page), Fm!EccBytes(Fm!Xor(page, {<<pos, i>>}))))
      = <<pos, i>>

\* xd_card_fix_ecc() looks for the place in the code that was read and not in what it and
\* the calculated one differ in, and that one has bits above its three bytes: of a page
\* without any error it says that an error cannot be corrected, or "corrects" a bit.
ASSUME EccIsNotCompared ==
  /\ \A page \in SomePages :
       Fm!FixEcc(Fm!EccValue(Fm!EccState(page)), Fm!EccBytes(page)) # <<"ok">>
  /\ \E page \in SomePages :
       Fm!FixEcc(Fm!EccValue(Fm!EccState(page)), Fm!EccBytes(page)) # <<>>

\* xd_card_extra_to_addr() reads what xd_card_addr_to_extra() wrote, also if one bit of it
\* is wrong in one of the two copies.
ASSUME AddrSurvives ==
  /\ \A a \in 0 .. 1023 : Fm!ExtraToAddr(Fm!AddrToExtra(a), Fm!AddrToExtra(a)) = a
  /\ \A a \in {0, 1, 5, 127, 128, 511, 999}, b \in 0 .. 15 :
       /\ Fm!ExtraToAddr(Fm!Xor(Fm!AddrToExtra(a), {b}), Fm!AddrToExtra(a)) = a
       /\ Fm!ExtraToAddr(Fm!AddrToExtra(a), Fm!Xor(Fm!AddrToExtra(a), {b})) = a

\* Parts of one size come to the beginning of the extra data again.
ASSUME ExtraComesRound ==
  \A size \in {8, 16}, pos \in {0, 8} :
    pos + size <= 16 => Fm!ExtraPart(pos, size).next = (pos + size) % 16

\* Whatever card there is: its sectors have blocks, a zone has spare blocks, its last page
\* has an address that can be sent, and no two pages have one address.
ASSUME DiskSizesFit ==
  \A sm \in BOOLEAN : \A d \in Fm!DiskSizes(sm) :
    LET g == d[2]
    IN  /\ g.capacity <= g.zone_cnt * g.log_block_cnt * g.page_cnt
        /\ g.log_block_cnt < g.phy_block_cnt
        /\ g.capacity < 8388608
        /\ Fm!ReqAddress(g, g.zone_cnt - 1, g.phy_block_cnt - 1, g.page_cnt - 1, 511)
             < 256 ^ (Fm!AddrBytes(g) - 1)
ASSUME AddressIsOnePage ==
  \A d \in Fm!DiskSizes(TRUE) : d[2].zone_cnt = 1 /\ d[2].capacity <= 4000 =>
    \A b \in {0, 1, d[2].phy_block_cnt - 1}, p \in 0 .. d[2].page_cnt - 1 :
      Cardinality({Fm!ReqAddress(d[2], 0, b, p, off) : off \in 0 .. 511}
        \ UNION {{Fm!ReqAddress(d[2], 0, c, q, 0) : q \in 0 .. d[2].page_cnt - 1} :
                   c \in {0, 1, d[2].phy_block_cnt - 1} \ {b}})
        = 512 \div d[2].hw_page_size

\* xd_card_advance() goes as far as it is told, and not past an end.
ASSUME AdvanceIsSum ==
  \A len \in {<<3>>, <<2, 3>>, <<1, 2, 1>>} : \A s \in 1 .. Len(len) :
    \A off \in 0 .. len[s] - 1, n \in -5 .. 5 :
      LET total == Fm!Reached(len, <<Len(len), len[Len(len)]>>)
          due   == Fm!Reached(len, <<s, off>>) + n
      IN  Fm!Reached(len, Fm!Advance(len, <<s, off>>, n)) =
            IF due < 0 THEN 0 ELSE IF due > total THEN total ELSE due

\* xd_card_copy_tmp() copies the bytes of the segments if a segment that is left for the
\* next one ends at the end of a page; it does not look for the end of the segment.
ASSUME CopyNeedsPages ==
  \A first \in {2, 4}, count \in 1 .. 6 :
    LET len == <<first, 4>>
        start == <<4, 12>>
    IN  (Fm!CopyTmp(len, start, 4, <<1, 0>>, count) =
           Fm!SegmentBytes(len, start, <<1, 0>>, count)) <=> (first = 4 \/ count <= first)

-----------------------------------------------------------------------------
allVars == <<part, vars, xdVars>>

XdCardInit == part \in {"flash_bd", "xd_card_blk"} /\ Init /\ XdInit

FlashStep  == part = "flash_bd" /\ Next /\ UNCHANGED <<part, xdVars>>
XdStep     == part = "xd_card_blk" /\ XdNext /\ UNCHANGED <<part, vars>>
XdCardNext == FlashStep \/ XdStep

XdCardSpec == XdCardInit /\ [][XdCardNext]_allVars
=============================================================================
