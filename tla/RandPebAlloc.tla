----------------------------- MODULE RandPebAlloc -----------------------------
(***************************************************************************)
(* mtdx_adv/rand_peb_alloc.c, the allocator of physical erase blocks, with *)
(* a user that keeps to the interface of mtdx_adv/peb_alloc.h.             *)
(*                                                                         *)
(* Each zone has two bitmaps.  A free block has a 0 bit in one of them.    *)
(* zone_map says which of the two is selected: blocks are handed out from  *)
(* the selected one, the nearest free one to a random position, and blocks *)
(* are put back in the other one; when the selected one has run out the    *)
(* two change roles.                                                       *)
(*                                                                         *)
(* A block is a pair <<zone, offset>>, a bitmap the set of the blocks      *)
(* whose bit is 1.  get_peb and put_peb run under their user's lock, so    *)
(* each is one step.                                                       *)
(***************************************************************************)
EXTENDS Naturals, FiniteSets

CONSTANTS Zones,        \* 0 .. geo->zone_cnt - 1
          ZoneSize,     \* physical blocks of a zone
          INVALID       \* MTDX_INVALID_BLOCK

ASSUME ZoneAssumption == ZoneSize \in Nat \ {0}

Offsets == 0 .. ZoneSize - 1
Pebs    == Zones \X Offsets

ASSUME InvalidAssumption == INVALID \notin Pebs

VARIABLES map_a, map_b,   \* 0: free
          erase_map,      \* 1: the block needs an erase before it is written
          zone_map,       \* the zones whose bit is 1: map_b is selected
          held,           \* the blocks the user knows to be used
          dirty,          \* the blocks that do need an erase
          given           \* handed out since the zone's maps last changed roles

vars == <<map_a, map_b, erase_map, zone_map, held, dirty, given>>

ZonePebs(z) == {p \in Pebs : p[1] = z}

Init == \* rand_peb_alloc_reset(MTDX_PEB_ALLOC_ALL): all blocks are believed used
  /\ map_a = Pebs /\ map_b = Pebs /\ erase_map = Pebs /\ zone_map = {}
  /\ held = Pebs /\ dirty \in SUBSET Pebs /\ given = {}

-----------------------------------------------------------------------------
(* rand_peb_alloc_get()                                                    *)

FreeIn(map, z) == ZonePebs(z) \ map
Selected(z)    == IF z \in zone_map THEN map_b ELSE map_a
Unselected(z)  == IF z \in zone_map THEN map_a ELSE map_b

\* How far p is from offset s, going up and around.
Ahead(s, p) == IF p[2] >= s THEN p[2] - s ELSE p[2] + ZoneSize - s

\* rand_peb_alloc_find_circ(): the first of S from offset s on.
FirstFrom(S, s) == {p \in S : \A q \in S : Ahead(s, p) <= Ahead(s, q)}

PreferredOrNone(free, f, want_dirty) ==
  LET match == {p \in free : (p \in erase_map) = want_dirty}
  IN  IF match = {} THEN {INVALID} ELSE FirstFrom(match, f[2])

\* The loop: from the block f found first on, the first one whose erase state
\* is the one asked for; f itself when there is none.
Preferred(free, f, want_dirty) ==
  LET match == {p \in free : (p \in erase_map) = want_dirty}
  IN  IF match = {} THEN {f} ELSE FirstFrom(match, f[2])

GiveOutMapA(p) == /\ map_a' = map_a \cup {p} /\ map_b' = map_b
                  /\ erase_map' = erase_map \cup {p}
                  /\ held' = held \cup {p}

\* Block p is handed out: its bit is set in all three maps.
GiveOut(p) == /\ map_a' = map_a \cup {p} /\ map_b' = map_b \cup {p}
              /\ erase_map' = erase_map \cup {p}
              /\ held' = held \cup {p}

GetNothing(z) == FreeIn(Selected(z), z) = {} /\ FreeIn(Unselected(z), z) = {}

Get(z, want_dirty, rand_pos) ==
  \/ /\ FreeIn(Selected(z), z) # {}
     /\ \E f \in FirstFrom(FreeIn(Selected(z), z), rand_pos) :
        \E p \in Preferred(FreeIn(Selected(z), z), f, want_dirty) :
           GiveOut(p) /\ given' = given \cup {p}
     /\ zone_map' = zone_map
  \/ /\ FreeIn(Selected(z), z) = {} /\ FreeIn(Unselected(z), z) # {}
     /\ \E f \in FirstFrom(FreeIn(Unselected(z), z), rand_pos) :
        \E p \in Preferred(FreeIn(Unselected(z), z), f, want_dirty) :
           GiveOut(p) /\ given' = (given \ ZonePebs(z)) \cup {p}
     /\ zone_map' = (zone_map \ {z}) \cup ({z} \ zone_map)
  \/ /\ GetNothing(z)
     /\ zone_map' = (zone_map \ {z}) \cup ({z} \ zone_map)
     /\ given' = given \ ZonePebs(z)
     /\ UNCHANGED <<map_a, map_b, erase_map, held>>

GetPeb == /\ \E z \in Zones, want_dirty \in BOOLEAN, rand_pos \in Offsets :
               Get(z, want_dirty, rand_pos)
          /\ dirty' = dirty

-----------------------------------------------------------------------------
(* rand_peb_alloc_put() and rand_peb_alloc_reset()                         *)

PutInverted(p, is_dirty) ==
  /\ IF p[1] \in zone_map
     THEN map_b' = map_b \cup {p} /\ map_a' = map_a \ {p}
     ELSE map_a' = map_a \cup {p} /\ map_b' = map_b \ {p}
  /\ erase_map' = IF is_dirty THEN erase_map \ {p} ELSE erase_map
  /\ zone_map' = zone_map

PutSelected(p, is_dirty) ==
  /\ IF p[1] \in zone_map
     THEN map_a' = map_a \cup {p} /\ map_b' = map_b \ {p}
     ELSE map_b' = map_b \cup {p} /\ map_a' = map_a \ {p}
  /\ erase_map' = IF is_dirty THEN erase_map ELSE erase_map \ {p}
  /\ zone_map' = zone_map

Put(p, is_dirty) ==
  /\ IF p[1] \in zone_map
     THEN map_b' = map_b \cup {p} /\ map_a' = map_a \ {p}
     ELSE map_a' = map_a \cup {p} /\ map_b' = map_b \ {p}
  /\ erase_map' = IF is_dirty THEN erase_map ELSE erase_map \ {p}
  /\ zone_map' = zone_map

\* The user puts back a block it holds, and says truly whether it needs an
\* erase.
PutPeb == \E p \in held : /\ Put(p, p \in dirty)
                          /\ held' = held \ {p}
                          /\ UNCHANGED <<dirty, given>>

\* The user erases a block it holds, or writes to it.
UseBlock == \E p \in held : /\ dirty' \in {dirty \cup {p}, dirty \ {p}}
                            /\ UNCHANGED <<map_a, map_b, erase_map, zone_map, held, given>>

\* The zone is about to be scanned again: every block of it is believed used.
ResetZone == \E z \in Zones : /\ map_a' = map_a \cup ZonePebs(z)
                              /\ map_b' = map_b \cup ZonePebs(z)
                              /\ erase_map' = erase_map \cup ZonePebs(z)
                              /\ zone_map' = zone_map \ {z}
                              /\ held' = held \cup ZonePebs(z)
                              /\ given' = given \ ZonePebs(z)
                              /\ dirty' = dirty

Next == GetPeb \/ PutPeb \/ UseBlock \/ ResetZone

Spec == Init /\ [][Next]_vars

-----------------------------------------------------------------------------
(* Properties.                                                             *)

TypeOK == /\ map_a \subseteq Pebs /\ map_b \subseteq Pebs /\ erase_map \subseteq Pebs
          /\ zone_map \subseteq Zones
          /\ held \subseteq Pebs /\ dirty \subseteq Pebs /\ given \subseteq Pebs

\* The two maps together know of every block the user gave back, and of none
\* that it holds; a block is free in one map only.
FreeOnce == /\ (Pebs \ map_a) \cap (Pebs \ map_b) = {}
            /\ (Pebs \ map_a) \cup (Pebs \ map_b) = Pebs \ held

\* A free block that would be handed out as erased is erased.
EraseStateTrue == \A p \in Pebs \ held : (p \in erase_map) = (p \in dirty)

\* A block handed out since its zone's maps changed roles is not in the map that
\* the next one is taken from.
GivenIsNotSelectable == \A p \in given : p \in Selected(p[1])

\* Wear is spread: until its zone's maps change roles no block is handed out
\* twice, however often it is put back.
OncePerRound ==
  [][\A p \in given : p \in held' \ held /\ p \in given'
       => (p[1] \in zone_map') # (p[1] \in zone_map)]_vars

=============================================================================
