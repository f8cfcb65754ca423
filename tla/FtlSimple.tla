------------------------------ MODULE FtlSimple ------------------------------
(***************************************************************************)
(* mtdx_adv/ftl_simple.c: a translation layer between a block device       *)
(* (mtdx_block.c) and a flash that is written page by page, upwards, in an *)
(* erased block (mtdx_adv/ms_block.c).                                     *)
(*                                                                         *)
(* The device below, the parent, asks for a request whenever it has none.  *)
(* ftl_simple_get_request() then runs the functions on its stack until one *)
(* of them has a command for the parent; with an empty stack it sets up    *)
(* the next block of the request that came from above, and without such a  *)
(* request it fetches one.  ftl_simple_end_request() calls the end         *)
(* function of the command.  Both hold fsd->lock; one iteration of the     *)
(* loop is one action, and nothing comes between them.                     *)
(*                                                                         *)
(* A block goes through these hands: free in the allocator (RandPebAlloc,  *)
(* here any free block may be given), destination of a write, mapped by    *)
(* block_table, source of the next write, erased and free.  The table is   *)
(* in memory only.  It is found again by a scan of the labels that page 0  *)
(* of every block carries; a block about to be replaced is first marked    *)
(* selected, so that of two blocks with one label the older one wins.      *)
(*                                                                         *)
(* flash is external, modelled by what the code needs of it.  An address   *)
(* is counted in pages.  A page holds Erased, Fill (programmed with        *)
(* geo->fill_value), Garbage or the number of the request that wrote it.   *)
(***************************************************************************)
EXTENDS Integers, FiniteSets, Sequences

CONSTANTS ZoneCnt,      \* geo.zone_cnt
          PhyPerZone,   \* physical blocks of a zone
          LogPerZone,   \* logical blocks of a zone
          PageCnt,      \* geo.page_cnt
          BITS_PER_LONG,
          Specials,     \* what may be in special_blocks
          Written,      \* logical blocks that hold data at the start
          Shapes,       \* requests: first page and length
          MaxRequests,  \* bounds: requests;
          MaxTroubles,  \* failed commands, restarts and formattings
          SrcFaults,    \* the source of a copy may be unreadable
          INVALID       \* MTDX_INVALID_BLOCK

Phy   == 0 .. ZoneCnt * PhyPerZone - 1
Log   == 0 .. ZoneCnt * LogPerZone - 1
Pages == 0 .. PageCnt - 1
Zones == 0 .. ZoneCnt - 1

ASSUME FtlAssumption == /\ ZoneCnt \in Nat \ {0} /\ PageCnt \in Nat \ {0}
                        /\ PhyPerZone \in Nat \ {0} /\ LogPerZone \in Nat \ {0}
                        /\ BITS_PER_LONG \in Nat \ {0} /\ LogPerZone <= PhyPerZone
                        /\ MaxRequests \in Nat /\ Written \subseteq Log /\ Specials \subseteq SUBSET Phy
                        /\ INVALID \notin Phy \cup Log

Erased == 0   Fill == -1   Garbage == -2   Either == -3

\* mtdx_block.c asks for nothing that is not on the device.
ASSUME ShapesAssumption ==
  \A s \in Shapes : /\ s[1] \in Nat /\ s[2] \in Nat \ {0}
                    /\ s[1] + s[2] <= ZoneCnt * LogPerZone * PageCnt

VARIABLES
  flash,        \* each block: its label (log, mark) and pages
  config,       \* mode: how a block may be written, "inc" (its pages upwards, with
                \* track_inc), "any" (in any order), "peb" (all at once, no b_map);
                \* special: special_blocks
  lut,          \* free: of each block "no", "clean" or "dirty" (b_alloc);
                \* valid_zones; block_table; b_map, the long_map of the blocks written
                \* in part: which pages (with track_inc the first ones, the code keeps
                \* their number); spare, its retired nodes
  fsd,          \* the rest of struct ftl_simple_data, see NewFsd
  client,       \* the block request of mtdx_block
  store,        \* what each page of the device has to read
  got,          \* pages the last request has read, with what it got
  flaws,        \* what happened that the layer does not protect against
  used          \* requests and troubles so far

vars == <<flash, config, lut, fsd, client, store, got, flaws, used>>

ZoneOf(l)  == IF l = INVALID THEN -1 ELSE l \div LogPerZone  \* mtdx_geo_log_to_zone()
ZonePhy(z) == {b \in Phy : b \div PhyPerZone = z}
ZoneLog(z) == {l \in Log : ZoneOf(l) = z}

NoReq   == [op |-> "none", at |-> 0, len |-> 0, ver |-> 0]
NoPos   == [zone |-> 0, logical |-> INVALID, off |-> 0, len |-> 0, src |-> INVALID,
            dst |-> INVALID, in_place |-> FALSE]
NoOut   == [cmd |-> "none", blk |-> INVALID, from |-> 0, cnt |-> 0, end |-> "none"]
MappedTo(l) == [log |-> l, mark |-> "mapped"]
NoLabel == [log |-> INVALID, mark |-> "none"]
Blank   == [label |-> NoLabel, pages |-> [p \in Pages |-> Erased]]

\* ftl_simple_probe(): nothing scanned, all blocks believed used.
NewLut == [free |-> [b \in Phy |-> "no"], valid_zones |-> {}, spare |-> 0,
           block_table |-> [l \in Log |-> INVALID], b_map |-> [b \in {} |-> {}]]
NewFsd == [pos |-> NoPos, clean_dst |-> FALSE, req_suspend |-> FALSE,
           bmap_avail |-> FALSE, dst_oob |-> NoLabel,
           block_buf |-> [p \in Pages |-> Fill],
           scan_pos |-> 0, conflict_pos |-> INVALID,
           req_fn |-> <<>>,                \* the stack, its top first
           req_in |-> NoReq, t_count |-> 0,
           req_out |-> NoOut,              \* the parent's command, its end function
           at |-> "idle"]  \* fsd->lock is free ("idle") or get_request runs ("get"),
                           \* end_request is in setup_request ("late"), or the parent
                           \* works on req_out ("out")

Old == MaxRequests + 1   \* the data of the blocks written before
Home(l) == ZoneOf(l) * PhyPerZone + (l % LogPerZone)

Init ==
  /\ config \in [mode : {"inc", "any", "peb"}, special : Specials]
  /\ LET logs == {l \in Written : Home(l) \notin config.special}
     IN /\ store = [l \in Log |-> [p \in Pages |-> IF l \in logs THEN Old ELSE Erased]]
        /\ flash = [b \in Phy |-> IF \E l \in logs : Home(l) = b
                                   THEN LET l == CHOOSE l \in logs : Home(l) = b
                                        IN [label |-> MappedTo(l), pages |-> store[l]]
                                   ELSE Blank]
  /\ lut = NewLut /\ fsd = NewFsd /\ client = NoReq /\ got = {} /\ flaws = {}
  /\ used = [requests |-> 0, troubles |-> 0]

pos == fsd.pos
Reads(v) == IF v = Fill THEN Erased ELSE v

-----------------------------------------------------------------------------
(* long_map.c, for a key that is a block and a value that is a set of pages. *)

MapErase(t, b) ==
  IF b \notin DOMAIN t.b_map THEN t
  ELSE [t EXCEPT !.b_map = [k \in DOMAIN @ \ {b} |-> @[k]], !.spare = @ + 1]

\* long_map_insert() fails without a retired node, or when the key is there already.
MapInserts(t, b) == t.spare > 0 /\ b \notin DOMAIN t.b_map
MapInsert(t, b)  == [t EXCEPT !.b_map = [k \in DOMAIN @ \cup {b} |->
                                           IF k = b THEN {} ELSE @[k]],
                              !.spare = @ - 1]

MapMove(t, to, from) ==
  IF to = from THEN t
  ELSE IF to \in DOMAIN t.b_map THEN MapErase(t, from)
  ELSE [t EXCEPT !.b_map = [k \in (DOMAIN @ \ {from}) \cup {to} |->
                              IF k = to THEN @[from] ELSE @[k]]]

Run(off, cnt) == off .. off + cnt - 1

\* bitmap_region_empty(): within one word it looks at what is not in the region.
RegionEmpty(bits, off, cnt) ==
  LET word == off \div BITS_PER_LONG
  IN IF word = (off + cnt) \div BITS_PER_LONG
     THEN {p \in bits : p \div BITS_PER_LONG = word} \subseteq Run(off, cnt)
     ELSE bits \cap Run(off, cnt) = {}

\* ftl_simple_can_merge(): these pages have not been written, and none after them.
CanMerge(b, off, cnt) ==
  /\ b \in DOMAIN lut.b_map
  /\ IF config.mode = "inc" THEN lut.b_map[b] \subseteq 0 .. off - 1
     ELSE RegionEmpty(lut.b_map[b], off, cnt)

\* ftl_simple_clear_zone()
ClearZone(t, z) ==
  LET mapped == {t.block_table[l] : l \in ZoneLog(z)}
  IN [t EXCEPT !.block_table = [l \in Log |-> IF l \in ZoneLog(z) THEN INVALID ELSE @[l]],
               !.b_map = [k \in DOMAIN @ \ mapped |-> @[k]],
               !.spare = @ + Cardinality(mapped \cap DOMAIN t.b_map),
               !.free  = [b \in Phy |-> IF b \in ZonePhy(z) THEN "no" ELSE @[b]]]

Put(t, b, is_dirty) == [t EXCEPT !.free[b] = IF is_dirty THEN "dirty" ELSE "clean"]

-----------------------------------------------------------------------------
(* What the parent's commands do to a block, done or cut short.            *)

out == fsd.req_out
Cells == out.from .. out.from + out.cnt - 1

Data == CASE out.cmd = "COPY" -> [p \in Pages |-> LET v == flash[pos.src].pages[p]
                                                  IN IF v = Erased THEN Fill ELSE v]
          [] out.end \in {"write", "merge"} -> [p \in Pages |-> fsd.req_in.ver]
          [] OTHER -> fsd.block_buf

\* The first n cells are programmed; page 0 carries the label.
Programmed(blk, n) ==
  LET done == out.from .. out.from + n - 1
  IN [label |-> IF 0 \in done THEN fsd.dst_oob ELSE blk.label,
      pages |-> [p \in Pages |-> IF p \notin done THEN blk.pages[p]
                                 ELSE IF blk.pages[p] = Erased THEN Data[p]
                                 ELSE Garbage]]

Unreadable == [log |-> INVALID, mark |-> "unreadable"]

\* The program is cut short in the cell after the first n.
Torn(blk, n) ==
  [label |-> IF out.from + n = 0 THEN Unreadable ELSE Programmed(blk, n).label,
   pages |-> [Programmed(blk, n).pages EXCEPT ![out.from + n] = Garbage]]

Done(blk) ==
  CASE out.end = "invalidate"        -> {[blk EXCEPT !.label.mark = "bad"],
                                         [blk EXCEPT !.label = [log |-> INVALID,
                                                                mark |-> "bad"]]}
    [] out.end = "select"            -> {[blk EXCEPT !.label.mark = "selected"]}
    [] out.cmd = "ERASE"             -> {Blank}
    [] out.cmd \in {"WRITE", "COPY"} /\ out.end # "invalidate"
                                     -> {Programmed(blk, out.cnt)}
    [] OTHER                         -> {blk}

CutShort(blk) ==
  {blk} \cup
  CASE out.end = "invalidate"        -> {}
    [] out.cmd = "ERASE"             -> {[label |-> Unreadable,
                                          pages |-> [p \in Pages |-> Garbage]]}
    [] out.cmd \in {"WRITE", "COPY"} -> {Torn(blk, n) : n \in 0 .. out.cnt - 1}
    [] OTHER                         -> {}

\* How a command may end: well, with dst_error, with src_error.
Results ==
  LET blk == flash[out.blk]
  IN {[error |-> "no", blk |-> b] : b \in Done(blk)} \cup
     (IF used.troubles >= MaxTroubles THEN {}
      ELSE {[error |-> "dst", blk |-> b] : b \in CutShort(blk)} \cup
           (IF out.cmd = "COPY" /\ SrcFaults
            THEN {[error |-> "src", blk |-> b] : b \in CutShort(blk)} ELSE {}))

\* A page is written that is not erased; page 0 is written with the label of another
\* block; a block is rewritten in place.
Programs == out.cmd \in {"WRITE", "COPY"} /\ out.end # "invalidate"
Unerased == Programs /\ \E p \in Cells : flash[out.blk].pages[p] # Erased
Misnamed == Programs /\ 0 \in Cells /\ fsd.dst_oob # MappedTo(pos.logical)
InPlace  == pos.in_place /\ out.cmd \in {"WRITE", "ERASE"}
If(flaw, holds) == IF holds THEN {flaw} ELSE {}

\* The effect on all but the layer itself.
Ended(r) ==
  /\ flash' = [flash EXCEPT ![out.blk] = r.blk]
  /\ used'  = IF r.error = "no" THEN used ELSE [used EXCEPT !.troubles = @ + 1]
  /\ flaws' = flaws \cup If("unerased", Unerased) \cup If("misnamed", Misnamed)
                     \cup If("in place", InPlace /\ r.error # "no")
  /\ config' = config

EndOf(end) == fsd.at = "out" /\ out.end = end

-----------------------------------------------------------------------------
(* Requests from above.                                                    *)

\* mtdx_block_end_request(): what is not transferred is asked for again, but if that
\* is all of it, it fails.
Rest(count) ==
  IF count = 0 \/ count = client.len THEN NoReq
  ELSE [client EXCEPT !.at = @ + count, !.len = @ - count]

\* The pages of the block in progress hold no one knows what.
Spoilt == IF fsd.req_in.op = "write" /\ pos.logical # INVALID
          THEN [store EXCEPT ![pos.logical] =
                  [p \in Pages |-> IF p \in pos.off .. pos.off + pos.len - 1
                                   THEN Either ELSE @[p]]]
          ELSE store

\* ftl_simple_complete_req()
Completed(f, at) == [f EXCEPT !.req_fn = <<>>, !.req_in = NoReq, !.t_count = 0,
                              !.pos = NoPos, !.at = at]
Complete(count, at) == client' = Rest(count) /\ fsd' = Completed(fsd, at)

\* ftl_simple_end_abort(): clean_dst is passed as the flag that says "dirty".
EndAbort(t, free_dst, clean_dst) ==
  /\ lut' = IF free_dst /\ pos.dst # pos.src THEN Put(t, pos.dst, clean_dst) ELSE t
  /\ Complete(fsd.t_count, "idle") /\ store' = Spoilt

NewRequest ==
  /\ client = NoReq /\ used.requests < MaxRequests
  /\ used' = [used EXCEPT !.requests = @ + 1]
  /\ \E op \in {"read", "write"}, s \in Shapes :
       client' = [op |-> op, at |-> s[1], len |-> s[2],
                  ver |-> IF op = "write" THEN used.requests + 1 ELSE 0]
  /\ got' = {} /\ UNCHANGED <<flash, config, lut, fsd, store, flaws>>

\* The parent asks; it always does after it has ended a request.
Ask ==
  /\ fsd.at = "idle" /\ ~fsd.req_suspend
  /\ client # NoReq \/ fsd.req_fn # <<>>
  /\ fsd' = [fsd EXCEPT !.at = "get"]
  /\ UNCHANGED <<flash, config, lut, client, store, got, flaws, used>>

FetchReq ==
  /\ fsd.at = "get" /\ fsd.req_fn = <<>> /\ fsd.req_in = NoReq
  /\ fsd' = IF client = NoReq THEN [fsd EXCEPT !.at = "idle"]
            ELSE [fsd EXCEPT !.req_in = client]
  /\ UNCHANGED <<flash, config, lut, client, store, got, flaws, used>>

-----------------------------------------------------------------------------
(* ftl_simple_setup_request(), called with an empty stack.                 *)

Setting == /\ fsd.at \in {"get", "late"} /\ fsd.req_fn = <<>> /\ fsd.req_in # NoReq
SetAt   == IF fsd.at = "late" THEN "idle" ELSE "get"
Left    == fsd.req_in.len - fsd.t_count

\* ftl_simple_set_address()
Address ==
  LET p == fsd.req_in.at + fsd.t_count
      off == p % PageCnt
      logical == p \div PageCnt
      src == IF logical \in Log THEN lut.block_table[logical] ELSE INVALID
  IN [zone |-> ZoneOf(logical), logical |-> logical, off |-> off,
      len |-> IF Left < PageCnt - off THEN Left ELSE PageCnt - off,
      src |-> src, dst |-> INVALID, in_place |-> FALSE]

Quiet == UNCHANGED <<flash, config, client, store, got, used>>

\* The return value of the call in end_request is ignored: the next call of
\* get_request finds the same again.
SetupFails ==
  /\ Setting /\ fsd.at = "late"
  /\ Left = 0 \/ (fsd.req_in.op = "write" /\ ~fsd.bmap_avail /\ Address.src = INVALID
                  /\ \A b \in ZonePhy(Address.zone) : lut.free[b] = "no")
  /\ fsd' = [fsd EXCEPT !.at = "idle"] /\ UNCHANGED <<lut, flaws>> /\ Quiet

SetupDone ==
  /\ Setting /\ fsd.at = "get" /\ Left = 0 /\ Complete(fsd.t_count, "get")
  /\ UNCHANGED <<flash, config, lut, store, got, flaws, used>>

\* ftl_simple_setup_zone_scan()
SetupScan ==
  /\ Setting /\ Left > 0 /\ ~fsd.bmap_avail /\ Address.zone \notin lut.valid_zones
  /\ lut' = ClearZone(lut, Address.zone)
  /\ fsd' = [fsd EXCEPT !.pos = [NoPos EXCEPT !.zone = Address.zone],
                        !.scan_pos = Address.zone * PhyPerZone,
                        !.conflict_pos = INVALID,
                        !.req_fn = <<"lookup_block">>, !.at = SetAt]
  /\ UNCHANGED flaws /\ Quiet

Ready(op) == /\ Setting /\ Left > 0 /\ ~fsd.bmap_avail /\ fsd.req_in.op = op
             /\ Address.zone \in lut.valid_zones

\* Mutant: a block with a block is taken for one without.
SetupReadNothing ==
  /\ Ready("read")
  /\ fsd' = [fsd EXCEPT !.pos = Address, !.at = SetAt, !.req_fn = <<"fill_data">>]
  /\ UNCHANGED <<lut, flaws>> /\ Quiet

\* ftl_simple_setup_read()
SetupRead ==
  /\ Ready("read")
  /\ fsd' = [fsd EXCEPT !.pos = Address, !.at = SetAt,
                        !.req_fn = IF Address.src = INVALID THEN <<"fill_data">>
                                   ELSE <<"read_data">>]
  /\ UNCHANGED <<lut, flaws>> /\ Quiet

Merges      == CanMerge(Address.src, Address.off, Address.len)

\* ftl_simple_setup_write(): the pages follow those the block has.
SetupMerge ==
  /\ Ready("write") /\ Merges
  /\ fsd' = [fsd EXCEPT !.pos = [Address EXCEPT !.dst = Address.src],
                        !.req_fn = <<"merge_data">>, !.clean_dst = FALSE,
                        !.dst_oob = MappedTo(Address.logical), !.at = SetAt]
  /\ UNCHANGED <<lut, flaws>> /\ Quiet

Free == {b \in ZonePhy(Address.zone) : lut.free[b] # "no"}

SetupNoSpace ==
  /\ Ready("write") /\ fsd.at = "get" /\ ~Merges /\ Free = {} /\ Address.src = INVALID
  /\ Complete(fsd.t_count, "get")
  /\ UNCHANGED <<flash, config, lut, store, got, flaws, used>>

SetupInPlace ==
  /\ Ready("write") /\ ~Merges /\ Free = {} /\ Address.src # INVALID
  /\ fsd' = [fsd EXCEPT !.pos = [Address EXCEPT !.dst = Address.src, !.in_place = TRUE],
                        !.req_fn = <<"read_first", "read_last", "erase_dst",
                                     "write_first", "write_data", "write_last">>,
                        !.clean_dst = FALSE, !.dst_oob = MappedTo(Address.logical),
                        !.at = SetAt]
  /\ UNCHANGED <<lut, flaws>> /\ Quiet

\* Mutant: the block stays free.
TookNot(b) == lut

EraseIf(b) == IF lut.free[b] = "dirty" THEN <<"erase_dst">> ELSE <<>>
Took(b)    == [lut EXCEPT !.free[b] = "no"]

SetupCopy ==
  /\ Ready("write") /\ ~Merges /\ Address.src # INVALID
  /\ \E b \in Free :
       /\ lut' = Took(b)
       /\ fsd' = [fsd EXCEPT
            !.pos = [Address EXCEPT !.dst = b],
            !.req_fn = EraseIf(b) \o <<"select_src">>
                       \o (IF config.mode # "peb" THEN <<"copy_first", "write_data", "copy_last">>
                           ELSE <<"read_first", "read_last", "write_first",
                                  "write_data", "write_last">>)
                       \o <<"erase_src">>,
            !.clean_dst = lut.free[b] = "clean",
            !.dst_oob = MappedTo(Address.logical), !.at = SetAt]
  /\ UNCHANGED flaws /\ Quiet

SetupNewFull ==
  /\ Ready("write") /\ Address.src = INVALID /\ Address.len = PageCnt
  /\ \E b \in Free :
       /\ lut' = Took(b)
       /\ fsd' = [fsd EXCEPT !.pos = [Address EXCEPT !.dst = b],
                             !.req_fn = EraseIf(b) \o <<"merge_data">>,
                             !.clean_dst = lut.free[b] = "clean",
                             !.dst_oob = MappedTo(Address.logical), !.at = SetAt]
  /\ UNCHANGED flaws /\ Quiet

\* partial_continue: the rest of the block is filled.  Neither the label is prepared
\* nor a block that needs it erased.
Partial(at) ==
  fsd' = [fsd EXCEPT !.pos = at, !.clean_dst = FALSE, !.bmap_avail = FALSE,
                     !.req_suspend = FALSE, !.at = SetAt,
                     !.block_buf = [p \in Pages |->
                                      IF p \in at.off .. at.off + at.len - 1 THEN @[p]
                                      ELSE Fill],
                     !.req_fn = <<"write_first", "write_data", "write_last">>]
PartFlaws(b) == flaws' = flaws \cup If("unerased", flash[b] # Blank)

SetupNewPart ==
  /\ Ready("write") /\ Address.src = INVALID /\ Address.len < PageCnt
  /\ \E b \in Free :
       /\ lut' = IF MapInserts(lut, b) THEN MapInsert(Took(b), b) ELSE Took(b)
       /\ IF MapInserts(lut, b) \/ config.mode = "peb"
          THEN Partial([Address EXCEPT !.dst = b]) /\ PartFlaws(b)
          ELSE /\ fsd' = [fsd EXCEPT !.pos = [Address EXCEPT !.dst = b], !.at = "idle",
                                     !.clean_dst = FALSE, !.req_suspend = TRUE]
               /\ UNCHANGED flaws
  /\ Quiet

SetupContinue ==
  /\ Setting /\ Left > 0 /\ fsd.bmap_avail /\ fsd.req_in.op = "write"
  /\ Partial(pos) /\ PartFlaws(pos.dst) /\ UNCHANGED lut /\ Quiet

\* ftl_simple_alloc_node(), a work item: without memory it goes on without a node.
AllocNode ==
  /\ fsd.req_suspend /\ fsd.at = "idle"
  /\ fsd' = [fsd EXCEPT !.req_suspend = FALSE, !.bmap_avail = TRUE]
  /\ \/ /\ pos.dst \notin DOMAIN lut.b_map
        /\ lut' = MapInsert([lut EXCEPT !.spare = IF @ = 0 THEN 1 ELSE @], pos.dst)
     \/ lut' = lut
  /\ UNCHANGED flaws /\ Quiet

Setup == \/ SetupFails \/ SetupDone \/ SetupScan \/ SetupRead \/ SetupMerge
         \/ SetupNoSpace \/ SetupInPlace \/ SetupCopy \/ SetupNewFull \/ SetupNewPart
         \/ SetupContinue

-----------------------------------------------------------------------------
(* The functions on the stack.                                             *)

Calls(fn) == fsd.at = "get" /\ fsd.req_fn # <<>> /\ Head(fsd.req_fn) = fn
Popped    == [fsd EXCEPT !.req_fn = Tail(@)]
Submit(f, cmd, blk, from, cnt, end) ==
  /\ fsd' = [f EXCEPT !.req_out = [cmd |-> cmd, blk |-> blk, from |-> from,
                                   cnt |-> cnt, end |-> end],
                      !.at = "out"]
  /\ UNCHANGED <<lut, flaws>> /\ Quiet
Skip == fsd' = Popped /\ UNCHANGED <<lut, flaws>> /\ Quiet

ZoneEnd == (pos.zone + 1) * PhyPerZone

\* Special blocks are skipped.
LookupBlock ==
  /\ Calls("lookup_block")
  /\ LET next == CHOOSE b \in fsd.scan_pos .. ZoneCnt * PhyPerZone :
                   /\ b \notin config.special
                   /\ \A c \in fsd.scan_pos .. b - 1 : c \in config.special
     IN IF next < ZoneEnd
        THEN Submit([fsd EXCEPT !.scan_pos = next], "READ", next, 0, 0, "lookup_block")
        ELSE /\ lut' = [lut EXCEPT !.valid_zones = @ \cup {pos.zone}]
             /\ fsd' = [Popped EXCEPT !.scan_pos = next] /\ UNCHANGED flaws /\ Quiet

Resolve ==
  /\ Calls("resolve") /\ Submit(Popped, "READ", fsd.conflict_pos, 0, 0, "resolve")

InvalidateDst ==
  /\ Calls("invalidate_dst")
  /\ Submit([Popped EXCEPT !.dst_oob = [log |-> INVALID, mark |-> "bad"]],
            "WRITE", pos.dst, 0, 1, "invalidate")

EraseSrc  == Calls("erase_src") /\ Submit(Popped, "ERASE", pos.src, 0, 0, "erase_src")
EraseDst  == Calls("erase_dst") /\ Submit(Popped, "ERASE", pos.dst, 0, 0, "erase_dst")
SelectSrc == Calls("select_src") /\ Submit(Popped, "OVERWRITE", pos.src, 0, 1, "select")
MergeData == Calls("merge_data") /\ Submit(Popped, "WRITE", pos.dst, pos.off, pos.len, "merge")
WriteData == Calls("write_data") /\ Submit(Popped, "WRITE", pos.dst, pos.off, pos.len, "write")
ReadData  == Calls("read_data") /\ Submit(Popped, "READ", pos.src, pos.off, pos.len, "read_data")

MapKey == IF pos.src # INVALID THEN pos.src ELSE pos.dst
After  == pos.off + pos.len
FirstNewAlways(b) == TRUE    \* Mutant: nothing before the pages is worth copying.
FirstNew(b) == CanMerge(b, 0, pos.off)
LastNew(b)  == CanMerge(b, After, PageCnt - After)

ReadFirst ==
  /\ Calls("read_first")
  /\ IF pos.off = 0 \/ FirstNew(pos.src) THEN Skip
     ELSE Submit(Popped, "READ", pos.src, 0, pos.off, "read_first")

ReadLast ==
  /\ Calls("read_last")
  /\ IF After = PageCnt \/ LastNew(pos.src) THEN Skip
     ELSE Submit(Popped, "READ", pos.src, After, PageCnt - After, "read_last")

\* What has never been written is not copied, but page 0 has to carry the label.
WriteFirst ==
  /\ Calls("write_first")
  /\ IF pos.off = 0 THEN Skip
     ELSE IF FirstNew(MapKey)
     THEN Submit([Popped EXCEPT !.block_buf[0] = Fill], "WRITE", pos.dst, 0, 1, "first")
     ELSE Submit(Popped, "WRITE", pos.dst, 0, pos.off, "first")

CopyFirst ==
  /\ Calls("copy_first")
  /\ IF pos.off = 0 THEN Skip
     ELSE Submit(Popped, "COPY", pos.dst, 0, pos.off, "first")

\* Mutant: the pages before those just written.
MarkedShort == lut.b_map[MapKey] \cup 0 .. After - 2

\* The pages that are written now.
Marked ==
  LET before == lut.b_map[MapKey]
      first  == before \cup IF pos.off > 0 /\ FirstNew(MapKey) THEN {0}
                            ELSE 0 .. pos.off - 1
      last   == IF RegionEmpty(first, After, PageCnt - After) THEN {}
                ELSE After .. PageCnt - 1
  IN IF config.mode = "inc" THEN before \cup 0 .. After - 1
     ELSE first \cup last \cup Run(pos.off, pos.len)

\* ftl_simple_advance(): the block is written.
Advanced(t) ==
  LET mapped == IF pos.dst = pos.src THEN t
                ELSE [t EXCEPT !.block_table[pos.logical] = pos.dst]
  IN IF MapKey \notin DOMAIN t.b_map THEN mapped
     ELSE IF Marked \in {{}, Pages} THEN MapErase(mapped, MapKey)
     ELSE MapMove([mapped EXCEPT !.b_map[MapKey] = Marked], pos.dst, MapKey)

Advance(f) ==
  /\ lut' = Advanced(lut) /\ fsd' = [f EXCEPT !.t_count = @ + pos.len]
  /\ store' = [store EXCEPT ![pos.logical] =
                 [p \in Pages |-> IF p \in pos.off .. After - 1 THEN fsd.req_in.ver
                                  ELSE @[p]]]

\* ftl_simple_submit_last()
SubmitLast(fn, cmd) ==
  /\ Calls(fn)
  /\ IF After = PageCnt \/ LastNew(MapKey)
     THEN Advance(Popped) /\ UNCHANGED <<flash, config, client, got, flaws, used>>
     ELSE Submit(Popped, cmd, pos.dst, After, PageCnt - After, "last")

WriteLast == SubmitLast("write_last", "WRITE")
CopyLast  == SubmitLast("copy_last", "COPY")

FillData ==
  /\ Calls("fill_data")
  /\ got' = got \cup {<<pos.logical, p, Erased>> : p \in pos.off .. After - 1}
  /\ LET t == fsd.t_count + pos.len
     IN IF t >= fsd.req_in.len THEN Complete(t, "get")
        ELSE fsd' = [Popped EXCEPT !.t_count = t] /\ UNCHANGED client
  /\ UNCHANGED <<flash, config, lut, store, flaws, used>>

Fns == \/ LookupBlock \/ Resolve \/ InvalidateDst \/ EraseSrc \/ EraseDst \/ SelectSrc
       \/ MergeData \/ WriteData \/ ReadData \/ ReadFirst \/ ReadLast \/ WriteFirst
       \/ CopyFirst \/ WriteLast \/ CopyLast \/ FillData

-----------------------------------------------------------------------------
(* ftl_simple_end_request() and the end functions.                         *)

Idles(f)  == fsd' = [f EXCEPT !.at = "idle"]
Keeps     == UNCHANGED <<client, store>>
Nothing   == Idles(fsd) /\ UNCHANGED lut /\ Keeps
Invalidates == /\ Idles([fsd EXCEPT !.req_fn = <<"invalidate_dst">>])
               /\ UNCHANGED lut /\ Keeps

\* oob_to_info() and the test of the zone: a label that names no logical block of
\* this zone, that of a bad block included, makes the block a free one.
Info(label) ==
  IF label.mark = "unreadable" THEN [status |-> "failure", log |-> INVALID]
  ELSE IF ZoneOf(label.log) # pos.zone THEN [status |-> "unmapped", log |-> INVALID]
  ELSE [status |-> label.mark, log |-> label.log]

Scanned(t, f) ==
  IF f.scan_pos + 1 >= ZoneEnd
  THEN /\ lut' = [t EXCEPT !.valid_zones = @ \cup {pos.zone}]
       /\ fsd' = [f EXCEPT !.scan_pos = @ + 1, !.req_fn = <<>>,
                           !.at = IF out.end = "resolve" THEN "idle" ELSE "late"]
  ELSE /\ lut' = t
       /\ fsd' = [f EXCEPT !.scan_pos = @ + 1, !.req_fn = <<"lookup_block">>,
                           !.at = "idle"]

ReadLabel(b) == [fsd EXCEPT !.dst_oob = IF flash[b].label = Unreadable THEN NoLabel
                                        ELSE flash[b].label]

EndLookupBlock ==
  /\ EndOf("lookup_block") /\ got' = got
  /\ \E r \in Results :
       /\ Ended(r)
       /\ LET here == fsd.scan_pos
              info == Info(flash[here].label)
              other == IF info.log = INVALID THEN fsd.conflict_pos
                       ELSE lut.block_table[info.log]
              f == [ReadLabel(here) EXCEPT !.conflict_pos = other]
              map == IF info.log = INVALID THEN lut
                     ELSE [lut EXCEPT !.block_table[info.log] = here]
          IN \/ r.error # "no" /\ EndAbort(lut, FALSE, FALSE)
             \/ /\ r.error = "no" /\ Keeps
                /\ \/ /\ info.status = "unmapped" /\ Scanned(Put(lut, here, TRUE), f)
                   \/ /\ info.status \in {"bad", "failure"} /\ Scanned(lut, f)
                   \/ /\ info.status = "mapped" /\ other = INVALID /\ Scanned(map, f)
                   \/ /\ info.status = "mapped" /\ other # INVALID /\ UNCHANGED lut
                      /\ Idles([f EXCEPT !.req_fn = <<"resolve">>])
                   \/ /\ info.status = "selected"
                      /\ Scanned(IF other = INVALID THEN map ELSE Put(map, other, TRUE), f)

EndResolve ==
  /\ EndOf("resolve") /\ got' = got /\ Keeps
  /\ \E r \in Results :
       /\ Ended(r)
       /\ LET label == flash[fsd.conflict_pos].label
              f     == ReadLabel(fsd.conflict_pos)
          IN IF r.error # "no" THEN Scanned(lut, f)
             ELSE IF label.mark = "selected" THEN Scanned(Put(lut, fsd.scan_pos, TRUE), f)
             ELSE Scanned([Put(lut, lut.block_table[label.log], TRUE) EXCEPT
                             !.block_table[label.log] = fsd.scan_pos], f)

EndInvalidateDst ==
  /\ EndOf("invalidate") /\ got' = got
  /\ \E r \in Results : Ended(r) /\ EndAbort(lut, FALSE, FALSE)

\* The block has just been erased; it is put back as one that needs it.
EndEraseSrc ==
  /\ EndOf("erase_src") /\ got' = got
  /\ \E r \in Results :
       /\ Ended(r) /\ Idles(fsd) /\ Keeps
       /\ lut' = IF r.error = "no" THEN Put(lut, pos.src, TRUE) ELSE lut

EndEraseDst ==
  /\ EndOf("erase_dst") /\ got' = got
  /\ \E r \in Results :
       /\ Ended(r)
       /\ IF r.error # "no" THEN Invalidates
          ELSE Idles([fsd EXCEPT !.clean_dst = TRUE]) /\ UNCHANGED lut /\ Keeps

EndSelectSrc ==
  /\ EndOf("select") /\ got' = got
  /\ \E r \in Results :
       Ended(r) /\ IF r.error # "no" THEN EndAbort(lut, TRUE, fsd.clean_dst) ELSE Nothing

EndMergeData ==
  /\ EndOf("merge") /\ got' = got
  /\ \E r \in Results :
       /\ Ended(r)
       /\ IF r.error # "no" THEN EndAbort(lut, FALSE, FALSE)
          ELSE Advance([fsd EXCEPT !.at = "idle"]) /\ UNCHANGED client

EndWriteData ==
  /\ EndOf("write") /\ got' = got
  /\ \E r \in Results :
       /\ Ended(r)
       /\ IF r.error # "no" THEN EndAbort(lut, FALSE, FALSE)
          ELSE Idles([fsd EXCEPT !.clean_dst = FALSE]) /\ UNCHANGED lut /\ Keeps

\* ftl_simple_end_copy_first(), also the end of write_first
EndCopyFirst ==
  /\ EndOf("first") /\ got' = got
  /\ \E r \in Results :
       /\ Ended(r)
       /\ CASE r.error = "src" -> EndAbort(MapErase(lut, pos.src), TRUE, FALSE)
            [] r.error = "dst" -> Invalidates
            [] OTHER -> Idles([fsd EXCEPT !.clean_dst = FALSE]) /\ UNCHANGED lut /\ Keeps

\* ftl_simple_end_copy_last(), also the end of write_last
EndCopyLast ==
  /\ EndOf("last") /\ got' = got
  /\ \E r \in Results :
       /\ Ended(r)
       /\ CASE r.error = "src" -> EndAbort(MapErase(lut, pos.src), TRUE, FALSE)
            [] r.error = "dst" -> Invalidates
            [] OTHER -> /\ Advance([fsd EXCEPT !.clean_dst = FALSE, !.at = "idle"])
                        /\ UNCHANGED client

\* ftl_simple_end_read_first(), ftl_simple_end_read_last()
EndReadRest ==
  /\ out.end \in {"read_first", "read_last"} /\ fsd.at = "out" /\ got' = got
  /\ \E r \in Results :
       /\ Ended(r)
       /\ IF r.error # "no"
          THEN EndAbort(MapErase(lut, pos.src), TRUE, fsd.clean_dst)
          ELSE /\ Idles([fsd EXCEPT !.block_buf =
                           [p \in Pages |-> IF p \in Cells THEN Reads(flash[pos.src].pages[p])
                                            ELSE @[p]]])
               /\ UNCHANGED lut /\ Keeps

EndReadData ==
  /\ EndOf("read_data") /\ UNCHANGED <<lut, store>>
  /\ \E r \in Results, n \in 0 .. pos.len :
       /\ Ended(r)
       /\ (r.error = "no") = (n = pos.len)
       /\ got' = got \cup {<<pos.logical, p, Reads(flash[pos.src].pages[p])>> :
                             p \in pos.off .. pos.off + n - 1}
       /\ IF r.error = "no"
          THEN Idles([fsd EXCEPT !.t_count = @ + n]) /\ UNCHANGED client
          ELSE Complete(fsd.t_count + n, "idle")

Ends == \/ EndLookupBlock \/ EndResolve \/ EndInvalidateDst \/ EndEraseSrc \/ EndEraseDst
        \/ EndSelectSrc \/ EndMergeData \/ EndWriteData \/ EndCopyFirst \/ EndCopyLast
        \/ EndReadRest \/ EndReadData

-----------------------------------------------------------------------------
(* From outside.                                                           *)

\* The source and the destination of the write in progress, but not the one of them
\* that block_table has.
Busy == IF fsd.req_in.op # "write" \/ pos.logical = INVALID THEN {}
        ELSE {pos.src, pos.dst} \ {lut.block_table[pos.logical], INVALID}

\* Every mapped block bears its label, and no other block does; those of the write
\* in progress bear none but its.
LabelsTrue ==
  /\ \A b \in Busy : flash[b].label.log \in {INVALID, pos.logical}
  /\ \A l \in Log : ZoneOf(l) \in lut.valid_zones =>
       \A b \in Phy \ Busy :
         (flash[b].label.log = l /\ flash[b].label.mark \in {"mapped", "selected"})
           = (lut.block_table[l] = b)

\* The machine stops, the parent's command with it, and is started again.
Crash ==
  /\ used.troubles < MaxTroubles /\ fsd.at \in {"idle", "out"}
  /\ used' = [used EXCEPT !.troubles = @ + 1]
  /\ \/ fsd.at = "out" /\ \E b \in CutShort(flash[out.blk]) \cup Done(flash[out.blk]) :
          flash' = [flash EXCEPT ![out.blk] = b]
     \/ fsd.at = "idle" /\ UNCHANGED flash
  /\ flaws' = flaws \cup If("restart", ~LabelsTrue \/ (fsd.at = "out" /\ Misnamed))
                     \cup If("in place", pos.in_place)
  /\ store' = Spoilt /\ lut' = NewLut /\ fsd' = NewFsd /\ client' = NoReq /\ got' = {}
  /\ UNCHANGED config

\* The parent has formatted the card, while nothing was asked of it, and sends
\* MTDX_MSG_INV_BLOCK_MAP: ftl_simple_notify().  The zones stay valid.
Notify ==
  /\ used.troubles < MaxTroubles /\ client = NoReq /\ fsd.at = "idle" /\ fsd.req_fn = <<>>
  /\ used' = [used EXCEPT !.troubles = @ + 1]
  /\ flash' = [b \in Phy |-> Blank] /\ store' = [l \in Log |-> [p \in Pages |-> Erased]]
  /\ lut' = IF 0 \in lut.valid_zones THEN ClearZone(lut, 0) ELSE lut
  /\ got' = {} /\ UNCHANGED <<config, fsd, client, flaws>>

Next == \/ NewRequest \/ Ask \/ FetchReq \/ Setup \/ AllocNode \/ Fns \/ Ends
        \/ Crash \/ Notify

\* The parent asks and ends what it was given; the code runs; the work item too.
Fairness == WF_vars(Ask \/ FetchReq \/ Setup \/ Fns) /\ WF_vars(Ends) /\ WF_vars(AllocNode)

Spec == Init /\ [][Next]_vars /\ Fairness

-----------------------------------------------------------------------------
(* Properties.                                                             *)

\* Types of what struct ftl_simple_data keeps.
TypeOK ==
  /\ lut.free \in [Phy -> {"no", "clean", "dirty"}]
  /\ lut.valid_zones \subseteq Zones /\ lut.spare \in Nat
  /\ lut.block_table \in [Log -> Phy \cup {INVALID}]
  /\ DOMAIN lut.b_map \subseteq Phy
  /\ fsd.at \in {"idle", "get", "late", "out"}
  /\ {pos.src, pos.dst} \subseteq Phy \cup {INVALID}

\* block_table, the allocator and the destination of a write have no block in common,
\* no two logical blocks share one, and nobody has a special block: whatever command
\* fails, and whatever a scan finds after the machine has stopped.
OneUser ==
  /\ TypeOK
  /\ \A l, m \in Log : lut.block_table[l] = lut.block_table[m] =>
       l = m \/ lut.block_table[l] = INVALID
  /\ \A l \in Log : LET b == lut.block_table[l]
                    IN b # INVALID => lut.free[b] = "no" /\ b \notin config.special
  /\ \A b \in config.special : lut.free[b] = "no"
  /\ pos.dst # INVALID => lut.free[pos.dst] = "no"

\* Only the code's own slips excuse it: a block that was not erased was written, after a
\* command that failed or with track_inc; it was rewritten in place and that was cut short;
\* or the machine was started again with labels on the flash that are not true.
Excused == \/ flaws \cap {"in place", "restart"} # {}
           \/ "unerased" \in flaws /\ (used.troubles > 0 \/ config.mode = "inc")

\* The pages that b_map says are unwritten hold nothing, over merges, copies, moves of the
\* map's node and partial writes: ftl_simple_can_merge() writes them without an erase.  With
\* track_inc ftl_simple_submit_last() copies some that are erased, and does not count them.
MarkIsTrue ==
  ~Excused /\ used.troubles = 0 =>
    \A b \in DOMAIN lut.b_map \ {pos.src, pos.dst} : \A p \in Pages \ lut.b_map[b] :
      flash[b].pages[p] \in {Erased} \cup If(Fill, config.mode = "inc")

\* With track_inc no page is written that is not above all that have been written: what
\* mtdx_common.h says of MTDX_WMODE_PAGE_PEB_INC.
WritesUpwards ==
  ~Excused /\ config.mode = "inc" /\ fsd.at = "out" /\ Programs =>
    \A p \in Pages : p >= out.from => flash[out.blk].pages[p] = Erased

Shown(l, p) == IF lut.block_table[l] = INVALID THEN Erased
               ELSE Reads(flash[lut.block_table[l]].pages[p])

\* What was written and acknowledged is what the mapped block holds, after failed
\* commands and after a restart and scan at any point of a write; what a write that
\* failed or was lost has left is anything.
DataKept ==
  ~Excused /\ fsd.req_in.op # "write" =>
    \A l \in Log : ZoneOf(l) \in lut.valid_zones =>
      \A p \in Pages : store[l][p] \in {Either, Shown(l, p)}

\* A read returns what was written last, from the pages of any number of blocks.
ReadsRight ==
  ~Excused => \A g \in got : store[g[1]][g[2]] \in {Either, g[3]}

\* Every request from above ends, with success or not.
RequestEnds == client # NoReq ~> client = NoReq

\* A block the allocator keeps as clean is erased.
CleanIsErased == \A b \in Phy : lut.free[b] = "clean" => flash[b] = Blank
=============================================================================
