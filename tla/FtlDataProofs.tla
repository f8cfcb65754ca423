---------------------------- MODULE FtlDataProofs ----------------------------
(***************************************************************************)
(* What has been written through FtlSimple is what the mapped blocks hold, *)
(* and what a read returns: for any number of zones, blocks and pages, and *)
(* any requests, as long as no command has failed, where pages are written *)
(* upwards (track_inc).                                                    *)
(***************************************************************************)
EXTENDS FtlSimpleProofs

-----------------------------------------------------------------------------
(* The inductive invariant.                                                *)

Cell(fl, b, c) == Reads(fl[b].pages[c])

\* A mapped block holds what was written to its logical block.
Holds(t, fl, st, m) == \A c \in Pages :
  st[m][c] = IF t.block_table[m] = INVALID THEN Erased ELSE Cell(fl, t.block_table[m], c)
Kept(t, f, fl, st) == \A m \in Log : ZoneOf(m) \in t.valid_zones =>
  (Works(f) /\ m = f.pos.logical) \/ Holds(t, fl, st, m)

\* Nobody has written to a zone that has not been scanned: its labels are all different.
Labelled(fl, b, m) == fl[b].label.log = m
Pristine(fl, st, z) ==
  /\ \A b \in ZonePhy(z) : \/ fl[b].label = NoLabel
                           \/ \E m \in ZoneLog(z) : fl[b].label = MappedTo(m)
  /\ \A m \in ZoneLog(z) : \A b \in ZonePhy(z) : Labelled(fl, b, m) =>
       /\ b \notin config.special
       /\ \A c \in Pages : st[m][c] = Cell(fl, b, c)
       /\ \A d \in ZonePhy(z) : Labelled(fl, d, m) => d = b
  /\ \A m \in ZoneLog(z) : (\A b \in ZonePhy(z) : ~ Labelled(fl, b, m)) =>
       \A c \in Pages : st[m][c] = Erased
Unscanned(t, fl, st) == \A z \in Zones \ t.valid_zones : Pristine(fl, st, z)

\* The scan has entered in the table all that it has come by.
Entered(t, f, fl) ==
  LooksUp(f) => \A m \in ZoneLog(f.pos.zone) : \A b \in ZonePhy(f.pos.zone) :
                  b < f.scan_pos /\ Labelled(fl, b, m) => t.block_table[m] = b

\* What is read is the block that the table has.
ReadsData(f) == f.req_fn = <<"read_data">> \/ Out(f, "read_data")
FillsData(f) == f.req_fn = <<"fill_data">>
ReadRight(t, f) ==
  ReadsData(f) \/ FillsData(f) =>
    /\ f.req_in.op = "read" /\ f.pos.logical \in Log
    /\ ZoneOf(f.pos.logical) \in t.valid_zones /\ AfterOf(f.pos) <= PageCnt
    /\ t.block_table[f.pos.logical] = f.pos.src
    /\ ReadsData(f) <=> f.pos.src # INVALID

\* The stacks of a write, from their ends.
M1 == <<"merge_data">>
M2 == <<"erase_dst", "merge_data">>
W1 == <<"write_last">>
W2 == <<"write_data", "write_last">>
W3 == <<"write_first", "write_data", "write_last">>
W4 == <<"erase_dst", "write_first", "write_data", "write_last">>
W5 == <<"read_last", "erase_dst", "write_first", "write_data", "write_last">>
W6 == <<"read_first", "read_last", "erase_dst", "write_first", "write_data", "write_last">>
K1 == <<"erase_src">>
K2 == <<"copy_last", "erase_src">>
K3 == <<"write_data", "copy_last", "erase_src">>
K4 == <<"copy_first", "write_data", "copy_last", "erase_src">>
K5 == <<"select_src", "copy_first", "write_data", "copy_last", "erase_src">>
K6 == <<"erase_dst", "select_src", "copy_first", "write_data", "copy_last", "erase_src">>

\* The pages of a block before those that are written, these, and the pages behind them.
Before(p) == {c \in Pages : c < p.off}
Amid(p)   == {c \in Pages : c >= p.off /\ c < AfterOf(p)}
Behind(p) == {c \in Pages : c >= AfterOf(p)}

\* s is what the logical block has to hold, but for the pages that are being written.
Right(fl, b, P, s) == \A c \in P : s[c] = Cell(fl, b, c)
Buffer(f, P, s)    == \A c \in P : s[c] = Reads(f.block_buf[c])
NothingIn(P, s)    == \A c \in P : s[c] = Erased
Blanked(f, fl)     == \A c \in Pages : fl[f.pos.dst].pages[c] = Erased
DataDone(f, fl)    == \A c \in Amid(f.pos) : fl[f.pos.dst].pages[c] = f.req_in.ver
SrcRight(f, fl, s) == Right(fl, f.pos.src, Pages, s)
FirstDone(f, fl, s) == Right(fl, f.pos.dst, Before(f.pos), s)
LastDone(f, fl, s)  == Right(fl, f.pos.dst, Behind(f.pos), s)

\* What is in the buffer, where it is of use.
NoMarks(t, f)   == KeyOf(f.pos) \in Keys(t) /\ t.b_map[KeyOf(f.pos)] = {}
NoneAfter(t, f) == KeyOf(f.pos) \in Keys(t) /\ Above(t, f)
BufFirst(t, f, s) == NoMarks(t, f) \/ Buffer(f, Before(f.pos), s)
BufLast(t, f, s)  == NoneAfter(t, f) \/ Buffer(f, Behind(f.pos), s)
WholeBlock(p) == Before(p) = {} /\ Behind(p) = {}

\* The first pages as the command below will leave them.
FirstComes(f, s) == \A c \in Before(f.pos) :
  s[c] = IF c < f.req_out.cnt THEN Reads(f.block_buf[c]) ELSE Erased

\* The points of a write.  The block is written over, or for the first time;
Now(f, stack) == f.req_fn = stack /\ f.at # "out"
Below(f, stack, end) == f.req_fn = stack /\ Out(f, end)
MergeData1(f, fl, s) ==
  \/ Now(f, M2) /\ WholeBlock(f.pos)
  \/ Below(f, M1, "erase_dst") /\ WholeBlock(f.pos)
  \/ (Now(f, M1) \/ Below(f, <<>>, "merge")) /\ FirstDone(f, fl, s) /\ LastDone(f, fl, s)

\* all of it is written, from the buffer;
WriteData1(t, f, fl, s) ==
  \/ (Now(f, W6) \/ Below(f, W5, "read_first")) /\ SrcRight(f, fl, s)
  \/ (Now(f, W5) \/ Below(f, W4, "read_last")) /\ SrcRight(f, fl, s) /\ BufFirst(t, f, s)
  \/ (Now(f, W4) \/ Below(f, W3, "erase_dst")) /\ BufFirst(t, f, s) /\ BufLast(t, f, s)
  \/ Now(f, W3) /\ BufFirst(t, f, s) /\ BufLast(t, f, s) /\ Blanked(f, fl)
  \/ /\ Below(f, W2, "first") /\ f.req_out.cmd = "WRITE" /\ FirstComes(f, s)
     /\ BufLast(t, f, s) /\ Blanked(f, fl)
  \/ (Now(f, W2) \/ Below(f, W1, "write")) /\ FirstDone(f, fl, s) /\ BufLast(t, f, s)
  \/ Now(f, W1) /\ FirstDone(f, fl, s) /\ DataDone(f, fl) /\ BufLast(t, f, s)
  \/ /\ Below(f, <<>>, "last") /\ f.req_out.cmd = "WRITE"
     /\ FirstDone(f, fl, s) /\ DataDone(f, fl) /\ Buffer(f, Behind(f.pos), s)

\* the rest of it is copied from another block.
CopyData1(f, fl, s) ==
  /\ Copies(f.pos) /\ SrcRight(f, fl, s)
  /\ \/ Now(f, K6) \/ Below(f, K5, "erase_dst")
     \/ (Now(f, K5) \/ Now(f, K4)) /\ Blanked(f, fl)
     \/ Below(f, K4, "select") /\ f.req_out.blk = f.pos.src /\ Blanked(f, fl)
     \/ Below(f, K3, "first") /\ f.req_out.cmd = "COPY" /\ f.req_out.cnt = f.pos.off
     \/ (Now(f, K3) \/ Below(f, K2, "write")) /\ FirstDone(f, fl, s)
     \/ Now(f, K2) /\ FirstDone(f, fl, s) /\ DataDone(f, fl)
     \/ /\ Below(f, K1, "last") /\ f.req_out.cmd = "COPY"
        /\ FirstDone(f, fl, s) /\ DataDone(f, fl)

WorkData(t, f, fl, s) ==
  /\ KeyOf(f.pos) \in Keys(t) => NothingIn(Pages \ t.b_map[KeyOf(f.pos)], s)
  /\ \/ Suspended(f) /\ NothingIn(Pages, s)
     \/ MergeData1(f, fl, s) \/ WriteData1(t, f, fl, s) \/ CopyData1(f, fl, s)

Stored(st) == st = [m \in Log |-> st[m]] /\ \A m \in Log : st[m] = [c \in Pages |-> st[m][c]]
DataInv(t, f, fl, st) ==
  /\ Stored(st) /\ Kept(t, f, fl, st) /\ Unscanned(t, fl, st) /\ Entered(t, f, fl)
  /\ ReadRight(t, f) /\ ~ Resolves(f)
  /\ Works(f) => f.req_in.op = "write" /\ WorkData(t, f, fl, st[f.pos.logical])
  /\ Erasing(f) => f.pos.src \div PhyPerZone \in t.valid_zones

\* The request, and what it has read.
Asked(c, g) == c.ver \in Nat /\ (c.op = "write" => g = {})
GotRight(st, g) == \A x \in g : x[1] \in Log /\ x[2] \in Pages /\ st[x[1]][x[2]] = x[3]

DInv == /\ MInv /\ used.requests \in Nat
        /\ Good => DataInv(lut, fsd, flash, store) /\ Asked(client, got) /\ GotRight(store, got)

-----------------------------------------------------------------------------
(* The points of a write.                                                  *)

LEMMA DataStacks ==
  /\ Head(M1) = "merge_data" /\ Tail(M1) = <<>> /\ Head(M2) = "erase_dst" /\ Tail(M2) = M1
  /\ Head(W1) = "write_last" /\ Tail(W1) = <<>> /\ Head(W2) = "write_data" /\ Tail(W2) = W1
  /\ Head(W3) = "write_first" /\ Tail(W3) = W2 /\ Head(W4) = "erase_dst" /\ Tail(W4) = W3
  /\ Head(W5) = "read_last" /\ Tail(W5) = W4 /\ Head(W6) = "read_first" /\ Tail(W6) = W5
  /\ Head(K1) = "erase_src" /\ Tail(K1) = <<>> /\ Head(K2) = "copy_last" /\ Tail(K2) = K1
  /\ Head(K3) = "write_data" /\ Tail(K3) = K2 /\ Head(K4) = "copy_first" /\ Tail(K4) = K3
  /\ Head(K5) = "select_src" /\ Tail(K5) = K4 /\ Head(K6) = "erase_dst" /\ Tail(K6) = K5
<1>1. /\ Head(M1) = "merge_data" /\ Tail(M1) = <<>> /\ Head(M2) = "erase_dst" /\ Tail(M2) = M1
      /\ Head(W1) = "write_last" /\ Tail(W1) = <<>> /\ Head(W2) = "write_data" /\ Tail(W2) = W1
  BY DEF M1, M2, W1, W2
<1>2. /\ Head(W3) = "write_first" /\ Tail(W3) = W2 /\ Head(W4) = "erase_dst" /\ Tail(W4) = W3
      /\ Head(W5) = "read_last" /\ Tail(W5) = W4 /\ Head(W6) = "read_first" /\ Tail(W6) = W5
  BY DEF W2, W3, W4, W5, W6
<1>3. /\ Head(K1) = "erase_src" /\ Tail(K1) = <<>> /\ Head(K2) = "copy_last" /\ Tail(K2) = K1
      /\ Head(K3) = "write_data" /\ Tail(K3) = K2 /\ Head(K4) = "copy_first" /\ Tail(K4) = K3
  BY DEF K1, K2, K3, K4
<1>4. /\ Head(K5) = "select_src" /\ Tail(K5) = K4 /\ Head(K6) = "erase_dst" /\ Tail(K6) = K5
  BY DEF K4, K5, K6
<1> QED BY <1>1, <1>2, <1>3, <1>4

\* A write is at the top of one of its stacks, or one of its commands is under way.
Stacks == {M1, M2, W1, W2, W3, W4, W5, W6, K2, K3, K4, K5, K6}

LEMMA DataPoints ==
  ASSUME NEW t, NEW g, NEW fl, NEW s, WorkData(t, g, fl, s), ~ Suspended(g)
  PROVE  \/ g.at # "out" /\ g.req_fn \in Stacks
         \/ g.at = "out" /\ g.req_out.end \in EarlyEnds /\ g.req_fn \in Stacks
         \/ g.at = "out" /\ g.req_out.end \in CommitEnds /\ g.req_fn \in {<<>>, K1}
<1>1. CASE MergeData1(g, fl, s)
  BY <1>1 DEF MergeData1, Now, Below, Out, Stacks, EarlyEnds, CommitEnds
<1>2. CASE WriteData1(t, g, fl, s)
  BY <1>2 DEF WriteData1, Now, Below, Out, Stacks, EarlyEnds, CommitEnds
<1>3. CASE CopyData1(g, fl, s)
  BY <1>3 DEF CopyData1, Now, Below, Out, Stacks, EarlyEnds, CommitEnds
<1> QED BY <1>1, <1>2, <1>3 DEF WorkData

\* None of the stacks of a write is one of anything else.
LEMMA StackHeads ==
  ASSUME NEW x \in Stacks
  PROVE  x # <<>> /\ ~ Single(x) /\ x # <<"lookup_block">> /\ x # <<"resolve">>
         /\ x # <<"read_data">> /\ x # <<"fill_data">> /\ x # <<"erase_src">>
<1>1. Head(x) \in {"merge_data", "erase_dst", "write_last", "write_data", "write_first",
                   "read_last", "read_first", "copy_last", "copy_first", "select_src"}
  <2>1. \/ x = M1 \/ x = M2 \/ x = W1 \/ x = W2 \/ x = W3 \/ x = W4 \/ x = W5 \/ x = W6
        \/ x = K2 \/ x = K3 \/ x = K4 \/ x = K5 \/ x = K6
    BY DEF Stacks
  <2>2. CASE x = M1 \/ x = M2 \/ x = W1 \/ x = W2 \/ x = W3
    BY <2>2, DataStacks
  <2>3. CASE x = W4 \/ x = W5 \/ x = W6
    BY <2>3, DataStacks
  <2>4. CASE x = K2 \/ x = K3 \/ x = K4 \/ x = K5 \/ x = K6
    BY <2>4, DataStacks
  <2> QED BY <2>1, <2>2, <2>3, <2>4
<1>2. Len(x) > 0
  BY DEF Stacks, M1, M2, W1, W2, W3, W4, W5, W6, K2, K3, K4, K5, K6
<1>3. x # <<>>
  BY <1>2
<1>4. ASSUME NEW fn \in Singles PROVE x # <<fn>>
  BY <1>1, SingleTop DEF Singles
<1> QED BY <1>3, <1>4 DEF Single, Singles

LEMMA DataQuiet ==
  ASSUME NEW t, NEW g, NEW fl, NEW s, WorkData(t, g, fl, s), Waiting(g)
  PROVE  ~ LooksUp(g) /\ ~ Resolves(g) /\ ~ ReadsData(g) /\ ~ FillsData(g) /\ ~ Erasing(g)
<1>1. {"lookup_block", "resolve", "read_data", "erase_src"} \cap (EarlyEnds \cup CommitEnds) = {}
  BY DEF EarlyEnds, CommitEnds
<1>2. <<>> \notin {<<"lookup_block">>, <<"resolve">>, <<"read_data">>, <<"fill_data">>, <<"erase_src">>}
  BY SingleTop
<1>3. CASE Suspended(g)
  BY <1>2, <1>3 DEF Waiting, LooksUp, Resolves, ReadsData, FillsData, Erasing, Out
<1>4. CASE ~ Suspended(g) /\ g.req_fn \in Stacks
  <2>1. g.at # "out" \/ g.req_out.end \in EarlyEnds
    BY <1>4, DataPoints, StackHeads DEF K1
  <2> QED BY <1>1, <1>4, <2>1, StackHeads DEF LooksUp, Resolves, ReadsData, FillsData, Erasing, Out
<1>5. CASE ~ Suspended(g) /\ g.req_fn \notin Stacks
  <2>1. g.at = "out" /\ g.req_out.end \in CommitEnds /\ g.req_fn \in {<<>>, K1}
    BY <1>5, DataPoints
  <2>2. K1 # <<"lookup_block">> /\ K1 # <<"resolve">> /\ K1 # <<"read_data">> /\ K1 # <<"fill_data">>
    BY SingleTop DEF K1
  <2> QED BY <1>1, <1>2, <2>1, <2>2 DEF LooksUp, Resolves, ReadsData, FillsData, Erasing, Out,
             Committing
<1> QED BY <1>3, <1>4, <1>5

LEMMA DataWorks ==
  ASSUME NEW t, NEW g, NEW fl, NEW s, WorkData(t, g, fl, s), Stacked(g)
  PROVE  Works(g)
<1>1. CASE Suspended(g)
  BY <1>1 DEF Works
<1>2. CASE ~ Suspended(g) /\ g.req_fn \in Stacks
  <2>1. g.req_fn # <<>> /\ ~ Single(g.req_fn) /\ g.req_fn # <<"erase_src">>
        /\ g.req_fn # <<"lookup_block">>
    BY <1>2, StackHeads
  <2>2. Body(g.req_fn) \/ Copying(g.req_fn)
    BY <2>1 DEF Stacked
  <2> QED BY <2>2 DEF Works
<1>3. CASE ~ Suspended(g) /\ g.req_fn \notin Stacks
  BY <1>3, DataPoints DEF Works, Committing
<1> QED BY <1>1, <1>2, <1>3

\* The function at the top, or the command that ends, tells how far the write has come.
LEMMA DataTop ==
  ASSUME NEW f, NEW fl, NEW t, NEW s, WorkData(t, f, fl, s), ~ Suspended(f),
         NEW fn, f.at # "out", f.req_fn # <<>>, Head(f.req_fn) = fn
  PROVE  /\ fn = "merge_data"  => f.req_fn = M1 /\ FirstDone(f, fl, s) /\ LastDone(f, fl, s)
         /\ fn = "read_first"  => f.req_fn = W6 /\ SrcRight(f, fl, s)
         /\ fn = "read_last"   => f.req_fn = W5 /\ SrcRight(f, fl, s) /\ BufFirst(t, f, s)
         /\ fn = "write_first" => /\ f.req_fn = W3 /\ Blanked(f, fl)
                                  /\ BufFirst(t, f, s) /\ BufLast(t, f, s)
         /\ fn = "write_last"  => /\ f.req_fn = W1 /\ FirstDone(f, fl, s) /\ DataDone(f, fl)
                                  /\ BufLast(t, f, s)
         /\ fn \in {"select_src", "copy_first", "copy_last"} => Copies(f.pos) /\ SrcRight(f, fl, s)
         /\ fn = "select_src"  => f.req_fn = K5 /\ Blanked(f, fl)
         /\ fn = "copy_first"  => f.req_fn = K4 /\ Blanked(f, fl)
         /\ fn = "copy_last"   => f.req_fn = K2 /\ FirstDone(f, fl, s) /\ DataDone(f, fl)
         /\ fn = "write_data"  => \/ f.req_fn = W2 /\ FirstDone(f, fl, s) /\ BufLast(t, f, s)
                                  \/ /\ f.req_fn = K3 /\ FirstDone(f, fl, s)
                                     /\ Copies(f.pos) /\ SrcRight(f, fl, s)
         /\ fn = "erase_dst"   => \/ f.req_fn = M2 /\ WholeBlock(f.pos)
                                  \/ f.req_fn = W4 /\ BufFirst(t, f, s) /\ BufLast(t, f, s)
                                  \/ f.req_fn = K6 /\ Copies(f.pos) /\ SrcRight(f, fl, s)
<1>2. CASE MergeData1(f, fl, s)
  BY <1>2, DataStacks DEF MergeData1, Now, Below, Out
<1>3. CASE WriteData1(t, f, fl, s)
  <2>1. \/ f.req_fn = W6 /\ SrcRight(f, fl, s)
        \/ f.req_fn = W5 /\ SrcRight(f, fl, s) /\ BufFirst(t, f, s)
        \/ f.req_fn = W4 /\ BufFirst(t, f, s) /\ BufLast(t, f, s)
        \/ f.req_fn = W3 /\ BufFirst(t, f, s) /\ BufLast(t, f, s) /\ Blanked(f, fl)
        \/ f.req_fn = W2 /\ FirstDone(f, fl, s) /\ BufLast(t, f, s)
        \/ f.req_fn = W1 /\ FirstDone(f, fl, s) /\ DataDone(f, fl) /\ BufLast(t, f, s)
    BY <1>3 DEF WriteData1, Now, Below, Out
  <2> QED BY <2>1, DataStacks
<1>4. CASE CopyData1(f, fl, s)
  BY <1>4, DataStacks DEF CopyData1, Now, Below, Out
<1> QED BY <1>2, <1>3, <1>4 DEF WorkData

LEMMA DataEnd ==
  ASSUME NEW f, NEW fl, NEW t, NEW s, WorkData(t, f, fl, s), ~ Suspended(f),
         f.at = "out"
  PROVE  LET end == f.req_out.end
         IN /\ end = "merge" => f.req_fn = <<>> /\ FirstDone(f, fl, s) /\ LastDone(f, fl, s)
            /\ end = "read_first" => f.req_fn = W5 /\ SrcRight(f, fl, s)
            /\ end = "read_last"  => f.req_fn = W4 /\ SrcRight(f, fl, s) /\ BufFirst(t, f, s)
            /\ end = "select" => /\ f.req_fn = K4 /\ f.req_out.blk = f.pos.src
                                 /\ Copies(f.pos) /\ SrcRight(f, fl, s) /\ Blanked(f, fl)
            /\ end = "erase_dst" => \/ f.req_fn = M1 /\ WholeBlock(f.pos)
                                    \/ f.req_fn = W3 /\ BufFirst(t, f, s) /\ BufLast(t, f, s)
                                    \/ f.req_fn = K5 /\ Copies(f.pos) /\ SrcRight(f, fl, s)
            /\ end = "first" => \/ /\ f.req_fn = W2 /\ f.req_out.cmd = "WRITE"
                                   /\ FirstComes(f, s) /\ BufLast(t, f, s) /\ Blanked(f, fl)
                                \/ /\ f.req_fn = K3 /\ f.req_out.cmd = "COPY"
                                   /\ f.req_out.cnt = f.pos.off
                                   /\ Copies(f.pos) /\ SrcRight(f, fl, s)
            /\ end = "write" => \/ f.req_fn = W1 /\ FirstDone(f, fl, s) /\ BufLast(t, f, s)
                                \/ /\ f.req_fn = K2 /\ FirstDone(f, fl, s)
                                   /\ Copies(f.pos) /\ SrcRight(f, fl, s)
            /\ end = "last" => /\ FirstDone(f, fl, s) /\ DataDone(f, fl)
                               /\ \/ /\ f.req_fn = <<>> /\ f.req_out.cmd = "WRITE"
                                     /\ Buffer(f, Behind(f.pos), s)
                                  \/ /\ f.req_fn = K1 /\ f.req_out.cmd = "COPY"
                                     /\ Copies(f.pos) /\ SrcRight(f, fl, s)
<1>2. CASE MergeData1(f, fl, s)
  BY <1>2 DEF MergeData1, Now, Below, Out
<1>3. CASE WriteData1(t, f, fl, s)
  BY <1>3 DEF WriteData1, Now, Below, Out
<1>4. CASE CopyData1(f, fl, s)
  BY <1>4 DEF CopyData1, Now, Below, Out
<1> QED BY <1>2, <1>3, <1>4 DEF WorkData

-----------------------------------------------------------------------------
(* What a step has to keep.                                                *)

\* A step of a write.
LEMMA WorkStep ==
  ASSUME NEW t, NEW g, NEW fl, NEW st, WorkData(t, g, fl, st[g.pos.logical]), Stacked(g),
         Waiting(g), g.req_in.op = "write", Stored(st), Unscanned(t, fl, st),
         \A m \in Log : ZoneOf(m) \in t.valid_zones => m = g.pos.logical \/ Holds(t, fl, st, m)
  PROVE  DataInv(t, g, fl, st)
<1>1. ~ LooksUp(g) /\ ~ Resolves(g) /\ ~ ReadsData(g) /\ ~ FillsData(g) /\ ~ Erasing(g)
  BY DataQuiet
<1>2. Works(g)
  BY DataWorks
<1> QED BY <1>1, <1>2 DEF DataInv, Kept, Entered, ReadRight

\* A step to a state without a write and without a scan.
LEMMA RestStep ==
  ASSUME NEW t, NEW g, NEW fl, NEW st, ~ Works(g), ~ LooksUp(g), ~ Resolves(g), Stored(st),
         Unscanned(t, fl, st), ReadRight(t, g),
         Erasing(g) => g.pos.src \div PhyPerZone \in t.valid_zones,
         \A m \in Log : ZoneOf(m) \in t.valid_zones => Holds(t, fl, st, m)
  PROVE  DataInv(t, g, fl, st)
BY DEF DataInv, Kept, Entered

LEMMA SameDataInv ==
  ASSUME config' = config
  PROVE  DataInv(lut, fsd, flash, store)' = DataInv(lut', fsd', flash', store')
BY DEF DataInv, Stored, Kept, Unscanned, Entered, ReadRight, WorkData, MergeData1, WriteData1,
       CopyData1, Resolves, Erasing, Works, Holds, Cell, Pristine, Labelled, LooksUp, ReadsData,
       FillsData, Body, Copying, Committing, Suspended, Out, Now, Below, FirstDone, LastDone,
       SrcRight, DataDone, Right, Buffer, NothingIn, Blanked, NoMarks, NoneAfter, BufFirst,
       BufLast, WholeBlock, FirstComes, Before, Amid, Behind, KeyOf, AfterOf, Keys, Above,
       Copies, Reads

-----------------------------------------------------------------------------
(* The functions on the stack.                                             *)

LEMMA DataAlike ==
  ASSUME NEW f, NEW g, g.pos = f.pos, g.req_in = f.req_in
  PROVE  /\ \A t : (NoMarks(t, g) <=> NoMarks(t, f)) /\ (NoneAfter(t, g) <=> NoneAfter(t, f))
         /\ \A fl : (Blanked(g, fl) <=> Blanked(f, fl)) /\ (DataDone(g, fl) <=> DataDone(f, fl))
         /\ \A fl, s : /\ SrcRight(g, fl, s) <=> SrcRight(f, fl, s)
                       /\ FirstDone(g, fl, s) <=> FirstDone(f, fl, s)
                       /\ LastDone(g, fl, s) <=> LastDone(f, fl, s)
BY DEF NoMarks, NoneAfter, Above, Blanked, DataDone, SrcRight, FirstDone, LastDone

LEMMA BufAlike ==
  ASSUME NEW f, NEW g, g.pos = f.pos, g.req_in = f.req_in, g.block_buf = f.block_buf
  PROVE  /\ \A t, s : /\ BufFirst(t, g, s) <=> BufFirst(t, f, s)
                      /\ BufLast(t, g, s) <=> BufLast(t, f, s)
         /\ \A P, s : Buffer(g, P, s) <=> Buffer(f, P, s)
BY DataAlike DEF BufFirst, BufLast, Buffer

LEMMA DataHere ==
  ASSUME IInv, DataInv(lut, fsd, flash, store), NEW fn \in Early \cup Commits, Calls(fn)
  PROVE  /\ Works(fsd) /\ ~ Suspended(fsd) /\ WorkData(lut, fsd, flash, store[pos.logical])
         /\ fsd.at = "get" /\ fsd.req_fn # <<>> /\ Head(fsd.req_fn) = fn /\ Fresh(lut, pos)
<1>1. fsd.at = "get" /\ fsd.req_fn # <<>> /\ Head(fsd.req_fn) = fn
  BY DEF Calls
<1>2. fn \notin Singles
  BY DEF Early, Commits, Singles
<1>3. ~ Single(fsd.req_fn)
  BY <1>1, <1>2, StackKinds
<1>4. Body(fsd.req_fn) \/ Copying(fsd.req_fn)
  BY <1>1, <1>3, Basics DEF Stacked
<1>5. Works(fsd) /\ Fresh(lut, pos)
  BY <1>4, Basics DEF Works, Writing, pos
<1> QED BY <1>1, <1>5, NotWaiting DEF DataInv, pos

\* One of them goes on with the write.
LEMMA FnStep ==
  ASSUME IInv, Stacked(fsd'), Waiting(fsd'), DataInv(lut, fsd, flash, store),
         NEW fn \in Early \cup Commits, Calls(fn), fsd'.pos = pos, fsd'.req_in = fsd.req_in,
         lut' = lut, flash' = flash, store' = store,
         WorkData(lut, fsd', flash, store[pos.logical])
  PROVE  DataInv(lut', fsd', flash', store')
<1>1. /\ Stored(store) /\ Unscanned(lut, flash, store) /\ fsd.req_in.op = "write"
      /\ \A m \in Log : ZoneOf(m) \in lut.valid_zones => m = pos.logical \/ Holds(lut, flash, store, m)
  BY DataHere DEF DataInv, Kept, pos
<1> DEFINE g == fsd'
<1>2. Stacked(g) /\ Waiting(g) /\ g.pos = pos /\ g.req_in = fsd.req_in /\ WorkData(lut, g, flash, store[g.pos.logical])
  OBVIOUS
<1> HIDE DEF g
<1>3. DataInv(lut, g, flash, store)
  BY <1>1, <1>2, WorkStep
<1> QED BY <1>3 DEF g

LEMMA SubmitData ==
  ASSUME IInv, NEW f, IsFsd(f), SameWork(f, Popped), NEW cmd, NEW blk, NEW from, NEW cnt, NEW end,
         Submit(f, cmd, blk, from, cnt, end)
  PROVE  /\ fsd'.pos = pos /\ fsd'.req_fn = Tail(fsd.req_fn) /\ fsd'.req_in = fsd.req_in
         /\ fsd'.at = "out" /\ fsd'.req_out.cmd = cmd /\ fsd'.req_out.end = end
         /\ fsd'.req_out.blk = blk /\ fsd'.req_out.cnt = cnt /\ fsd'.block_buf = f.block_buf
         /\ lut' = lut /\ flash' = flash /\ store' = store
<1>1. store' = store
  BY DEF Submit, Quiet
<1>2. fsd'.req_in = fsd.req_in
  BY SubmitFields, PoppedFields, Basics DEF SameWork
<1> QED BY <1>1, <1>2, SubmitMarks DEF To

LEMMA EarlyMarksKept ==
  ASSUME NEW t, NEW f, NEW g, NEW fl, NEW s, WorkData(t, f, fl, s), g.pos = f.pos,
         MergeData1(g, fl, s) \/ WriteData1(t, g, fl, s) \/ CopyData1(g, fl, s)
  PROVE  WorkData(t, g, fl, s)
BY DEF WorkData

LEMMA EraseData ==
  ASSUME IInv, Stacked(fsd'), Waiting(fsd'), DataInv(lut, fsd, flash, store),
         EraseDst \/ SelectSrc \/ WriteData
  PROVE  DataInv(lut', fsd', flash', store')
<1> DEFINE s == store[pos.logical]
           g == fsd'
<1>0. IsFsd(Popped) /\ SameWork(Popped, Popped) /\ Popped.block_buf = fsd.block_buf
  BY Basics, PoppedFields, PoppedBuf DEF SameWork
<1>1. PICK fn \in {"erase_dst", "select_src", "write_data"} :
        /\ Calls(fn)
        /\ fn = "erase_dst" => Submit(Popped, "ERASE", pos.dst, 0, 0, "erase_dst")
        /\ fn = "select_src" => Submit(Popped, "OVERWRITE", pos.src, 0, 1, "select")
        /\ fn = "write_data" => Submit(Popped, "WRITE", pos.dst, pos.off, pos.len, "write")
  BY DEF EraseDst, SelectSrc, WriteData
<1>2. /\ ~ Suspended(fsd) /\ WorkData(lut, fsd, flash, s)
      /\ fsd.at # "out" /\ fsd.req_fn # <<>> /\ Head(fsd.req_fn) = fn
  BY <1>1, DataHere DEF Early
<1>3. /\ g.pos = fsd.pos /\ g.req_fn = Tail(fsd.req_fn) /\ g.req_in = fsd.req_in
      /\ g.at = "out" /\ g.block_buf = fsd.block_buf
      /\ lut' = lut /\ flash' = flash /\ store' = store
      /\ fn = "erase_dst" => g.req_out.end = "erase_dst"
      /\ fn = "select_src" => g.req_out.end = "select" /\ g.req_out.blk = g.pos.src
      /\ fn = "write_data" => g.req_out.end = "write"
  BY <1>0, <1>1, SubmitData DEF pos
<1> HIDE DEF s, g
<1>4. ASSUME fn = "erase_dst" PROVE WorkData(lut, g, flash, s)
  <2>1. CASE fsd.req_fn = M2 /\ WholeBlock(fsd.pos)
    <3>1. Below(g, M1, "erase_dst") /\ WholeBlock(g.pos)
      BY <1>3, <1>4, <2>1, DataStacks DEF Below, Out
    <3> QED BY <1>2, <1>3, <3>1, EarlyMarksKept DEF MergeData1
  <2>2. CASE fsd.req_fn = W4 /\ BufFirst(lut, fsd, s) /\ BufLast(lut, fsd, s)
    <3>1. Below(g, W3, "erase_dst") /\ BufFirst(lut, g, s) /\ BufLast(lut, g, s)
      BY <1>3, <1>4, <2>2, DataStacks, BufAlike DEF Below, Out
    <3> QED BY <1>2, <1>3, <3>1, EarlyMarksKept DEF WriteData1
  <2>3. CASE fsd.req_fn = K6 /\ Copies(fsd.pos) /\ SrcRight(fsd, flash, s)
    <3>1. Below(g, K5, "erase_dst") /\ Copies(g.pos) /\ SrcRight(g, flash, s)
      BY <1>3, <1>4, <2>3, DataStacks, DataAlike DEF Below, Out
    <3> QED BY <1>2, <1>3, <3>1, EarlyMarksKept DEF CopyData1
  <2> QED BY <1>2, <1>4, <2>1, <2>2, <2>3, DataTop
<1>5. ASSUME fn = "select_src" PROVE WorkData(lut, g, flash, s)
  <2>1. fsd.req_fn = K5 /\ Copies(fsd.pos) /\ SrcRight(fsd, flash, s) /\ Blanked(fsd, flash)
    BY <1>2, <1>5, DataTop
  <2>2. /\ Below(g, K4, "select") /\ g.req_out.blk = g.pos.src
        /\ Copies(g.pos) /\ SrcRight(g, flash, s) /\ Blanked(g, flash)
    BY <1>3, <1>5, <2>1, DataStacks, DataAlike DEF Below, Out
  <2> QED BY <1>2, <1>3, <2>2, EarlyMarksKept DEF CopyData1
<1>6. ASSUME fn = "write_data" PROVE WorkData(lut, g, flash, s)
  <2>1. CASE fsd.req_fn = W2 /\ FirstDone(fsd, flash, s) /\ BufLast(lut, fsd, s)
    <3>1. Below(g, W1, "write") /\ FirstDone(g, flash, s) /\ BufLast(lut, g, s)
      BY <1>3, <1>6, <2>1, DataStacks, DataAlike, BufAlike DEF Below, Out
    <3> QED BY <1>2, <1>3, <3>1, EarlyMarksKept DEF WriteData1
  <2>2. CASE fsd.req_fn = K3 /\ FirstDone(fsd, flash, s) /\ Copies(fsd.pos) /\ SrcRight(fsd, flash, s)
    <3>1. Below(g, K2, "write") /\ FirstDone(g, flash, s) /\ Copies(g.pos) /\ SrcRight(g, flash, s)
      BY <1>3, <1>6, <2>2, DataStacks, DataAlike DEF Below, Out
    <3> QED BY <1>2, <1>3, <3>1, EarlyMarksKept DEF CopyData1
  <2> QED BY <1>2, <1>6, <2>1, <2>2, DataTop
<1>7. WorkData(lut, g, flash, s)
  BY <1>4, <1>5, <1>6
<1> QED BY <1>1, <1>3, <1>7, FnStep DEF g, s, pos, Early

LEMMA SkipData ==
  ASSUME IInv, Skip
  PROVE  /\ fsd'.pos = pos /\ fsd'.req_fn = Tail(fsd.req_fn) /\ fsd'.req_in = fsd.req_in
         /\ fsd'.at = fsd.at /\ fsd'.block_buf = fsd.block_buf
         /\ lut' = lut /\ flash' = flash /\ store' = store
<1>1. fsd' = Popped /\ lut' = lut /\ flash' = flash /\ store' = store
  BY DEF Skip, Quiet
<1> QED BY <1>1, Basics, PoppedFields, PoppedBuf

LEMMA PageParts ==
  ASSUME NEW p \in PosType
  PROVE  /\ p.off \in Nat /\ p.len \in Nat /\ AfterOf(p) \in Nat /\ AfterOf(p) >= p.off
         /\ \A c \in Pages : c \in Nat /\ c < PageCnt
         /\ Before(p) \subseteq Pages /\ Amid(p) \subseteq Pages /\ Behind(p) \subseteq Pages
         /\ Pages = Before(p) \cup Amid(p) \cup Behind(p)
         /\ p.off = 0 => Before(p) = {}
         /\ AfterOf(p) = PageCnt => Behind(p) = {}
<1>1. p.off \in Nat /\ p.len \in Nat /\ PageCnt \in Nat
  BY FtlAssumption DEF PosType
<1>2. AfterOf(p) \in Nat /\ AfterOf(p) >= p.off
  BY <1>1 DEF AfterOf
<1>3. \A c \in Pages : c \in Nat /\ c < PageCnt
  BY <1>1 DEF Pages
<1> QED BY <1>1, <1>2, <1>3 DEF Before, Amid, Behind

\* What can be written without a copy has never been written.
LEMMA NewMarks ==
  ASSUME IInv, Good
  PROVE  /\ \A k : FirstNew(k) <=> k \in Keys(lut) /\ lut.b_map[k] = {}
         /\ \A k : LastNew(k) <=> k \in Keys(lut) /\ lut.b_map[k] \subseteq 0 .. AfterOf(pos) - 1
         /\ MapKey = KeyOf(pos)
         /\ \A k \in Keys(lut) : k = pos.src => KeyOf(pos) = k
         /\ INVALID \notin Keys(lut)
<1>1. 0 .. 0 - 1 = {}
  OBVIOUS
<1>2. INVALID \notin Keys(lut)
  BY Basics, FtlAssumption DEF Keys, IsLut
<1>3. \A k : FirstNew(k) <=> k \in Keys(lut) /\ lut.b_map[k] = {}
  BY <1>1 DEF FirstNew, CanMerge, Good, Keys
<1>4. \A k : LastNew(k) <=> k \in Keys(lut) /\ lut.b_map[k] \subseteq 0 .. AfterOf(pos) - 1
  BY DEF LastNew, CanMerge, Good, Keys, After, AfterOf
<1> QED BY <1>2, <1>3, <1>4 DEF MapKey, KeyOf

LEMMA ReadFnData ==
  ASSUME IInv, Good, Stacked(fsd'), Waiting(fsd'), DataInv(lut, fsd, flash, store),
         ReadFirst \/ ReadLast
  PROVE  DataInv(lut', fsd', flash', store')
<1> DEFINE s == store[pos.logical]
           g == fsd'
<1>0. /\ IsFsd(Popped) /\ SameWork(Popped, Popped) /\ Popped.block_buf = fsd.block_buf
      /\ pos \in PosType
  BY Basics, PoppedFields, PoppedBuf DEF SameWork
<1>1. PICK fn \in {"read_first", "read_last"} :
        /\ Calls(fn)
        /\ \/ Skip
           \/ fn = "read_first" /\ Submit(Popped, "READ", pos.src, 0, pos.off, "read_first")
           \/ fn = "read_last" /\ Submit(Popped, "READ", pos.src, After, PageCnt - After, "read_last")
        /\ Skip /\ fn = "read_first" => pos.off = 0 \/ FirstNew(pos.src)
        /\ Skip /\ fn = "read_last" => After = PageCnt \/ LastNew(pos.src)
  <2>1. ASSUME NEW cmd, NEW blk, NEW from, NEW cnt, NEW end, Submit(Popped, cmd, blk, from, cnt, end),
               Calls("read_first") \/ Calls("read_last")
        PROVE  ~ Skip
    <3>1. fsd'.at = "out" /\ fsd.at = "get"
      BY <1>0, <2>1, SubmitData DEF Calls
    <3> QED BY <3>1, SkipData
  <2>2. CASE ReadFirst
    BY <2>1, <2>2 DEF ReadFirst
  <2>3. CASE ReadLast
    BY <2>1, <2>3 DEF ReadLast
  <2> QED BY <2>2, <2>3
<1>2. /\ ~ Suspended(fsd) /\ WorkData(lut, fsd, flash, s)
      /\ fsd.at # "out" /\ fsd.req_fn # <<>> /\ Head(fsd.req_fn) = fn
  BY <1>1, DataHere DEF Early
<1>3. /\ g.pos = fsd.pos /\ g.req_fn = Tail(fsd.req_fn) /\ g.req_in = fsd.req_in
      /\ g.block_buf = fsd.block_buf
      /\ lut' = lut /\ flash' = flash /\ store' = store
      /\ \/ g.at # "out" /\ Skip
         \/ g.at = "out" /\ g.req_out.end = fn
  <2>1. CASE Skip
    BY <1>2, <2>1, SkipData DEF pos
  <2>2. CASE fn = "read_first" /\ Submit(Popped, "READ", pos.src, 0, pos.off, "read_first")
    BY <1>0, <2>2, SubmitData DEF pos
  <2>3. CASE fn = "read_last" /\ Submit(Popped, "READ", pos.src, After, PageCnt - After, "read_last")
    BY <1>0, <2>3, SubmitData DEF pos
  <2> QED BY <1>1, <2>1, <2>2, <2>3
<1> HIDE DEF s, g
<1>4. ASSUME fn = "read_first" PROVE WorkData(lut, g, flash, s)
  <2>1. fsd.req_fn = W6 /\ SrcRight(fsd, flash, s)
    BY <1>2, <1>4, DataTop
  <2>2. CASE Skip /\ g.at # "out"
    <3>1. BufFirst(lut, fsd, s)
      <4>1. CASE pos.off = 0
        BY <1>0, <4>1, PageParts DEF BufFirst, Buffer, pos
      <4>2. CASE FirstNew(pos.src)
        BY <4>2, NewMarks DEF BufFirst, NoMarks, pos
      <4> QED BY <1>1, <1>4, <2>2, <4>1, <4>2
    <3>2. Now(g, W5) /\ SrcRight(g, flash, s) /\ BufFirst(lut, g, s)
      BY <1>3, <2>1, <2>2, <3>1, DataStacks, DataAlike, BufAlike DEF Now
    <3> QED BY <1>2, <1>3, <3>2, EarlyMarksKept DEF WriteData1
  <2>3. CASE g.at = "out" /\ g.req_out.end = fn
    <3>1. Below(g, W5, "read_first") /\ SrcRight(g, flash, s)
      BY <1>3, <1>4, <2>1, <2>3, DataStacks, DataAlike DEF Below, Out
    <3> QED BY <1>2, <1>3, <3>1, EarlyMarksKept DEF WriteData1
  <2> QED BY <1>3, <2>2, <2>3
<1>5. ASSUME fn = "read_last" PROVE WorkData(lut, g, flash, s)
  <2>1. fsd.req_fn = W5 /\ SrcRight(fsd, flash, s) /\ BufFirst(lut, fsd, s)
    BY <1>2, <1>5, DataTop
  <2>2. CASE Skip /\ g.at # "out"
    <3>1. BufLast(lut, fsd, s)
      <4>1. CASE After = PageCnt
        <5>1. Behind(pos) = {}
          BY <1>0, <4>1, PageParts DEF After, AfterOf
        <5> QED BY <5>1 DEF BufLast, Buffer, pos
      <4>2. CASE LastNew(pos.src)
        BY <4>2, NewMarks DEF BufLast, NoneAfter, Above, pos
      <4> QED BY <1>1, <1>5, <2>2, <4>1, <4>2
    <3>2. Now(g, W4) /\ BufFirst(lut, g, s) /\ BufLast(lut, g, s)
      BY <1>3, <2>1, <2>2, <3>1, DataStacks, BufAlike DEF Now
    <3> QED BY <1>2, <1>3, <3>2, EarlyMarksKept DEF WriteData1
  <2>3. CASE g.at = "out" /\ g.req_out.end = fn
    <3>1. Below(g, W4, "read_last") /\ SrcRight(g, flash, s) /\ BufFirst(lut, g, s)
      BY <1>3, <1>5, <2>1, <2>3, DataStacks, DataAlike, BufAlike DEF Below, Out
    <3> QED BY <1>2, <1>3, <3>1, EarlyMarksKept DEF WriteData1
  <2> QED BY <1>3, <2>2, <2>3
<1>6. WorkData(lut, g, flash, s)
  BY <1>4, <1>5
<1> QED BY <1>1, <1>3, <1>6, FnStep DEF g, s, pos, Early

LEMMA WriteFirstData ==
  ASSUME IInv, Good, MarkInv(lut, fsd, flash), Stacked(fsd'), Waiting(fsd'),
         DataInv(lut, fsd, flash, store), WriteFirst
  PROVE  DataInv(lut', fsd', flash', store')
<1> DEFINE s == store[pos.logical]
           g == fsd'
           buf == [fsd.block_buf EXCEPT ![0] = Fill]
           f == [Popped EXCEPT !.block_buf = buf]
<1>0. /\ IsFsd(Popped) /\ SameWork(Popped, Popped) /\ Popped.block_buf = fsd.block_buf
      /\ pos \in PosType /\ fsd.block_buf = [c \in Pages |-> fsd.block_buf[c]]
  BY Basics, PoppedFields, PoppedBuf DEF SameWork, MarkInv
<1>1. Calls("write_first")
  BY DEF WriteFirst
<1>2. /\ ~ Suspended(fsd) /\ WorkData(lut, fsd, flash, s)
      /\ fsd.at = "get" /\ fsd.req_fn # <<>> /\ Head(fsd.req_fn) = "write_first"
  BY <1>1, DataHere DEF Early
<1>3. fsd.req_fn = W3 /\ Blanked(fsd, flash) /\ BufFirst(lut, fsd, s) /\ BufLast(lut, fsd, s)
  BY <1>2, DataTop
<1>4. /\ pos.off \in Nat /\ AfterOf(pos) \in Nat /\ AfterOf(pos) >= pos.off
      /\ pos.off = 0 => Before(pos) = {}
      /\ \A c \in Pages : c \in Nat
  BY <1>0, PageParts
<1>5. CASE pos.off = 0
  <2>1. Skip
    BY <1>5 DEF WriteFirst
  <2>2. /\ g.pos = fsd.pos /\ g.req_fn = W2 /\ g.req_in = fsd.req_in /\ g.at # "out"
        /\ g.block_buf = fsd.block_buf
        /\ lut' = lut /\ flash' = flash /\ store' = store
    BY <1>2, <1>3, <2>1, SkipData, DataStacks DEF pos
  <2> HIDE DEF s, g
  <2>3. Now(g, W2) /\ FirstDone(g, flash, s) /\ BufLast(lut, g, s)
    <3>1. FirstDone(fsd, flash, s)
      BY <1>4, <1>5 DEF FirstDone, Right, pos
    <3> QED BY <1>3, <2>2, <3>1, DataAlike, BufAlike DEF Now
  <2>4. WorkData(lut, g, flash, s)
    BY <1>2, <2>2, <2>3, EarlyMarksKept DEF WriteData1
  <2> QED BY <1>1, <2>2, <2>4, FnStep DEF g, s, pos, Early
<1>6. CASE pos.off # 0 /\ FirstNew(MapKey)
  <2>1. Submit([Popped EXCEPT !.block_buf[0] = Fill], "WRITE", pos.dst, 0, 1, "first")
    BY <1>6 DEF WriteFirst
  <2>2. f = [Popped EXCEPT !.block_buf[0] = Fill]
    BY <1>0 DEF IsFsd
  <2>3. Submit(f, "WRITE", pos.dst, 0, 1, "first")
    BY <2>1, <2>2
  <2>4. /\ buf = [c \in Pages |-> buf[c]]
        /\ \A c \in Pages : buf[c] = IF c = 0 THEN Fill ELSE fsd.block_buf[c]
    BY <1>0
  <2> HIDE DEF buf
  <2>5. f.block_buf = buf
    BY <1>0 DEF IsFsd
  <2>6. IsFsd(f) /\ SameWork(f, Popped)
    BY <1>0, BufFields
  <2> HIDE DEF f
  <2>7. /\ g.pos = fsd.pos /\ g.req_fn = W2 /\ g.req_in = fsd.req_in /\ g.at = "out"
        /\ g.req_out.end = "first" /\ g.req_out.cmd = "WRITE" /\ g.req_out.cnt = 1
        /\ g.block_buf = buf /\ lut' = lut /\ flash' = flash /\ store' = store
    <3>1. Tail(fsd.req_fn) = W2
      BY <1>3, DataStacks
    <3>2. /\ fsd'.pos = pos /\ fsd'.req_fn = Tail(fsd.req_fn) /\ fsd'.req_in = fsd.req_in
          /\ fsd'.at = "out" /\ fsd'.req_out.end = "first" /\ fsd'.req_out.cnt = 1
      BY <2>3, <2>6, SubmitData
    <3>3. /\ fsd'.req_out.cmd = "WRITE" /\ fsd'.block_buf = f.block_buf
          /\ lut' = lut /\ flash' = flash /\ store' = store
      BY <2>3, <2>6, SubmitData
    <3> QED BY <2>5, <3>1, <3>2, <3>3 DEF pos
  <2> HIDE DEF s, g
  <2>8. NoMarks(lut, fsd) /\ NothingIn(Pages, s)
    <3>1. NoMarks(lut, fsd)
      BY <1>6, NewMarks DEF NoMarks, pos
    <3>2. NothingIn(Pages \ {}, s)
      BY <1>2, <3>1 DEF WorkData, NoMarks
    <3> QED BY <3>1, <3>2 DEF NothingIn
  <2>9. FirstComes(g, s)
    <3> SUFFICES ASSUME NEW c \in Before(pos)
                 PROVE  s[c] = IF c < 1 THEN Reads(buf[c]) ELSE Erased
      BY <2>7 DEF FirstComes, pos
    <3>1. c \in Pages /\ c \in Nat /\ s[c] = Erased
      BY <1>4, <2>8 DEF Before, NothingIn
    <3>2. c < 1 => Reads(buf[c]) = Erased
      BY <2>4, <3>1 DEF Reads
    <3> QED BY <3>1, <3>2
  <2>10. BufLast(lut, g, s)
    <3>1. NoneAfter(lut, fsd)
      BY <2>8 DEF NoMarks, NoneAfter, Above
    <3> QED BY <2>7, <3>1, DataAlike DEF BufLast
  <2>11. Below(g, W2, "first") /\ Blanked(g, flash)
    BY <1>3, <2>7, DataAlike DEF Below, Out
  <2>12. WorkData(lut, g, flash, s)
    BY <1>2, <2>7, <2>9, <2>10, <2>11, EarlyMarksKept DEF WriteData1
  <2> QED BY <1>1, <2>7, <2>12, FnStep DEF g, s, pos, Early
<1>7. CASE pos.off # 0 /\ ~ FirstNew(MapKey)
  <2>1. Submit(Popped, "WRITE", pos.dst, 0, pos.off, "first")
    BY <1>7 DEF WriteFirst
  <2>2. /\ g.pos = fsd.pos /\ g.req_fn = W2 /\ g.req_in = fsd.req_in /\ g.at = "out"
        /\ g.req_out.end = "first" /\ g.req_out.cmd = "WRITE" /\ g.req_out.cnt = pos.off
        /\ g.block_buf = fsd.block_buf /\ lut' = lut /\ flash' = flash /\ store' = store
    <3>1. Tail(fsd.req_fn) = W2
      BY <1>3, DataStacks
    <3>2. /\ fsd'.pos = pos /\ fsd'.req_fn = Tail(fsd.req_fn) /\ fsd'.req_in = fsd.req_in
          /\ fsd'.at = "out" /\ fsd'.req_out.end = "first" /\ fsd'.req_out.cnt = pos.off
      BY <1>0, <2>1, SubmitData
    <3>3. /\ fsd'.req_out.cmd = "WRITE" /\ fsd'.block_buf = Popped.block_buf
          /\ lut' = lut /\ flash' = flash /\ store' = store
      BY <1>0, <2>1, SubmitData
    <3> QED BY <1>0, <3>1, <3>2, <3>3 DEF pos
  <2> HIDE DEF s, g
  <2>3. Buffer(fsd, Before(pos), s)
    BY <1>3, <1>7, NewMarks DEF BufFirst, NoMarks, pos
  <2>4. FirstComes(g, s)
    BY <2>2, <2>3 DEF FirstComes, Buffer, Before, pos
  <2>5. Below(g, W2, "first") /\ Blanked(g, flash) /\ BufLast(lut, g, s)
    BY <1>3, <2>2, DataAlike, BufAlike DEF Below, Out
  <2>6. WorkData(lut, g, flash, s)
    BY <1>2, <2>2, <2>4, <2>5, EarlyMarksKept DEF WriteData1
  <2> QED BY <1>1, <2>2, <2>6, FnStep DEF g, s, pos, Early
<1> QED BY <1>5, <1>6, <1>7

LEMMA CopyFirstData ==
  ASSUME IInv, Stacked(fsd'), Waiting(fsd'), DataInv(lut, fsd, flash, store), CopyFirst
  PROVE  DataInv(lut', fsd', flash', store')
<1> DEFINE s == store[pos.logical]
           g == fsd'
<1>0. /\ IsFsd(Popped) /\ SameWork(Popped, Popped) /\ pos \in PosType
  BY Basics, PoppedFields DEF SameWork
<1>1. Calls("copy_first")
  BY DEF CopyFirst
<1>2. /\ ~ Suspended(fsd) /\ WorkData(lut, fsd, flash, s)
      /\ fsd.at = "get" /\ fsd.req_fn # <<>> /\ Head(fsd.req_fn) = "copy_first"
  BY <1>1, DataHere DEF Early
<1>3. fsd.req_fn = K4 /\ Copies(fsd.pos) /\ SrcRight(fsd, flash, s) /\ Blanked(fsd, flash)
  BY <1>2, DataTop
<1>4. pos.off = 0 => Before(pos) = {}
  BY <1>0, PageParts
<1>5. CASE pos.off = 0
  <2>1. Skip
    BY <1>5 DEF CopyFirst
  <2>2. /\ g.pos = fsd.pos /\ g.req_fn = K3 /\ g.req_in = fsd.req_in /\ g.at # "out"
        /\ lut' = lut /\ flash' = flash /\ store' = store
    BY <1>2, <1>3, <2>1, SkipData, DataStacks DEF pos
  <2> HIDE DEF s, g
  <2>3. FirstDone(fsd, flash, s)
    BY <1>4, <1>5 DEF FirstDone, Right, pos
  <2>4. Now(g, K3) /\ FirstDone(g, flash, s) /\ Copies(g.pos) /\ SrcRight(g, flash, s)
    BY <1>3, <2>2, <2>3, DataAlike DEF Now
  <2>5. WorkData(lut, g, flash, s)
    BY <1>2, <2>2, <2>4, EarlyMarksKept DEF CopyData1
  <2> QED BY <1>1, <2>2, <2>5, FnStep DEF g, s, pos, Early
<1>6. CASE pos.off # 0
  <2>1. Submit(Popped, "COPY", pos.dst, 0, pos.off, "first")
    BY <1>6 DEF CopyFirst
  <2>2. /\ g.pos = fsd.pos /\ g.req_fn = K3 /\ g.req_in = fsd.req_in /\ g.at = "out"
        /\ g.req_out.end = "first" /\ g.req_out.cmd = "COPY" /\ g.req_out.cnt = pos.off
        /\ lut' = lut /\ flash' = flash /\ store' = store
    <3>1. Tail(fsd.req_fn) = K3
      BY <1>3, DataStacks
    <3>2. /\ fsd'.pos = pos /\ fsd'.req_fn = Tail(fsd.req_fn) /\ fsd'.req_in = fsd.req_in
          /\ fsd'.at = "out" /\ fsd'.req_out.end = "first" /\ fsd'.req_out.cnt = pos.off
      BY <1>0, <2>1, SubmitData
    <3>3. /\ fsd'.req_out.cmd = "COPY" /\ fsd'.block_buf = Popped.block_buf
          /\ lut' = lut /\ flash' = flash /\ store' = store
      BY <1>0, <2>1, SubmitData
    <3> QED BY <1>0, <3>1, <3>2, <3>3 DEF pos
  <2> HIDE DEF s, g
  <2>3. Below(g, K3, "first") /\ Copies(g.pos) /\ SrcRight(g, flash, s) /\ g.req_out.cnt = g.pos.off
    BY <1>3, <2>2, DataAlike DEF Below, Out, pos
  <2>4. WorkData(lut, g, flash, s)
    BY <1>2, <2>2, <2>3, EarlyMarksKept DEF CopyData1
  <2> QED BY <1>1, <2>2, <2>4, FnStep DEF g, s, pos, Early
<1> QED BY <1>5, <1>6

-----------------------------------------------------------------------------
(* The end of a write.                                                     *)

\* What is done to the destination of a write is done to no other block of the table,
\* and to none of a zone that has not been scanned.
LEMMA OtherBlocks ==
  ASSUME IInv, DataInv(lut, fsd, flash, store), Fresh(lut, pos),
         ZoneOf(pos.logical) \in lut.valid_zones, NEW fl,
         \A b \in Phy : b # pos.dst =>
           \/ fl[b] = flash[b]
           \/ fl[b].pages = flash[b].pages /\ b \div PhyPerZone \in lut.valid_zones
  PROVE  /\ Unscanned(lut, fl, store)
         /\ \A m \in Log : ZoneOf(m) \in lut.valid_zones =>
              m = pos.logical \/ Holds(lut, fl, store, m)
<1>1. /\ pos.dst \in ZonePhy(ZoneOf(pos.logical)) /\ pos.dst # INVALID /\ pos.logical \in Log
      /\ lut.block_table[pos.logical] = pos.src
      /\ pos.dst # pos.src => Unmapped(lut, pos.dst)
  BY FtlAssumption DEF Fresh, ZonePhy
<1>2. ASSUME NEW z \in Zones \ lut.valid_zones
      PROVE  Pristine(fl, store, z)
  <2>1. ASSUME NEW b \in ZonePhy(z) PROVE fl[b] = flash[b]
    <3>1. z # ZoneOf(pos.logical) /\ z \notin lut.valid_zones
      OBVIOUS
    <3>2. b \in Phy /\ b \div PhyPerZone = z /\ b # pos.dst
      BY <1>1, <3>1 DEF ZonePhy
    <3>3. b \div PhyPerZone \notin lut.valid_zones
      BY <3>1, <3>2
    <3> QED BY <3>2, <3>3
  <2>2. Pristine(flash, store, z)
    BY DEF DataInv, Unscanned
  <2> QED BY <2>1, <2>2 DEF Pristine, Labelled, Cell
<1>3. ASSUME NEW m \in Log, ZoneOf(m) \in lut.valid_zones, m # pos.logical
      PROVE  Holds(lut, fl, store, m)
  <2>1. Holds(lut, flash, store, m)
    BY <1>3 DEF DataInv, Kept, pos
  <2>2. Apart(lut) /\ lut.block_table[m] \in Phy \cup {INVALID}
    BY Basics DEF IsLut
  <2>3. lut.block_table[m] # pos.dst
    <3>1. CASE pos.dst # pos.src
      BY <1>1, <3>1 DEF Unmapped
    <3>2. CASE pos.dst = pos.src
      BY <1>1, <1>3, <2>2, <3>2 DEF Apart
    <3> QED BY <3>1, <3>2
  <2>4. lut.block_table[m] # INVALID =>
          \A c \in Pages : Cell(fl, lut.block_table[m], c) = Cell(flash, lut.block_table[m], c)
    BY <2>2, <2>3 DEF Cell
  <2> QED BY <2>1, <2>4 DEF Holds
<1> QED BY <1>2, <1>3 DEF Unscanned

LEMMA VersionRead ==
  ASSUME NEW n \in Nat
  PROVE  Reads(n) = n
BY DEF Reads, Fill

LEMMA AdvanceData ==
  ASSUME IInv, DataInv(lut, fsd, flash, store), Works(fsd), WorkRight(lut, fsd, flash), Good,
         Fresh(lut, pos), fsd.req_in.ver \in Nat,
         NEW f, IsFsd(f), f.pos = pos, f.req_fn \in {<<>>, <<"erase_src">>},
         f.req_fn = <<"erase_src">> => Copies(pos), ~ Suspended(f), f.at \in {"idle", "get"},
         Advance(f),
         \A b \in Phy : b # pos.dst => flash'[b] = flash[b],
         FirstDone(fsd, flash', store[pos.logical]), LastDone(fsd, flash', store[pos.logical]),
         DataDone(fsd, flash')
  PROVE  DataInv(lut', fsd', flash', store')
<1> DEFINE l == pos.logical
           s == store[l]
           v == fsd.req_in.ver
<1>1. /\ l \in Log /\ pos.dst \in Phy /\ pos.dst # INVALID /\ pos \in PosType
      /\ ZoneOf(l) \in lut.valid_zones /\ lut.free[pos.dst] = "no"
      /\ lut.block_table[l] = pos.src
  BY Basics, FtlAssumption DEF Fresh, ZonePhy, Writing, WorkRight, pos
<1>2. /\ lut' = Advanced(lut) /\ IsLut(lut')
      /\ \A m \in Log : lut'.block_table[m] = IF m = l THEN pos.dst ELSE lut.block_table[m]
  BY <1>1, Basics, AdvancedLut DEF Advance
<1>3. lut'.valid_zones = lut.valid_zones
  BY <1>1, <1>2, Basics, AdvancedMarks DEF WorkRight, pos
<1> DEFINE new == [p \in Pages |-> IF p \in pos.off .. After - 1 THEN v ELSE s[p]]
<1>4. store' = [store EXCEPT ![l] = new]
  BY DEF Advance
<1>5. /\ store = [m \in Log |-> store[m]]
      /\ \A m \in Log : store[m] = [c \in Pages |-> store[m][c]]
  BY DEF DataInv, Stored
<1>6. new = [c \in Pages |-> new[c]]
  OBVIOUS
<1>7. \A c \in Pages : new[c] = Cell(flash', pos.dst, c)
  <2> SUFFICES ASSUME NEW c \in Pages PROVE new[c] = Cell(flash', pos.dst, c)
    OBVIOUS
  <2>1. c \in Nat /\ pos.off \in Nat /\ After \in Nat /\ After = AfterOf(pos)
    BY <1>1, PageParts DEF After, AfterOf
  <2>2. CASE c \in Amid(pos)
    <3>1. new[c] = v
      BY <2>1, <2>2 DEF Amid
    <3>2. flash'[pos.dst].pages[c] = v
      BY <2>2 DEF DataDone, pos
    <3> QED BY <3>1, <3>2, VersionRead DEF Cell
  <2>3. CASE c \notin Amid(pos)
    <3>1. new[c] = s[c]
      BY <2>1, <2>3 DEF Amid
    <3>2. c \in Before(pos) \/ c \in Behind(pos)
      BY <1>1, <2>3, PageParts
    <3> QED BY <3>1, <3>2 DEF FirstDone, LastDone, Right, pos
  <2> QED BY <2>2, <2>3
<1> HIDE DEF new, l, s, v
<1>8. /\ store' = [m \in Log |-> store'[m]]
      /\ \A m \in Log : store'[m] = IF m = l THEN new ELSE store[m]
  BY <1>1, <1>4, <1>5 DEF l
<1>9. Stored(store')
  BY <1>5, <1>6, <1>8 DEF Stored
<1>10. /\ Unscanned(lut, flash', store)
       /\ \A m \in Log : ZoneOf(m) \in lut.valid_zones => m = l \/ Holds(lut, flash', store, m)
  BY <1>1, OtherBlocks DEF l
<1>11. ASSUME NEW m \in Log, ZoneOf(m) \in lut'.valid_zones
       PROVE  Holds(lut', flash', store', m)
  <2>1. CASE m = l
    BY <1>1, <1>2, <1>7, <1>8, <2>1 DEF Holds
  <2>2. CASE m # l
    BY <1>2, <1>3, <1>8, <1>10, <1>11, <2>2 DEF Holds
  <2> QED BY <2>1, <2>2
<1>12. Unscanned(lut', flash', store')
  <2> SUFFICES ASSUME NEW z \in Zones \ lut.valid_zones
               PROVE  Pristine(flash', store', z)
    BY <1>3 DEF Unscanned
  <2>1. Pristine(flash', store, z)
    BY <1>10 DEF Unscanned
  <2>2. \A m \in ZoneLog(z) : store'[m] = store[m]
    BY <1>1, <1>8 DEF ZoneLog, l
  <2> QED BY <2>1, <2>2 DEF Pristine
<1> DEFINE n == f.t_count + pos.len
<1>13. fsd' = [f EXCEPT !.t_count = n]
  BY DEF Advance
<1> HIDE DEF n
<1>14. /\ fsd'.pos = pos /\ fsd'.req_fn = f.req_fn /\ fsd'.at = f.at /\ ~ Suspended(fsd')
  BY <1>13 DEF IsFsd, Suspended
<1>15. /\ ~ Works(fsd') /\ ~ LooksUp(fsd') /\ ~ Resolves(fsd') /\ ReadRight(lut', fsd')
       /\ Erasing(fsd') => Copies(pos)
  <2>1. ~ Body(f.req_fn) /\ ~ Copying(f.req_fn)
    BY StackKinds DEF Commits
  <2>2. /\ f.req_fn # <<"lookup_block">> /\ f.req_fn # <<"resolve">>
        /\ f.req_fn # <<"read_data">> /\ f.req_fn # <<"fill_data">>
    BY SingleTop
  <2> QED BY <1>14, <2>1, <2>2 DEF Works, LooksUp, Resolves, Erasing, Committing, ReadRight,
             ReadsData, FillsData, Out
<1>16. Copies(pos) => pos.src \div PhyPerZone \in lut'.valid_zones
  BY <1>1, <1>3, Basics, FtlAssumption DEF Copies, Apart, ZonePhy
<1> QED BY <1>9, <1>11, <1>12, <1>14, <1>15, <1>16, RestStep

\* The pages behind have never been written, neither here nor in the buffer.
LEMMA NothingBehind ==
  ASSUME NEW t, NEW f, NEW fl, NEW s, WorkData(t, f, fl, s), NoneAfter(t, f), High(fl, f.pos),
         f.pos \in PosType
  PROVE  LastDone(f, fl, s)
<1>1. NothingIn(Pages \ t.b_map[KeyOf(f.pos)], s)
  BY DEF WorkData, NoneAfter
<1> SUFFICES ASSUME NEW c \in Behind(f.pos)
             PROVE  s[c] = Cell(fl, f.pos.dst, c)
  BY DEF LastDone, Right
<1>2. c \in Pages /\ c \in Nat /\ AfterOf(f.pos) \in Nat /\ c >= AfterOf(f.pos)
  BY PageParts DEF Behind
<1>3. c \notin t.b_map[KeyOf(f.pos)]
  BY <1>2 DEF NoneAfter, Above
<1>4. s[c] = Erased
  BY <1>1, <1>2, <1>3 DEF NothingIn
<1>5. fl[f.pos.dst].pages[c] \in Low
  BY <1>2 DEF High
<1> QED BY <1>4, <1>5 DEF Cell, Reads, Low

LEMMA MergeFnData ==
  ASSUME IInv, Stacked(fsd'), Waiting(fsd'), DataInv(lut, fsd, flash, store), MergeData
  PROVE  DataInv(lut', fsd', flash', store')
<1> DEFINE s == store[pos.logical]
           g == fsd'
<1>0. IsFsd(Popped) /\ SameWork(Popped, Popped)
  BY Basics, PoppedFields DEF SameWork
<1>1. Calls("merge_data") /\ Submit(Popped, "WRITE", pos.dst, pos.off, pos.len, "merge")
  BY DEF MergeData
<1>2. /\ ~ Suspended(fsd) /\ WorkData(lut, fsd, flash, s)
      /\ fsd.at # "out" /\ fsd.req_fn # <<>> /\ Head(fsd.req_fn) = "merge_data"
  BY <1>1, DataHere DEF Commits
<1>3. fsd.req_fn = M1 /\ FirstDone(fsd, flash, s) /\ LastDone(fsd, flash, s)
  BY <1>2, DataTop
<1>4. /\ g.pos = fsd.pos /\ g.req_fn = <<>> /\ g.req_in = fsd.req_in
      /\ g.at = "out" /\ g.req_out.end = "merge"
      /\ lut' = lut /\ flash' = flash /\ store' = store
  <2>1. Tail(fsd.req_fn) = <<>>
    BY <1>3, DataStacks
  <2> QED BY <1>0, <1>1, <2>1, SubmitData DEF pos
<1> HIDE DEF s, g
<1>5. Below(g, <<>>, "merge") /\ FirstDone(g, flash, s) /\ LastDone(g, flash, s)
  BY <1>3, <1>4, DataAlike DEF Below, Out
<1>6. WorkData(lut, g, flash, s)
  BY <1>2, <1>4, <1>5, EarlyMarksKept DEF MergeData1
<1> QED BY <1>1, <1>4, <1>6, FnStep DEF g, s, pos, Commits

\* The pages behind are not written: it is done.
LEMMA LastSkipData ==
  ASSUME IInv, Good, MarkInv(lut, fsd, flash), DataInv(lut, fsd, flash, store),
         fsd.req_in.ver \in Nat, NEW fn \in {"write_last", "copy_last"}, Calls(fn),
         After = PageCnt \/ LastNew(MapKey), Advance(Popped), flash' = flash
  PROVE  DataInv(lut', fsd', flash', store')
<1> DEFINE s == store[pos.logical]
           f == Popped
<1>1. /\ IsFsd(Popped) /\ Popped.pos = pos /\ Popped.req_fn = Tail(fsd.req_fn)
      /\ Suspended(Popped) <=> Suspended(fsd)
      /\ Popped.at = fsd.at /\ pos \in PosType
  BY Basics, PoppedFields DEF Suspended
<1>2. /\ Works(fsd) /\ ~ Suspended(fsd) /\ WorkData(lut, fsd, flash, s)
      /\ fsd.at = "get" /\ fsd.req_fn # <<>> /\ Head(fsd.req_fn) = fn
  BY DataHere DEF Commits
<1>3. /\ WorkRight(lut, fsd, flash) /\ Fresh(lut, pos) /\ High(flash, pos)
      /\ Tail(fsd.req_fn) \in {<<>>, <<"erase_src">>}
      /\ Tail(fsd.req_fn) = <<"erase_src">> => Copies(pos)
  BY CommitTop DEF Commits
<1>4. FirstDone(fsd, flash, s) /\ DataDone(fsd, flash)
  BY <1>2, DataTop
<1>5. LastDone(fsd, flash, s)
  <2>1. CASE After = PageCnt
    <3>1. Behind(pos) = {}
      BY <1>1, <2>1, PageParts DEF After, AfterOf
    <3> QED BY <3>1 DEF LastDone, Right, pos
  <2>2. CASE LastNew(MapKey)
    <3>1. NoneAfter(lut, fsd)
      BY <2>2, NewMarks DEF NoneAfter, Above, pos
    <3> QED BY <1>1, <1>2, <1>3, <3>1, NothingBehind DEF pos
  <2> QED BY <2>1, <2>2
<1>6. /\ IsFsd(f) /\ f.pos = pos /\ f.req_fn \in {<<>>, <<"erase_src">>} /\ ~ Suspended(f)
      /\ f.req_fn = <<"erase_src">> => Copies(pos)
      /\ f.at \in {"idle", "get"} /\ Advance(f)
  BY <1>1, <1>2, <1>3
<1>7. /\ FirstDone(fsd, flash', store[pos.logical]) /\ LastDone(fsd, flash', store[pos.logical])
      /\ DataDone(fsd, flash') /\ \A b \in Phy : b # pos.dst => flash'[b] = flash[b]
  BY <1>4, <1>5
<1> HIDE DEF f, s
<1> QED BY <1>2, <1>3, <1>6, <1>7, AdvanceData

\* They are.
LEMMA LastSubmitData ==
  ASSUME IInv, Good, Stacked(fsd'), Waiting(fsd'), DataInv(lut, fsd, flash, store),
         NEW fn \in {"write_last", "copy_last"}, Calls(fn), ~ LastNew(MapKey), NEW cmd,
         cmd = IF fn = "write_last" THEN "WRITE" ELSE "COPY",
         Submit(Popped, cmd, pos.dst, After, PageCnt - After, "last")
  PROVE  DataInv(lut', fsd', flash', store')
<1> DEFINE s == store[pos.logical]
           g == fsd'
<1>0. IsFsd(Popped) /\ SameWork(Popped, Popped) /\ Popped.block_buf = fsd.block_buf
  BY Basics, PoppedFields, PoppedBuf DEF SameWork
<1>1. /\ ~ Suspended(fsd) /\ WorkData(lut, fsd, flash, s)
      /\ fsd.at # "out" /\ fsd.req_fn # <<>> /\ Head(fsd.req_fn) = fn
  BY DataHere DEF Commits
<1>2. /\ FirstDone(fsd, flash, s) /\ DataDone(fsd, flash)
      /\ fn = "write_last" => fsd.req_fn = W1 /\ BufLast(lut, fsd, s)
      /\ fn = "copy_last"  => fsd.req_fn = K2 /\ Copies(fsd.pos) /\ SrcRight(fsd, flash, s)
  BY <1>1, DataTop
<1>3. /\ g.pos = fsd.pos /\ g.req_fn = Tail(fsd.req_fn) /\ g.req_in = fsd.req_in
      /\ g.at = "out" /\ g.req_out.end = "last" /\ g.req_out.cmd = cmd
  BY <1>0, SubmitData DEF pos
<1>4. /\ g.block_buf = fsd.block_buf /\ lut' = lut /\ flash' = flash /\ store' = store
  BY <1>0, SubmitData
<1> HIDE DEF s, g
<1>5. FirstDone(g, flash, s) /\ DataDone(g, flash)
  BY <1>2, <1>3, DataAlike
<1>6. ASSUME fn = "write_last" PROVE WorkData(lut, g, flash, s)
  <2>1. Buffer(fsd, Behind(fsd.pos), s)
    BY <1>2, <1>6, NewMarks DEF BufLast, NoneAfter, Above, pos
  <2>2. Buffer(g, Behind(g.pos), s)
    BY <1>3, <1>4, <2>1, BufAlike
  <2>3. g.req_fn = <<>>
    BY <1>2, <1>3, <1>6, DataStacks
  <2>4. Below(g, <<>>, "last") /\ g.req_out.cmd = "WRITE"
    BY <1>3, <1>6, <2>3 DEF Below, Out
  <2> QED BY <1>1, <1>3, <1>5, <2>2, <2>4, EarlyMarksKept DEF WriteData1
<1>7. ASSUME fn = "copy_last" PROVE WorkData(lut, g, flash, s)
  <2>1. g.req_fn = K1
    BY <1>2, <1>3, <1>7, DataStacks
  <2>2. Below(g, K1, "last") /\ g.req_out.cmd = "COPY" /\ Copies(g.pos) /\ SrcRight(g, flash, s)
    BY <1>2, <1>3, <1>7, <2>1, DataAlike DEF Below, Out
  <2> QED BY <1>1, <1>3, <1>5, <2>2, EarlyMarksKept DEF CopyData1
<1>8. WorkData(lut, g, flash, s)
  BY <1>6, <1>7
<1> QED BY <1>3, <1>4, <1>8, FnStep DEF g, s, pos, Commits

LEMMA CommitFnData ==
  ASSUME IInv, Good, MarkInv(lut, fsd, flash), Stacked(fsd'), Waiting(fsd'),
         DataInv(lut, fsd, flash, store), fsd.req_in.ver \in Nat, MergeData \/ WriteLast \/ CopyLast
  PROVE  DataInv(lut', fsd', flash', store')
<1>1. CASE MergeData
  BY <1>1, MergeFnData
<1>2. ASSUME NEW fn \in {"write_last", "copy_last"}, NEW cmd,
             cmd = IF fn = "write_last" THEN "WRITE" ELSE "COPY", SubmitLast(fn, cmd)
      PROVE  DataInv(lut', fsd', flash', store')
  <2>1. CASE After = PageCnt \/ LastNew(MapKey)
    BY <1>2, <2>1, LastSkipData DEF SubmitLast
  <2>2. CASE ~ (After = PageCnt \/ LastNew(MapKey))
    BY <1>2, <2>2, LastSubmitData DEF SubmitLast
  <2> QED BY <2>1, <2>2
<1>3. CASE WriteLast
  BY <1>2, <1>3 DEF WriteLast
<1>4. CASE CopyLast
  BY <1>2, <1>4 DEF CopyLast
<1> QED BY <1>1, <1>3, <1>4

-----------------------------------------------------------------------------
(* The ends of the commands.                                               *)

LEMMA ReadTwice ==
  ASSUME NEW v
  PROVE  /\ Reads(Reads(v)) = Reads(v) /\ Reads(Erased) = Erased
         /\ Reads(IF v = Erased THEN Fill ELSE v) = Reads(v)
BY DEF Reads, Fill, Erased

\* What a command of a write does to the data.
LEMMA EarlyEffect ==
  ASSUME IInv, MarkInv(lut, fsd, flash), DataInv(lut, fsd, flash, store), fsd.at = "out",
         out.end \in EarlyEnds, NEW r, Well(r)
  PROVE  /\ Fresh(lut, pos) /\ ~ Suspended(fsd) /\ pos.dst \in Phy /\ pos \in PosType
         /\ WorkData(lut, fsd, flash, store[pos.logical]) /\ fsd.req_in.op = "write"
         /\ Unscanned(lut, flash', store)
         /\ \A m \in Log : ZoneOf(m) \in lut.valid_zones => m = pos.logical \/ Holds(lut, flash', store, m)
         /\ Copies(pos) => \A c \in Pages : Cell(flash', pos.src, c) = Cell(flash, pos.src, c)
         /\ out.end = "erase_dst" => flash'[pos.dst] = Blank
         /\ out.end \in {"read_first", "read_last"} => flash' = flash
         /\ out.end = "select" => \A c \in Pages : flash'[pos.dst].pages[c] = flash[pos.dst].pages[c]
         /\ out.end \in {"first", "write"} =>
              \A c \in Pages : flash'[pos.dst].pages[c] =
                                 IF c \in Cells THEN Data[c] ELSE flash[pos.dst].pages[c]
<1>1. /\ Body(fsd.req_fn) \/ Copying(fsd.req_fn)
      /\ Fresh(lut, pos) /\ fsd.req_out.end \in EarlyEnds
  BY EndsWith DEF out
<1>2. /\ Works(fsd) /\ WorkRight(lut, fsd, flash) /\ OutRight(fsd) /\ ~ Suspended(fsd)
      /\ WorkData(lut, fsd, flash, store[pos.logical]) /\ fsd.req_in.op = "write"
  BY <1>1, WorkKinds, NotWaiting DEF MarkInv, DataInv, pos
<1>3. /\ \A b \in Phy : b # out.blk => flash'[b] = flash[b]
      /\ out.end \in Reading => flash' = flash
      /\ out.end = "select" => \A b \in Phy : flash'[b].pages = flash[b].pages
      /\ out.end \in {"erase_src", "erase_dst"} /\ out.blk \in Phy => flash'[out.blk] = Blank
      /\ out.end \in Writes /\ out.blk \in Phy =>
           \A c \in Pages : flash'[out.blk].pages[c] =
                              IF c \in Cells THEN Data[c] ELSE flash[out.blk].pages[c]
  BY <1>2, EndEffect
<1>4. /\ pos.dst \in Phy /\ pos \in PosType /\ Apart(lut)
      /\ ZoneOf(pos.logical) \in lut.valid_zones
      /\ lut.block_table[pos.logical] = pos.src /\ pos.logical \in Log
  BY <1>1, <1>2, Basics DEF Fresh, ZonePhy, WorkRight, pos
<1>5. /\ out.end \in {"write", "first", "erase_dst"} => out.blk = pos.dst
      /\ out.end = "select" => Copies(pos) /\ out.blk = pos.src
  <2>1. out.end = "select" => Copies(pos) /\ out.blk = pos.src
    BY <1>2, DataEnd DEF out, pos
  <2>2. out.end \in {"write", "first", "erase_dst"} => out.blk = pos.dst
    BY <1>2 DEF OutRight, out, pos, To
  <2> QED BY <2>1, <2>2
<1>6. Copies(pos) => pos.src \in Phy /\ pos.src # pos.dst /\ pos.src \div PhyPerZone \in lut.valid_zones
  BY <1>4, FtlAssumption DEF Copies, Apart, ZonePhy
<1>7. out.end \in {"select", "first", "read_first", "read_last", "write", "erase_dst"}
  BY DEF EarlyEnds
<1>8. ASSUME NEW b \in Phy, b # pos.dst
      PROVE  \/ flash'[b] = flash[b]
             \/ flash'[b].pages = flash[b].pages /\ b \div PhyPerZone \in lut.valid_zones
  <2>1. CASE out.end \in {"write", "first", "erase_dst"}
    BY <1>3, <1>5, <1>8, <2>1
  <2>2. CASE out.end \in {"read_first", "read_last"}
    BY <1>3, <2>2 DEF Reading
  <2>3. CASE out.end = "select"
    BY <1>3, <1>5, <1>6, <2>3
  <2> QED BY <1>7, <2>1, <2>2, <2>3
<1>9. /\ Unscanned(lut, flash', store)
      /\ \A m \in Log : ZoneOf(m) \in lut.valid_zones => m = pos.logical \/ Holds(lut, flash', store, m)
  BY <1>1, <1>4, <1>8, OtherBlocks
<1>10. Copies(pos) => \A c \in Pages : Cell(flash', pos.src, c) = Cell(flash, pos.src, c)
  BY <1>6, <1>8 DEF Cell
<1>11. /\ out.end = "erase_dst" => flash'[pos.dst] = Blank
       /\ out.end \in {"read_first", "read_last"} => flash' = flash
       /\ out.end = "select" => \A c \in Pages : flash'[pos.dst].pages[c] = flash[pos.dst].pages[c]
       /\ out.end \in {"first", "write"} =>
            \A c \in Pages : flash'[pos.dst].pages[c] =
                               IF c \in Cells THEN Data[c] ELSE flash[pos.dst].pages[c]
  <2>1. out.end = "erase_dst" => flash'[pos.dst] = Blank
    BY <1>3, <1>4, <1>5
  <2>2. out.end \in {"read_first", "read_last"} => flash' = flash
    BY <1>3 DEF Reading
  <2>3. out.end = "select" => \A c \in Pages : flash'[pos.dst].pages[c] = flash[pos.dst].pages[c]
    BY <1>3, <1>4
  <2>4. CASE out.end \in {"first", "write"}
    BY <1>3, <1>4, <1>5, <2>4 DEF Writes
  <2> QED BY <2>1, <2>2, <2>3, <2>4
<1> QED BY <1>1, <1>2, <1>4, <1>9, <1>10, <1>11

LEMMA EarlyMarksKeptThere ==
  ASSUME NEW t, NEW f, NEW g, NEW fl, NEW fm, NEW s, WorkData(t, f, fl, s), g.pos = f.pos,
         MergeData1(g, fm, s) \/ WriteData1(t, g, fm, s) \/ CopyData1(g, fm, s)
  PROVE  WorkData(t, g, fm, s)
BY DEF WorkData

LEMMA CellsOf ==
  ASSUME pos \in PosType, OutRight(fsd), fsd.at = "out", AfterOf(pos) <= PageCnt
  PROVE  /\ out.end \in {"merge", "write"} =>
              /\ \A c \in Pages : c \in Cells <=> c \in Amid(pos)
              /\ out.cmd = "WRITE"
         /\ out.end = "read_first" => \A c \in Pages : c \in Cells <=> c \in Before(pos)
         /\ out.end \in {"last", "read_last"} => \A c \in Pages : c \in Cells <=> c \in Behind(pos)
         /\ out.end = "first" => \A c \in Pages : c \in Cells <=> c < out.cnt
         /\ \A c \in Pages : /\ c \in Before(pos) => c \notin Amid(pos) /\ c \notin Behind(pos)
                             /\ c \in Amid(pos) => c \notin Behind(pos)
<1>1. /\ pos.off \in Nat /\ pos.len \in Nat /\ AfterOf(pos) \in Nat /\ AfterOf(pos) >= pos.off
      /\ AfterOf(pos) = pos.off + pos.len /\ \A c \in Pages : c \in Nat /\ c < PageCnt
      /\ PageCnt \in Nat
  BY PageParts, FtlAssumption DEF AfterOf
<1>2. /\ out.end \in {"merge", "write"} => /\ out.from = pos.off /\ out.cnt = pos.len
                                           /\ out.cmd = "WRITE"
      /\ out.end = "read_first" => out.from = 0 /\ out.cnt = pos.off
      /\ out.end \in {"last", "read_last"} =>
           out.from = AfterOf(pos) /\ out.cnt = PageCnt - AfterOf(pos)
      /\ out.end = "first" => out.from = 0 /\ out.cnt \in Nat
  BY DEF OutRight, To, out, pos
<1>3. Cells = out.from .. out.from + out.cnt - 1
  BY DEF Cells
<1>4. \A c \in Pages : /\ c \in Before(pos) <=> c < pos.off
                       /\ c \in Amid(pos) <=> c >= pos.off /\ c < AfterOf(pos)
                       /\ c \in Behind(pos) <=> c >= AfterOf(pos)
  BY DEF Before, Amid, Behind
<1>5. out.end \in {"merge", "write"} => \A c \in Pages : c \in Cells <=> c \in Amid(pos)
  BY <1>1, <1>2, <1>3, <1>4
<1>6. out.end = "read_first" => \A c \in Pages : c \in Cells <=> c \in Before(pos)
  BY <1>1, <1>2, <1>3, <1>4
<1>7. out.end \in {"last", "read_last"} => \A c \in Pages : c \in Cells <=> c \in Behind(pos)
  BY <1>1, <1>2, <1>3, <1>4
<1>8. out.end = "first" => \A c \in Pages : c \in Cells <=> c < out.cnt
  BY <1>1, <1>2, <1>3
<1>9. \A c \in Pages : /\ c \in Before(pos) => c \notin Amid(pos) /\ c \notin Behind(pos)
                       /\ c \in Amid(pos) => c \notin Behind(pos)
  BY <1>1, <1>4
<1> QED BY <1>2, <1>5, <1>6, <1>7, <1>8, <1>9

LEMMA EarlyEndData ==
  ASSUME IInv, MarkInv(lut, fsd, flash), DataInv(lut, fsd, flash, store), fsd.at = "out",
         out.end \in EarlyEnds, NEW r, Well(r), fsd.req_in.ver \in Nat,
         NEW g, g.pos = pos, g.req_fn = fsd.req_fn, g.req_in = fsd.req_in, g.at = "idle",
         Stacked(g), Waiting(g),
         g.block_buf = IF out.end \in {"read_first", "read_last"}
                       THEN [c \in Pages |-> IF c \in Cells THEN Reads(flash[pos.src].pages[c])
                                             ELSE fsd.block_buf[c]]
                       ELSE fsd.block_buf
  PROVE  DataInv(lut, g, flash', store)
<1> DEFINE s == store[pos.logical]
           end == out.end
<1>1. /\ Fresh(lut, pos) /\ ~ Suspended(fsd) /\ pos.dst \in Phy /\ pos \in PosType
      /\ WorkData(lut, fsd, flash, s) /\ fsd.req_in.op = "write"
      /\ Unscanned(lut, flash', store)
      /\ \A m \in Log : ZoneOf(m) \in lut.valid_zones => m = pos.logical \/ Holds(lut, flash', store, m)
      /\ Copies(pos) => \A c \in Pages : Cell(flash', pos.src, c) = Cell(flash, pos.src, c)
      /\ end = "erase_dst" => flash'[pos.dst] = Blank
      /\ end \in {"read_first", "read_last"} => flash' = flash
      /\ end = "select" => \A c \in Pages : flash'[pos.dst].pages[c] = flash[pos.dst].pages[c]
      /\ end \in {"first", "write"} =>
           \A c \in Pages : flash'[pos.dst].pages[c] =
                              IF c \in Cells THEN Data[c] ELSE flash[pos.dst].pages[c]
  BY EarlyEffect
<1>2. /\ OutRight(fsd) /\ AfterOf(pos) <= PageCnt
  <2>1. Works(fsd)
    BY EndsWith, WorkKinds DEF out
  <2> QED BY <2>1 DEF MarkInv, WorkRight, pos
<1>3. /\ end = "write" => /\ \A c \in Pages : c \in Cells <=> c \in Amid(pos)
                          /\ out.cmd = "WRITE"
      /\ end = "read_first" => \A c \in Pages : c \in Cells <=> c \in Before(pos)
      /\ end = "read_last" => \A c \in Pages : c \in Cells <=> c \in Behind(pos)
      /\ end = "first" => \A c \in Pages : c \in Cells <=> c < out.cnt
      /\ \A c \in Pages : /\ c \in Before(pos) => c \notin Amid(pos) /\ c \notin Behind(pos)
                          /\ c \in Amid(pos) => c \notin Behind(pos)
  BY <1>1, <1>2, CellsOf
<1>4. Before(pos) \subseteq Pages /\ Amid(pos) \subseteq Pages /\ Behind(pos) \subseteq Pages
  BY <1>1, PageParts
<1>5. end \notin {"read_first", "read_last"} => g.block_buf = fsd.block_buf
  OBVIOUS
<1>6. g.pos = fsd.pos /\ g.at # "out"
  BY DEF pos
<1>7. \A fm : SrcRight(fsd, flash, s) /\ Copies(pos) => SrcRight(g, flash', s)
  BY <1>1, <1>6 DEF SrcRight, Right, pos
<1>8. end = out.end /\ end = fsd.req_out.end
  BY DEF out
<1> HIDE DEF s, end
<1>9. ASSUME end = "erase_dst" PROVE WorkData(lut, g, flash', s)
  <2>1. Blanked(g, flash')
    BY <1>1, <1>9 DEF Blanked, Blank
  <2>2. CASE fsd.req_fn = M1 /\ WholeBlock(fsd.pos)
    <3>1. Now(g, M1) /\ FirstDone(g, flash', s) /\ LastDone(g, flash', s)
      BY <1>6, <2>2 DEF Now, FirstDone, LastDone, WholeBlock, Right
    <3> QED BY <1>1, <1>6, <3>1, EarlyMarksKeptThere DEF MergeData1
  <2>3. CASE fsd.req_fn = W3 /\ BufFirst(lut, fsd, s) /\ BufLast(lut, fsd, s)
    <3>1. Now(g, W3) /\ BufFirst(lut, g, s) /\ BufLast(lut, g, s)
      BY <1>5, <1>6, <1>9, <2>3, BufAlike DEF Now
    <3> QED BY <1>1, <1>6, <2>1, <3>1, EarlyMarksKeptThere DEF WriteData1
  <2>4. CASE fsd.req_fn = K5 /\ Copies(fsd.pos) /\ SrcRight(fsd, flash, s)
    <3>1. Now(g, K5) /\ Copies(g.pos) /\ SrcRight(g, flash', s)
      BY <1>6, <1>7, <2>4 DEF Now, pos
    <3> QED BY <1>1, <1>6, <2>1, <3>1, EarlyMarksKeptThere DEF CopyData1
  <2> QED BY <1>1, <1>8, <1>9, <2>2, <2>3, <2>4, DataEnd
<1>10. ASSUME end = "read_first" PROVE WorkData(lut, g, flash', s)
  <2>1. fsd.req_fn = W5 /\ SrcRight(fsd, flash, s)
    BY <1>1, <1>8, <1>10, DataEnd
  <2>2. flash' = flash /\ SrcRight(g, flash', s)
    BY <1>1, <1>6, <1>10, <2>1 DEF SrcRight
  <2>3. Buffer(g, Before(g.pos), s)
    <3> SUFFICES ASSUME NEW c \in Before(pos)
                 PROVE  s[c] = Reads(g.block_buf[c])
      BY DEF Buffer
    <3>1. c \in Pages /\ c \in Cells
      BY <1>3, <1>4, <1>10
    <3>2. g.block_buf[c] = Reads(flash[pos.src].pages[c])
      BY <1>8, <1>10, <3>1
    <3>3. s[c] = Reads(flash[pos.src].pages[c])
      BY <2>1, <3>1 DEF SrcRight, Right, Cell, pos
    <3> QED BY <3>2, <3>3, ReadTwice
  <2>4. Now(g, W5) /\ BufFirst(lut, g, s)
    BY <1>6, <2>1, <2>3 DEF Now, BufFirst
  <2> QED BY <1>1, <1>6, <2>2, <2>4, EarlyMarksKeptThere DEF WriteData1
<1>11. ASSUME end = "read_last" PROVE WorkData(lut, g, flash', s)
  <2>1. fsd.req_fn = W4 /\ SrcRight(fsd, flash, s) /\ BufFirst(lut, fsd, s)
    BY <1>1, <1>8, <1>11, DataEnd
  <2>2. Buffer(g, Behind(g.pos), s)
    <3> SUFFICES ASSUME NEW c \in Behind(pos)
                 PROVE  s[c] = Reads(g.block_buf[c])
      BY DEF Buffer
    <3>1. c \in Pages /\ c \in Cells
      BY <1>3, <1>4, <1>11
    <3>2. g.block_buf[c] = Reads(flash[pos.src].pages[c])
      BY <1>8, <1>11, <3>1
    <3>3. s[c] = Reads(flash[pos.src].pages[c])
      BY <2>1, <3>1 DEF SrcRight, Right, Cell, pos
    <3> QED BY <3>2, <3>3, ReadTwice
  <2>3. \A c \in Before(pos) : g.block_buf[c] = fsd.block_buf[c]
    BY <1>3, <1>4, <1>8, <1>11
  <2>4. BufFirst(lut, g, s)
    <3>1. NoMarks(lut, g) <=> NoMarks(lut, fsd)
      BY <1>6, DataAlike
    <3> QED BY <1>6, <2>1, <2>3, <3>1 DEF BufFirst, Buffer
  <2>5. Now(g, W4) /\ BufLast(lut, g, s)
    BY <1>6, <2>1, <2>2 DEF Now, BufLast
  <2> QED BY <1>1, <1>6, <2>4, <2>5, EarlyMarksKeptThere DEF WriteData1
<1>12. ASSUME end = "select" PROVE WorkData(lut, g, flash', s)
  <2>1. fsd.req_fn = K4 /\ Copies(fsd.pos) /\ SrcRight(fsd, flash, s) /\ Blanked(fsd, flash)
    BY <1>1, <1>8, <1>12, DataEnd
  <2>2. Now(g, K4) /\ Copies(g.pos) /\ SrcRight(g, flash', s) /\ Blanked(g, flash')
    BY <1>1, <1>6, <1>7, <1>12, <2>1 DEF Now, Blanked, pos
  <2> QED BY <1>1, <1>6, <2>2, EarlyMarksKeptThere DEF CopyData1
<1>13. ASSUME end = "first" PROVE WorkData(lut, g, flash', s)
  <2>0. \A c \in Pages : flash'[pos.dst].pages[c] =
                           IF c < out.cnt THEN Data[c] ELSE flash[pos.dst].pages[c]
    BY <1>1, <1>3, <1>13
  <2>1. CASE /\ fsd.req_fn = W2 /\ fsd.req_out.cmd = "WRITE"
             /\ FirstComes(fsd, s) /\ BufLast(lut, fsd, s) /\ Blanked(fsd, flash)
    <3>1. Data = fsd.block_buf
      BY <1>8, <1>13, <2>1 DEF Data, out
    <3>2. FirstDone(g, flash', s)
      <4> SUFFICES ASSUME NEW c \in Before(pos)
                   PROVE  s[c] = Reads(flash'[pos.dst].pages[c])
        BY DEF FirstDone, Right, Cell
      <4>1. c \in Pages
        BY <1>4
      <4>2. s[c] = IF c < out.cnt THEN Reads(fsd.block_buf[c]) ELSE Erased
        BY <2>1 DEF FirstComes, pos, out
      <4>3. flash[pos.dst].pages[c] = Erased
        BY <2>1, <4>1 DEF Blanked, pos
      <4> QED BY <2>0, <3>1, <4>1, <4>2, <4>3, ReadTwice
    <3>3. Now(g, W2) /\ BufLast(lut, g, s)
      BY <1>5, <1>6, <1>13, <2>1, BufAlike DEF Now
    <3> QED BY <1>1, <1>6, <3>2, <3>3, EarlyMarksKeptThere DEF WriteData1
  <2>2. CASE /\ fsd.req_fn = K3 /\ fsd.req_out.cmd = "COPY" /\ fsd.req_out.cnt = fsd.pos.off
             /\ Copies(fsd.pos) /\ SrcRight(fsd, flash, s)
    <3>1. \A c \in Pages : Data[c] = IF flash[pos.src].pages[c] = Erased THEN Fill
                                     ELSE flash[pos.src].pages[c]
      BY <1>8, <1>13, <2>2 DEF Data, out
    <3>2. FirstDone(g, flash', s)
      <4> SUFFICES ASSUME NEW c \in Before(pos)
                   PROVE  s[c] = Reads(flash'[pos.dst].pages[c])
        BY DEF FirstDone, Right, Cell
      <4>1. c \in Pages /\ c < out.cnt
        BY <1>4, <2>2 DEF Before, out, pos
      <4>2. s[c] = Reads(flash[pos.src].pages[c])
        BY <2>2, <4>1 DEF SrcRight, Right, Cell, pos
      <4>3. Reads(Data[c]) = Reads(flash[pos.src].pages[c])
        BY <3>1, <4>1, ReadTwice
      <4> QED BY <2>0, <4>1, <4>2, <4>3
    <3>3. Now(g, K3) /\ Copies(g.pos) /\ SrcRight(g, flash', s)
      BY <1>6, <1>7, <2>2 DEF Now, pos
    <3> QED BY <1>1, <1>6, <3>2, <3>3, EarlyMarksKeptThere DEF CopyData1
  <2> QED BY <1>1, <1>8, <1>13, <2>1, <2>2, DataEnd
<1>14. ASSUME end = "write" PROVE WorkData(lut, g, flash', s)
  <2>1. \A c \in Pages : flash'[pos.dst].pages[c] =
                           IF c \in Amid(pos) THEN Data[c] ELSE flash[pos.dst].pages[c]
    BY <1>1, <1>3, <1>14
  <2>2. \A c \in Pages : Data[c] = fsd.req_in.ver
    BY <1>3, <1>8, <1>14 DEF Data
  <2>3. DataDone(g, flash')
    BY <1>4, <2>1, <2>2 DEF DataDone
  <2>4. FirstDone(fsd, flash, s) => FirstDone(g, flash', s)
    BY <1>3, <1>4, <2>1 DEF FirstDone, Right, Cell, pos
  <2>5. CASE fsd.req_fn = W1 /\ FirstDone(fsd, flash, s) /\ BufLast(lut, fsd, s)
    <3>1. Now(g, W1) /\ BufLast(lut, g, s)
      BY <1>5, <1>6, <1>14, <2>5, BufAlike DEF Now
    <3> QED BY <1>1, <1>6, <2>3, <2>4, <2>5, <3>1, EarlyMarksKeptThere DEF WriteData1
  <2>6. CASE fsd.req_fn = K2 /\ FirstDone(fsd, flash, s) /\ Copies(fsd.pos) /\ SrcRight(fsd, flash, s)
    <3>1. Now(g, K2) /\ Copies(g.pos) /\ SrcRight(g, flash', s)
      BY <1>6, <1>7, <2>6 DEF Now, pos
    <3> QED BY <1>1, <1>6, <2>3, <2>4, <2>6, <3>1, EarlyMarksKeptThere DEF CopyData1
  <2> QED BY <1>1, <1>8, <1>14, <2>5, <2>6, DataEnd
<1>15. WorkData(lut, g, flash', s)
  BY <1>8, <1>9, <1>10, <1>11, <1>12, <1>13, <1>14 DEF EarlyEnds
<1>16. Stored(store) /\ WorkData(lut, g, flash', store[g.pos.logical])
  BY <1>15 DEF DataInv, s
<1>17. \A m \in Log : ZoneOf(m) \in lut.valid_zones => m = g.pos.logical \/ Holds(lut, flash', store, m)
  BY <1>1
<1> QED BY <1>1, <1>16, <1>17, WorkStep

LEMMA VersionKnown ==
  ASSUME IInv, NEW g, Asked(client, g)
  PROVE  fsd.req_in.ver \in Nat
BY Basics DEF Asked, NoReq

LEMMA EarlyEndsData ==
  ASSUME IInv, Counted, Good', Stacked(fsd'), Waiting(fsd'),
         Good => /\ MarkInv(lut, fsd, flash) /\ DataInv(lut, fsd, flash, store)
                 /\ fsd.req_in.ver \in Nat,
         EndEraseDst \/ EndSelectSrc \/ EndWriteData \/ EndCopyFirst \/ EndReadRest
  PROVE  DataInv(lut', fsd', flash', store')
<1> DEFINE buf == [p \in Pages |-> IF p \in Cells THEN Reads(flash[pos.src].pages[p])
                                   ELSE fsd.block_buf[p]]
           yes == TRUE
           no == FALSE
<1>1. fsd.at = "out" /\ out.end \in EarlyEnds
  BY DEF EndEraseDst, EndSelectSrc, EndWriteData, EndCopyFirst, EndReadRest, EndOf, out, EarlyEnds
<1>2. /\ out.end \in {"read_first", "read_last"} <=> EndReadRest
      /\ EndReadRest => ~ (EndEraseDst \/ EndSelectSrc \/ EndWriteData \/ EndCopyFirst)
  BY DEF EndEraseDst, EndSelectSrc, EndWriteData, EndCopyFirst, EndReadRest, EndOf
<1>3. PICK r \in Results :
        /\ Ended(r)
        /\ r.error = "no" =>
             /\ lut' = lut /\ store' = store
             /\ IF EndReadRest THEN fsd' = [[fsd EXCEPT !.block_buf = buf] EXCEPT !.at = "idle"]
                ELSE \/ fsd' = [fsd EXCEPT !.at = "idle"]
                     \/ \E c \in {yes, no} : fsd' = [[fsd EXCEPT !.clean_dst = c] EXCEPT !.at = "idle"]
  <2>1. CASE EndEraseDst
    BY <1>2, <2>1 DEF EndEraseDst, Idles, Keeps
  <2>2. CASE EndSelectSrc
    BY <1>2, <2>2 DEF EndSelectSrc, Nothing, Idles, Keeps
  <2>3. CASE EndWriteData
    BY <1>2, <2>3 DEF EndWriteData, Idles, Keeps
  <2>4. CASE EndCopyFirst
    BY <1>2, <2>4 DEF EndCopyFirst, Idles, Keeps
  <2>5. CASE EndReadRest
    BY <1>2, <2>5 DEF EndReadRest, Idles, Keeps
  <2> QED BY <2>1, <2>2, <2>3, <2>4, <2>5
<1>4. /\ Good /\ Well(r) /\ MarkInv(lut, fsd, flash) /\ r.error = "no"
      /\ DataInv(lut, fsd, flash, store) /\ fsd.req_in.ver \in Nat
  BY <1>1, <1>3, GoodEnd DEF Well
<1> HIDE DEF buf, yes, no
<1>5. /\ fsd'.pos = pos /\ fsd'.req_fn = fsd.req_fn /\ fsd'.at = "idle"
      /\ fsd'.req_in = fsd.req_in
      /\ fsd'.block_buf = IF EndReadRest THEN buf ELSE fsd.block_buf
  <2>1. CASE EndReadRest
    BY <1>3, <1>4, <2>1, Basics DEF IsFsd, pos
  <2>2. CASE fsd' = [fsd EXCEPT !.at = "idle"] /\ ~ EndReadRest
    BY <2>2, Basics DEF IsFsd, pos
  <2>3. ASSUME NEW c \in {yes, no}, ~ EndReadRest,
               fsd' = [[fsd EXCEPT !.clean_dst = c] EXCEPT !.at = "idle"]
        PROVE  /\ fsd'.pos = pos /\ fsd'.req_fn = fsd.req_fn /\ fsd'.at = "idle"
               /\ fsd'.req_in = fsd.req_in /\ fsd'.block_buf = fsd.block_buf
    BY <2>3, Basics DEF IsFsd, pos
  <2> QED BY <1>3, <1>4, <2>1, <2>2, <2>3
<1>6. fsd'.block_buf = IF out.end \in {"read_first", "read_last"} THEN buf ELSE fsd.block_buf
  BY <1>2, <1>5
<1>7. DataInv(lut, fsd', flash', store)
  BY <1>1, <1>4, <1>5, <1>6, EarlyEndData DEF buf
<1> QED BY <1>3, <1>4, <1>7

LEMMA CommitEndData ==
  ASSUME IInv, Counted, Good',
         Good => /\ MarkInv(lut, fsd, flash) /\ DataInv(lut, fsd, flash, store)
                 /\ fsd.req_in.ver \in Nat,
         EndMergeData \/ EndCopyLast
  PROVE  DataInv(lut', fsd', flash', store')
<1> DEFINE no == FALSE
           f == [fsd EXCEPT !.at = "idle"]
           g == [fsd EXCEPT !.clean_dst = no, !.at = "idle"]
           s == store[pos.logical]
<1>1. fsd.at = "out" /\ fsd.req_out.end \in CommitEnds /\ out.end \in {"merge", "last"}
  BY DEF EndMergeData, EndCopyLast, EndOf, out, CommitEnds
<1>2. /\ fsd.req_fn \in {<<>>, <<"erase_src">>} /\ Fresh(lut, pos)
      /\ fsd.req_fn = <<"erase_src">> => Copies(pos)
      /\ ~ Suspended(fsd)
  BY <1>1, EndsWith, NotWaiting
<1>3. PICK r \in Results : Ended(r) /\ (r.error = "no" => Advance(f) \/ Advance(g))
  BY DEF EndMergeData, EndCopyLast
<1>4. /\ Good /\ Well(r) /\ MarkInv(lut, fsd, flash) /\ r.error = "no" /\ OutRight(fsd)
      /\ DataInv(lut, fsd, flash, store) /\ fsd.req_in.ver \in Nat
  BY <1>3, GoodEnd DEF Well, MarkInv
<1>5. /\ Works(fsd) /\ WorkRight(lut, fsd, flash) /\ WorkData(lut, fsd, flash, s)
      /\ AfterOf(pos) <= PageCnt
  BY <1>1, <1>4 DEF MarkInv, Works, Committing, DataInv, WorkRight, pos
<1>6. out.blk = pos.dst /\ pos.dst \in Phy /\ pos \in PosType
  <2>1. pos.dst \in Phy /\ pos \in PosType
    BY <1>2, Basics DEF Fresh, ZonePhy
  <2> QED BY <1>1, <1>4, <2>1 DEF OutRight, To, out, pos
<1>7. /\ \A b \in Phy : b # pos.dst => flash'[b] = flash[b]
      /\ \A c \in Pages : flash'[pos.dst].pages[c] =
                            IF c \in Cells THEN Data[c] ELSE flash[pos.dst].pages[c]
  BY <1>1, <1>4, <1>6, EndEffect DEF Writes
<1>8. /\ out.end = "merge" => /\ \A c \in Pages : c \in Cells <=> c \in Amid(pos)
                              /\ out.cmd = "WRITE"
      /\ out.end = "last" => \A c \in Pages : c \in Cells <=> c \in Behind(pos)
      /\ \A c \in Pages : /\ c \in Before(pos) => c \notin Amid(pos) /\ c \notin Behind(pos)
                          /\ c \in Amid(pos) => c \notin Behind(pos)
  BY <1>1, <1>4, <1>5, <1>6, CellsOf
<1>9. Before(pos) \subseteq Pages /\ Amid(pos) \subseteq Pages /\ Behind(pos) \subseteq Pages
  BY <1>6, PageParts
<1> HIDE DEF f, g, s
<1>10. /\ out.end = "merge" => FirstDone(fsd, flash, s) /\ LastDone(fsd, flash, s)
       /\ out.end = "last" =>
            /\ FirstDone(fsd, flash, s) /\ DataDone(fsd, flash)
            /\ \/ out.cmd = "WRITE" /\ Buffer(fsd, Behind(fsd.pos), s)
               \/ out.cmd = "COPY" /\ SrcRight(fsd, flash, s)
  BY <1>1, <1>2, <1>5, DataEnd DEF out
<1>11. FirstDone(fsd, flash', s)
  BY <1>1, <1>7, <1>8, <1>9, <1>10 DEF FirstDone, Right, Cell, pos
<1>12. DataDone(fsd, flash')
  <2>1. CASE out.end = "merge"
    <3>1. \A c \in Pages : Data[c] = fsd.req_in.ver
      BY <1>8, <2>1 DEF Data
    <3> QED BY <1>7, <1>8, <1>9, <2>1, <3>1 DEF DataDone, pos
  <2>2. CASE out.end = "last"
    BY <1>7, <1>8, <1>9, <1>10, <2>2 DEF DataDone, pos
  <2> QED BY <1>1, <2>1, <2>2
<1>13. LastDone(fsd, flash', s)
  <2>1. CASE out.end = "merge"
    BY <1>7, <1>8, <1>9, <1>10, <2>1 DEF LastDone, Right, Cell, pos
  <2>2. CASE out.end = "last"
    <3> SUFFICES ASSUME NEW c \in Behind(pos)
                 PROVE  s[c] = Reads(flash'[pos.dst].pages[c])
      BY DEF LastDone, Right, Cell, pos
    <3>1. c \in Pages /\ flash'[pos.dst].pages[c] = Data[c]
      BY <1>7, <1>8, <1>9, <2>2
    <3>2. CASE out.cmd = "WRITE" /\ Buffer(fsd, Behind(fsd.pos), s)
      <4>1. Data = fsd.block_buf
        BY <2>2, <3>2 DEF Data
      <4> QED BY <3>1, <3>2, <4>1 DEF Buffer, pos
    <3>3. CASE out.cmd = "COPY" /\ SrcRight(fsd, flash, s)
      <4>1. Data[c] = IF flash[pos.src].pages[c] = Erased THEN Fill ELSE flash[pos.src].pages[c]
        BY <2>2, <3>1, <3>3 DEF Data
      <4>2. s[c] = Reads(flash[pos.src].pages[c])
        BY <3>1, <3>3 DEF SrcRight, Right, Cell, pos
      <4> QED BY <3>1, <4>1, <4>2, ReadTwice
    <3> QED BY <1>10, <2>2, <3>2, <3>3
  <2> QED BY <1>1, <2>1, <2>2
<1>14. ASSUME NEW h, IsFsd(h), SameWork(h, fsd), h.at = "idle", Advance(h)
       PROVE  DataInv(lut', fsd', flash', store')
  <2>1. /\ h.pos = pos /\ h.req_fn = fsd.req_fn /\ ~ Suspended(h)
        /\ h.at \in {"idle", "get"} /\ h.req_fn \in {<<>>, <<"erase_src">>}
        /\ h.req_fn = <<"erase_src">> => Copies(pos)
    BY <1>2, <1>14 DEF SameWork, Suspended, pos
  <2>2. /\ FirstDone(fsd, flash', store[pos.logical]) /\ LastDone(fsd, flash', store[pos.logical])
    BY <1>11, <1>13 DEF s
  <2> QED BY <1>2, <1>4, <1>5, <1>7, <1>12, <1>14, <2>1, <2>2, AdvanceData
<1>15. IsFsd(f) /\ SameWork(f, fsd) /\ f.at = "idle"
  BY Basics, AtFields, ZenonT(30) DEF f
<1>16. IsFsd(g) /\ SameWork(g, fsd) /\ g.at = "idle"
  <2>0. g = [fsd EXCEPT !.clean_dst = no, !.at = "idle"]
    BY DEF g
  <2> HIDE DEF no
  <2>1. g = [pos |-> fsd.pos, clean_dst |-> no, req_suspend |-> fsd.req_suspend,
          bmap_avail |-> fsd.bmap_avail, dst_oob |-> fsd.dst_oob, block_buf |-> fsd.block_buf,
          scan_pos |-> fsd.scan_pos, conflict_pos |-> fsd.conflict_pos,
          req_fn |-> fsd.req_fn, req_in |-> fsd.req_in, t_count |-> fsd.t_count,
          req_out |-> fsd.req_out, at |-> "idle"]
    BY <2>0, Basics DEF IsFsd
  <2>2. IsFsd(g)
    BY <2>1, Basics DEF IsFsd
  <2> QED BY <2>1, <2>2 DEF SameWork
<1> QED BY <1>3, <1>4, <1>14, <1>15, <1>16

\* A step to a state in which nothing is under way.
LEMMA IdleKinds ==
  ASSUME NEW g, g.req_fn = <<>>, g.at # "out", ~ Suspended(g)
  PROVE  ~ Works(g) /\ ~ LooksUp(g) /\ ~ Resolves(g) /\ ~ ReadsData(g) /\ ~ FillsData(g)
         /\ ~ Erasing(g)
<1>1. ~ Body(<<>>) /\ ~ Copying(<<>>)
  BY StackKinds
<1>2. <<>> \notin {<<"lookup_block">>, <<"resolve">>, <<"read_data">>, <<"fill_data">>, <<"erase_src">>}
  BY SingleTop
<1> QED BY <1>1, <1>2 DEF Works, LooksUp, Resolves, ReadsData, FillsData, Erasing, Out, Committing

LEMMA AllHold ==
  ASSUME NEW t, NEW f, NEW fl, NEW st, DataInv(t, f, fl, st), ~ Works(f)
  PROVE  \A m \in Log : ZoneOf(m) \in t.valid_zones => Holds(t, fl, st, m)
BY DEF DataInv, Kept

LEMMA IdleData ==
  ASSUME NEW t, NEW f, NEW fl, NEW st, DataInv(t, f, fl, st), ~ Works(f),
         NEW u, u.valid_zones = t.valid_zones, u.block_table = t.block_table,
         NEW g, g.req_fn = <<>>, g.at # "out", ~ Suspended(g)
  PROVE  DataInv(u, g, fl, st)
<1>1. ~ Works(g) /\ ~ LooksUp(g) /\ ~ Resolves(g) /\ ~ ReadsData(g) /\ ~ FillsData(g) /\ ~ Erasing(g)
  BY IdleKinds
<1>2. \A m \in Log : ZoneOf(m) \in u.valid_zones => Holds(u, fl, st, m)
  BY AllHold DEF Holds
<1>3. Stored(st) /\ Unscanned(u, fl, st)
  BY DEF DataInv, Unscanned
<1>4. ReadRight(u, g)
  BY <1>1 DEF ReadRight
<1> QED BY <1>1, <1>2, <1>3, <1>4, RestStep

LEMMA SingleSubmitData ==
  ASSUME IInv, MarkInv(lut, fsd, flash), DataInv(lut, fsd, flash, store),
         NEW fn \in {"erase_src", "read_data"}, Calls(fn), NEW cmd, NEW blk, NEW from, NEW cnt,
         Submit(Popped, cmd, blk, from, cnt, fn)
  PROVE  DataInv(lut', fsd', flash', store')
<1> DEFINE g == fsd'
<1>0. IsFsd(Popped) /\ SameWork(Popped, Popped)
  BY Basics, PoppedFields DEF SameWork
<1>1. /\ Tail(fsd.req_fn) = <<>> /\ fsd.req_fn = <<fn>> /\ ~ Suspended(fsd) /\ ~ Works(fsd)
      /\ fsd.at = "get"
  BY SingleCalled DEF Singles
<1>2. /\ g.pos = fsd.pos /\ g.req_fn = <<>> /\ g.req_in = fsd.req_in /\ g.at = "out"
      /\ g.req_out.end = fn
  BY <1>0, <1>1, SubmitData DEF pos
<1>3. lut' = lut /\ flash' = flash /\ store' = store
  BY <1>0, SubmitData
<1>4. Suspended(g) <=> Suspended(fsd)
  BY <1>0, SubmitMarks
<1> HIDE DEF g
<1>5. ~ Works(g) /\ ~ LooksUp(g) /\ ~ Resolves(g) /\ ~ FillsData(g)
  <2>1. ~ Body(<<>>) /\ ~ Copying(<<>>)
    BY StackKinds
  <2>2. <<>> \notin {<<"lookup_block">>, <<"resolve">>, <<"fill_data">>}
    BY SingleTop
  <2> QED BY <1>1, <1>2, <1>4, <2>1, <2>2 DEF Works, LooksUp, Resolves, FillsData, Committing,
             CommitEnds
<1>6. ReadsData(g) => fn = "read_data" /\ ReadsData(fsd)
  BY <1>1, <1>2, SingleTop DEF ReadsData, Out
<1>7. ReadRight(lut, g)
  <2>1. CASE ReadsData(g)
    <3>1. ReadRight(lut, fsd) /\ ReadsData(fsd)
      BY <1>6, <2>1 DEF DataInv
    <3> QED BY <1>2, <2>1, <3>1 DEF ReadRight
  <2>2. CASE ~ ReadsData(g)
    BY <1>5, <2>2 DEF ReadRight
  <2> QED BY <2>1, <2>2
<1>8. Erasing(g) => g.pos.src \div PhyPerZone \in lut.valid_zones
  <2>1. SUFFICES ASSUME Erasing(g) PROVE g.pos.src \div PhyPerZone \in lut.valid_zones
    OBVIOUS
  <2>2. <<>> # <<"erase_src">>
    BY SingleTop
  <2>3. fn = "erase_src"
    BY <1>2, <2>1, <2>2 DEF Erasing
  <2>4. Erasing(fsd)
    BY <1>1, <2>3 DEF Erasing, Committing
  <2> QED BY <1>2, <2>4 DEF DataInv
<1>9. /\ Stored(store) /\ Unscanned(lut, flash, store)
      /\ \A m \in Log : ZoneOf(m) \in lut.valid_zones => Holds(lut, flash, store, m)
  BY <1>1, AllHold DEF DataInv
<1>10. DataInv(lut, g, flash, store)
  BY <1>5, <1>7, <1>8, <1>9, RestStep
<1> QED BY <1>3, <1>10 DEF g

LEMMA FillFnData ==
  ASSUME IInv, MarkInv(lut, fsd, flash), DataInv(lut, fsd, flash, store), FillData
  PROVE  DataInv(lut', fsd', flash', store')
<1> DEFINE t == fsd.t_count + pos.len
<1>1. /\ Tail(fsd.req_fn) = <<>> /\ ~ Suspended(fsd) /\ fsd.at = "get" /\ ~ Works(fsd)
  BY SingleCalled DEF FillData, Singles
<1>2. /\ lut' = lut /\ flash' = flash /\ store' = store
      /\ Complete(t, "get") \/ fsd' = [Popped EXCEPT !.t_count = t]
  BY DEF FillData
<1>3. t \in Nat /\ IsFsd(fsd)
  BY Basics DEF PosType
<1> HIDE DEF t
<1>4. fsd'.req_fn = <<>> /\ fsd'.at # "out" /\ ~ Suspended(fsd')
  <2>1. CASE Complete(t, "get")
    BY <1>1, <1>3, <2>1, CompletedFields DEF Complete, Suspended
  <2>2. CASE fsd' = [Popped EXCEPT !.t_count = t]
    <3>1. IsFsd(Popped) /\ Popped.req_fn = <<>> /\ Popped.at = "get" /\ ~ Suspended(Popped)
      BY <1>1, <1>3, PoppedFields DEF Suspended
    <3> QED BY <1>3, <2>2, <3>1, CountFields DEF Suspended
  <2> QED BY <1>2, <2>1, <2>2
<1> DEFINE g == fsd'
<1>5. g.req_fn = <<>> /\ g.at # "out" /\ ~ Suspended(g)
  BY <1>4
<1> HIDE DEF g
<1>6. DataInv(lut, g, flash, store)
  BY <1>1, <1>5, IdleData
<1> QED BY <1>2, <1>6 DEF g

LEMMA SingleFnData ==
  ASSUME IInv, MarkInv(lut, fsd, flash), DataInv(lut, fsd, flash, store),
         EraseSrc \/ ReadData \/ Resolve \/ InvalidateDst \/ FillData
  PROVE  DataInv(lut', fsd', flash', store')
<1>1. CASE EraseSrc
  BY <1>1, SingleSubmitData DEF EraseSrc
<1>2. CASE ReadData
  BY <1>2, SingleSubmitData DEF ReadData
<1>3. CASE Resolve
  <2>1. fsd.req_fn = <<"resolve">>
    BY <1>3, SingleCalled DEF Resolve, Singles
  <2> QED BY <2>1 DEF DataInv, Resolves
<1>4. CASE InvalidateDst
  BY <1>4, SingleCalled DEF InvalidateDst, Singles
<1>5. CASE FillData
  BY <1>5, FillFnData
<1> QED BY <1>1, <1>2, <1>3, <1>4, <1>5

LEMMA LastEndData ==
  ASSUME IInv, Counted, Good', Good => MarkInv(lut, fsd, flash) /\ DataInv(lut, fsd, flash, store),
         EndInvalidateDst \/ EndEraseSrc \/ EndReadData
  PROVE  DataInv(lut', fsd', flash', store')
<1>1. fsd.at = "out" /\ fsd.req_out.end \in LastEnds
  BY DEF EndInvalidateDst, EndEraseSrc, EndReadData, EndOf, out, LastEnds
<1>2. fsd.req_fn = <<>> /\ ~ Suspended(fsd)
  BY <1>1, EndsWith, NotWaiting
<1>3. PICK r \in Results :
        /\ Ended(r)
        /\ EndEraseSrc => /\ fsd' = [fsd EXCEPT !.at = "idle"] /\ store' = store
                          /\ (r.error = "no" => lut' = Put(lut, pos.src, TRUE))
        /\ EndReadData => /\ lut' = lut /\ store' = store
                          /\ (r.error = "no" => \E n \in 0 .. pos.len :
                            fsd' = [[fsd EXCEPT !.t_count = fsd.t_count + n] EXCEPT !.at = "idle"])
  <2>1. CASE EndInvalidateDst
    BY <2>1 DEF EndInvalidateDst, EndEraseSrc, EndReadData, EndOf
  <2>2. CASE EndEraseSrc
    BY <2>2 DEF EndEraseSrc, EndReadData, EndOf, Idles, Keeps
  <2>3. CASE EndReadData
    BY <2>3 DEF EndEraseSrc, EndReadData, EndOf, Idles
  <2> QED BY <2>1, <2>2, <2>3
<1>4. /\ Good /\ Well(r) /\ MarkInv(lut, fsd, flash) /\ r.error = "no" /\ OutRight(fsd)
      /\ DataInv(lut, fsd, flash, store)
  BY <1>3, GoodEnd DEF Well, MarkInv
<1>5. IsFsd(fsd) /\ IsLut(lut)
  BY Basics
<1>6. ~ Works(fsd)
  <2>1. fsd.req_out.end \notin CommitEnds
    BY <1>1 DEF LastEnds, CommitEnds
  <2>2. ~ Body(fsd.req_fn) /\ ~ Copying(fsd.req_fn)
    BY <1>2, StackKinds
  <2> QED BY <1>2, <2>1, <2>2 DEF Works, Committing
<1>7. CASE EndInvalidateDst
  BY <1>4, <1>7 DEF EndInvalidateDst, EndOf, OutRight, out
<1>8. CASE EndEraseSrc
  <2> DEFINE fr == [lut.free EXCEPT ![pos.src] = "dirty"]
  <2>1. out.end = "erase_src" /\ out.blk = pos.src
    BY <1>4, <1>8 DEF EndEraseSrc, EndOf, OutRight, out, pos
  <2>2. Erasing(fsd)
    BY <1>1, <2>1 DEF Erasing, out
  <2>3. Unmapped(lut, pos.src) /\ pos.src \div PhyPerZone \in lut.valid_zones
    BY <1>4, <2>2, Basics DEF Writing, Gone, DataInv, pos
  <2>4. \A b \in Phy : b # pos.src => flash'[b] = flash[b]
    BY <1>1, <1>4, <2>1, EndEffect
  <2>5. lut' = [lut EXCEPT !.free = fr]
    BY <1>3, <1>4, <1>8 DEF Put
  <2> HIDE DEF fr
  <2>6. lut'.valid_zones = lut.valid_zones /\ lut'.block_table = lut.block_table /\ store' = store
    BY <1>3, <1>5, <1>8, <2>5 DEF IsLut
  <2>7. fsd'.req_fn = <<>> /\ fsd'.at # "out" /\ ~ Suspended(fsd')
    BY <1>2, <1>3, <1>5, <1>8 DEF IsFsd, Suspended
  <2>8. Stored(store) /\ Unscanned(lut', flash', store)
    <3> SUFFICES ASSUME NEW z \in Zones \ lut.valid_zones
                 PROVE  Pristine(flash', store, z)
      BY <1>4, <2>6 DEF Unscanned, DataInv
    <3>1. Pristine(flash, store, z)
      BY <1>4 DEF DataInv, Unscanned
    <3>2. \A b \in ZonePhy(z) : flash'[b] = flash[b]
      BY <2>3, <2>4 DEF ZonePhy
    <3> QED BY <3>1, <3>2 DEF Pristine, Labelled, Cell
  <2>9. ASSUME NEW m \in Log, ZoneOf(m) \in lut'.valid_zones
        PROVE  Holds(lut', flash', store, m)
    <3>1. Holds(lut, flash, store, m)
      BY <1>4, <1>6, <2>6, <2>9, AllHold
    <3>2. lut.block_table[m] \in Phy \cup {INVALID} /\ lut.block_table[m] # pos.src
      BY <1>5, <2>3 DEF IsLut, Unmapped
    <3>3. lut.block_table[m] # INVALID =>
            \A c \in Pages : Cell(flash', lut.block_table[m], c) = Cell(flash, lut.block_table[m], c)
      BY <2>4, <3>2 DEF Cell
    <3> QED BY <2>6, <3>1, <3>3 DEF Holds
  <2> DEFINE g == fsd'
             t == lut'
             fl == flash'
  <2>10. ~ Works(g) /\ ~ LooksUp(g) /\ ~ Resolves(g) /\ ~ ReadsData(g) /\ ~ FillsData(g) /\ ~ Erasing(g)
    BY <2>7, IdleKinds
  <2>11. /\ Stored(store) /\ Unscanned(t, fl, store)
         /\ \A m \in Log : ZoneOf(m) \in t.valid_zones => Holds(t, fl, store, m)
    BY <2>8, <2>9
  <2> HIDE DEF g, t, fl
  <2>12. ReadRight(t, g)
    BY <2>10 DEF ReadRight
  <2>13. DataInv(t, g, fl, store)
    BY <2>10, <2>11, <2>12, RestStep
  <2> QED BY <2>6, <2>13 DEF t, g, fl
<1>9. CASE EndReadData
  <2>1. flash' = flash
    BY <1>1, <1>4, <1>9, EndEffect DEF EndReadData, EndOf, Reading, out
  <2>2. PICK n \in 0 .. pos.len :
          fsd' = [[fsd EXCEPT !.t_count = fsd.t_count + n] EXCEPT !.at = "idle"]
    BY <1>3, <1>4, <1>9
  <2> DEFINE m == fsd.t_count + n
  <2>3. fsd' = [[fsd EXCEPT !.t_count = m] EXCEPT !.at = "idle"]
    BY <2>2
  <2> HIDE DEF m
  <2>4. /\ fsd'.req_fn = <<>> /\ fsd'.at = "idle"
        /\ fsd'.req_suspend = fsd.req_suspend /\ fsd'.bmap_avail = fsd.bmap_avail
    BY <1>2, <1>5, <2>3 DEF IsFsd
  <2> DEFINE g == fsd'
  <2>5. g.req_fn = <<>> /\ g.at # "out" /\ ~ Suspended(g)
    BY <1>2, <2>4 DEF Suspended
  <2> HIDE DEF g
  <2>6. DataInv(lut, g, flash, store)
    BY <1>4, <1>6, <2>5, IdleData
  <2> QED BY <1>3, <1>9, <2>1, <2>6 DEF g
<1> QED BY <1>7, <1>8, <1>9

-----------------------------------------------------------------------------
(* Requests from above, and the next block of one.                         *)

\* Where the lock is does not matter.
LEMMA AtData ==
  ASSUME NEW t, NEW f, NEW fl, NEW st, DataInv(t, f, fl, st), NEW g, f.at # "out", g.at # "out",
         g.pos = f.pos, g.req_in = f.req_in, g.req_fn = f.req_fn, g.block_buf = f.block_buf,
         g.scan_pos = f.scan_pos, Suspended(g) <=> Suspended(f)
  PROVE  DataInv(t, g, fl, st)
<1>1. /\ Works(g) <=> Works(f)
      /\ LooksUp(g) <=> LooksUp(f)
      /\ Resolves(g) <=> Resolves(f)
      /\ Erasing(g) <=> Erasing(f)
      /\ ReadsData(g) <=> ReadsData(f)
      /\ FillsData(g) <=> FillsData(f)
  BY DEF Works, LooksUp, Resolves, Erasing, ReadsData, FillsData, Out, Committing
<1>2. Kept(t, g, fl, st) /\ Entered(t, g, fl) /\ ReadRight(t, g)
  BY <1>1 DEF DataInv, Kept, Entered, ReadRight
<1>3. ASSUME Works(g) PROVE WorkData(t, g, fl, st[g.pos.logical])
  <2> DEFINE s == st[g.pos.logical]
  <2>1. WorkData(t, f, fl, s)
    BY <1>1, <1>3 DEF DataInv
  <2> HIDE DEF s
  <2>2. \A x : Now(g, x) <=> Now(f, x)
    BY DEF Now
  <2>3. \A x, e : ~ Below(g, x, e) /\ ~ Below(f, x, e)
    BY DEF Below, Out
  <2>4. MergeData1(f, fl, s) => MergeData1(g, fl, s)
    BY <2>2, <2>3, DataAlike DEF MergeData1
  <2>5. WriteData1(t, f, fl, s) => WriteData1(t, g, fl, s)
    BY <2>2, <2>3, DataAlike, BufAlike DEF WriteData1
  <2>6. CopyData1(f, fl, s) => CopyData1(g, fl, s)
    BY <2>2, <2>3, DataAlike DEF CopyData1
  <2>7. WorkData(t, g, fl, s)
    BY <2>1, <2>4, <2>5, <2>6 DEF WorkData
  <2> QED BY <2>7 DEF s
<1> QED BY <1>1, <1>2, <1>3 DEF DataInv

LEMMA AboveData ==
  ASSUME IInv, DataInv(lut, fsd, flash, store), NewRequest \/ Ask \/ FetchReq
  PROVE  DataInv(lut', fsd', flash', store')
<1>1. lut' = lut /\ flash' = flash /\ store' = store
  BY DEF NewRequest, Ask, FetchReq
<1>2. IsFsd(fsd)
  BY Basics
<1>3. CASE NewRequest
  BY <1>1, <1>3 DEF NewRequest
<1>4. CASE Ask
  <2>1. fsd' = [fsd EXCEPT !.at = "get"] /\ fsd.at = "idle"
    BY <1>4 DEF Ask
  <2> DEFINE g == fsd'
  <2>2. /\ g.pos = fsd.pos /\ g.req_in = fsd.req_in /\ g.req_fn = fsd.req_fn /\ g.at = "get"
        /\ g.block_buf = fsd.block_buf /\ g.scan_pos = fsd.scan_pos
        /\ g.req_suspend = fsd.req_suspend /\ g.bmap_avail = fsd.bmap_avail
    BY <1>2, <2>1 DEF IsFsd
  <2> HIDE DEF g
  <2>3. DataInv(lut, g, flash, store)
    BY <2>1, <2>2, AtData DEF Suspended
  <2> QED BY <1>1, <2>3 DEF g
<1>5. CASE FetchReq
  <2>1. /\ fsd.at = "get" /\ fsd.req_fn = <<>> /\ fsd.req_in = NoReq
        /\ fsd' = [fsd EXCEPT !.at = "idle"] \/ fsd' = [fsd EXCEPT !.req_in = client]
    BY <1>5 DEF FetchReq
  <2>2. ~ Suspended(fsd)
    BY <2>1, Basics DEF Waiting, NoReq
  <2>3. ~ Works(fsd)
    BY <2>1, <2>2, IdleKinds
  <2> DEFINE g == fsd'
  <2>4. /\ g.req_fn = <<>> /\ g.at # "out" /\ g.req_suspend = fsd.req_suspend
        /\ g.bmap_avail = fsd.bmap_avail
    BY <1>2, <2>1 DEF IsFsd
  <2> HIDE DEF g
  <2>5. DataInv(lut, g, flash, store)
    BY <2>2, <2>3, <2>4, IdleData DEF Suspended
  <2> QED BY <1>1, <2>5 DEF g
<1> QED BY <1>3, <1>4, <1>5

\* A block is set up while nothing is under way.
LEMMA SettingData ==
  ASSUME IInv, DataInv(lut, fsd, flash, store), Setting, ~ fsd.bmap_avail
  PROVE  /\ ~ Works(fsd) /\ ~ Suspended(fsd) /\ Stored(store) /\ Unscanned(lut, flash, store)
         /\ \A m \in Log : ZoneOf(m) \in lut.valid_zones => Holds(lut, flash, store, m)
<1>1. fsd.req_fn = <<>> /\ fsd.at # "out" /\ ~ Suspended(fsd)
  BY Suspends DEF Suspended
<1>2. ~ Works(fsd)
  BY <1>1, IdleKinds
<1> QED BY <1>1, <1>2, AllHold DEF DataInv

LEMMA OtherSetupData ==
  ASSUME IInv, MarkInv(lut, fsd, flash), DataInv(lut, fsd, flash, store),
         SetupFails \/ SetupDone \/ SetupNoSpace \/ SetupRead
  PROVE  DataInv(lut', fsd', flash', store')
<1>1. Setting /\ flash' = flash /\ lut' = lut /\ store' = store
  BY DEF SetupFails, SetupDone, SetupNoSpace, SetupRead, Ready, Quiet
<1>2. /\ ~ fsd.req_suspend /\ (fsd.bmap_avail \/ ~ Suspended(fsd))
      /\ SetAt \in {"idle", "get"} /\ fsd.req_fn = <<>> /\ fsd.at # "out" /\ IsFsd(fsd)
  BY <1>1, Suspends, Basics
<1> DEFINE g == fsd'
<1>3. CASE SetupFails
  <2>1. fsd' = [fsd EXCEPT !.at = "idle"]
    BY <1>3 DEF SetupFails
  <2>2. /\ g.pos = fsd.pos /\ g.req_in = fsd.req_in /\ g.req_fn = fsd.req_fn /\ g.at = "idle"
        /\ g.block_buf = fsd.block_buf /\ g.scan_pos = fsd.scan_pos
        /\ g.req_suspend = fsd.req_suspend /\ g.bmap_avail = fsd.bmap_avail
    BY <1>2, <2>1 DEF IsFsd
  <2> HIDE DEF g
  <2>3. DataInv(lut, g, flash, store)
    BY <1>2, <2>2, AtData DEF Suspended
  <2> QED BY <1>1, <2>3 DEF g
<1>4. CASE SetupDone \/ SetupNoSpace
  <2>1. fsd' = Completed(fsd, "get")
    BY <1>4 DEF SetupDone, SetupNoSpace, Complete
  <2>2. ~ Suspended(fsd)
    <3>1. CASE SetupDone
      <4>1. Left = 0
        BY <3>1 DEF SetupDone
      <4> QED BY <4>1, Basics DEF Waiting, Left
    <3>2. CASE SetupNoSpace
      BY <1>2, <3>2 DEF SetupNoSpace, Ready, Suspended
    <3> QED BY <1>4, <3>1, <3>2
  <2>3. ~ Works(fsd)
    BY <1>2, <2>2, IdleKinds
  <2>4. /\ g.req_fn = <<>> /\ g.at # "out" /\ g.req_suspend = fsd.req_suspend
        /\ g.bmap_avail = fsd.bmap_avail
    BY <1>2, <2>1, CompletedFields
  <2> HIDE DEF g
  <2>5. DataInv(lut, g, flash, store)
    BY <2>2, <2>3, <2>4, IdleData DEF Suspended
  <2> QED BY <1>1, <2>5 DEF g
<1>5. CASE SetupRead
  <2> DEFINE s == IF Address.src = INVALID THEN <<"fill_data">> ELSE <<"read_data">>
             a == SetAt
             p == Address
  <2>1. /\ fsd' = [fsd EXCEPT !.pos = p, !.at = a, !.req_fn = s] /\ ~ fsd.bmap_avail
        /\ Left > 0 /\ fsd.req_in.op = "read" /\ Address.zone \in lut.valid_zones
    BY <1>5 DEF SetupRead, Ready
  <2>2. /\ Single(s) /\ s # <<"lookup_block">> /\ s # <<"resolve">> /\ s # <<"erase_src">>
        /\ s = <<"fill_data">> <=> p.src = INVALID
        /\ s = <<"read_data">> <=> p.src # INVALID
    <3>1. {"fill_data", "read_data"} \subseteq Singles
      BY DEF Singles
    <3>2. Single(<<"fill_data">>) /\ Single(<<"read_data">>)
      BY <3>1 DEF Single
    <3> QED BY <3>1, <3>2, SingleTop
  <2>3. /\ p \in PosType /\ p.logical \in Log /\ ZoneOf(p.logical) \in lut.valid_zones
        /\ AfterOf(p) <= PageCnt /\ lut.block_table[p.logical] = p.src
    BY <2>1, Basics, AddressFields, AddressAfter
  <2> HIDE DEF s, a, p
  <2>4. /\ g.pos = p /\ g.req_fn = s /\ g.at = a /\ g.req_in = fsd.req_in
        /\ g.req_suspend = fsd.req_suspend /\ g.bmap_avail = fsd.bmap_avail
    BY <1>2, <2>1 DEF IsFsd
  <2>5. a # "out" /\ ~ Suspended(fsd)
    BY <1>2, <2>1 DEF a, Suspended
  <2> HIDE DEF g
  <2>6. /\ ~ Works(g) /\ ~ LooksUp(g) /\ ~ Resolves(g) /\ ~ Erasing(g)
        /\ ReadsData(g) <=> p.src # INVALID
    BY <2>2, <2>4, <2>5, StackKinds DEF LooksUp, Resolves, Committing, Erasing, Suspended, Works,
       ReadsData, Out
  <2>7. ReadRight(lut, g)
    BY <2>1, <2>3, <2>4, <2>6 DEF ReadRight
  <2>8. DataInv(lut, g, flash, store)
    BY <1>1, <2>1, <2>6, <2>7, SettingData, RestStep
  <2> QED BY <1>1, <2>8 DEF g
<1> QED BY <1>3, <1>4, <1>5

\* There is nothing to be kept in the pages of a mapped block that are not marked.
LEMMA NothingUnmarked ==
  ASSUME NEW t, NEW fl, NEW st, NEW m, Holds(t, fl, st, m), NEW k, True(t, fl, k),
         t.block_table[m] = INVALID \/ t.block_table[m] = k
  PROVE  NothingIn(Pages \ t.b_map[k], st[m])
<1> SUFFICES ASSUME NEW c \in Pages \ t.b_map[k] PROVE st[m][c] = Erased
  BY DEF NothingIn
<1>1. fl[k].pages[c] \in {Erased, Fill}
  BY DEF True, Low
<1>2. Cell(fl, k, c) = Erased
  BY <1>1, ReadTwice DEF Cell, Reads
<1> QED BY <1>2 DEF Holds

\* The write begins with a stack of functions.
LEMMA SetupData ==
  ASSUME IInv, MarkInv(lut, fsd, flash), DataInv(lut, fsd, flash, store), Setting, Left > 0,
         ~ fsd.bmap_avail, Address.zone \in lut.valid_zones, fsd.req_in.op = "write",
         NEW b \in Phy, NEW p, p \in PosType, p.dst = b, p.src = Address.src,
         p.logical = Address.logical, p.off = Address.off, p.len = Address.len, NEW s, NEW c,
         NEW t, t = lut \/ t = Took(b), Body(s) \/ Copying(s),
         \/ s = M1 /\ p.src = b
         \/ s = M2 /\ WholeBlock(p)
         \/ s = W6 /\ p.src # INVALID
         \/ s = K6 /\ Copies(p)
  PROVE  DataInv(t, SetOut(p, s, c, MappedTo(Address.logical), SetAt), flash, store)
<1> DEFINE o == MappedTo(Address.logical)
           a == SetAt
           g == SetOut(p, s, c, o, a)
           m == p.logical
           d == store[m]
<1>1. IsLabel(o)
  BY Basics, AddressFields DEF IsLabel, MappedTo
<1>2. /\ a \in {"idle", "get"} /\ ~ fsd.req_suspend /\ fsd.at # "out" /\ fsd.req_fn = <<>>
  BY Suspends
<1>3. /\ IsFsd(fsd) /\ IsLut(lut) /\ MapsRight(lut) /\ INVALID \notin Phy
      /\ m \in Log /\ ZoneOf(m) \in lut.valid_zones /\ lut.block_table[m] = p.src
  BY Basics, AddressFields, FtlAssumption DEF MarkInv
<1>4. /\ ~ Works(fsd) /\ ~ Suspended(fsd) /\ Stored(store) /\ Unscanned(lut, flash, store)
      /\ \A l \in Log : ZoneOf(l) \in lut.valid_zones => Holds(lut, flash, store, l)
  BY SettingData
<1>5. \A k \in Keys(lut) : True(lut, flash, k)
  BY <1>2, <1>4, AtRest
<1>6. /\ Keys(t) = Keys(lut) /\ t.valid_zones = lut.valid_zones /\ t.b_map = lut.b_map
      /\ t.block_table = lut.block_table
  <2>1. CASE t = lut
    BY <2>1
  <2>2. CASE t = Took(b)
    <3>1. t.block_table = lut.block_table
      BY <1>3, <2>2 DEF Took, IsLut
    <3> QED BY <1>3, <2>2, <3>1, TookMarks
  <2> QED BY <2>1, <2>2
<1> HIDE DEF o, a
<1>7. /\ g.pos = p /\ g.req_fn = s /\ g.at = a /\ g.req_in = fsd.req_in
      /\ g.req_suspend = fsd.req_suspend /\ g.bmap_avail = fsd.bmap_avail
  BY <1>1, <1>2, <1>3, SetFields
<1> HIDE DEF g
<1>8. ~ Suspended(g) /\ g.at # "out"
  BY <1>2, <1>7 DEF Suspended
<1>9. Stacked(g) /\ Waiting(g) /\ g.req_in.op = "write"
  BY <1>7, <1>8 DEF Stacked, Waiting
<1>10. Holds(t, flash, store, m) /\ Holds(lut, flash, store, m)
  BY <1>3, <1>4, <1>6 DEF Holds
<1>11. KeyOf(p) \in Keys(t) => NothingIn(Pages \ t.b_map[KeyOf(p)], d)
  <2>1. SUFFICES ASSUME KeyOf(p) \in Keys(t) PROVE NothingIn(Pages \ t.b_map[KeyOf(p)], d)
    OBVIOUS
  <2>2. True(lut, flash, KeyOf(p))
    BY <1>5, <1>6, <2>1
  <2>3. lut.block_table[m] = INVALID \/ lut.block_table[m] = KeyOf(p)
    BY <1>3 DEF KeyOf
  <2> QED BY <1>6, <1>10, <2>2, <2>3, NothingUnmarked
<1>12. p.src # INVALID => Right(flash, p.src, Pages, d)
  BY <1>3, <1>10 DEF Holds, Right
<1> HIDE DEF d
<1>13. \A x : s = x => Now(g, x)
  BY <1>7, <1>8 DEF Now
<1>14. MergeData1(g, flash, d) \/ WriteData1(t, g, flash, d) \/ CopyData1(g, flash, d)
  <2>1. CASE s = M1 /\ p.src = b
    <3>1. Right(flash, p.dst, Pages, d)
      BY <1>3, <1>12, <2>1
    <3>2. Before(p) \subseteq Pages /\ Behind(p) \subseteq Pages
      BY DEF Before, Behind
    <3>3. FirstDone(g, flash, d) /\ LastDone(g, flash, d)
      BY <1>7, <3>1, <3>2 DEF FirstDone, LastDone, Right
    <3> QED BY <1>13, <2>1, <3>3 DEF MergeData1
  <2>2. CASE s = M2 /\ WholeBlock(p)
    BY <1>7, <1>13, <2>2 DEF MergeData1
  <2>3. CASE s = W6 /\ p.src # INVALID
    BY <1>7, <1>12, <1>13, <2>3 DEF WriteData1, SrcRight
  <2>4. CASE s = K6 /\ Copies(p)
    <3>1. p.src # INVALID
      BY <1>3, <2>4 DEF Copies
    <3> QED BY <1>7, <1>12, <1>13, <2>4, <3>1 DEF CopyData1, SrcRight
  <2> QED BY <2>1, <2>2, <2>3, <2>4
<1>15. WorkData(t, g, flash, d)
  BY <1>7, <1>11, <1>14 DEF WorkData
<1>16. /\ Unscanned(t, flash, store)
       /\ \A l \in Log : ZoneOf(l) \in t.valid_zones => l = g.pos.logical \/ Holds(t, flash, store, l)
  BY <1>4, <1>6 DEF Unscanned, Holds
<1>17. DataInv(t, g, flash, store)
  BY <1>4, <1>7, <1>9, <1>15, <1>16, WorkStep DEF d
<1> QED BY <1>17 DEF g, o, a

LEMMA WriteSetupData ==
  ASSUME IInv, Good, MarkInv(lut, fsd, flash), DataInv(lut, fsd, flash, store),
         SetupMerge \/ SetupInPlace \/ SetupCopy \/ SetupNewFull
  PROVE  DataInv(lut', fsd', flash', store')
<1> DEFINE o == MappedTo(Address.logical)
           no == FALSE
<1>1. /\ Setting /\ Left > 0 /\ ~ fsd.bmap_avail /\ Address.zone \in lut.valid_zones
      /\ flash' = flash /\ store' = store /\ fsd.req_in.op = "write"
  BY DEF SetupMerge, SetupInPlace, SetupCopy, SetupNewFull, Ready, Quiet
<1>2. /\ Address \in PosType /\ IsLut(lut) /\ MapsRight(lut) /\ INVALID \notin Phy
      /\ INVALID \notin Keys(lut)
  BY <1>1, Basics, AddressFields, FtlAssumption DEF MarkInv, Keys, IsLut
<1>3. /\ \A b \in Free : b \in Phy /\ b # Address.src /\ b \notin Keys(lut) /\ lut.free[b] = "dirty"
      /\ Address.src # INVALID => Address.src \in Phy
  <2>1. /\ \A b \in Free : b \in Phy /\ b # Address.src
        /\ Address.src # INVALID => Address.src \in Phy
    BY <1>1, AddressFresh
  <2>2. ASSUME NEW b \in Free PROVE b \notin Keys(lut) /\ lut.free[b] = "dirty"
    <3>1. lut.free[b] # "no" /\ b \in Phy
      BY <2>1 DEF Free
    <3> QED BY <1>2, <3>1 DEF MapsRight, IsLut
  <2> QED BY <2>1, <2>2
<1>4. ASSUME NEW b \in Phy
      PROVE  /\ LET p == [Address EXCEPT !.dst = b]
                IN  /\ p \in PosType /\ p.dst = b /\ p.src = Address.src
                    /\ p.logical = Address.logical /\ p.off = Address.off /\ p.len = Address.len
             /\ LET p == [Address EXCEPT !.dst = b, !.in_place = TRUE]
                IN  /\ p \in PosType /\ p.dst = b /\ p.src = Address.src
                    /\ p.logical = Address.logical /\ p.off = Address.off /\ p.len = Address.len
  BY <1>2 DEF PosType
<1>5. CASE SetupMerge
  <2> DEFINE p == [Address EXCEPT !.dst = Address.src]
             s == <<"merge_data">>
  <2>1. fsd' = SetOut(p, s, no, o, SetAt) /\ lut' = lut
    BY <1>5 DEF SetupMerge, SetOut
  <2>2. Address.src \in Keys(lut) /\ lut.b_map[Address.src] \subseteq 0 .. Address.off - 1
    BY <1>5 DEF SetupMerge, Merges, CanMerge, Good, Keys
  <2>3. Address.src # INVALID /\ Address.src \in Phy
    BY <1>2, <1>3, <2>2
  <2>4. /\ p \in PosType /\ p.dst = Address.src /\ p.src = Address.src
        /\ p.logical = Address.logical /\ p.off = Address.off /\ p.len = Address.len
    BY <1>4, <2>3
  <2>5. Body(s) /\ s = M1
    BY WholeStacks DEF M1
  <2> HIDE DEF p, s, no
  <2>6. DataInv(lut, SetOut(p, s, no, o, SetAt), flash, store)
    BY <1>1, <2>3, <2>4, <2>5, SetupData DEF o
  <2> QED BY <1>1, <2>1, <2>6
<1>6. CASE SetupInPlace
  <2> DEFINE p == [Address EXCEPT !.dst = Address.src, !.in_place = TRUE]
             s == <<"read_first", "read_last", "erase_dst", "write_first", "write_data",
                    "write_last">>
  <2>1. fsd' = SetOut(p, s, no, o, SetAt) /\ lut' = lut /\ Address.src # INVALID
    BY <1>6 DEF SetupInPlace, SetOut
  <2>2. Address.src \in Phy
    BY <1>3, <2>1
  <2>4. /\ p \in PosType /\ p.dst = Address.src /\ p.src = Address.src
        /\ p.logical = Address.logical /\ p.off = Address.off /\ p.len = Address.len
    BY <1>4, <2>2
  <2>5. Body(s) /\ s = W6
    BY WholeStacks DEF W6
  <2> HIDE DEF p, s, no
  <2>6. DataInv(lut, SetOut(p, s, no, o, SetAt), flash, store)
    BY <1>1, <2>1, <2>2, <2>4, <2>5, SetupData DEF o
  <2> QED BY <1>1, <2>1, <2>6
<1>7. CASE SetupNewFull
  <2>1. PICK b \in Free :
          /\ lut' = Took(b)
          /\ fsd' = SetOut([Address EXCEPT !.dst = b], EraseIf(b) \o <<"merge_data">>,
                           lut.free[b] = "clean", o, SetAt)
    BY <1>7 DEF SetupNewFull, SetOut
  <2> DEFINE p == [Address EXCEPT !.dst = b]
             s == EraseIf(b) \o <<"merge_data">>
             c == lut.free[b] = "clean"
  <2>2. fsd' = SetOut(p, s, c, o, SetAt)
    BY <2>1
  <2>4. /\ p \in PosType /\ p.dst = b /\ p.src = Address.src /\ b \in Phy /\ b \notin Keys(lut)
        /\ p.logical = Address.logical /\ p.off = Address.off /\ p.len = Address.len
    BY <1>3, <1>4, <2>1
  <2>5. Body(s) /\ s = M2
    <3>1. s = <<"erase_dst", "merge_data">>
      BY <1>3, JoinedStacks DEF EraseIf
    <3>2. Body(s)
      BY WholeStacks, CopyStack
    <3> QED BY <3>1, <3>2 DEF M2
  <2> HIDE DEF p, s, c
  <2>6. WholeBlock(p)
    <3>1. Address.len = PageCnt /\ AfterOf(Address) <= PageCnt /\ Address.off \in Nat
      BY <1>1, <1>7, AddressAfter DEF SetupNewFull
    <3>2. PageCnt \in Nat
      BY FtlAssumption
    <3>3. p.off = 0 /\ AfterOf(p) = PageCnt
      BY <2>4, <3>1, <3>2 DEF AfterOf
    <3> QED BY <2>4, <3>3, PageParts DEF WholeBlock
  <2>7. DataInv(Took(b), SetOut(p, s, c, o, SetAt), flash, store)
    BY <1>1, <2>4, <2>5, <2>6, SetupData DEF o
  <2> QED BY <1>1, <2>1, <2>2, <2>7
<1>8. CASE SetupCopy
  <2> DEFINE w == IF config.mode # "peb" THEN <<"copy_first", "write_data", "copy_last">>
                  ELSE <<"read_first", "read_last", "write_first", "write_data", "write_last">>
  <2>1. PICK b \in Free :
          /\ lut' = Took(b)
          /\ fsd' = SetOut([Address EXCEPT !.dst = b],
                           EraseIf(b) \o <<"select_src">> \o w \o <<"erase_src">>,
                           lut.free[b] = "clean", o, SetAt)
    BY <1>8 DEF SetupCopy, SetOut
  <2> DEFINE p == [Address EXCEPT !.dst = b]
             s == EraseIf(b) \o <<"select_src">> \o w \o <<"erase_src">>
             c == lut.free[b] = "clean"
  <2>2. fsd' = SetOut(p, s, c, o, SetAt)
    BY <2>1
  <2>4. /\ p \in PosType /\ p.dst = b /\ p.src = Address.src /\ b \in Phy /\ b \notin Keys(lut)
        /\ p.logical = Address.logical /\ p.off = Address.off /\ p.len = Address.len
    BY <1>3, <1>4, <2>1
  <2>5. Copying(s) /\ s = K6
    <3>1. w = <<"copy_first", "write_data", "copy_last">> /\ EraseIf(b) = <<"erase_dst">>
      BY <1>3 DEF EraseIf, Good
    <3>2. s = <<"erase_dst", "select_src", "copy_first", "write_data", "copy_last", "erase_src">>
      BY <3>1, JoinedStacks
    <3>3. Body(w)
      BY WholeStacks
    <3> HIDE DEF w
    <3>4. Copying(s)
      BY <3>3, CopyStack
    <3> QED BY <3>2, <3>4 DEF K6
  <2> HIDE DEF p, s, c
  <2>6. Copies(p)
    BY <1>3, <1>8, <2>1, <2>4 DEF Copies, SetupCopy
  <2>7. DataInv(Took(b), SetOut(p, s, c, o, SetAt), flash, store)
    BY <1>1, <2>4, <2>5, <2>6, SetupData DEF o
  <2> QED BY <1>1, <2>1, <2>2, <2>7
<1> QED BY <1>5, <1>6, <1>7, <1>8

\* While a write waits for a node, its block holds nothing.
LEMMA SuspendedData ==
  ASSUME NEW t, NEW f, NEW fl, NEW s, WorkData(t, f, fl, s), f.req_fn = <<>>, f.at # "out"
  PROVE  Suspended(f) /\ NothingIn(Pages, s)
<1>1. f.req_fn \notin Stacks
  BY StackHeads
<1>2. ~ MergeData1(f, fl, s)
  BY <1>1 DEF MergeData1, Now, Below, Out, Stacks
<1>3. ~ WriteData1(t, f, fl, s)
  BY <1>1 DEF WriteData1, Now, Below, Out, Stacks
<1>4. ~ CopyData1(f, fl, s)
  BY <1>1 DEF CopyData1, Now, Below, Out, Stacks
<1> QED BY <1>2, <1>3, <1>4 DEF WorkData

\* A write that is done in part of a block that holds nothing ...
LEMMA PartialData ==
  ASSUME IsFsd(fsd), Setting, fsd.req_in.op = "write", NEW p \in PosType, Partial(p), NEW t,
         Stored(store), Unscanned(t, flash, store), NothingIn(Pages, store[p.logical]),
         flash[p.dst] = Blank,
         \A m \in Log : ZoneOf(m) \in t.valid_zones => m = p.logical \/ Holds(t, flash, store, m)
  PROVE  DataInv(t, fsd', flash, store)
<1> DEFINE s == <<"write_first", "write_data", "write_last">>
           buf == [q \in Pages |-> IF q \in p.off .. p.off + p.len - 1 THEN fsd.block_buf[q]
                                   ELSE Fill]
           no == FALSE
           a == SetAt
           g == fsd'
           d == store[p.logical]
<1>1. fsd' = [fsd EXCEPT !.pos = p, !.clean_dst = no, !.bmap_avail = no, !.req_suspend = no,
                         !.at = a, !.block_buf = buf, !.req_fn = s]
  BY DEF Partial
<1>2. a \in {"idle", "get"} /\ ~ no
  BY DEF SetAt
<1>3. Body(s) /\ s = W3
  BY WholeStacks DEF W3
<1>4. \A c \in Pages : c < p.off \/ c >= AfterOf(p) => buf[c] = Fill
  BY DEF AfterOf, Pages, PosType
<1> HIDE DEF s, buf, no, a, g, d
<1>5. /\ g.pos = p /\ g.req_fn = s /\ g.at = a /\ g.block_buf = buf
      /\ g.req_suspend = no /\ g.bmap_avail = no /\ g.req_in = fsd.req_in
  BY <1>1 DEF IsFsd, g
<1>6. ~ Suspended(g) /\ g.at # "out"
  BY <1>2, <1>5 DEF Suspended
<1>7. Stacked(g) /\ Waiting(g)
  BY <1>3, <1>5, <1>6 DEF Stacked, Waiting
<1>8. Reads(Fill) = Erased
  BY DEF Reads
<1>9. Buffer(g, Before(p), d) /\ Buffer(g, Behind(p), d)
  <2>1. \A c \in Pages : d[c] = Erased
    BY DEF NothingIn, d
  <2> QED BY <1>4, <1>5, <1>8, <2>1 DEF Buffer, Before, Behind
<1>10. Blanked(g, flash)
  BY <1>5 DEF Blanked, Blank
<1>11. WriteData1(t, g, flash, d)
  BY <1>3, <1>5, <1>6, <1>9, <1>10 DEF WriteData1, Now, BufFirst, BufLast
<1>12. WorkData(t, g, flash, d)
  BY <1>11 DEF WorkData, NothingIn, d
<1>13. DataInv(t, g, flash, store)
  BY <1>5, <1>7, <1>12, WorkStep DEF d
<1> QED BY <1>13 DEF g

\* ... or waits for a node of the map.
LEMMA WaitData ==
  ASSUME NEW t, NEW g, NEW fl, NEW st, Stacked(g), Waiting(g), Suspended(g),
         Stored(st), Unscanned(t, fl, st), NothingIn(Pages, st[g.pos.logical]),
         \A m \in Log : ZoneOf(m) \in t.valid_zones => m = g.pos.logical \/ Holds(t, fl, st, m)
  PROVE  DataInv(t, g, fl, st)
<1> DEFINE s == st[g.pos.logical]
<1>1. NothingIn(Pages, s) /\ g.req_in.op = "write"
  BY DEF Waiting
<1> HIDE DEF s
<1>2. WorkData(t, g, fl, s)
  BY <1>1 DEF WorkData, NothingIn
<1> QED BY <1>1, <1>2, WorkStep DEF s

\* A node for the map of the block.
LEMMA InsertData ==
  ASSUME NEW t, IsLut(t), NEW b
  PROVE  /\ MapInsert(t, b).block_table = t.block_table
         /\ MapInsert(t, b).valid_zones = t.valid_zones
<1> DEFINE m == [k \in DOMAIN t.b_map \cup {b} |-> IF k = b THEN {} ELSE t.b_map[k]]
           n == t.spare - 1
<1>1. MapInsert(t, b) = [t EXCEPT !.b_map = m, !.spare = n]
  BY DEF MapInsert
<1> HIDE DEF m, n
<1> QED BY <1>1 DEF IsLut

LEMMA SameHolds ==
  ASSUME NEW t, NEW u, u.block_table = t.block_table, u.valid_zones = t.valid_zones
  PROVE  \A fl, st : /\ Unscanned(u, fl, st) <=> Unscanned(t, fl, st)
                     /\ \A m : Holds(u, fl, st, m) <=> Holds(t, fl, st, m)
BY DEF Unscanned, Holds

LEMMA PartSetupData ==
  ASSUME IInv, Good, "unerased" \notin flaws', MarkInv(lut, fsd, flash),
         DataInv(lut, fsd, flash, store), Stacked(fsd'), Waiting(fsd'),
         SetupNewPart \/ SetupContinue
  PROVE  DataInv(lut', fsd', flash', store')
<1>1. /\ Setting /\ Left > 0 /\ flash' = flash /\ fsd.req_fn = <<>> /\ fsd.at # "out"
      /\ ~ fsd.req_suspend /\ store' = store /\ fsd.req_in.op = "write"
  BY Suspends DEF SetupNewPart, SetupContinue, Ready, Quiet
<1>2. IsFsd(fsd) /\ IsLut(lut) /\ MapsRight(lut)
  BY Basics DEF MarkInv
<1>3. ASSUME NEW b, PartFlaws(b) PROVE flash[b] = Blank
  BY <1>3 DEF PartFlaws, If
<1>4. CASE SetupNewPart
  <2>1. PICK b \in Free :
          /\ lut' = IF MapInserts(lut, b) THEN MapInsert(Took(b), b) ELSE Took(b)
          /\ IF MapInserts(lut, b) \/ config.mode = "peb"
             THEN Partial([Address EXCEPT !.dst = b]) /\ PartFlaws(b)
             ELSE fsd' = [fsd EXCEPT !.pos = [Address EXCEPT !.dst = b], !.at = "idle",
                                     !.clean_dst = FALSE, !.req_suspend = TRUE]
    BY <1>4 DEF SetupNewPart
  <2>2. /\ Address.src = INVALID /\ Address.zone \in lut.valid_zones /\ ~ fsd.bmap_avail
        /\ Address \in PosType /\ Address.logical \in Log
        /\ Address.src = lut.block_table[Address.logical] /\ Address.zone = ZoneOf(Address.logical)
    BY <1>1, <1>4, Basics, AddressFields DEF SetupNewPart, Ready
  <2>3. b \in Phy /\ b \in ZonePhy(Address.zone) /\ lut.free[b] # "no"
    BY <1>2, <2>1 DEF Free, ZonePhy
  <2> DEFINE p == [Address EXCEPT !.dst = b]
  <2>4. p \in PosType /\ p.dst = b /\ p.logical = Address.logical
    BY <2>2, <2>3 DEF PosType
  <2>5. Partial([Address EXCEPT !.dst = b]) => Partial(p)
    OBVIOUS
  <2> HIDE DEF p
  <2>6. IsLut(Took(b)) /\ Took(b).block_table = lut.block_table /\ Took(b).valid_zones = lut.valid_zones
    <3>1. IsLut(Took(b))
      BY <1>2, <2>3, Basics, TookLut DEF Took
    <3> QED BY <1>2, <3>1 DEF Took, IsLut
  <2>7. lut'.block_table = lut.block_table /\ lut'.valid_zones = lut.valid_zones
    BY <2>1, <2>6, InsertData
  <2>8. /\ Stored(store) /\ Unscanned(lut', flash, store)
        /\ \A m \in Log : ZoneOf(m) \in lut'.valid_zones => Holds(lut', flash, store, m)
    BY <1>1, <2>2, <2>7, SettingData, SameHolds
  <2>9. NothingIn(Pages, store[p.logical])
    BY <2>2, <2>4, <2>7, <2>8 DEF Holds, NothingIn
  <2>10. CASE MapInserts(lut, b)
    <3>1. Partial(p) /\ PartFlaws(b)
      BY <2>1, <2>5, <2>10
    <3>2. flash[p.dst] = Blank
      BY <1>3, <2>4, <3>1
    <3> DEFINE t == lut'
    <3>3. /\ Stored(store) /\ Unscanned(t, flash, store)
          /\ \A m \in Log : ZoneOf(m) \in t.valid_zones => Holds(t, flash, store, m)
      BY <2>8
    <3> HIDE DEF t
    <3>4. DataInv(t, fsd', flash, store)
      BY <1>1, <1>2, <2>4, <2>9, <3>1, <3>2, <3>3, PartialData
    <3> QED BY <1>1, <3>4 DEF t
  <2>11. CASE ~ MapInserts(lut, b)
    <3> DEFINE no == FALSE
               yes == TRUE
    <3>1. fsd' = [fsd EXCEPT !.pos = p, !.at = "idle", !.clean_dst = no, !.req_suspend = yes]
      BY <2>1, <2>11 DEF Good, p
    <3>2. yes
      OBVIOUS
    <3> HIDE DEF no, yes
    <3>3. fsd'.pos = p /\ fsd'.req_suspend = yes
      BY <1>2, <3>1 DEF IsFsd
    <3> DEFINE g == fsd'
               t == lut'
    <3>4. Suspended(g) /\ g.pos = p /\ Stacked(g) /\ Waiting(g)
      BY <3>2, <3>3 DEF Suspended
    <3>5. /\ Stored(store) /\ Unscanned(t, flash, store)
          /\ \A m \in Log : ZoneOf(m) \in t.valid_zones => Holds(t, flash, store, m)
      BY <2>8
    <3> HIDE DEF g, t
    <3>6. DataInv(t, g, flash, store)
      BY <2>9, <3>4, <3>5, WaitData
    <3> QED BY <1>1, <3>6 DEF g, t
  <2> QED BY <2>10, <2>11
<1>5. CASE SetupContinue
  <2>1. fsd.bmap_avail /\ Partial(pos) /\ lut' = lut /\ PartFlaws(pos.dst)
    BY <1>5 DEF SetupContinue
  <2>2. Works(fsd)
    BY <2>1 DEF Suspended, Works
  <2>3. NothingIn(Pages, store[pos.logical])
    BY <1>1, <2>2, SuspendedData DEF DataInv, pos
  <2>4. flash[pos.dst] = Blank /\ pos \in PosType
    BY <1>3, <2>1, Basics
  <2>5. /\ Stored(store) /\ Unscanned(lut, flash, store)
        /\ \A m \in Log : ZoneOf(m) \in lut.valid_zones => m = pos.logical \/ Holds(lut, flash, store, m)
    BY DEF DataInv, Kept, pos
  <2>6. DataInv(lut, fsd', flash, store)
    BY <1>1, <1>2, <2>1, <2>3, <2>4, <2>5, PartialData
  <2> QED BY <1>1, <2>1, <2>6
<1> QED BY <1>4, <1>5

LEMMA NodeData ==
  ASSUME IInv, MarkInv(lut, fsd, flash), DataInv(lut, fsd, flash, store), Stacked(fsd'),
         Waiting(fsd'), AllocNode
  PROVE  DataInv(lut', fsd', flash', store')
<1> DEFINE no == FALSE
           yes == TRUE
           n == IF lut.spare = 0 THEN 1 ELSE lut.spare
<1>1. /\ fsd.req_suspend /\ fsd.at = "idle" /\ flash' = flash /\ store' = store
      /\ fsd' = [fsd EXCEPT !.req_suspend = no, !.bmap_avail = yes]
      /\ lut' = lut \/ lut' = MapInsert([lut EXCEPT !.spare = n], pos.dst)
  BY DEF AllocNode, Quiet
<1>2. Suspended(fsd) /\ Works(fsd) /\ IsFsd(fsd) /\ IsLut(lut)
  BY <1>1, Basics DEF Suspended, Works
<1>3. fsd.req_fn = <<>>
  BY <1>2, Basics DEF Waiting
<1>4. yes /\ n \in Nat
  BY <1>2 DEF IsLut
<1> HIDE DEF no, yes, n
<1>5. fsd'.pos = pos /\ fsd'.bmap_avail = yes
  BY <1>1, <1>2 DEF IsFsd, pos
<1>6. lut'.block_table = lut.block_table /\ lut'.valid_zones = lut.valid_zones
  <2> DEFINE t == [lut EXCEPT !.spare = n]
  <2>1. t = [free |-> lut.free, valid_zones |-> lut.valid_zones, spare |-> n,
             block_table |-> lut.block_table, b_map |-> lut.b_map]
    BY <1>2 DEF IsLut
  <2> HIDE DEF t
  <2>2. IsLut(t) /\ t.block_table = lut.block_table /\ t.valid_zones = lut.valid_zones
    BY <1>2, <1>4, <2>1 DEF IsLut
  <2>3. lut' = lut \/ lut' = MapInsert(t, pos.dst)
    BY <1>1 DEF t
  <2> QED BY <2>2, <2>3, InsertData
<1>7. NothingIn(Pages, store[pos.logical])
  BY <1>1, <1>2, <1>3, SuspendedData DEF DataInv, pos
<1>8. /\ Stored(store) /\ Unscanned(lut, flash, store)
      /\ \A m \in Log : ZoneOf(m) \in lut.valid_zones => m = pos.logical \/ Holds(lut, flash, store, m)
  BY DEF DataInv, Kept, pos
<1> DEFINE g == fsd'
           t == lut'
<1>9. Suspended(g) /\ g.pos = pos /\ Stacked(g) /\ Waiting(g)
  BY <1>4, <1>5 DEF Suspended
<1>10. /\ Unscanned(t, flash, store)
       /\ \A m \in Log : ZoneOf(m) \in t.valid_zones => m = pos.logical \/ Holds(t, flash, store, m)
  BY <1>6, <1>8, SameHolds
<1> HIDE DEF g, t
<1>11. DataInv(t, g, flash, store)
  BY <1>7, <1>8, <1>9, <1>10, WaitData
<1> QED BY <1>1, <1>11 DEF g, t

-----------------------------------------------------------------------------
(* A scan.                                                                 *)

EnteredTo(t, fl, z, n) ==
  \A m \in ZoneLog(z) : \A b \in ZonePhy(z) : b < n /\ Labelled(fl, b, m) => t.block_table[m] = b

\* A state in which a zone is scanned.
LEMMA LookData ==
  ASSUME NEW t, NEW g, NEW fl, NEW st, g.req_fn = <<"lookup_block">>, ~ Suspended(g),
         g.at = "out" => g.req_out.end = "lookup_block", Stored(st), Unscanned(t, fl, st),
         EnteredTo(t, fl, g.pos.zone, g.scan_pos),
         \A m \in Log : ZoneOf(m) \in t.valid_zones => Holds(t, fl, st, m)
  PROVE  DataInv(t, g, fl, st)
<1>1. "lookup_block" \in Singles
  BY DEF Singles
<1>2. Single(g.req_fn) /\ g.req_fn # <<"erase_src">> /\ g.req_fn # <<"resolve">>
      /\ g.req_fn # <<"read_data">> /\ g.req_fn # <<"fill_data">>
  BY <1>1, SingleTop DEF Single
<1>3. /\ ~ Works(g) /\ ~ Erasing(g) /\ ~ Resolves(g) /\ ~ ReadsData(g) /\ ~ FillsData(g)
  BY <1>2, StackKinds DEF Works, Erasing, Resolves, ReadsData, FillsData, Out, Committing, CommitEnds
<1>4. Entered(t, g, fl) /\ ReadRight(t, g) /\ Kept(t, g, fl, st)
  BY <1>3 DEF Entered, EnteredTo, ReadRight, Kept
<1> QED BY <1>3, <1>4 DEF DataInv

\* The zone has been scanned: what it has is what its labels said.
LEMMA ScanDone ==
  ASSUME NEW fl, NEW st, Stored(st), NEW t, IsLut(t), Apart(t), NEW z \in Zones, Pristine(fl, st, z),
         EnteredTo(t, fl, z, (z + 1) * PhyPerZone),
         \A m \in ZoneLog(z) : t.block_table[m] # INVALID => Labelled(fl, t.block_table[m], m),
         Unscanned(t, fl, st),
         \A m \in Log : ZoneOf(m) \in t.valid_zones => Holds(t, fl, st, m),
         NEW u, u.block_table = t.block_table, u.valid_zones = t.valid_zones \cup {z},
         NEW g, g.req_fn = <<>>, g.at # "out", ~ Suspended(g)
  PROVE  DataInv(u, g, fl, st)
<1>1. ASSUME NEW m \in ZoneLog(z) PROVE Holds(u, fl, st, m)
  <2>1. m \in Log /\ ZoneOf(m) = z
    BY DEF ZoneLog
  <2>2. CASE t.block_table[m] = INVALID
    <3>1. ASSUME NEW b \in ZonePhy(z) PROVE ~ Labelled(fl, b, m)
      <4>1. b \in Nat /\ b \in Phy /\ b # INVALID
        BY PhyFinite, FtlAssumption DEF ZonePhy
      <4>2. b < (z + 1) * PhyPerZone
        BY <4>1, ZoneBlocks
      <4> QED BY <2>2, <4>1, <4>2 DEF EnteredTo
    <3>2. \A c \in Pages : st[m][c] = Erased
      BY <3>1 DEF Pristine
    <3> QED BY <2>2, <3>2 DEF Holds
  <2>3. CASE t.block_table[m] # INVALID
    <3> DEFINE b == t.block_table[m]
    <3>1. b \in ZonePhy(z) /\ Labelled(fl, b, m)
      BY <2>1, <2>3 DEF Apart
    <3> HIDE DEF b
    <3>2. \A c \in Pages : st[m][c] = Cell(fl, b, c)
      BY <3>1 DEF Pristine
    <3> QED BY <2>3, <3>2 DEF Holds, b
  <2> QED BY <2>2, <2>3
<1>2. \A m \in Log : ZoneOf(m) \in u.valid_zones => Holds(u, fl, st, m)
  <2> SUFFICES ASSUME NEW m \in Log, ZoneOf(m) \in u.valid_zones PROVE Holds(u, fl, st, m)
    OBVIOUS
  <2>1. CASE ZoneOf(m) = z
    BY <1>1, <2>1 DEF ZoneLog
  <2>2. CASE ZoneOf(m) # z
    BY <2>2 DEF Holds
  <2> QED BY <2>1, <2>2
<1>3. Unscanned(u, fl, st)
  BY DEF Unscanned
<1>4. ~ Works(g) /\ ~ LooksUp(g) /\ ~ Resolves(g) /\ ~ ReadsData(g) /\ ~ FillsData(g) /\ ~ Erasing(g)
  BY IdleKinds
<1>5. ReadRight(u, g)
  BY <1>4 DEF ReadRight
<1> QED BY <1>2, <1>3, <1>4, <1>5, RestStep

LEMMA ScanStartData ==
  ASSUME IInv, DataInv(lut, fsd, flash, store), SetupScan
  PROVE  DataInv(lut', fsd', flash', store')
<1> DEFINE z == Address.zone
           at == [NoPos EXCEPT !.zone = z]
           n == z * PhyPerZone
           s == <<"lookup_block">>
           a == SetAt
           i == INVALID
           g == fsd'
           t == lut'
<1>1. /\ Setting /\ t = ClearZone(lut, z) /\ flash' = flash /\ store' = store /\ Left > 0
      /\ fsd' = [fsd EXCEPT !.pos = at, !.scan_pos = n, !.conflict_pos = i, !.req_fn = s,
                            !.at = a]
      /\ ~ fsd.bmap_avail /\ z \notin lut.valid_zones
  BY DEF SetupScan, Quiet
<1>2. /\ a \in {"idle", "get"} /\ ~ Suspended(fsd) /\ IsFsd(fsd) /\ IsLut(lut) /\ z \in Zones
  BY <1>1, Suspends, Basics, AddressFields DEF Suspended
<1>3. at.zone = z
  BY DEF NoPos
<1>4. /\ t.valid_zones = lut.valid_zones
      /\ \A m \in Log \ ZoneLog(z) : t.block_table[m] = lut.block_table[m]
  <2>1. t.valid_zones = lut.valid_zones
    BY <1>1, <1>2, ClearMarks
  <2> DEFINE table == [m \in Log |-> IF m \in ZoneLog(z) THEN INVALID ELSE lut.block_table[m]]
             mapped == {lut.block_table[l] : l \in ZoneLog(z)}
             free  == [b \in Phy |-> IF b \in ZonePhy(z) THEN "no" ELSE lut.free[b]]
             bmap  == [k \in DOMAIN lut.b_map \ mapped |-> lut.b_map[k]]
             spare == lut.spare + Cardinality(mapped \cap DOMAIN lut.b_map)
  <2>2. t = [lut EXCEPT !.block_table = table, !.b_map = bmap, !.spare = spare, !.free = free]
    BY <1>1 DEF ClearZone
  <2> HIDE DEF t, free, bmap, spare, z
  <2>3. t.block_table = table
    <3> HIDE DEF table
    <3> QED BY <1>2, <2>2 DEF IsLut
  <2> QED BY <2>1, <2>3
<1> HIDE DEF z, at, n, s, a, i, t
<1>5. /\ g.pos = at /\ g.req_fn = s /\ g.at = a /\ g.scan_pos = n
      /\ g.req_suspend = fsd.req_suspend /\ g.bmap_avail = fsd.bmap_avail
  BY <1>1, <1>2 DEF IsFsd
<1> HIDE DEF g
<1>6. /\ Stored(store) /\ Unscanned(lut, flash, store)
      /\ \A m \in Log : ZoneOf(m) \in lut.valid_zones => Holds(lut, flash, store, m)
  BY <1>1, SettingData
<1>7. \A m \in Log : ZoneOf(m) \in t.valid_zones => Holds(t, flash, store, m)
  BY <1>1, <1>4, <1>6 DEF Holds, ZoneLog
<1>8. EnteredTo(t, flash, g.pos.zone, g.scan_pos)
  <2>1. \A b \in ZonePhy(z) : b \in Int
    BY PhyFinite DEF ZonePhy
  <2>2. \A b \in ZonePhy(z) : z * PhyPerZone <= b
    BY <1>2, <2>1, ZoneBlocks
  <2>3. z * PhyPerZone \in Nat
    BY <1>2, ZoneBlocks
  <2>4. \A b \in ZonePhy(z) : ~ (b < n)
    BY <2>1, <2>2, <2>3 DEF n
  <2> QED BY <1>3, <1>5, <2>4 DEF EnteredTo
<1>9. ~ Suspended(g) /\ g.at # "out" /\ Unscanned(t, flash, store)
  BY <1>2, <1>4, <1>5, <1>6 DEF Suspended, Unscanned
<1>10. DataInv(t, g, flash, store)
  BY <1>5, <1>6, <1>7, <1>8, <1>9, LookData DEF s
<1> QED BY <1>1, <1>10 DEF g, t

\* While a zone is scanned.
LEMMA LookingData ==
  ASSUME IInv, MarkInv(lut, fsd, flash), DataInv(lut, fsd, flash, store), LooksUp(fsd)
  PROVE  /\ pos.zone \in Zones /\ pos.zone \notin lut.valid_zones /\ ~ Suspended(fsd) /\ ~ Works(fsd)
         /\ Pristine(flash, store, pos.zone) /\ Stored(store) /\ Unscanned(lut, flash, store)
         /\ EnteredTo(lut, flash, pos.zone, fsd.scan_pos)
         /\ \A m \in ZoneLog(pos.zone) : lut.block_table[m] # INVALID =>
              /\ Labelled(flash, lut.block_table[m], m)
              /\ lut.block_table[m] < fsd.scan_pos
         /\ \A m \in Log : ZoneOf(m) \in lut.valid_zones => Holds(lut, flash, store, m)
<1>1. /\ pos.zone \in Zones /\ ~ Suspended(fsd) /\ Scanning(lut, fsd)
  BY ScanHere
<1>2. pos.zone \notin lut.valid_zones
  BY DEF MarkInv, pos
<1>3. ~ Works(fsd)
  <2>1. fsd.req_fn = <<"lookup_block">> /\ ~ Committing(fsd)
    <3>1. <<"lookup_block">> \notin {<<>>, <<"erase_src">>}
      BY SingleTop
    <3> QED BY <3>1, EndsWith DEF LooksUp, Committing
  <2>2. "lookup_block" \in Singles
    BY DEF Singles
  <2>3. Single(fsd.req_fn)
    BY <2>1, <2>2 DEF Single
  <2> QED BY <1>1, <2>1, <2>3, StackKinds DEF Works
<1>4. /\ Pristine(flash, store, pos.zone) /\ Stored(store) /\ Unscanned(lut, flash, store)
      /\ EnteredTo(lut, flash, pos.zone, fsd.scan_pos)
  BY <1>1, <1>2 DEF DataInv, Unscanned, Entered, EnteredTo, pos
<1>5. \A m \in ZoneLog(pos.zone) : lut.block_table[m] # INVALID =>
        /\ Labelled(flash, lut.block_table[m], m)
        /\ lut.block_table[m] < fsd.scan_pos
  BY <1>1 DEF Scanning, Labelled, pos
<1> QED BY <1>1, <1>2, <1>3, <1>4, <1>5, AllHold

LEMMA LookupData ==
  ASSUME IInv, MarkInv(lut, fsd, flash), DataInv(lut, fsd, flash, store), LookupBlock
  PROVE  DataInv(lut', fsd', flash', store')
<1> DEFINE N == ZoneCnt * PhyPerZone
           next == CHOOSE b \in fsd.scan_pos .. N :
                     /\ b \notin config.special
                     /\ \A c \in fsd.scan_pos .. b - 1 : c \in config.special
           z == pos.zone
           v == lut.valid_zones \cup {z}
<1>1. Calls("lookup_block") /\ "lookup_block" \in Singles
  BY DEF LookupBlock, Singles
<1>2. /\ Tail(fsd.req_fn) = <<>> /\ fsd.req_fn = <<"lookup_block">> /\ ~ Suspended(fsd)
      /\ fsd.at = "get"
  BY <1>1, SingleCalled
<1>3. LooksUp(fsd) /\ Scanning(lut, fsd) /\ IsLut(lut) /\ IsFsd(fsd) /\ z \in Zones /\ Apart(lut)
  BY <1>2, ScanHere, Basics DEF LooksUp
<1>4. /\ fsd.scan_pos \in Nat /\ fsd.scan_pos <= (z + 1) * PhyPerZone /\ (z + 1) * PhyPerZone <= N
      /\ N \in Nat /\ (z + 1) * PhyPerZone \in Nat
  BY <1>3, ZoneBlocks, ProductTypes DEF Scanning, pos
<1>5. /\ next \in fsd.scan_pos .. N /\ next \notin config.special
      /\ \A c \in fsd.scan_pos .. next - 1 : c \in config.special
  <2> DEFINE S == {b \in fsd.scan_pos .. N : b \notin config.special}
  <2>1. N \in S
    BY <1>4, Basics DEF Phy
  <2>2. S \subseteq Nat
    BY <1>4
  <2>3. PICK b \in S : \A c \in S : b <= c
    BY <2>1, <2>2, LeastExists
  <2>4. \A c \in fsd.scan_pos .. b - 1 : c \in config.special
    BY <1>4, <2>3
  <2> QED BY <2>3, <2>4
<1>6. /\ flash' = flash /\ store' = store
      /\ \/ Submit([fsd EXCEPT !.scan_pos = next], "READ", next, 0, 0, "lookup_block")
         \/ /\ ~ (next < ZoneEnd) /\ lut' = [lut EXCEPT !.valid_zones = v]
            /\ fsd' = [Popped EXCEPT !.scan_pos = next]
  BY DEF LookupBlock, Submit, Quiet
<1>7. /\ z \notin lut.valid_zones /\ Pristine(flash, store, z) /\ Stored(store)
      /\ Unscanned(lut, flash, store)
      /\ EnteredTo(lut, flash, z, fsd.scan_pos)
      /\ \A m \in ZoneLog(z) : lut.block_table[m] # INVALID => Labelled(flash, lut.block_table[m], m)
      /\ \A m \in Log : ZoneOf(m) \in lut.valid_zones => Holds(lut, flash, store, m)
  BY <1>3, LookingData
<1> HIDE DEF next, v, N
<1>8. EnteredTo(lut, flash, z, next)
  <2> SUFFICES ASSUME NEW m \in ZoneLog(z), NEW b \in ZonePhy(z), b < next, Labelled(flash, b, m)
               PROVE  lut.block_table[m] = b
    BY DEF EnteredTo
  <2>1. b \in Nat /\ next \in Nat
    BY <1>4, <1>5, PhyFinite DEF ZonePhy
  <2>2. b \notin config.special
    BY <1>7 DEF Pristine
  <2>3. b < fsd.scan_pos
    BY <1>4, <1>5, <2>1, <2>2
  <2> QED BY <1>7, <2>3 DEF EnteredTo
<1>9. CASE Submit([fsd EXCEPT !.scan_pos = next], "READ", next, 0, 0, "lookup_block")
  <2> DEFINE o == [cmd |-> "READ", blk |-> next, from |-> 0, cnt |-> 0, end |-> "lookup_block"]
             g == fsd'
  <2>1. fsd' = [fsd EXCEPT !.scan_pos = next, !.req_out = o, !.at = "out"] /\ lut' = lut
    BY <1>9 DEF Submit
  <2>2. o.end = "lookup_block"
    OBVIOUS
  <2> HIDE DEF o
  <2>3. /\ g.pos = fsd.pos /\ g.req_fn = fsd.req_fn /\ g.at = "out" /\ g.req_out = o
        /\ g.scan_pos = next /\ g.req_suspend = fsd.req_suspend /\ g.bmap_avail = fsd.bmap_avail
    BY <1>3, <2>1 DEF IsFsd
  <2> HIDE DEF g
  <2>4. ~ Suspended(g) /\ g.pos.zone = z
    BY <1>2, <2>3 DEF Suspended, pos
  <2>5. DataInv(lut, g, flash, store)
    BY <1>2, <1>7, <1>8, <2>2, <2>3, <2>4, LookData
  <2> QED BY <1>6, <2>1, <2>5 DEF g
<1>10. CASE /\ ~ (next < ZoneEnd) /\ lut' = [lut EXCEPT !.valid_zones = v]
            /\ fsd' = [Popped EXCEPT !.scan_pos = next]
  <2> DEFINE g == fsd'
             u == lut'
  <2>1. /\ Popped.at = "get" /\ Popped.req_fn = <<>> /\ ~ Suspended(Popped) /\ IsFsd(Popped)
    BY <1>2, <1>3, PoppedFields DEF Suspended
  <2>2. /\ g.req_fn = <<>> /\ g.at = "get"
        /\ g.req_suspend = Popped.req_suspend /\ g.bmap_avail = Popped.bmap_avail
    BY <1>10, <2>1 DEF IsFsd
  <2>3. u.block_table = lut.block_table /\ u.valid_zones = lut.valid_zones \cup {z}
    BY <1>3, <1>10 DEF IsLut, v
  <2> HIDE DEF g, u
  <2>4. EnteredTo(lut, flash, z, (z + 1) * PhyPerZone)
    <3>1. next >= (z + 1) * PhyPerZone /\ next \in Nat
      BY <1>4, <1>5, <1>10 DEF ZoneEnd
    <3>2. \A b \in ZonePhy(z) : b \in Nat
      BY PhyFinite DEF ZonePhy
    <3>3. \A b \in ZonePhy(z) : b < (z + 1) * PhyPerZone => b < next
      BY <1>4, <3>1, <3>2
    <3> QED BY <1>8, <3>3 DEF EnteredTo
  <2>5. ~ Suspended(g) /\ g.at # "out"
    BY <2>1, <2>2 DEF Suspended
  <2>6. DataInv(u, g, flash, store)
    BY <1>3, <1>7, <2>2, <2>3, <2>4, <2>5, ScanDone
  <2> QED BY <1>6, <2>6 DEF g, u
<1> QED BY <1>6, <1>9, <1>10

\* A block has been looked at, and the scan goes on or the zone is done.
LEMMA ScannedData ==
  ASSUME IInv, MarkInv(lut, fsd, flash), DataInv(lut, fsd, flash, store), LooksUp(fsd),
         fsd.at = "out", NEW t, Looked(t, pos.zone, fsd.scan_pos), t.valid_zones = lut.valid_zones,
         \A m \in Log \ ZoneLog(pos.zone) : t.block_table[m] = lut.block_table[m],
         EnteredTo(t, flash, pos.zone, fsd.scan_pos + 1),
         NEW f, IsFsd(f), SameWork(f, fsd), f.scan_pos = fsd.scan_pos, Scanned(t, f),
         flash' = flash, store' = store
  PROVE  DataInv(lut', fsd', flash', store')
<1> DEFINE z == pos.zone
           n == f.scan_pos + 1
           s == <<"lookup_block">>
           e == <<>>
           v == t.valid_zones \cup {z}
           g == fsd'
           u == lut'
<1>1. /\ z \in Zones /\ ~ Suspended(fsd) /\ Pristine(flash, store, z) /\ Stored(store)
      /\ Unscanned(lut, flash, store)
      /\ \A m \in Log : ZoneOf(m) \in lut.valid_zones => Holds(lut, flash, store, m)
      /\ z \notin lut.valid_zones
  BY LookingData
<1>2. /\ IsLut(t) /\ Apart(t)
      /\ \A m \in ZoneLog(z) : t.block_table[m] # INVALID => Labelled(flash, t.block_table[m], m)
  BY DEF Looked, Labelled
<1>3. f.pos = pos /\ ~ Suspended(f) /\ fsd.scan_pos \in Nat
  BY <1>1, ScanHere DEF SameWork, Suspended, pos
<1>4. Unscanned(t, flash, store)
  BY <1>1 DEF Unscanned
<1>5. \A m \in Log : ZoneOf(m) \in t.valid_zones => Holds(t, flash, store, m)
  BY <1>1 DEF Holds, ZoneLog
<1>6. CASE n >= ZoneEnd
  <2>1. PICK a \in {"idle", "late"} : g = AtScan(f, n, e, a)
    BY <1>6 DEF Scanned, AtScan
  <2>2. u = [t EXCEPT !.valid_zones = v]
    BY <1>6 DEF Scanned
  <2>3. n \in Nat /\ n >= (z + 1) * PhyPerZone /\ n = fsd.scan_pos + 1 /\ (z + 1) * PhyPerZone \in Nat
    BY <1>1, <1>3, <1>6, ZoneBlocks DEF ZoneEnd
  <2>4. EnteredTo(t, flash, z, (z + 1) * PhyPerZone)
    <3>1. \A b \in ZonePhy(z) : b \in Nat
      BY PhyFinite DEF ZonePhy
    <3>2. \A b \in ZonePhy(z) : b < (z + 1) * PhyPerZone => b < fsd.scan_pos + 1
      BY <2>3, <3>1
    <3> QED BY <3>2 DEF EnteredTo
  <2> HIDE DEF n, e, g, v, z
  <2>5. /\ g.req_fn = e /\ g.req_suspend = f.req_suspend /\ g.bmap_avail = f.bmap_avail /\ g.at = a
    BY <2>1, ScanFields
  <2>6. ~ Suspended(g) /\ g.at # "out"
    BY <1>3, <2>5 DEF Suspended
  <2>7. u.block_table = t.block_table /\ u.valid_zones = v
    BY <1>2, <2>2 DEF IsLut
  <2> HIDE DEF u
  <2>8. u.valid_zones = t.valid_zones \cup {z} /\ g.req_fn = <<>>
    BY <2>5, <2>7 DEF v, e
  <2>9. DataInv(u, g, flash, store)
    BY <1>1, <1>2, <1>4, <1>5, <2>4, <2>6, <2>7, <2>8, ScanDone
  <2> QED BY <2>9 DEF g, u
<1>7. CASE ~ (n >= ZoneEnd)
  <2>1. g = AtScan(f, n, s, "idle") /\ u = t
    BY <1>7 DEF Scanned, AtScan
  <2>2. n = fsd.scan_pos + 1
    OBVIOUS
  <2> HIDE DEF n, s, g, u
  <2>3. /\ g.req_fn = s /\ g.req_suspend = f.req_suspend /\ g.bmap_avail = f.bmap_avail
        /\ g.at = "idle" /\ g.pos = f.pos /\ g.scan_pos = n
    BY <2>1, ScanFields
  <2>4. ~ Suspended(g) /\ g.at # "out" /\ g.pos.zone = z
    BY <1>3, <2>3 DEF Suspended
  <2>5. DataInv(t, g, flash, store)
    BY <1>1, <1>4, <1>5, <2>2, <2>3, <2>4, LookData DEF s, z
  <2> QED BY <2>1, <2>5 DEF g, u
<1> QED BY <1>6, <1>7

LEMMA EndLookData ==
  ASSUME IInv, Counted, Good', Good => MarkInv(lut, fsd, flash) /\ DataInv(lut, fsd, flash, store),
         EndLookupBlock
  PROVE  DataInv(lut', fsd', flash', store')
<1> DEFINE here == fsd.scan_pos
           info == Info(flash[here].label)
           other == IF info.log = INVALID THEN fsd.conflict_pos ELSE lut.block_table[info.log]
           g == ReadLabel(here)
           f == [g EXCEPT !.conflict_pos = other]
           z == pos.zone
<1>1. fsd.at = "out" /\ fsd.req_out.end = "lookup_block"
  BY DEF EndLookupBlock, EndOf, out
<1>2. LooksUp(fsd)
  BY <1>1, EndsWith
<1>3. /\ here \in Phy /\ here \in Nat /\ here \in ZonePhy(z) /\ IsLabel(flash[here].label)
      /\ z \in Zones
  BY <1>1, <1>2, ScanHere, SMTT(30)
<1>4. PICK r \in Results :
        /\ Ended(r)
        /\ r.error = "no" =>
             /\ Keeps
             /\ \/ info.status = "unmapped" /\ Scanned(Dirtied(lut, here), f)
                \/ /\ info.status = "mapped" /\ other = INVALID
                   /\ Scanned(IF info.log = INVALID THEN lut ELSE Mapped(lut, info.log, here), f)
                \/ info.status = "mapped" /\ other # INVALID
                \/ info.status \in {"bad", "failure", "selected"}
  <2> HIDE DEF info, here
  <2> QED BY ZenonT(30) DEF EndLookupBlock, Dirtied, Mapped, here, info
<1>5. Good /\ Well(r) /\ MarkInv(lut, fsd, flash) /\ OutRight(fsd) /\ DataInv(lut, fsd, flash, store)
  BY <1>4, GoodEnd DEF MarkInv
<1>6. flash' = flash /\ r.error = "no"
  BY <1>1, <1>5, EndEffect DEF Well, Reading, out
<1>7. store' = store
  BY <1>4, <1>6 DEF Keeps
<1>8. IsFsd(g) /\ SameWork(g, fsd) /\ SameScan(g, fsd)
  BY <1>3, ReadFields
<1> HIDE DEF g
<1>9. IsFsd(f) /\ SameWork(f, fsd) /\ f.scan_pos = fsd.scan_pos
  BY <1>8, ConflictFields DEF SameWork, SameScan
<1>10. /\ Pristine(flash, store, z) /\ EnteredTo(lut, flash, z, here)
       /\ \A m \in ZoneLog(z) : lut.block_table[m] # INVALID =>
            Labelled(flash, lut.block_table[m], m) /\ lut.block_table[m] < here
  BY <1>2, <1>5, LookingData
<1>11. /\ Looked(Dirtied(lut, here), z, here)
       /\ \A l \in ZoneLog(z) : flash[here].label.log = l => Looked(Mapped(lut, l, here), z, here)
  BY <1>1, <1>2, LookedAt
<1>12. /\ Frees(Dirtied(lut, here)) /\ \A l \in ZoneLog(z) : Frees(Mapped(lut, l, here))
  BY <1>1, <1>2, <1>5, ScanFrees
<1>13. \A m \in ZoneLog(z) : m \in Log /\ m # INVALID /\ ZoneOf(m) = z
  BY FtlAssumption DEF ZoneLog
<1>14. z # -1
  BY <1>3, FtlAssumption DEF Zones
<1>15. \A b \in ZonePhy(z) : b \in Nat
  BY PhyFinite DEF ZonePhy
<1> HIDE DEF f, other
<1>16. CASE flash[here].label = NoLabel
  <2> DEFINE t == Dirtied(lut, here)
  <2>1. info.status = "unmapped"
    BY <1>14, <1>16 DEF Info, NoLabel, ZoneOf
  <2>2. Scanned(t, f)
    BY <1>4, <1>6, <2>1
  <2>3. t.block_table = lut.block_table
    BY Basics DEF Dirtied, Put, IsLut
  <2> HIDE DEF t
  <2>4. EnteredTo(t, flash, z, here + 1)
    <3> SUFFICES ASSUME NEW m \in ZoneLog(z), NEW b \in ZonePhy(z), b < here + 1,
                        Labelled(flash, b, m)
                 PROVE  t.block_table[m] = b
      BY DEF EnteredTo
    <3>1. b # here
      BY <1>13, <1>16 DEF Labelled, NoLabel
    <3>2. b < here
      BY <1>3, <1>15, <3>1
    <3> QED BY <1>10, <2>3, <3>2 DEF EnteredTo
  <2>5. Looked(t, z, here) /\ Frees(t)
    BY <1>11, <1>12 DEF t
  <2> QED BY <1>1, <1>2, <1>5, <1>6, <1>7, <1>9, <2>2, <2>3, <2>4, <2>5, ScannedData DEF Frees
<1>17. CASE \E m \in ZoneLog(z) : flash[here].label = MappedTo(m)
  <2>1. PICK l \in ZoneLog(z) : flash[here].label = MappedTo(l)
    BY <1>17
  <2> DEFINE t == Mapped(lut, l, here)
  <2>2. info.status = "mapped" /\ info.log = l /\ flash[here].label.log = l
    BY <1>13, <2>1 DEF Info, MappedTo
  <2>3. \A d \in ZonePhy(z) : Labelled(flash, d, l) => d = here
    BY <1>3, <1>10, <2>2 DEF Pristine, Labelled
  <2>4. lut.block_table[l] = INVALID
    <3> SUFFICES ASSUME lut.block_table[l] # INVALID PROVE FALSE
      OBVIOUS
    <3>1. lut.block_table[l] \in ZonePhy(z)
      BY <1>13, Basics DEF Apart
    <3>2. lut.block_table[l] = here /\ lut.block_table[l] < here
      BY <1>10, <2>3, <3>1
    <3> QED BY <1>3, <3>2
  <2>5. other = INVALID
    BY <1>13, <2>2, <2>4 DEF other
  <2>6. Scanned(t, f)
    BY <1>4, <1>6, <1>13, <2>2, <2>5
  <2>7. \A m \in Log : t.block_table[m] = IF m = l THEN here ELSE lut.block_table[m]
    BY <1>13, Basics DEF Mapped, IsLut
  <2>8. Looked(t, z, here) /\ Frees(t)
    BY <1>11, <1>12, <2>2
  <2> HIDE DEF t
  <2>9. EnteredTo(t, flash, z, here + 1)
    <3> SUFFICES ASSUME NEW m \in ZoneLog(z), NEW b \in ZonePhy(z), b < here + 1,
                        Labelled(flash, b, m)
                 PROVE  t.block_table[m] = b
      BY DEF EnteredTo
    <3>1. CASE m = l
      BY <1>13, <2>3, <2>7, <3>1
    <3>2. CASE m # l
      <4>1. b # here
        BY <2>2, <3>2 DEF Labelled
      <4>2. b < here
        BY <1>3, <1>15, <4>1
      <4> QED BY <1>10, <1>13, <2>7, <3>2, <4>2 DEF EnteredTo
    <3> QED BY <3>1, <3>2
  <2>10. \A m \in Log \ ZoneLog(z) : t.block_table[m] = lut.block_table[m]
    BY <2>7
  <2> QED BY <1>1, <1>2, <1>5, <1>6, <1>7, <1>9, <2>6, <2>8, <2>9, <2>10, ScannedData DEF Frees
<1>18. flash[here].label = NoLabel \/ \E m \in ZoneLog(z) : flash[here].label = MappedTo(m)
  BY <1>3, <1>10 DEF Pristine
<1> QED BY <1>16, <1>17, <1>18

\* Nothing is left to resolve.
LEMMA EndResolveData ==
  ASSUME IInv, Counted, Good', Good => DataInv(lut, fsd, flash, store), EndResolve
  PROVE  FALSE
<1>1. fsd.at = "out" /\ fsd.req_out.end = "resolve"
  BY Zenon DEF EndResolve, EndOf, out
<1>2. PICK r \in Results : Ended(r)
  BY Zenon DEF EndResolve
<1>3. DataInv(lut, fsd, flash, store)
  BY <1>2, GoodEnd
<1> QED BY <1>1, <1>3 DEF DataInv, Resolves

-----------------------------------------------------------------------------
(* The request.                                                            *)

LEMMA RestAsked ==
  ASSUME IsReq(client), NEW g, client.ver \in Nat, client.op # "write" \/ g = {}, NEW n
  PROVE  Asked(Rest(n), g)
<1>1. CASE n = 0 \/ n = client.len
  BY <1>1 DEF Rest, Asked, NoReq
<1>2. CASE ~ (n = 0 \/ n = client.len)
  <2> DEFINE c == Rest(n)
  <2>1. c = [op |-> client.op, at |-> client.at + n, len |-> client.len - n,
             ver |-> client.ver]
    BY <1>2 DEF Rest, IsReq
  <2> HIDE DEF c
  <2>2. c.op = client.op /\ c.ver = client.ver
    BY <2>1
  <2> QED BY <2>2 DEF Asked, c
<1> QED BY <1>1, <1>2

\* While a write is under way there is nothing that has been read.
LEMMA WriteReads ==
  ASSUME IInv, Asked(client, got), fsd.req_in.op = "write"
  PROVE  got = {}
BY Basics DEF Asked, NoReq

\* Most steps read nothing, and write only what a write has to.
LEMMA OthersGot ==
  ASSUME IInv, Asked(client, got), GotRight(store, got), got' = got,
         store' = store \/ fsd.req_in.op = "write",
         client' = client \/ \E n : client' = Rest(n)
  PROVE  Asked(client', got') /\ GotRight(store', got')
<1>1. IsReq(client) /\ client.ver \in Nat /\ (client.op # "write" \/ got = {})
  BY Basics DEF Asked
<1>2. Asked(client', got')
  BY <1>1, RestAsked
<1>3. CASE store' = store
  BY <1>2, <1>3
<1>4. CASE fsd.req_in.op = "write"
  BY <1>2, <1>4, WriteReads DEF GotRight
<1> QED BY <1>3, <1>4

LEMMA AboveGot ==
  ASSUME IInv, used.requests \in Nat, Asked(client, got), GotRight(store, got),
         NewRequest \/ Ask \/ FetchReq \/ Setup \/ AllocNode
  PROVE  Asked(client', got') /\ GotRight(store', got')
<1>1. CASE NewRequest
  <2>1. PICK op \in {"read", "write"}, s \in Shapes :
          client' = [op |-> op, at |-> s[1], len |-> s[2],
                     ver |-> IF op = "write" THEN used.requests + 1 ELSE 0]
    BY <1>1 DEF NewRequest
  <2>2. client'.ver \in Nat
    BY <2>1
  <2>3. got' = {}
    BY <1>1 DEF NewRequest
  <2> QED BY <2>2, <2>3 DEF Asked, GotRight
<1>2. CASE Ask \/ FetchReq
  BY <1>2, OthersGot DEF Ask, FetchReq
<1>3. CASE Setup
  <2>1. /\ got' = got /\ store' = store
        /\ client' = client \/ \E n : client' = Rest(n)
    BY <1>3 DEF Setup, SetupFails, SetupDone, SetupScan, SetupRead, SetupMerge, SetupNoSpace,
                SetupInPlace, SetupCopy, SetupNewFull, SetupNewPart, SetupContinue, Quiet, Complete
  <2> QED BY <2>1, OthersGot
<1>4. CASE AllocNode
  BY <1>4, OthersGot DEF AllocNode, Quiet
<1> QED BY <1>1, <1>2, <1>3, <1>4

LEMMA FnsGot ==
  ASSUME IInv, DataInv(lut, fsd, flash, store), Asked(client, got), GotRight(store, got),
         Fns, ~ FillData
  PROVE  Asked(client', got') /\ GotRight(store', got')
<1>1. CASE WriteLast \/ CopyLast
  <2>1. PICK fn \in {"write_last", "copy_last"} : Calls(fn)
    BY <1>1 DEF WriteLast, CopyLast, SubmitLast
  <2>2. fn \in Early \cup Commits
    BY DEF Commits
  <2>3. fsd.req_in.op = "write"
    BY <2>1, <2>2, DataHere DEF DataInv
  <2>4. got' = got /\ client' = client
    BY <1>1 DEF WriteLast, CopyLast, SubmitLast, Submit, Quiet
  <2> QED BY <2>3, <2>4, OthersGot
<1>2. CASE ~ (WriteLast \/ CopyLast)
  <2>1. got' = got /\ client' = client /\ store' = store
    BY <1>2 DEF Fns, LookupBlock, Resolve, InvalidateDst, EraseSrc, EraseDst, SelectSrc,
                MergeData, WriteData, ReadData, ReadFirst, ReadLast, WriteFirst, CopyFirst,
                Submit, Skip, Quiet
  <2> QED BY <2>1, OthersGot
<1> QED BY <1>1, <1>2

\* What is read is what the block holds, or nothing where there is none.
LEMMA ReadGot ==
  ASSUME IInv, DataInv(lut, fsd, flash, store), ReadsData(fsd) \/ FillsData(fsd), ~ Works(fsd),
         Asked(client, got), GotRight(store, got), store' = store,
         client' = client \/ \E n : client' = Rest(n),
         NEW n \in 0 .. pos.len, NEW S, got' = got \cup S,
         \A x \in S : \E p \in pos.off .. pos.off + n - 1 :
           x = <<pos.logical, p, IF ReadsData(fsd) THEN Cell(flash, pos.src, p) ELSE Erased>>
  PROVE  Asked(client', got') /\ GotRight(store', got')
<1> DEFINE v == [p \in Pages |-> IF ReadsData(fsd) THEN Cell(flash, pos.src, p) ELSE Erased]
<1>1. /\ fsd.req_in.op = "read" /\ pos.logical \in Log
      /\ ZoneOf(pos.logical) \in lut.valid_zones /\ AfterOf(pos) <= PageCnt
      /\ lut.block_table[pos.logical] = pos.src
      /\ ReadsData(fsd) <=> pos.src # INVALID
  BY DEF DataInv, ReadRight, pos
<1>2. Holds(lut, flash, store, pos.logical)
  BY <1>1, AllHold
<1>3. pos.off \in Nat /\ pos.len \in Nat /\ PageCnt \in Nat
  BY Basics, FtlAssumption DEF PosType
<1>4. pos.off .. pos.off + n - 1 \subseteq Pages
  BY <1>1, <1>3 DEF Pages, AfterOf
<1>5. ASSUME NEW p \in Pages PROVE store[pos.logical][p] = v[p]
  BY <1>1, <1>2 DEF Holds, v
<1> HIDE DEF v
<1>6. GotRight(store', got')
  <2> SUFFICES ASSUME NEW x \in got'
               PROVE  x[1] \in Log /\ x[2] \in Pages /\ store[x[1]][x[2]] = x[3]
    BY DEF GotRight
  <2>1. CASE x \in got
    BY <2>1 DEF GotRight
  <2>2. CASE x \notin got
    <3>1. PICK p \in pos.off .. pos.off + n - 1 : x = <<pos.logical, p, v[p]>>
      BY <1>4, <2>2 DEF v
    <3>2. p \in Pages
      BY <1>4
    <3>3. x[1] = pos.logical /\ x[2] = p /\ x[3] = v[p]
      BY <3>1
    <3> QED BY <1>1, <1>5, <3>2, <3>3
  <2> QED BY <2>1, <2>2
<1>7. IsReq(client) /\ client.ver \in Nat /\ client.op # "write"
  BY <1>1, Basics DEF Asked, NoReq
<1>8. Asked(client', got')
  BY <1>7, RestAsked DEF Asked
<1> QED BY <1>6, <1>8

LEMMA FillGot ==
  ASSUME IInv, MarkInv(lut, fsd, flash), DataInv(lut, fsd, flash, store),
         Asked(client, got), GotRight(store, got), FillData
  PROVE  Asked(client', got') /\ GotRight(store', got')
<1> DEFINE S == {<<pos.logical, p, Erased>> : p \in pos.off .. After - 1}
<1>1. /\ fsd.req_fn = <<"fill_data">> /\ fsd.at = "get" /\ ~ Works(fsd)
  BY SingleCalled DEF FillData, Singles
<1>2. FillsData(fsd) /\ ~ ReadsData(fsd)
  <2>1. <<"fill_data">> # <<"read_data">>
    BY SingleTop
  <2> QED BY <1>1, <2>1 DEF FillsData, ReadsData, Out
<1>3. /\ store' = store /\ got' = got \cup S
      /\ client' = client \/ \E n : client' = Rest(n)
  BY DEF FillData, Complete
<1>4. pos.len \in 0 .. pos.len
  BY Basics DEF PosType
<1>5. \A x \in S : \E p \in pos.off .. pos.off + pos.len - 1 :
        x = <<pos.logical, p, IF ReadsData(fsd) THEN Cell(flash, pos.src, p) ELSE Erased>>
  <2> SUFFICES ASSUME NEW x \in S
               PROVE  \E p \in pos.off .. pos.off + pos.len - 1 :
                        x = <<pos.logical, p, IF ReadsData(fsd) THEN Cell(flash, pos.src, p) ELSE Erased>>
    OBVIOUS
  <2>1. PICK p \in pos.off .. After - 1 : x = <<pos.logical, p, Erased>>
    OBVIOUS
  <2>2. p \in pos.off .. pos.off + pos.len - 1
    BY Basics DEF After, PosType
  <2>3. (IF ReadsData(fsd) THEN Cell(flash, pos.src, p) ELSE Erased) = Erased
    BY <1>2
  <2>4. x = <<pos.logical, p, IF ReadsData(fsd) THEN Cell(flash, pos.src, p) ELSE Erased>>
    BY <2>1, <2>3
  <2> QED BY <2>2, <2>4
<1> HIDE DEF S
<1> QED BY <1>1, <1>2, <1>3, <1>4, <1>5, ReadGot

LEMMA EndReadGot ==
  ASSUME IInv, DataInv(lut, fsd, flash, store), Asked(client, got), GotRight(store, got),
         EndReadData
  PROVE  Asked(client', got') /\ GotRight(store', got')
<1>1. fsd.at = "out" /\ fsd.req_out.end = "read_data" /\ store' = store
  BY DEF EndReadData, EndOf, out
<1>2. PICK n \in 0 .. pos.len :
        /\ got' = got \cup {<<pos.logical, p, Reads(flash[pos.src].pages[p])>> :
                              p \in pos.off .. pos.off + n - 1}
        /\ client' = client \/ \E m : client' = Rest(m)
  BY DEF EndReadData, Complete
<1> DEFINE S == {<<pos.logical, p, Reads(flash[pos.src].pages[p])>> : p \in pos.off .. pos.off + n - 1}
<1>3. ReadsData(fsd)
  BY <1>1 DEF ReadsData, Out
<1>4. ~ Works(fsd)
  <2>1. "read_data" \in LastEnds /\ "read_data" \notin CommitEnds
    BY DEF LastEnds, CommitEnds
  <2>2. fsd.req_fn = <<>> /\ ~ Suspended(fsd)
    BY <1>1, <2>1, EndsWith, NotWaiting
  <2>3. ~ Body(<<>>) /\ ~ Copying(<<>>)
    BY StackKinds
  <2> QED BY <1>1, <2>1, <2>2, <2>3 DEF Works, Committing
<1>5. \A x \in S : \E p \in pos.off .. pos.off + n - 1 :
        x = <<pos.logical, p, IF ReadsData(fsd) THEN Cell(flash, pos.src, p) ELSE Erased>>
  BY <1>3 DEF Cell
<1>6. got' = got \cup S
  BY <1>2
<1> HIDE DEF S
<1> QED BY <1>1, <1>2, <1>3, <1>4, <1>5, <1>6, ReadGot

LEMMA EndsGot ==
  ASSUME IInv, Counted, Good', Good => MarkInv(lut, fsd, flash) /\ DataInv(lut, fsd, flash, store),
         Asked(client, got), GotRight(store, got), Ends, ~ EndReadData
  PROVE  Asked(client', got') /\ GotRight(store', got')
<1>1. PICK r \in Results : Ended(r)
  BY Zenon DEF Ends, EndLookupBlock, EndResolve, EndInvalidateDst, EndEraseSrc, EndEraseDst,
               EndSelectSrc, EndMergeData, EndWriteData, EndCopyFirst, EndCopyLast, EndReadRest,
               EndReadData
<1>2. MarkInv(lut, fsd, flash) /\ DataInv(lut, fsd, flash, store)
  BY <1>1, GoodEnd
<1>3. CASE EndLookupBlock
  <2>1. PICK q \in Results : Ended(q) /\ (q.error = "no" => Keeps)
    BY <1>3, ZenonT(30) DEF EndLookupBlock
  <2>2. Keeps
    BY <2>1, GoodEnd DEF Well
  <2>3. got' = got
    BY <1>3 DEF EndLookupBlock
  <2> QED BY <2>2, <2>3, OthersGot DEF Keeps
<1>4. CASE EndResolve \/ EndEraseSrc
  <2>1. Keeps /\ got' = got
    BY <1>4, Zenon DEF EndResolve, EndEraseSrc
  <2> QED BY <2>1, OthersGot DEF Keeps
<1>5. CASE EndInvalidateDst
  BY <1>2, <1>5 DEF EndInvalidateDst, EndOf, out, MarkInv, OutRight
<1>6. CASE \/ EndEraseDst \/ EndSelectSrc \/ EndMergeData \/ EndWriteData \/ EndCopyFirst
           \/ EndCopyLast \/ EndReadRest
  <2>1. fsd.at = "out" /\ fsd.req_out.end \in EarlyEnds \cup CommitEnds
    BY <1>6 DEF EndEraseDst, EndSelectSrc, EndMergeData, EndWriteData, EndCopyFirst, EndCopyLast,
                EndReadRest, EndOf, out, EarlyEnds, CommitEnds
  <2>2. Works(fsd)
    BY <2>1, EndsWith DEF Works, Committing
  <2>3. fsd.req_in.op = "write"
    BY <1>2, <2>2 DEF DataInv
  <2>4. got' = got /\ (client' = client \/ \E n : client' = Rest(n))
    BY <1>6 DEF EndEraseDst, EndSelectSrc, EndMergeData, EndWriteData, EndCopyFirst, EndCopyLast,
                EndReadRest, EndAbort, Invalidates, Nothing, Keeps, Complete
  <2> QED BY <2>3, <2>4, OthersGot
<1> QED BY <1>3, <1>4, <1>5, <1>6 DEF Ends

-----------------------------------------------------------------------------
(* The start.                                                              *)

\* The blocks that hold data at the start are each in a place of its own.
LEMMA HomeBlocks ==
  ASSUME NEW l \in Log
  PROVE  Home(l) \in ZonePhy(ZoneOf(l)) /\ \A m \in Log : Home(m) = Home(l) => m = l
<1>1. ASSUME NEW m \in Log
      PROVE  /\ Home(m) = ZoneOf(m) * PhyPerZone + (m % LogPerZone)
             /\ Home(m) \in ZonePhy(ZoneOf(m)) /\ m % LogPerZone \in Nat
             /\ ZoneOf(m) * PhyPerZone \in Nat
             /\ m = LogPerZone * ZoneOf(m) + (m % LogPerZone)
  <2> DEFINE z == ZoneOf(m)
             r == m % LogPerZone
  <2>1. m \in Nat /\ z \in Zones /\ z = m \div LogPerZone
    BY LogZone DEF ZoneOf
  <2>2. /\ LogPerZone \in Nat \ {0} /\ PhyPerZone \in Nat \ {0} /\ LogPerZone <= PhyPerZone
        /\ z \in Nat
    BY <2>1, FtlAssumption DEF Zones
  <2>3. r \in Nat /\ r < LogPerZone
    BY <2>1, <2>2, Quotient
  <2>4. \A a \in Nat, b \in Nat \ {0} : a = b * (a \div b) + (a % b)
    OBVIOUS
  <2>5. m = LogPerZone * z + r
    BY <2>1, <2>2, <2>4
  <2>6. Home(m) = z * PhyPerZone + r
    BY DEF Home
  <2>7. \A a, b \in Nat : (a + 1) * b = a * b + b /\ a * b \in Nat
    OBVIOUS
  <2>8. (z + 1) * PhyPerZone = z * PhyPerZone + PhyPerZone /\ z * PhyPerZone \in Nat
    BY <2>2, <2>7
  <2> HIDE DEF z, r
  <2>9. /\ Home(m) \in Int /\ z * PhyPerZone <= Home(m) /\ Home(m) < (z + 1) * PhyPerZone
    BY <2>2, <2>3, <2>6, <2>8
  <2>10. Home(m) \in ZonePhy(z)
    BY <2>1, <2>9, ZoneBlocks
  <2> QED BY <2>3, <2>5, <2>6, <2>8, <2>10 DEF z, r
<1>2. ASSUME NEW m \in Log, Home(m) = Home(l) PROVE m = l
  <2>1. ZoneOf(m) = ZoneOf(l)
    BY <1>1, <1>2 DEF ZonePhy
  <2>2. m % LogPerZone = l % LogPerZone
    <3> DEFINE x == m % LogPerZone
               y == l % LogPerZone
               q == ZoneOf(l) * PhyPerZone
    <3>1. x \in Nat /\ y \in Nat /\ q \in Nat /\ q + x = q + y
      BY <1>1, <1>2, <2>1
    <3> HIDE DEF x, y, q
    <3>2. x = y
      BY <3>1
    <3> QED BY <3>2 DEF x, y
  <2> QED BY <1>1, <2>1, <2>2
<1> QED BY <1>1, <1>2

LEMMA InitPristine ==
  ASSUME Init, NEW z \in Zones
  PROVE  Pristine(flash, store, z) /\ Stored(store)
<1> DEFINE logs == {l \in Written : Home(l) \notin config.special}
           page(l) == [p \in Pages |-> IF l \in logs THEN Old ELSE Erased]
<1>1. logs \subseteq Log /\ Old \in Nat
  BY FtlAssumption DEF Old
<1>2. store = [l \in Log |-> page(l)]
  BY DEF Init
<1>3. flash = [b \in Phy |-> IF \E l \in logs : Home(l) = b
                             THEN LET l == CHOOSE l \in logs : Home(l) = b
                                  IN [label |-> MappedTo(l), pages |-> store[l]]
                             ELSE Blank]
  BY DEF Init
<1>4. ASSUME NEW l \in Log, NEW c \in Pages
      PROVE  /\ store[l][c] = IF l \in logs THEN Old ELSE Erased
             /\ Reads(store[l][c]) = store[l][c]
  <2>1. store[l][c] = IF l \in logs THEN Old ELSE Erased
    BY <1>2, <1>4
  <2>2. Old \in Nat /\ Erased \in Nat
    BY <1>1 DEF Erased
  <2> QED BY <2>1, <2>2, VersionRead
<1>5. Stored(store)
  BY <1>2 DEF Stored
<1>6. \A l \in logs : Home(l) \in Phy /\ Home(l) \notin config.special
  BY <1>1, HomeBlocks DEF ZonePhy
<1> HIDE DEF logs, page
<1>7. ASSUME NEW b \in Phy, NEW l \in logs, Home(l) = b
      PROVE  flash[b] = [label |-> MappedTo(l), pages |-> store[l]]
  <2> DEFINE k == CHOOSE k \in logs : Home(k) = b
  <2>1. k \in logs /\ Home(k) = b
    BY <1>7
  <2>2. flash[b] = [label |-> MappedTo(k), pages |-> store[k]]
    BY <1>3, <1>7
  <2> HIDE DEF k
  <2>3. k = l
    BY <1>1, <1>7, <2>1, HomeBlocks
  <2> QED BY <2>2, <2>3
<1>13. ASSUME NEW l \in logs
       PROVE  /\ Home(l) \in Phy /\ Home(l) \in ZonePhy(ZoneOf(l))
              /\ flash[Home(l)].label = MappedTo(l) /\ flash[Home(l)].pages = store[l]
              /\ MappedTo(l).log = l
  <2>1. Home(l) \in Phy /\ Home(l) \in ZonePhy(ZoneOf(l))
    BY <1>1, <1>6, <1>13, HomeBlocks
  <2>2. flash[Home(l)] = [label |-> MappedTo(l), pages |-> store[l]]
    BY <1>7, <1>13, <2>1
  <2>3. MappedTo(l).log = l
    BY DEF MappedTo
  <2> QED BY <2>1, <2>2, <2>3
<1>8. ASSUME NEW b \in Phy, ~ \E l \in logs : Home(l) = b
      PROVE  flash[b].label = NoLabel
  BY <1>3, <1>8 DEF Blank
<1>9. ASSUME NEW b \in ZonePhy(z)
      PROVE  \/ flash[b].label = NoLabel
             \/ \E m \in ZoneLog(z) : flash[b].label = MappedTo(m)
  <2>1. b \in Phy /\ b \div PhyPerZone = z
    BY DEF ZonePhy
  <2>2. ASSUME NEW l \in logs, Home(l) = b
        PROVE  l \in ZoneLog(z) /\ flash[b].label = MappedTo(l)
    <3>1. l \in Log /\ ZoneOf(l) = z
      BY <1>1, <1>13, <2>1, <2>2 DEF ZonePhy
    <3>2. flash[b].label = MappedTo(l)
      BY <1>13, <2>2
    <3> QED BY <3>1, <3>2 DEF ZoneLog
  <2> QED BY <1>8, <2>1, <2>2
<1>10. ASSUME NEW m \in ZoneLog(z), NEW b \in ZonePhy(z), Labelled(flash, b, m)
       PROVE  m \in logs /\ Home(m) = b
  <2>1. b \in Phy /\ m \in Log /\ m # INVALID
    BY LogZone DEF ZonePhy, ZoneLog
  <2>2. PICK l \in logs : Home(l) = b
    BY <1>8, <1>10, <2>1 DEF Labelled, NoLabel
  <2>3. flash[b].label.log = l
    BY <1>13, <2>2
  <2> QED BY <1>10, <2>2, <2>3 DEF Labelled
<1>11. ASSUME NEW m \in ZoneLog(z), NEW b \in ZonePhy(z), Labelled(flash, b, m)
       PROVE  /\ b \notin config.special
              /\ \A c \in Pages : store[m][c] = Cell(flash, b, c)
              /\ \A d \in ZonePhy(z) : Labelled(flash, d, m) => d = b
  <2>1. m \in logs /\ Home(m) = b /\ b \in Phy /\ m \in Log
    BY <1>10, <1>11 DEF ZonePhy, ZoneLog
  <2>2. flash[b].pages = store[m]
    BY <1>13, <2>1
  <2>3. \A c \in Pages : store[m][c] = Cell(flash, b, c)
    BY <1>4, <2>1, <2>2 DEF Cell
  <2>4. \A d \in ZonePhy(z) : Labelled(flash, d, m) => d = b
    BY <1>10, <2>1
  <2> QED BY <1>6, <2>1, <2>3, <2>4
<1>12. ASSUME NEW m \in ZoneLog(z), \A b \in ZonePhy(z) : ~ Labelled(flash, b, m), NEW c \in Pages
       PROVE  store[m][c] = Erased
  <2>1. m \in Log /\ ZoneOf(m) = z
    BY DEF ZoneLog
  <2>2. ASSUME m \in logs PROVE FALSE
    <3>1. Home(m) \in ZonePhy(z) /\ Home(m) \in Phy
      BY <2>1, HomeBlocks DEF ZonePhy
    <3>2. flash[Home(m)].label.log = m
      BY <1>13, <2>2
    <3> QED BY <1>12, <3>1, <3>2 DEF Labelled
  <2> QED BY <1>4, <2>1, <2>2
<1> QED BY <1>5, <1>9, <1>11, <1>12 DEF Pristine

LEMMA InitData == Init => DInv
<1> SUFFICES ASSUME Init PROVE DInv
  OBVIOUS
<1>1. lut = NewLut /\ fsd = NewFsd /\ client = NoReq /\ got = {} /\ used.requests = 0
  BY DEF Init
<1>2. MInv
  BY InitMarks
<1>3. lut.valid_zones = {}
  BY <1>1 DEF NewLut
<1>4. \A z \in Zones : Pristine(flash, store, z) /\ Stored(store)
  BY InitPristine
<1>5. 0 \in Zones
  BY FtlAssumption DEF Zones
<1>6. ~ Works(fsd) /\ ~ LooksUp(fsd) /\ ~ Resolves(fsd) /\ ~ ReadsData(fsd) /\ ~ FillsData(fsd)
      /\ ~ Erasing(fsd)
  BY <1>1, NewRest, IdleKinds
<1>7. ReadRight(lut, fsd)
  BY <1>6 DEF ReadRight
<1>8. Unscanned(lut, flash, store) /\ Stored(store)
  BY <1>4, <1>5 DEF Unscanned
<1>9. DataInv(lut, fsd, flash, store)
  BY <1>3, <1>6, <1>7, <1>8, RestStep
<1>10. Asked(client, got) /\ GotRight(store, got)
  BY <1>1 DEF Asked, GotRight, NoReq
<1> QED BY <1>1, <1>2, <1>9, <1>10 DEF DInv

-----------------------------------------------------------------------------
(* All steps.                                                              *)

LEMMA NextData == DInv /\ [Next]_vars => DInv'
<1> SUFFICES ASSUME DInv, [Next]_vars PROVE DInv'
  OBVIOUS
<1>1. MInv /\ IInv /\ Counted /\ used.requests \in Nat
  BY DEF DInv, MInv
<1>2. MInv' /\ IInv' /\ config' = config /\ (Good' => Good) /\ (Crash \/ Notify => ~ Good')
      /\ used'.requests \in Nat
  BY <1>1, NextMarks, NextInv, Remembered
<1>3. Stacked(fsd') /\ Waiting(fsd')
  <2>1. Stacked(fsd)' /\ Waiting(fsd)'
    BY <1>2 DEF IInv
  <2>2. Stacked(fsd)' = Stacked(fsd')
    BY DEF Stacked, Single, Body, Copying
  <2>3. Waiting(fsd)' = Waiting(fsd')
    BY DEF Waiting, Suspended
  <2> QED BY <2>1, <2>2, <2>3
<1>4. ASSUME Good'
      PROVE  DataInv(lut', fsd', flash', store') /\ Asked(client', got') /\ GotRight(store', got')
  <2>1. /\ Good /\ MarkInv(lut, fsd, flash) /\ DataInv(lut, fsd, flash, store)
        /\ Asked(client, got) /\ GotRight(store, got) /\ ~ (Crash \/ Notify)
        /\ "unerased" \notin flaws' /\ fsd.req_in.ver \in Nat
    BY <1>1, <1>2, <1>4, VersionKnown DEF DInv, MInv, Good
  <2>2. CASE NewRequest \/ Ask \/ FetchReq
    BY <1>1, <2>1, <2>2, AboveData, AboveGot
  <2>3. CASE Setup
    <3>1. DataInv(lut', fsd', flash', store')
      BY <1>1, <1>3, <2>1, <2>3, OtherSetupData, ScanStartData, WriteSetupData, PartSetupData
         DEF Setup
    <3> QED BY <1>1, <2>1, <2>3, <3>1, AboveGot
  <2>4. CASE AllocNode
    BY <1>1, <1>3, <2>1, <2>4, NodeData, AboveGot
  <2>5. CASE Fns
    <3>1. DataInv(lut', fsd', flash', store')
      BY <1>1, <1>3, <2>1, <2>5, LookupData, EraseData, ReadFnData, WriteFirstData, CopyFirstData,
         CommitFnData, SingleFnData DEF Fns
    <3> QED BY <1>1, <2>1, <2>5, <3>1, FnsGot, FillGot
  <2>6. CASE Ends
    <3>1. DataInv(lut', fsd', flash', store')
      BY <1>1, <1>3, <1>4, <2>1, <2>6, EndLookData, EndResolveData, EarlyEndsData, CommitEndData,
         LastEndData DEF Ends
    <3> QED BY <1>1, <1>4, <2>1, <2>6, <3>1, EndsGot, EndReadGot
  <2>7. CASE UNCHANGED vars
    BY <2>1, <2>7 DEF vars
  <2> QED BY <2>1, <2>2, <2>3, <2>4, <2>5, <2>6, <2>7 DEF Next
<1>5. (Good => DataInv(lut, fsd, flash, store) /\ Asked(client, got) /\ GotRight(store, got))'
  BY <1>2, <1>4, SameDataInv DEF Asked, GotRight
<1> QED BY <1>2, <1>5 DEF DInv

LEMMA InvData ==
  ASSUME DInv, config.mode = "inc", used.troubles = 0
  PROVE  DataKept /\ ReadsRight
<1>1. SUFFICES ASSUME ~ Excused PROVE DataKept /\ ReadsRight
  BY DEF DataKept, ReadsRight
<1>2. DataInv(lut, fsd, flash, store) /\ GotRight(store, got)
  BY <1>1 DEF DInv, Good, Excused
<1>3. DataKept
  <2> SUFFICES ASSUME fsd.req_in.op # "write", NEW l \in Log, ZoneOf(l) \in lut.valid_zones,
                      NEW p \in Pages
               PROVE  store[l][p] = Shown(l, p)
    BY DEF DataKept
  <2>1. ~ Works(fsd)
    BY <1>2 DEF DataInv
  <2>2. Holds(lut, flash, store, l)
    BY <1>2, <2>1, AllHold
  <2> QED BY <2>2 DEF Holds, Shown, Cell
<1>4. ReadsRight
  BY <1>2 DEF ReadsRight, GotRight
<1> QED BY <1>3, <1>4

LEMMA DataInvariant == Spec => []DInv
<1>1. Init /\ [][Next]_vars => []DInv
  BY InitData, NextData, PTL
<1>2. Spec => Init /\ [][Next]_vars
  BY DEF Spec
<1> QED BY <1>1, <1>2, PTL

\* Where pages are written upwards (track_inc) and no command has failed, what was
\* written is what the mapped block holds: for any number of zones, blocks and pages,
\* any requests and any blocks given by the allocator, over scans of the labels, merges
\* into a block, copies to another, blocks written in part and their maps.
THEOREM FtlDataKept == Spec => [](config.mode = "inc" /\ used.troubles = 0 => DataKept)
<1>1. DInv => (config.mode = "inc" /\ used.troubles = 0 => DataKept)
  BY InvData
<1> QED BY <1>1, DataInvariant, PTL

\* And a read returns what was written last, from the pages of any number of blocks.
THEOREM FtlReadsRight == Spec => [](config.mode = "inc" /\ used.troubles = 0 => ReadsRight)
<1>1. DInv => (config.mode = "inc" /\ used.troubles = 0 => ReadsRight)
  BY InvData
<1> QED BY <1>1, DataInvariant, PTL
=============================================================================
