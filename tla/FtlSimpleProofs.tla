-------------------------- MODULE FtlSimpleProofs --------------------------
(***************************************************************************)
(* Every block of FtlSimple has one user: block_table, the allocator, the  *)
(* write in progress or nobody.  For any number of zones, blocks and       *)
(* pages, and any requests, with commands that fail, restarts and          *)
(* formattings at any point.                                               *)
(*                                                                         *)
(* Then, as long as nothing has failed: the pages that b_map says are      *)
(* unwritten are.                                                          *)
(***************************************************************************)
EXTENDS FtlSimple, FiniteSetTheorems, SequenceTheorems, WellFoundedInduction, TLAPS

\* Types, with the fields of every record.
IsReq(c) == /\ c = [op |-> c.op, at |-> c.at, len |-> c.len, ver |-> c.ver]
            /\ c.at \in Nat /\ c.len \in Int
            /\ c.at + c.len <= ZoneCnt * LogPerZone * PageCnt
IsLut(t) ==
  /\ t = [free |-> t.free, valid_zones |-> t.valid_zones, spare |-> t.spare,
          block_table |-> t.block_table, b_map |-> t.b_map]
  /\ t.free \in [Phy -> {"no", "clean", "dirty"}]
  /\ t.valid_zones \subseteq Zones /\ t.spare \in Nat
  /\ t.block_table \in [Log -> Phy \cup {INVALID}]
  /\ DOMAIN t.b_map \subseteq Phy
PosType  == [zone : Int, logical : Log \cup {INVALID}, off : Nat, len : Nat,
             src : Phy \cup {INVALID}, dst : Phy \cup {INVALID}, in_place : BOOLEAN]
IsLabel(n) == n = [log |-> n.log, mark |-> n.mark] /\ n.log \in Log \cup {INVALID}
IsBlock(b) == b = [label |-> b.label, pages |-> b.pages] /\ IsLabel(b.label)
IsFsd(f) ==
  /\ f = [pos |-> f.pos, clean_dst |-> f.clean_dst, req_suspend |-> f.req_suspend,
          bmap_avail |-> f.bmap_avail, dst_oob |-> f.dst_oob, block_buf |-> f.block_buf,
          scan_pos |-> f.scan_pos, conflict_pos |-> f.conflict_pos, req_fn |-> f.req_fn,
          req_in |-> f.req_in, t_count |-> f.t_count, req_out |-> f.req_out, at |-> f.at]
  /\ f.pos \in PosType /\ IsLabel(f.dst_oob) /\ f.t_count \in Nat
  /\ f.req_suspend \in BOOLEAN /\ f.bmap_avail \in BOOLEAN
  /\ f.at \in {"idle", "get", "late", "out"}

Types == /\ IsLut(lut) /\ IsFsd(fsd) /\ IsReq(client) /\ config.special \subseteq Phy
         /\ fsd.req_in \in {NoReq, client}
Labels == flash = [b \in Phy |-> flash[b]] /\ \A b \in Phy : IsBlock(flash[b])

\* What the table and the allocator have.
Apart(t) ==
  /\ \A l, m \in Log : t.block_table[l] = t.block_table[m] =>
                         l = m \/ t.block_table[l] = INVALID
  /\ \A l \in Log : t.block_table[l] # INVALID =>
       /\ t.block_table[l] \in ZonePhy(ZoneOf(l)) \ config.special
       /\ t.free[t.block_table[l]] = "no"
  /\ \A b \in config.special : t.free[b] = "no"
Unmapped(t, b) == \A l \in Log : t.block_table[l] # b

\* A stack of functions ends with the one after which the block is mapped, or with
\* the erase of the old block after that.
Early   == {"erase_dst", "select_src", "read_first", "read_last", "write_first",
            "copy_first", "write_data"}
Commits == {"merge_data", "write_last", "copy_last"}
Singles == {"lookup_block", "resolve", "invalidate_dst", "erase_src", "read_data",
            "fill_data"}
Body(s)    == /\ s \in Seq(Early \cup Commits) /\ Len(s) > 0 /\ s[Len(s)] \in Commits
              /\ \A i \in 1 .. Len(s) - 1 : s[i] \in Early
Copying(s) == /\ s \in Seq(Early \cup Commits \cup Singles) /\ Len(s) > 1
              /\ s[Len(s)] = "erase_src" /\ s[Len(s) - 1] \in Commits
              /\ \A i \in 1 .. Len(s) - 2 : s[i] \in Early
Single(s)  == \E fn \in Singles : s = <<fn>>

EarlyEnds  == {"select", "first", "read_first", "read_last", "write", "erase_dst"}
CommitEnds == {"merge", "last"}
LastEnds   == {"erase_src", "invalidate", "read_data", "resolve"}

\* The command below, and what is left of the stack.
Stacked(f) ==
  IF f.at # "out" THEN f.req_fn = <<>> \/ Single(f.req_fn) \/ Body(f.req_fn) \/ Copying(f.req_fn)
  ELSE \/ f.req_out.end \in EarlyEnds /\ (Body(f.req_fn) \/ Copying(f.req_fn))
       \/ f.req_out.end \in CommitEnds /\ f.req_fn \in {<<>>, <<"erase_src">>}
       \/ f.req_out.end \in LastEnds /\ f.req_fn = <<>>
       \/ f.req_out.end = "lookup_block" /\ f.req_fn = <<"lookup_block">>

\* The write in progress has its block, and its source is what the table has for it;
\* a source that shall be erased is another block, and in the end no longer mapped.
Fresh(t, p) ==
  /\ p.logical \in Log /\ p.dst \in ZonePhy(ZoneOf(p.logical)) \ config.special
  /\ t.block_table[p.logical] = p.src
  /\ p.dst # p.src => Unmapped(t, p.dst)
Copies(p)  == p.src \in Phy /\ p.src # p.dst
Gone(t, p) == Copies(p) /\ p.src \notin config.special
              /\ t.free[p.src] = "no" /\ Unmapped(t, p.src)

Committing(f) == f.at = "out" /\ f.req_out.end \in CommitEnds
Erasing(f)    == \/ f.req_fn = <<"erase_src">> /\ ~ Committing(f)
                 \/ f.at = "out" /\ f.req_out.end = "erase_src"
Suspended(f)  == f.req_suspend \/ f.bmap_avail
Writing(t, f) ==
  /\ f.pos.dst # INVALID => t.free[f.pos.dst] = "no"
  /\ Body(f.req_fn) \/ Copying(f.req_fn) \/ Committing(f) \/ Suspended(f) => Fresh(t, f.pos)
  /\ Copying(f.req_fn) \/ (Committing(f) /\ f.req_fn = <<"erase_src">>) => Copies(f.pos)
  /\ Erasing(f) => Gone(t, f.pos)

\* A write waits for a node of the map.
Waiting(f) ==
  Suspended(f) => /\ f.req_fn = <<>> /\ f.at \in {"idle", "get"} /\ f.req_in.op = "write"
                  /\ f.req_in.len - f.t_count > 0
                  /\ f.req_suspend => f.at = "idle"

\* A scan has entered in the table what it has read.
LooksUp(f)  == f.req_fn = <<"lookup_block">>
Resolves(f) == f.req_fn = <<"resolve">> \/ (f.at = "out" /\ f.req_out.end = "resolve")
Scanning(t, f) ==
  LET z == f.pos.zone IN
  /\ z \in Zones /\ f.pos = [NoPos EXCEPT !.zone = z]
  /\ f.scan_pos \in Nat /\ z * PhyPerZone <= f.scan_pos /\ f.scan_pos <= (z + 1) * PhyPerZone
  /\ \A l \in ZoneLog(z) : t.block_table[l] # INVALID =>
       t.block_table[l] < f.scan_pos /\ flash[t.block_table[l]].label.log = l
  /\ \A b \in ZonePhy(z) : b >= f.scan_pos => t.free[b] = "no"
  /\ f.at = "out" => f.req_out.cmd = "READ"
  /\ f.at = "out" \/ Resolves(f) => f.scan_pos \in ZonePhy(z) \ config.special
  /\ Resolves(f) => \E l \in ZoneLog(z) : /\ f.conflict_pos = t.block_table[l]
                                          /\ f.conflict_pos # INVALID
                                          /\ flash[f.scan_pos].label.log = l

IInv == /\ Types /\ Labels /\ Apart(lut) /\ Stacked(fsd) /\ Writing(lut, fsd) /\ Waiting(fsd)
        /\ LooksUp(fsd) \/ Resolves(fsd) => Scanning(lut, fsd)

-----------------------------------------------------------------------------
(* Stacks of functions.                                                    *)

LEMMA BodyTop ==
  ASSUME NEW s, Body(s)
  PROVE  /\ s # <<>> /\ Head(s) \in Early \cup Commits
         /\ Head(s) \in Early => Body(Tail(s))
         /\ Head(s) \in Commits => Tail(s) = <<>>
<1>1. /\ s \in Seq(Early \cup Commits) /\ Len(s) \in Nat /\ Len(s) > 0 /\ s # <<>>
      /\ Head(s) = s[1] /\ s[1] \in Early \cup Commits
  BY DEF Body
<1>2. /\ Tail(s) \in Seq(Early \cup Commits) /\ Len(Tail(s)) = Len(s) - 1
      /\ \A i \in 1 .. Len(Tail(s)) : Tail(s)[i] = s[i + 1]
  BY <1>1
<1>3. \A fn \in Early : fn \notin Commits
  BY DEF Early, Commits
<1>4. ASSUME s[1] \in Early PROVE Body(Tail(s))
  <2>1. Len(s) > 1
    BY <1>1, <1>3, <1>4 DEF Body
  <2>2. Tail(s)[Len(Tail(s))] \in Commits
    BY <1>1, <1>2, <2>1 DEF Body
  <2>3. \A i \in 1 .. Len(Tail(s)) - 1 : Tail(s)[i] \in Early
    BY <1>1, <1>2, <2>1 DEF Body
  <2> QED BY <1>1, <1>2, <2>1, <2>2, <2>3 DEF Body
<1>5. ASSUME s[1] \in Commits PROVE Tail(s) = <<>>
  <2>1. Len(s) = 1
    <3>1. Len(s) \in Nat /\ Len(s) > 0
      BY <1>1
    <3>2. Len(s) > 1 => s[1] \in Early
      BY <1>1 DEF Body
    <3>3. ~ (Len(s) > 1)
      BY <1>3, <1>5, <3>2
    <3> QED BY <3>1, <3>3
  <2> QED BY <1>1, <1>2, <2>1, SMTT(30)
<1> QED BY <1>1, <1>4, <1>5

LEMMA CopyingTop ==
  ASSUME NEW s, Copying(s)
  PROVE  /\ s # <<>> /\ Head(s) \in Early \cup Commits
         /\ Head(s) \in Early => Copying(Tail(s))
         /\ Head(s) \in Commits => Tail(s) = <<"erase_src">>
<1> DEFINE F == Early \cup Commits \cup Singles
<1>1. /\ s \in Seq(F) /\ Len(s) \in Nat /\ Len(s) > 1 /\ s # <<>> /\ Head(s) = s[1]
      /\ s[Len(s)] = "erase_src" /\ s[Len(s) - 1] \in Commits
      /\ \A i \in 1 .. Len(s) - 2 : s[i] \in Early
  BY DEF Copying
<1>2. /\ Tail(s) \in Seq(F) /\ Len(Tail(s)) = Len(s) - 1
      /\ \A i \in 1 .. Len(Tail(s)) : Tail(s)[i] = s[i + 1]
  BY <1>1
<1>3. \A fn \in Early : fn \notin Commits
  BY DEF Early, Commits
<1>4. s[1] \in Early \cup Commits
  <2>1. CASE Len(s) = 2
    BY <1>1, <2>1
  <2>2. CASE Len(s) > 2
    BY <1>1, <2>2
  <2> QED BY <1>1, <2>1, <2>2
<1>5. ASSUME s[1] \in Early PROVE Copying(Tail(s))
  <2>1. Len(s) > 2
    BY <1>1, <1>3, <1>5
  <2>2. Tail(s)[Len(Tail(s))] = "erase_src" /\ Tail(s)[Len(Tail(s)) - 1] \in Commits
    BY <1>1, <1>2, <2>1
  <2>3. \A i \in 1 .. Len(Tail(s)) - 2 : Tail(s)[i] \in Early
    BY <1>1, <1>2, <2>1
  <2> QED BY <1>1, <1>2, <2>1, <2>2, <2>3 DEF Copying
<1>6. ASSUME s[1] \in Commits PROVE Tail(s) = <<"erase_src">>
  <2>1. Len(s) = 2
    <3>1. Len(s) \in Nat /\ Len(s) > 1
      BY <1>1
    <3>2. Len(s) > 2 => s[1] \in Early
      BY <1>1
    <3>3. ~ (Len(s) > 2)
      BY <1>3, <1>6, <3>2
    <3>4. \A n \in Nat : n > 1 /\ ~ (n > 2) => n = 2
      OBVIOUS
    <3> QED BY <3>1, <3>3, <3>4
  <2>2. Len(Tail(s)) = 1 /\ Tail(s)[1] = "erase_src"
    BY <1>1, <1>2, <2>1, SMTT(30)
  <2>3. Tail(s) = <<Tail(s)[1]>>
    <3> DEFINE u == Tail(s)
    <3>1. u \in Seq(F) /\ Len(u) = 1
      BY <1>2, <2>2
    <3> HIDE DEF u
    <3>2. u = <<u[1]>>
      BY <3>1
    <3> QED BY <3>2 DEF u
  <2> QED BY <2>2, <2>3
<1> QED BY <1>1, <1>4, <1>5, <1>6

LEMMA SingleTop ==
  ASSUME NEW fn
  PROVE  <<fn>> # <<>> /\ Head(<<fn>>) = fn /\ Tail(<<fn>>) = <<>> /\ Len(<<fn>>) = 1
OBVIOUS

\* Which stack it is shows at its top.
LEMMA StackKinds ==
  ASSUME NEW s
  PROVE  /\ Single(s) => ~ Body(s) /\ ~ Copying(s) /\ s # <<>> /\ s = <<Head(s)>>
                         /\ Tail(s) = <<>> /\ Head(s) \in Singles
         /\ Body(s) => ~ Copying(s) /\ s # <<>>
         /\ Copying(s) => s # <<>>
         /\ (s = <<>> \/ \E fn : s = <<fn>> /\ fn \notin Commits) => ~ Body(s) /\ ~ Copying(s)
<1>1. Singles \cap Commits = {} /\ Singles \cap Early = {} /\ "erase_src" \in Singles
  BY DEF Singles, Commits, Early
<1>2. ASSUME Body(s), Copying(s) PROVE FALSE
  BY <1>1, <1>2 DEF Body, Copying
<1>3. ASSUME NEW fn, s = <<fn>>, fn \notin Commits
      PROVE  ~ Body(s) /\ ~ Copying(s)
  <2>1. Len(s) = 1 /\ s[1] = fn
    BY <1>3
  <2> QED BY <1>3, <2>1 DEF Body, Copying
<1>4. ASSUME Single(s)
      PROVE  /\ ~ Body(s) /\ ~ Copying(s) /\ s # <<>> /\ s = <<Head(s)>>
             /\ Tail(s) = <<>> /\ Head(s) \in Singles
  <2>1. PICK fn \in Singles : s = <<fn>>
    BY <1>4 DEF Single
  <2> QED BY <1>1, <1>3, <2>1, SingleTop
<1>5. s = <<>> => ~ Body(s) /\ ~ Copying(s)
  BY DEF Body, Copying
<1> QED BY <1>2, <1>3, <1>4, <1>5, BodyTop, CopyingTop

\* Stacks are put together.
LEMMA EarlyBody ==
  ASSUME NEW u \in Seq(Early), NEW s, Body(s)
  PROVE  Body(u \o s)
<1> DEFINE t == u \o s
<1>1. /\ s \in Seq(Early \cup Commits) /\ Len(s) \in Nat /\ Len(s) > 0
      /\ s[Len(s)] \in Commits /\ \A i \in 1 .. Len(s) - 1 : s[i] \in Early
  BY DEF Body
<1>2. u \in Seq(Early \cup Commits) /\ Len(u) \in Nat /\ \A i \in 1 .. Len(u) : u[i] \in Early
  OBVIOUS
<1>3. /\ t \in Seq(Early \cup Commits) /\ Len(t) = Len(u) + Len(s)
      /\ \A i \in 1 .. Len(t) : t[i] = IF i <= Len(u) THEN u[i] ELSE s[i - Len(u)]
  BY <1>1, <1>2
<1> DEFINE n == Len(u)
           m == Len(s)
<1>4. /\ n \in Nat /\ m \in Nat /\ m > 0 /\ Len(t) = n + m /\ s[m] \in Commits
      /\ \A i \in 1 .. n : t[i] \in Early
      /\ \A i \in n + 1 .. n + m : t[i] = s[i - n]
      /\ \A i \in 1 .. m - 1 : s[i] \in Early
  BY <1>1, <1>2, <1>3
<1> HIDE DEF t, n, m
<1>5. Len(t) > 0 /\ t[Len(t)] \in Commits
  <2>1. n + m \in n + 1 .. n + m /\ (n + m) - n = m
    BY <1>4
  <2> QED BY <1>4, <2>1
<1>6. ASSUME NEW i \in 1 .. Len(t) - 1 PROVE t[i] \in Early
  <2>1. CASE i <= n
    BY <1>4, <2>1
  <2>2. CASE i > n
    <3>1. i \in n + 1 .. n + m /\ i - n \in 1 .. m - 1
      BY <1>4, <2>2
    <3> QED BY <1>4, <3>1
  <2> QED BY <1>4, <2>1, <2>2
<1>7. Body(t)
  BY <1>3, <1>5, <1>6 DEF Body
<1> QED BY <1>7 DEF t

LEMMA BodyErase ==
  ASSUME NEW s, Body(s)
  PROVE  Copying(s \o <<"erase_src">>)
<1> DEFINE t == s \o <<"erase_src">>
           F == Early \cup Commits \cup Singles
<1>1. /\ s \in Seq(Early \cup Commits) /\ Len(s) \in Nat /\ Len(s) > 0
      /\ s[Len(s)] \in Commits /\ \A i \in 1 .. Len(s) - 1 : s[i] \in Early
  BY DEF Body
<1>2. s \in Seq(F) /\ <<"erase_src">> \in Seq(F) /\ Len(<<"erase_src">>) = 1
  BY <1>1 DEF Singles
<1>3. /\ t \in Seq(F) /\ Len(t) = Len(s) + 1 /\ t[Len(t)] = "erase_src"
      /\ \A i \in 1 .. Len(s) : t[i] = s[i]
  BY <1>1, <1>2
<1> HIDE DEF t
<1>4. t[Len(t) - 1] \in Commits /\ \A i \in 1 .. Len(t) - 2 : t[i] \in Early
  BY <1>1, <1>3
<1>5. Copying(t)
  BY <1>1, <1>3, <1>4 DEF Copying
<1> QED BY <1>5 DEF t

LEMMA WholeStacks ==
  /\ Body(<<"merge_data">>)
  /\ Body(<<"write_first", "write_data", "write_last">>)
  /\ Body(<<"copy_first", "write_data", "copy_last">>)
  /\ Body(<<"read_first", "read_last", "write_first", "write_data", "write_last">>)
  /\ Body(<<"read_first", "read_last", "erase_dst", "write_first", "write_data",
            "write_last">>)
<1> DEFINE F == Early \cup Commits
<1>1. /\ {"erase_dst", "read_first", "read_last", "write_first", "copy_first", "write_data"}
           \subseteq Early
      /\ {"merge_data", "write_last", "copy_last"} \subseteq Commits
  BY DEF Early, Commits
<1>2. Body(<<"merge_data">>)
  <2> DEFINE s == <<"merge_data">>
  <2>1. s \in Seq(F) /\ Len(s) = 1 /\ s[1] = "merge_data"
    BY <1>1
  <2> QED BY <1>1, <2>1 DEF Body
<1>3. ASSUME NEW c \in {"write_last", "copy_last"}, NEW f \in {"write_first", "copy_first"}
      PROVE  Body(<<f, "write_data", c>>)
  <2> DEFINE s == <<f, "write_data", c>>
  <2>1. f \in F /\ "write_data" \in F /\ c \in F
    BY <1>1
  <2>2. s \in Seq(F) /\ Len(s) = 3 /\ s[1] = f /\ s[2] = "write_data" /\ s[3] = c
    BY <2>1
  <2> HIDE DEF s
  <2>3. Body(s)
    BY <1>1, <2>2 DEF Body
  <2> QED BY <2>3 DEF s
<1>4. Body(<<"read_first", "read_last", "write_first", "write_data", "write_last">>)
  <2> DEFINE s == <<"read_first", "read_last", "write_first", "write_data", "write_last">>
  <2>1. /\ "read_first" \in F /\ "read_last" \in F /\ "write_first" \in F /\ "write_data" \in F
        /\ "write_last" \in F
    BY <1>1
  <2>2. /\ s \in Seq(F) /\ Len(s) = 5
         /\ s[1] = "read_first" /\ s[2] = "read_last" /\ s[3] = "write_first"
         /\ s[4] = "write_data" /\ s[5] = "write_last"
    BY <2>1
  <2> HIDE DEF s
  <2>3. Body(s)
    BY <1>1, <2>2 DEF Body
  <2> QED BY <2>3 DEF s
<1>5. Body(<<"read_first", "read_last", "erase_dst", "write_first", "write_data", "write_last">>)
  <2> DEFINE s == <<"read_first", "read_last", "erase_dst", "write_first", "write_data", "write_last">>
  <2>1. /\ "read_first" \in F /\ "read_last" \in F /\ "erase_dst" \in F /\ "write_first" \in F
        /\ "write_data" \in F /\ "write_last" \in F
    BY <1>1
  <2>2. /\ s \in Seq(F) /\ Len(s) = 6
         /\ s[1] = "read_first" /\ s[2] = "read_last" /\ s[3] = "erase_dst"
         /\ s[4] = "write_first" /\ s[5] = "write_data" /\ s[6] = "write_last"
    BY <2>1
  <2> HIDE DEF s
  <2>3. Body(s)
    BY <1>1, <2>2 DEF Body
  <2> QED BY <2>3 DEF s
<1> QED BY <1>2, <1>3, <1>4, <1>5

\* The stacks of a write to a block that was free.
LEMMA EraseIfEarly ==
  ASSUME NEW b
  PROVE  EraseIf(b) \in Seq(Early) /\ EraseIf(b) \o <<"select_src">> \in Seq(Early)
<1>1. "erase_dst" \in Early /\ "select_src" \in Early
  BY DEF Early
<1>2. EraseIf(b) \in Seq(Early)
  BY <1>1 DEF EraseIf
<1>3. <<"select_src">> \in Seq(Early)
  BY <1>1
<1> QED BY <1>2, <1>3

LEMMA CopyStack ==
  ASSUME NEW b, NEW s, Body(s)
  PROVE  /\ Body(EraseIf(b) \o s)
         /\ Copying(EraseIf(b) \o <<"select_src">> \o s \o <<"erase_src">>)
BY EraseIfEarly, EarlyBody, BodyErase

-----------------------------------------------------------------------------
(* Addresses.                                                              *)

LEMMA Quotient ==
  ASSUME NEW a \in Nat, NEW b \in Nat \ {0}, NEW c \in Nat
  PROVE  /\ a \div b \in Nat /\ a % b \in 0 .. b - 1
         /\ a \div b < c <=> a < c * b
         /\ a \div b = c <=> c * b <= a /\ a < (c + 1) * b
OBVIOUS

LEMMA ProductTypes ==
  /\ ZoneCnt * LogPerZone \in Nat /\ ZoneCnt * LogPerZone * PageCnt \in Nat
  /\ ZoneCnt * PhyPerZone \in Nat
<1>1. \A a, b \in Nat : a * b \in Nat
  OBVIOUS
<1>2. ZoneCnt \in Nat /\ LogPerZone \in Nat /\ PageCnt \in Nat /\ PhyPerZone \in Nat
  BY FtlAssumption
<1> QED BY <1>1, <1>2

LEMMA PhyFinite == IsFiniteSet(Phy) /\ Phy \subseteq Nat
<1>1. ZoneCnt * PhyPerZone - 1 \in Int
  BY ProductTypes
<1> QED BY <1>1, FS_Interval DEF Phy

LEMMA ZoneBlocks ==
  ASSUME NEW z \in Zones, NEW b \in Int
  PROVE  /\ z * PhyPerZone \in Nat /\ (z + 1) * PhyPerZone \in Nat
         /\ (z + 1) * PhyPerZone <= ZoneCnt * PhyPerZone
         /\ b \in ZonePhy(z) <=> z * PhyPerZone <= b /\ b < (z + 1) * PhyPerZone
<1>1. /\ z \in Nat /\ ZoneCnt \in Nat /\ z + 1 <= ZoneCnt
      /\ PhyPerZone \in Nat \ {0}
  BY FtlAssumption DEF Zones
<1>2. \A a, c, n \in Nat : a <= c => a * n <= c * n /\ a * n \in Nat
  OBVIOUS
<1>3. /\ z * PhyPerZone \in Nat /\ (z + 1) * PhyPerZone \in Nat
      /\ (z + 1) * PhyPerZone <= ZoneCnt * PhyPerZone
  BY <1>1, <1>2
<1>4. CASE b \in Nat
  <2>1. b \div PhyPerZone = z <=> z * PhyPerZone <= b /\ b < (z + 1) * PhyPerZone
    BY <1>1, <1>4, Quotient
  <2>2. b < (z + 1) * PhyPerZone => b \in Phy
    BY <1>3, <1>4, ProductTypes DEF Phy
  <2> QED BY <1>3, <2>1, <2>2 DEF ZonePhy
<1>5. CASE b \notin Nat
  BY <1>3, <1>5, PhyFinite DEF ZonePhy
<1> QED BY <1>4, <1>5

LEMMA LogZone ==
  ASSUME NEW l \in Log
  PROVE  l # INVALID /\ ZoneOf(l) \in Zones /\ l \in ZoneLog(ZoneOf(l)) /\ l \in Nat
<1>1. l # INVALID /\ l \in Nat /\ l < ZoneCnt * LogPerZone
  BY FtlAssumption, ProductTypes DEF Log
<1>2. l \div LogPerZone \in Nat /\ l \div LogPerZone < ZoneCnt
  BY <1>1, FtlAssumption, Quotient
<1>3. ZoneOf(l) \in Zones
  BY <1>1, <1>2, FtlAssumption DEF ZoneOf, Zones
<1> QED BY <1>1, <1>3 DEF ZoneLog

LEMMA AddressFields ==
  ASSUME IsFsd(fsd), IsReq(fsd.req_in), IsLut(lut), Left > 0
  PROVE  /\ Address \in PosType /\ Address.logical \in Log /\ Address.len \in Nat
         /\ Address.zone = ZoneOf(Address.logical) /\ Address.zone \in Zones
         /\ Address.src = lut.block_table[Address.logical]
         /\ Address.dst = INVALID /\ ~ Address.in_place
<1> DEFINE p == fsd.req_in.at + fsd.t_count
           q == p \div PageCnt
           off == p % PageCnt
           n == IF Left < PageCnt - off THEN Left ELSE PageCnt - off
           src == lut.block_table[q]
<1>1. p \in Nat /\ p < (ZoneCnt * LogPerZone) * PageCnt /\ Left \in Nat
  BY ProductTypes DEF IsFsd, IsReq, Left
<1>2. PageCnt \in Nat \ {0} /\ ZoneCnt * LogPerZone \in Nat
  BY FtlAssumption, ProductTypes
<1>3. q \in Nat /\ q < ZoneCnt * LogPerZone /\ off \in 0 .. PageCnt - 1
  BY <1>1, <1>2, Quotient
<1>4. q \in Log
  BY <1>2, <1>3 DEF Log
<1>5. n \in Nat
  BY <1>1, <1>2, <1>3
<1>6. src \in Phy \cup {INVALID}
  BY <1>4 DEF IsLut
<1>7. Address = [zone |-> ZoneOf(q), logical |-> q, off |-> off, len |-> n,
                 src |-> src, dst |-> INVALID, in_place |-> FALSE]
  BY <1>4 DEF Address
<1> HIDE DEF q, n, off, src
<1>8. off \in Nat /\ ZoneOf(q) \in Zones /\ ZoneOf(q) \in Int
  BY <1>2, <1>3, <1>4, LogZone DEF Zones
<1>9. Address \in PosType
  BY <1>4, <1>5, <1>6, <1>7, <1>8 DEF PosType
<1> QED BY <1>4, <1>5, <1>7, <1>8, <1>9 DEF src

-----------------------------------------------------------------------------
(* What is done to the maps.                                               *)

Given(t, b, how) == [t EXCEPT !.free[b] = how]

LEMMA PutGiven ==
  ASSUME NEW t, NEW b, NEW d
  PROVE  \E how \in {"clean", "dirty"} : Put(t, b, d) = Given(t, b, how)
<1>1. CASE d
  BY <1>1 DEF Put, Given
<1>2. CASE ~ d
  BY <1>2 DEF Put, Given
<1> QED BY <1>1, <1>2

LEMMA PutLut ==
  ASSUME config.special \subseteq Phy, NEW t, IsLut(t), Apart(t), NEW b \in Phy \ config.special,
         Unmapped(t, b), NEW how \in {"clean", "dirty"}
  PROVE  LET u == Given(t, b, how)
         IN /\ IsLut(u) /\ Apart(u) /\ u.block_table = t.block_table
            /\ \A c \in Phy : c # b => u.free[c] = t.free[c]
<1> DEFINE u == Given(t, b, how)
<1>1. /\ u = [t EXCEPT !.free = u.free] /\ u.free = [t.free EXCEPT ![b] = how]
  BY DEF Given, IsLut
<1>2. /\ u.valid_zones = t.valid_zones /\ u.spare = t.spare
      /\ u.block_table = t.block_table /\ u.b_map = t.b_map
  BY DEF Given, IsLut
<1>3. u = [free |-> u.free, valid_zones |-> u.valid_zones, spare |-> u.spare,
           block_table |-> u.block_table, b_map |-> u.b_map]
  BY DEF Given, IsLut
<1> HIDE DEF u
<1>4. IsLut(u)
  BY <1>1, <1>2, <1>3 DEF IsLut
<1>5. \A c \in Phy : c # b => u.free[c] = t.free[c]
  BY <1>1 DEF IsLut
<1>6. Apart(u)
  <2>1. \A l \in Log : u.block_table[l] # INVALID =>
           /\ u.block_table[l] \in ZonePhy(ZoneOf(l)) \ config.special
           /\ u.free[u.block_table[l]] = "no"
    BY <1>2, <1>5 DEF Apart, Unmapped, ZonePhy
  <2>2. \A c \in config.special : u.free[c] = "no"
    BY <1>5 DEF Apart
  <2> QED BY <1>2, <2>1, <2>2 DEF Apart
<1> QED BY <1>2, <1>4, <1>5, <1>6 DEF u

\* The maps in u differ from those in t in valid_zones, spare and b_map only.
SameMaps(t, u) == IsLut(u) /\ u.block_table = t.block_table /\ u.free = t.free

LEMMA SameApart ==
  ASSUME NEW t, NEW u, Apart(t), SameMaps(t, u)
  PROVE  Apart(u)
BY DEF Apart, SameMaps

LEMMA TookLut ==
  ASSUME NEW t, IsLut(t), Apart(t), NEW b \in Phy
  PROVE  LET u == [t EXCEPT !.free[b] = "no"]
         IN /\ IsLut(u) /\ Apart(u) /\ u.block_table = t.block_table /\ u.free[b] = "no"
            /\ \A c \in Phy : c # b => u.free[c] = t.free[c]
            /\ u.b_map = t.b_map /\ u.spare = t.spare
<1> DEFINE u == [t EXCEPT !.free[b] = "no"]
<1>1. u.free = [t.free EXCEPT ![b] = "no"]
  BY DEF IsLut
<1>2. /\ u.valid_zones = t.valid_zones /\ u.spare = t.spare
      /\ u.block_table = t.block_table /\ u.b_map = t.b_map
  BY DEF IsLut
<1>3. u = [free |-> u.free, valid_zones |-> u.valid_zones, spare |-> u.spare,
           block_table |-> u.block_table, b_map |-> u.b_map]
  BY DEF IsLut
<1> HIDE DEF u
<1>4. IsLut(u)
  BY <1>1, <1>2, <1>3 DEF IsLut
<1>5. u.free[b] = "no" /\ \A c \in Phy : c # b => u.free[c] = t.free[c]
  BY <1>1 DEF IsLut
<1>6. Apart(u)
  <2>1. \A c \in Phy : t.free[c] = "no" => u.free[c] = "no"
    BY <1>5
  <2>2. \A l \in Log : u.block_table[l] # INVALID =>
           /\ u.block_table[l] \in ZonePhy(ZoneOf(l)) \ config.special
           /\ u.free[u.block_table[l]] = "no"
    BY <1>2, <2>1 DEF Apart, ZonePhy
  <2>3. \A c \in config.special : u.free[c] = "no"
    BY <1>1 DEF Apart, IsLut
  <2> QED BY <1>2, <2>2, <2>3 DEF Apart
<1> QED BY <1>2, <1>4, <1>5, <1>6 DEF u

LEMMA MapLut ==
  ASSUME NEW t, IsLut(t), Apart(t), NEW b, b \in Phy \ config.special, NEW l \in Log,
         b \in ZonePhy(ZoneOf(l)), Unmapped(t, b), t.free[b] = "no"
  PROVE  LET u == [t EXCEPT !.block_table[l] = b]
         IN /\ IsLut(u) /\ Apart(u) /\ u.free = t.free
            /\ \A m \in Log : u.block_table[m] = IF m = l THEN b ELSE t.block_table[m]
            /\ u.b_map = t.b_map /\ u.spare = t.spare /\ u.valid_zones = t.valid_zones
<1> DEFINE u == [t EXCEPT !.block_table[l] = b]
<1>1. u.block_table = [t.block_table EXCEPT ![l] = b]
  BY DEF IsLut
<1>2. /\ u.valid_zones = t.valid_zones /\ u.spare = t.spare
      /\ u.free = t.free /\ u.b_map = t.b_map
  BY DEF IsLut
<1>3. u = [free |-> u.free, valid_zones |-> u.valid_zones, spare |-> u.spare,
           block_table |-> u.block_table, b_map |-> u.b_map]
  BY DEF IsLut
<1> HIDE DEF u
<1>4. IsLut(u)
  BY <1>1, <1>2, <1>3 DEF IsLut
<1>5. \A m \in Log : u.block_table[m] = IF m = l THEN b ELSE t.block_table[m]
  BY <1>1 DEF IsLut
<1>6. Apart(u)
  <2>1. ASSUME NEW m \in Log, NEW k \in Log, u.block_table[m] = u.block_table[k]
        PROVE  m = k \/ u.block_table[m] = INVALID
    BY <1>5, <2>1 DEF Apart, Unmapped
  <2>2. ASSUME NEW m \in Log, u.block_table[m] # INVALID
        PROVE  /\ u.block_table[m] \in ZonePhy(ZoneOf(m)) \ config.special
               /\ u.free[u.block_table[m]] = "no"
    BY <1>2, <1>5, <2>2 DEF Apart
  <2>3. \A c \in config.special : u.free[c] = "no"
    BY <1>2 DEF Apart
  <2> QED BY <2>1, <2>2, <2>3 DEF Apart
<1> QED BY <1>2, <1>4, <1>5, <1>6 DEF u

LEMMA ClearLut ==
  ASSUME config.special \subseteq Phy, NEW t, IsLut(t), Apart(t), NEW z \in Zones
  PROVE  LET u == ClearZone(t, z)
         IN /\ IsLut(u) /\ Apart(u)
            /\ \A l \in ZoneLog(z) : u.block_table[l] = INVALID
            /\ \A b \in ZonePhy(z) : u.free[b] = "no"
            /\ \A b \in Phy : u.free[b] \in {"no", t.free[b]}
            /\ u.valid_zones = t.valid_zones
<1> DEFINE mapped == {t.block_table[l] : l \in ZoneLog(z)}
           table == [l \in Log |-> IF l \in ZoneLog(z) THEN INVALID ELSE t.block_table[l]]
           free  == [b \in Phy |-> IF b \in ZonePhy(z) THEN "no" ELSE t.free[b]]
           bmap  == [k \in DOMAIN t.b_map \ mapped |-> t.b_map[k]]
           spare == t.spare + Cardinality(mapped \cap DOMAIN t.b_map)
           u == ClearZone(t, z)
<1>0. u = [t EXCEPT !.block_table = table, !.b_map = bmap, !.spare = spare, !.free = free]
  BY DEF ClearZone
<1>1. u = [free |-> free, valid_zones |-> t.valid_zones, spare |-> spare,
           block_table |-> table, b_map |-> bmap]
  <2> HIDE DEF u, free, table, bmap, spare
  <2> QED BY <1>0 DEF IsLut
<1>2. spare \in Nat
  <2>1. mapped \cap DOMAIN t.b_map \subseteq Phy
    BY DEF IsLut
  <2>2. IsFiniteSet(mapped \cap DOMAIN t.b_map)
    BY <2>1, PhyFinite, FS_Subset
  <2>3. Cardinality(mapped \cap DOMAIN t.b_map) \in Nat
    BY <2>2, FS_CardinalityType
  <2> QED BY <2>3 DEF IsLut
<1>3. /\ free \in [Phy -> {"no", "clean", "dirty"}] /\ table \in [Log -> Phy \cup {INVALID}]
      /\ DOMAIN bmap \subseteq Phy
  BY DEF IsLut
<1>4. \A l \in Log : table[l] = IF l \in ZoneLog(z) THEN INVALID ELSE t.block_table[l]
  OBVIOUS
<1>5. \A b \in Phy : free[b] = IF b \in ZonePhy(z) THEN "no" ELSE t.free[b]
  OBVIOUS
<1> HIDE DEF u, free, table, bmap, spare
<1>6. /\ u.free = free /\ u.valid_zones = t.valid_zones /\ u.spare = spare
      /\ u.block_table = table /\ u.b_map = bmap
  BY <1>1
<1>7. IsLut(u)
  BY <1>1, <1>2, <1>3, <1>6 DEF IsLut
<1>8. Apart(u)
  <2>1. ASSUME NEW m \in Log, NEW k \in Log, table[m] = table[k]
        PROVE  m = k \/ table[m] = INVALID
    BY <1>4, <2>1 DEF Apart
  <2>2. ASSUME NEW m \in Log, table[m] # INVALID
        PROVE  /\ table[m] \in ZonePhy(ZoneOf(m)) \ config.special
               /\ free[table[m]] = "no"
    BY <1>4, <1>5, <2>2 DEF Apart, ZonePhy
  <2>3. \A c \in config.special : free[c] = "no"
    BY <1>5 DEF Apart
  <2> QED BY <1>6, <2>1, <2>2, <2>3 DEF Apart
<1>9. /\ \A l \in ZoneLog(z) : table[l] = INVALID
      /\ \A b \in ZonePhy(z) : free[b] = "no"
      /\ \A b \in Phy : free[b] \in {"no", t.free[b]}
  BY <1>4, <1>5 DEF ZoneLog, ZonePhy
<1> QED BY <1>6, <1>7, <1>8, <1>9 DEF u

\* long_map.c changes b_map and spare only.
LEMMA EraseMap ==
  ASSUME NEW t, IsLut(t), NEW b
  PROVE  SameMaps(t, MapErase(t, b))
<1> DEFINE u == MapErase(t, b)
           m == [k \in DOMAIN t.b_map \ {b} |-> t.b_map[k]]
<1>1. CASE b \notin DOMAIN t.b_map
  BY <1>1 DEF MapErase, SameMaps
<1>2. CASE b \in DOMAIN t.b_map
  <2>1. u = [free |-> t.free, valid_zones |-> t.valid_zones, spare |-> t.spare + 1,
             block_table |-> t.block_table, b_map |-> m]
    BY <1>2 DEF MapErase, IsLut
  <2>2. DOMAIN m \subseteq Phy
    BY DEF IsLut
  <2> HIDE DEF u, m
  <2>3. IsLut(u)
    BY <2>1, <2>2 DEF IsLut
  <2>4. SameMaps(t, u)
    BY <2>1, <2>3 DEF SameMaps
  <2> QED BY <2>4 DEF u
<1> QED BY <1>1, <1>2

LEMMA InsertMap ==
  ASSUME NEW t, IsLut(t), t.spare > 0, NEW b \in Phy
  PROVE  SameMaps(t, MapInsert(t, b))
<1> DEFINE u == MapInsert(t, b)
           m == [k \in DOMAIN t.b_map \cup {b} |-> IF k = b THEN {} ELSE t.b_map[k]]
<1>0. u = [t EXCEPT !.b_map = m, !.spare = t.spare - 1]
  BY DEF MapInsert
<1>1. u = [free |-> t.free, valid_zones |-> t.valid_zones, spare |-> t.spare - 1,
           block_table |-> t.block_table, b_map |-> m]
  <2> HIDE DEF u, m
  <2> QED BY <1>0 DEF IsLut
<1>2. DOMAIN m \subseteq Phy /\ t.spare - 1 \in Nat
  BY DEF IsLut
<1> HIDE DEF u, m
<1>3. IsLut(u)
  BY <1>1, <1>2 DEF IsLut
<1>4. SameMaps(t, u)
  BY <1>1, <1>3 DEF SameMaps
<1> QED BY <1>4 DEF u

LEMMA MoveMap ==
  ASSUME NEW t, IsLut(t), NEW b \in Phy, NEW a
  PROVE  SameMaps(t, MapMove(t, b, a))
<1> DEFINE u == MapMove(t, b, a)
           m == [k \in (DOMAIN t.b_map \ {a}) \cup {b} |->
                   IF k = b THEN t.b_map[a] ELSE t.b_map[k]]
<1>1. CASE b = a
  BY <1>1 DEF MapMove, SameMaps
<1>2. CASE b # a /\ b \in DOMAIN t.b_map
  BY <1>2, EraseMap DEF MapMove
<1>3. CASE b # a /\ b \notin DOMAIN t.b_map
  <2>1. u = [free |-> t.free, valid_zones |-> t.valid_zones, spare |-> t.spare,
             block_table |-> t.block_table, b_map |-> m]
    BY <1>3 DEF MapMove, IsLut
  <2>2. DOMAIN m \subseteq Phy
    BY DEF IsLut
  <2> HIDE DEF u, m
  <2>3. IsLut(u)
    BY <2>1, <2>2 DEF IsLut
  <2>4. SameMaps(t, u)
    BY <2>1, <2>3 DEF SameMaps
  <2> QED BY <2>4 DEF u
<1> QED BY <1>1, <1>2, <1>3

LEMMA SetMap ==
  ASSUME NEW t, IsLut(t), NEW a, NEW v
  PROVE  SameMaps(t, [t EXCEPT !.b_map[a] = v])
<1> DEFINE m == [t.b_map EXCEPT ![a] = v]
           u == [t EXCEPT !.b_map[a] = v]
<1>1. u = [free |-> t.free, valid_zones |-> t.valid_zones, spare |-> t.spare,
           block_table |-> t.block_table, b_map |-> m]
  BY DEF IsLut
<1>2. DOMAIN m = DOMAIN t.b_map
  OBVIOUS
<1> HIDE DEF u, m
<1>3. IsLut(u)
  BY <1>1, <1>2 DEF IsLut
<1>4. SameMaps(t, u)
  BY <1>1, <1>3 DEF SameMaps
<1> QED BY <1>4 DEF u

LEMMA SameMapsTwice ==
  ASSUME NEW t, NEW u, NEW v, SameMaps(t, u), SameMaps(u, v)
  PROVE  SameMaps(t, v)
BY DEF SameMaps

\* A block has been written: its logical block has it, and no other.
LEMMA AdvancedLut ==
  ASSUME config.special \subseteq Phy, IsLut(lut), Apart(lut), Fresh(lut, pos), pos \in PosType,
         pos.dst # INVALID => lut.free[pos.dst] = "no"
  PROVE  LET u == Advanced(lut)
         IN /\ IsLut(u) /\ Apart(u) /\ u.free = lut.free
            /\ \A m \in Log : u.block_table[m] = IF m = pos.logical THEN pos.dst
                                                ELSE lut.block_table[m]
            /\ Copies(pos) => Gone(u, pos)
<1>1. /\ pos.logical \in Log /\ pos.dst \in ZonePhy(ZoneOf(pos.logical)) \ config.special
      /\ lut.block_table[pos.logical] = pos.src
      /\ pos.dst \in Phy /\ pos.dst # INVALID /\ lut.free[pos.dst] = "no"
  BY FtlAssumption DEF Fresh, ZonePhy
<1> DEFINE mapped == IF pos.dst = pos.src THEN lut
                     ELSE [lut EXCEPT !.block_table[pos.logical] = pos.dst]
<1>2. /\ IsLut(mapped) /\ Apart(mapped) /\ mapped.free = lut.free
      /\ \A m \in Log : mapped.block_table[m] = IF m = pos.logical THEN pos.dst
                                                ELSE lut.block_table[m]
      /\ Copies(pos) => Gone(mapped, pos)
  <2>1. CASE pos.dst = pos.src
    BY <1>1, <2>1 DEF Copies
  <2>2. CASE pos.dst # pos.src
    <3>1. Unmapped(lut, pos.dst)
      BY <2>2 DEF Fresh
    <3>2. /\ IsLut(mapped) /\ Apart(mapped) /\ mapped.free = lut.free
          /\ \A m \in Log : mapped.block_table[m] = IF m = pos.logical THEN pos.dst
                                                    ELSE lut.block_table[m]
      BY <1>1, <2>2, <3>1, MapLut
    <3> HIDE DEF mapped
    <3>3. ASSUME Copies(pos) PROVE Gone(mapped, pos)
      <4>1. pos.src # INVALID /\ pos.src \in Phy
        BY <3>3, FtlAssumption DEF Copies
      <4>2. pos.src \notin config.special /\ lut.free[pos.src] = "no"
        BY <1>1, <4>1 DEF Apart
      <4>3. Unmapped(mapped, pos.src)
        BY <1>1, <2>2, <3>2, <4>1 DEF Unmapped, Apart
      <4> QED BY <3>2, <3>3, <4>2, <4>3 DEF Gone
    <3> QED BY <3>2, <3>3
  <2> QED BY <2>1, <2>2
<1>3. SameMaps(mapped, Advanced(lut))
  <2>0. IsLut(mapped)
    BY <1>2
  <2>1. Advanced(lut) =
          IF MapKey \notin DOMAIN lut.b_map THEN mapped
          ELSE IF Marked \in {{}, Pages} THEN MapErase(mapped, MapKey)
          ELSE MapMove([mapped EXCEPT !.b_map[MapKey] = Marked], pos.dst, MapKey)
    BY DEF Advanced
  <2> HIDE DEF mapped
  <2>2. SameMaps(mapped, mapped)
    BY <2>0 DEF SameMaps
  <2>3. SameMaps(mapped, MapErase(mapped, MapKey))
    BY <2>0, EraseMap
  <2>4. SameMaps(mapped, [mapped EXCEPT !.b_map[MapKey] = Marked])
    BY <2>0, SetMap
  <2>5. SameMaps(mapped, MapMove([mapped EXCEPT !.b_map[MapKey] = Marked], pos.dst, MapKey))
    <3> DEFINE u == [mapped EXCEPT !.b_map[MapKey] = Marked]
    <3>1. SameMaps(mapped, u) /\ IsLut(u)
      BY <2>4 DEF SameMaps
    <3> HIDE DEF u
    <3>2. SameMaps(u, MapMove(u, pos.dst, MapKey))
      BY <1>1, <3>1, MoveMap
    <3>3. SameMaps(mapped, MapMove(u, pos.dst, MapKey))
      BY <3>1, <3>2, SameMapsTwice
    <3> QED BY <3>3 DEF u
  <2> QED BY <2>1, <2>2, <2>3, <2>5
<1> HIDE DEF mapped
<1> QED BY <1>2, <1>3, SameApart DEF SameMaps, Gone, Unmapped

-----------------------------------------------------------------------------
(* What steps have in common.                                              *)

SameScan(f, g) == f.pos = g.pos /\ f.scan_pos = g.scan_pos /\ f.conflict_pos = g.conflict_pos
SameWork(f, g) == /\ f.pos = g.pos /\ f.req_fn = g.req_fn /\ f.req_in = g.req_in
                  /\ f.t_count = g.t_count /\ f.req_suspend = g.req_suspend
                  /\ f.bmap_avail = g.bmap_avail

LEMMA Assemble ==
  ASSUME config' = config, config.special \subseteq Phy, IsLut(lut'), IsFsd(fsd'), IsReq(client'),
         fsd'.req_in \in {NoReq, client'}, Labels', Apart(lut'), Stacked(fsd'),
         Writing(lut', fsd'), Waiting(fsd'),
         LooksUp(fsd') \/ Resolves(fsd') => Scanning(lut, fsd)'
  PROVE  IInv'
<1>1. Types'
  BY DEF Types
<1>2. Apart(lut)'
  BY DEF Apart
<1>3. Writing(lut, fsd)'
  BY DEF Writing, Fresh, Copies, Gone, Body, Copying, Committing, Suspended, Erasing, Unmapped
<1>4. Stacked(fsd)' /\ Waiting(fsd)' /\ (LooksUp(fsd) \/ Resolves(fsd))' = (LooksUp(fsd') \/ Resolves(fsd'))
  BY DEF Stacked, Waiting, Single, Body, Copying, Suspended, LooksUp, Resolves
<1> QED BY <1>1, <1>2, <1>3, <1>4 DEF IInv

LEMMA Basics ==
  ASSUME IInv
  PROVE  /\ IsLut(lut) /\ IsFsd(fsd) /\ IsReq(client) /\ config.special \subseteq Phy
         /\ fsd.req_in \in {NoReq, client} /\ Labels /\ Apart(lut) /\ Stacked(fsd)
         /\ Writing(lut, fsd) /\ Waiting(fsd) /\ pos \in PosType /\ IsReq(fsd.req_in)
         /\ fsd.t_count \in Nat
<1>1. IsReq(NoReq)
  BY ProductTypes DEF IsReq, NoReq
<1> QED BY <1>1 DEF IInv, Types, IsFsd, pos

LEMMA PoppedFields ==
  ASSUME IsFsd(fsd)
  PROVE  /\ IsFsd(Popped) /\ Popped.pos = pos /\ Popped.req_in = fsd.req_in
         /\ Popped.t_count = fsd.t_count /\ Popped.req_suspend = fsd.req_suspend
         /\ Popped.bmap_avail = fsd.bmap_avail /\ Popped.scan_pos = fsd.scan_pos
         /\ Popped.conflict_pos = fsd.conflict_pos /\ Popped.req_fn = Tail(fsd.req_fn)
         /\ Popped.at = fsd.at /\ Popped.req_out = fsd.req_out
<1> DEFINE p == Popped
           s == Tail(fsd.req_fn)
<1>0. p = [fsd EXCEPT !.req_fn = s]
  BY DEF Popped
<1> HIDE DEF p, s
<1>1. p = [pos |-> fsd.pos, clean_dst |-> fsd.clean_dst, req_suspend |-> fsd.req_suspend,
           bmap_avail |-> fsd.bmap_avail, dst_oob |-> fsd.dst_oob, block_buf |-> fsd.block_buf,
           scan_pos |-> fsd.scan_pos, conflict_pos |-> fsd.conflict_pos,
           req_fn |-> s, req_in |-> fsd.req_in, t_count |-> fsd.t_count,
           req_out |-> fsd.req_out, at |-> fsd.at]
  BY <1>0 DEF IsFsd
<1>2. IsFsd(p)
  BY <1>1 DEF IsFsd
<1> QED BY <1>1, <1>2 DEF p, s, pos

\* Steps that change at most where the lock is.
LEMMA AtFields ==
  ASSUME NEW f, IsFsd(f), NEW a \in {"idle", "get", "late", "out"}
  PROVE  LET g == [f EXCEPT !.at = a]
         IN  IsFsd(g) /\ SameWork(g, f) /\ SameScan(g, f) /\ g.at = a /\ g.req_out = f.req_out
<1> DEFINE g == [f EXCEPT !.at = a]
<1>1. g = [pos |-> f.pos, clean_dst |-> f.clean_dst, req_suspend |-> f.req_suspend,
          bmap_avail |-> f.bmap_avail, dst_oob |-> f.dst_oob, block_buf |-> f.block_buf,
          scan_pos |-> f.scan_pos, conflict_pos |-> f.conflict_pos, req_fn |-> f.req_fn,
          req_in |-> f.req_in, t_count |-> f.t_count, req_out |-> f.req_out, at |-> a]
  BY DEF IsFsd
<1> HIDE DEF g
<1>2. IsFsd(g)
  BY <1>1 DEF IsFsd
<1> QED BY <1>1, <1>2 DEF g, SameWork, SameScan

LEMMA SubmitFields ==
  ASSUME NEW f, IsFsd(f), NEW cmd, NEW blk, NEW from, NEW cnt, NEW end,
         Submit(f, cmd, blk, from, cnt, end)
  PROVE  /\ IsFsd(fsd') /\ SameWork(fsd', f) /\ SameScan(fsd', f) /\ fsd'.at = "out"
         /\ fsd'.req_out.end = end /\ fsd'.req_out.cmd = cmd /\ fsd'.req_out.blk = blk
         /\ lut' = lut /\ config' = config /\ flash' = flash /\ client' = client
<1> DEFINE g == fsd'
           o == [cmd |-> cmd, blk |-> blk, from |-> from, cnt |-> cnt, end |-> end]
<1>1. g = [pos |-> f.pos, clean_dst |-> f.clean_dst, req_suspend |-> f.req_suspend,
          bmap_avail |-> f.bmap_avail, dst_oob |-> f.dst_oob, block_buf |-> f.block_buf,
          scan_pos |-> f.scan_pos, conflict_pos |-> f.conflict_pos, req_fn |-> f.req_fn,
          req_in |-> f.req_in, t_count |-> f.t_count, req_out |-> o, at |-> "out"]
  BY DEF IsFsd, Submit
<1>2. o.end = end /\ o.cmd = cmd /\ o.blk = blk
  OBVIOUS
<1> HIDE DEF g, o
<1>3. IsFsd(g)
  BY <1>1 DEF IsFsd
<1>4. lut' = lut /\ config' = config /\ flash' = flash /\ client' = client
  BY DEF Submit, Quiet
<1> QED BY <1>1, <1>2, <1>3, <1>4 DEF g, SameWork, SameScan

\* While the layer is at work on a stack of functions, no write waits.
LEMMA NotWaiting ==
  ASSUME IInv, fsd.req_fn # <<>> \/ fsd.at \in {"out", "late"}
  PROVE  ~ fsd.req_suspend /\ ~ fsd.bmap_avail /\ ~ Suspended(fsd)
<1>1. ~ Suspended(fsd)
  BY DEF IInv, Waiting
<1> QED BY <1>1 DEF Suspended

\* A step of a write that is not about its end: what is left of the stack still
\* begins with other functions.
LEMMA EarlyStep ==
  ASSUME IInv, NEW s, Body(s) \/ Copying(s),
         Body(s) \/ Copying(s) => Fresh(lut, pos), Copying(s) => Copies(pos),
         ~ Suspended(fsd), lut' = lut, config' = config, client' = client, Labels', IsFsd(fsd'),
         fsd'.req_fn = s, fsd'.pos = pos, fsd'.req_in = fsd.req_in,
         fsd'.req_suspend = fsd.req_suspend, fsd'.bmap_avail = fsd.bmap_avail,
         fsd'.at = "out" => fsd'.req_out.end \in EarlyEnds
  PROVE  IInv'
<1>1. ~ Single(s) /\ s # <<>> /\ s # <<"lookup_block">> /\ s # <<"resolve">> /\ s # <<"erase_src">>
  BY StackKinds DEF Commits
<1>2. EarlyEnds \cap (CommitEnds \cup LastEnds) = {}
  BY DEF EarlyEnds, CommitEnds, LastEnds
<1>3. ~ LooksUp(fsd') /\ ~ Resolves(fsd')
  BY <1>1, <1>2 DEF LooksUp, Resolves, LastEnds
<1>4. Stacked(fsd')
  BY <1>1 DEF Stacked
<1>5. ~ Committing(fsd') /\ ~ Erasing(fsd') /\ ~ Suspended(fsd')
  BY <1>1, <1>2 DEF Committing, Erasing, Suspended, LastEnds
<1>6. Writing(lut', fsd')
  <2>1. fsd'.pos.dst # INVALID => lut'.free[fsd'.pos.dst] = "no"
    BY Basics DEF Writing, pos
  <2> QED BY <1>5, <2>1 DEF Writing
<1>7. Waiting(fsd')
  BY <1>5 DEF Waiting
<1> QED BY <1>3, <1>4, <1>6, <1>7, Basics, Assemble

\* A step after which nothing is left but, of a write that is done, the erase of the
\* old block: the block it has written is mapped.
LEMMA CommitStep ==
  ASSUME IInv, NEW f, IsFsd(f), f.req_in = fsd.req_in, f.pos = pos, ~ Suspended(f),
         f.at \in {"idle", "get"}, Advance(f), f.req_fn \in {<<>>, <<"erase_src">>},
         Fresh(lut, pos), f.req_fn = <<"erase_src">> => Copies(pos),
         config' = config, client' = client, Labels'
  PROVE  IInv'
<1> DEFINE g == fsd'
           n == f.t_count + pos.len
<1>1. g = [pos |-> f.pos, clean_dst |-> f.clean_dst, req_suspend |-> f.req_suspend,
          bmap_avail |-> f.bmap_avail, dst_oob |-> f.dst_oob, block_buf |-> f.block_buf,
          scan_pos |-> f.scan_pos, conflict_pos |-> f.conflict_pos, req_fn |-> f.req_fn,
          req_in |-> f.req_in, t_count |-> n, req_out |-> f.req_out, at |-> f.at]
  BY DEF IsFsd, Advance
<1>2. n \in Nat
  BY DEF IsFsd, PosType
<1> HIDE DEF g, n
<1>3. IsFsd(g)
  BY <1>1, <1>2 DEF IsFsd
<1>4. /\ IsLut(lut') /\ Apart(lut') /\ lut'.free = lut.free
      /\ Copies(pos) => Gone(lut', pos)
  <2>1. lut' = Advanced(lut)
    BY DEF Advance
  <2>2. pos.dst # INVALID => lut.free[pos.dst] = "no"
    BY Basics DEF Writing, pos
  <2> QED BY <2>1, <2>2, Basics, AdvancedLut
<1>5. /\ ~ Body(g.req_fn) /\ ~ Copying(g.req_fn) /\ ~ LooksUp(g)
      /\ g.req_fn = <<>> \/ Single(g.req_fn)
      /\ ~ Committing(g) /\ ~ Suspended(g) /\ ~ Resolves(g)
  <2>1. "erase_src" \in Singles /\ "erase_src" \notin Commits
    BY DEF Singles, Commits
  <2>2. f.req_fn # <<"lookup_block">> /\ f.req_fn # <<"resolve">>
    BY SingleTop
  <2> QED BY <1>1, <2>1, <2>2, StackKinds DEF LooksUp, Resolves, Committing, Suspended, Single
<1>6. Stacked(g) /\ Waiting(g)
  BY <1>1, <1>5 DEF Stacked, Waiting
<1>7. Writing(lut', g)
  <2>1. g.pos.dst # INVALID => lut'.free[g.pos.dst] = "no"
    BY <1>1, <1>4, Basics DEF Writing, pos
  <2>2. Erasing(g) => Gone(lut', g.pos)
    BY <1>1, <1>4 DEF Erasing
  <2> QED BY <1>1, <1>5, <2>1, <2>2 DEF Writing
<1>8. g.req_in \in {NoReq, client'} /\ IsReq(client')
  BY <1>1, Basics
<1> QED BY <1>3, <1>4, <1>5, <1>6, <1>7, <1>8, Basics, Assemble DEF g

\* Nothing is left of the request.
LEMMA IdleStep ==
  ASSUME IInv, IsLut(lut'), Apart(lut'), IsFsd(fsd'), fsd'.at # "out", fsd'.req_fn = <<>>,
         fsd'.pos.dst # INVALID => lut'.free[fsd'.pos.dst] = "no",
         ~ Suspended(fsd'), fsd'.req_in \in {NoReq, client'}, IsReq(client'),
         config' = config, Labels'
  PROVE  IInv'
<1>1. /\ ~ Body(fsd'.req_fn) /\ ~ Copying(fsd'.req_fn) /\ ~ LooksUp(fsd')
      /\ ~ Resolves(fsd') /\ ~ Committing(fsd') /\ ~ Erasing(fsd')
  BY StackKinds DEF LooksUp, Resolves, Committing, Erasing
<1>2. Stacked(fsd') /\ Waiting(fsd') /\ Writing(lut', fsd')
  BY <1>1 DEF Stacked, Waiting, Writing
<1> QED BY <1>1, <1>2, Basics, Assemble

LEMMA CompletedFields ==
  ASSUME NEW f, IsFsd(f), NEW a \in {"idle", "get", "late", "out"}
  PROVE  LET g == Completed(f, a)
         IN  /\ IsFsd(g) /\ g.req_fn = <<>> /\ g.req_in = NoReq /\ g.pos = NoPos /\ g.at = a
             /\ g.req_suspend = f.req_suspend /\ g.bmap_avail = f.bmap_avail
<1> DEFINE g == Completed(f, a)
           e == <<>>
<1>0. g = [f EXCEPT !.req_fn = e, !.req_in = NoReq, !.t_count = 0, !.pos = NoPos, !.at = a]
  BY DEF Completed
<1> HIDE DEF e
<1>1. g = [pos |-> NoPos, clean_dst |-> f.clean_dst, req_suspend |-> f.req_suspend,
          bmap_avail |-> f.bmap_avail, dst_oob |-> f.dst_oob, block_buf |-> f.block_buf,
          scan_pos |-> f.scan_pos, conflict_pos |-> f.conflict_pos, req_fn |-> e,
          req_in |-> NoReq, t_count |-> 0, req_out |-> f.req_out, at |-> a]
  <2> HIDE DEF g
  <2> QED BY <1>0 DEF IsFsd
<1>2. NoPos \in PosType
  BY DEF NoPos, PosType
<1> HIDE DEF g
<1>3. IsFsd(g)
  BY <1>1, <1>2 DEF IsFsd
<1> QED BY <1>1, <1>3 DEF g, e

LEMMA RestReq ==
  ASSUME IsReq(client), NEW n \in Nat
  PROVE  IsReq(Rest(n))
<1>1. IsReq(NoReq)
  BY ProductTypes DEF IsReq, NoReq
<1>2. CASE ~ (n = 0 \/ n = client.len)
  <2> DEFINE c == Rest(n)
  <2>1. c = [op |-> client.op, at |-> client.at + n, len |-> client.len - n,
             ver |-> client.ver]
    BY <1>2 DEF Rest, IsReq
  <2> HIDE DEF c
  <2>2. IsReq(c)
    BY <2>1, ProductTypes DEF IsReq
  <2> QED BY <2>2 DEF c
<1> QED BY <1>1, <1>2 DEF Rest

LEMMA CompleteStep ==
  ASSUME IInv, ~ Suspended(fsd), NEW n \in Nat, NEW a \in {"idle", "get"}, Complete(n, a),
         IsLut(lut'), Apart(lut'), config' = config, Labels'
  PROVE  IInv'
<1>1. fsd' = Completed(fsd, a) /\ client' = Rest(n)
  BY DEF Complete
<1>2. /\ IsFsd(fsd') /\ fsd'.req_fn = <<>> /\ fsd'.req_in = NoReq /\ fsd'.pos = NoPos
      /\ fsd'.at = a /\ ~ Suspended(fsd')
  BY <1>1, Basics, CompletedFields DEF Suspended
<1>3. NoPos.dst = INVALID
  BY DEF NoPos
<1>4. IsReq(client')
  BY <1>1, Basics, RestReq
<1> QED BY <1>2, <1>3, <1>4, IdleStep

-----------------------------------------------------------------------------
(* The functions on the stack.                                             *)

LEMMA TopOfStack ==
  ASSUME IInv, fsd.at # "out", fsd.req_fn # <<>>
  PROVE  LET fn == Head(fsd.req_fn)
             s  == Tail(fsd.req_fn)
         IN /\ fn \in Early \cup Commits \cup Singles /\ ~ Committing(fsd)
            /\ fn \in Early => /\ Body(s) \/ Copying(s)
                               /\ Fresh(lut, pos)
                               /\ Copying(s) => Copies(pos)
            /\ fn \in Commits => /\ s \in {<<>>, <<"erase_src">>}
                                 /\ Fresh(lut, pos)
                                 /\ s = <<"erase_src">> => Copies(pos)
            /\ fn \in Singles => s = <<>> /\ fsd.req_fn = <<fn>>
<1> DEFINE fn == Head(fsd.req_fn)
           s  == Tail(fsd.req_fn)
<1>1. Single(fsd.req_fn) \/ Body(fsd.req_fn) \/ Copying(fsd.req_fn)
  BY Basics DEF Stacked
<1>2. ~ Committing(fsd)
  BY DEF Committing
<1>3. /\ \A n \in Early : n \notin Commits /\ n \notin Singles
      /\ \A n \in Commits : n \notin Singles
  BY DEF Early, Commits, Singles
<1>4. /\ Body(fsd.req_fn) \/ Copying(fsd.req_fn) => Fresh(lut, pos)
      /\ Copying(fsd.req_fn) => Copies(pos)
  BY Basics DEF Writing, pos
<1>5. CASE Single(fsd.req_fn)
  <2>1. fn \in Singles /\ s = <<>> /\ fsd.req_fn = <<fn>>
    BY <1>5, StackKinds
  <2> QED BY <1>2, <1>3, <2>1
<1>6. CASE Body(fsd.req_fn)
  <2>1. /\ fn \in Early \cup Commits
        /\ fn \in Early => Body(s)
        /\ fn \in Commits => s = <<>>
    BY <1>6, BodyTop
  <2>2. Body(s) => ~ Copying(s)
    BY StackKinds
  <2>3. <<>> # <<"erase_src">>
    BY SingleTop
  <2> QED BY <1>2, <1>3, <1>4, <1>6, <2>1, <2>2, <2>3
<1>7. CASE Copying(fsd.req_fn)
  <2>1. /\ fn \in Early \cup Commits
        /\ fn \in Early => Copying(s)
        /\ fn \in Commits => s = <<"erase_src">>
    BY <1>7, CopyingTop
  <2> QED BY <1>2, <1>3, <1>4, <1>7, <2>1
<1> QED BY <1>1, <1>5, <1>6, <1>7

LEMMA EarlySubmit ==
  ASSUME IInv, NEW fn \in Early, Calls(fn), NEW f, IsFsd(f), SameWork(f, Popped),
         NEW end \in EarlyEnds, NEW cmd, NEW blk, NEW from, NEW cnt,
         Submit(f, cmd, blk, from, cnt, end)
  PROVE  IInv'
<1> DEFINE s == Tail(fsd.req_fn)
<1>1. /\ fsd.at = "get" /\ fsd.req_fn # <<>> /\ Head(fsd.req_fn) = fn
  BY DEF Calls
<1>2. /\ Body(s) \/ Copying(s)
      /\ Fresh(lut, pos)
      /\ Copying(s) => Copies(pos)
  BY <1>1, TopOfStack
<1>3. /\ IsFsd(fsd') /\ SameWork(fsd', f) /\ fsd'.at = "out" /\ fsd'.req_out.end = end
      /\ lut' = lut /\ config' = config /\ flash' = flash /\ client' = client
  BY SubmitFields
<1>4. /\ fsd'.req_fn = s /\ fsd'.pos = pos /\ fsd'.req_in = fsd.req_in
      /\ fsd'.req_suspend = fsd.req_suspend /\ fsd'.bmap_avail = fsd.bmap_avail
  BY <1>3, PoppedFields, Basics DEF SameWork
<1>5. Labels' /\ ~ Suspended(fsd)
  BY <1>1, <1>3, Basics, NotWaiting DEF Labels
<1> HIDE DEF s
<1> QED BY <1>2, <1>3, <1>4, <1>5, EarlyStep

LEMMA EarlySkip ==
  ASSUME IInv, NEW fn \in Early, Calls(fn), Skip
  PROVE  IInv'
<1> DEFINE s == Tail(fsd.req_fn)
<1>1. /\ fsd.at = "get" /\ fsd.req_fn # <<>> /\ Head(fsd.req_fn) = fn
  BY DEF Calls
<1>2. /\ Body(s) \/ Copying(s)
      /\ Fresh(lut, pos)
      /\ Copying(s) => Copies(pos)
  BY <1>1, TopOfStack
<1>3. /\ fsd' = Popped /\ lut' = lut /\ config' = config /\ flash' = flash /\ client' = client
  BY DEF Skip, Quiet
<1>4. /\ IsFsd(fsd') /\ fsd'.req_fn = s /\ fsd'.pos = pos /\ fsd'.req_in = fsd.req_in
      /\ fsd'.req_suspend = fsd.req_suspend /\ fsd'.bmap_avail = fsd.bmap_avail
      /\ fsd'.at # "out"
  BY <1>1, <1>3, PoppedFields, Basics
<1>5. Labels' /\ ~ Suspended(fsd)
  BY <1>1, <1>3, Basics, NotWaiting DEF Labels
<1> HIDE DEF s
<1> QED BY <1>2, <1>3, <1>4, <1>5, EarlyStep

LEMMA BufFields ==
  ASSUME NEW f, IsFsd(f), NEW buf
  PROVE  LET g == [f EXCEPT !.block_buf = buf]
         IN  IsFsd(g) /\ SameWork(g, f) /\ SameScan(g, f) /\ g.at = f.at /\ g.req_out = f.req_out
<1> DEFINE g == [f EXCEPT !.block_buf = buf]
<1>1. g = [pos |-> f.pos, clean_dst |-> f.clean_dst, req_suspend |-> f.req_suspend,
          bmap_avail |-> f.bmap_avail, dst_oob |-> f.dst_oob, block_buf |-> buf,
          scan_pos |-> f.scan_pos, conflict_pos |-> f.conflict_pos, req_fn |-> f.req_fn,
          req_in |-> f.req_in, t_count |-> f.t_count, req_out |-> f.req_out, at |-> f.at]
  BY DEF IsFsd
<1> HIDE DEF g
<1>2. IsFsd(g)
  BY <1>1 DEF IsFsd
<1> QED BY <1>1, <1>2 DEF g, SameWork, SameScan

LEMMA OobFields ==
  ASSUME NEW f, IsFsd(f), NEW n, IsLabel(n)
  PROVE  LET g == [f EXCEPT !.dst_oob = n]
         IN  IsFsd(g) /\ SameWork(g, f) /\ SameScan(g, f) /\ g.at = f.at /\ g.req_out = f.req_out
<1> DEFINE g == [f EXCEPT !.dst_oob = n]
<1>1. g = [pos |-> f.pos, clean_dst |-> f.clean_dst, req_suspend |-> f.req_suspend,
          bmap_avail |-> f.bmap_avail, dst_oob |-> n, block_buf |-> f.block_buf,
          scan_pos |-> f.scan_pos, conflict_pos |-> f.conflict_pos, req_fn |-> f.req_fn,
          req_in |-> f.req_in, t_count |-> f.t_count, req_out |-> f.req_out, at |-> f.at]
  BY DEF IsFsd
<1> HIDE DEF g
<1>2. IsFsd(g)
  BY <1>1 DEF IsFsd
<1> QED BY <1>1, <1>2 DEF g, SameWork, SameScan

LEMMA EarlyFns ==
  ASSUME IInv, \/ EraseDst \/ SelectSrc \/ WriteData \/ ReadFirst \/ ReadLast \/ WriteFirst
               \/ CopyFirst
  PROVE  IInv'
<1>1. IsFsd(Popped) /\ SameWork(Popped, Popped)
  BY Basics, PoppedFields DEF SameWork
<1>2. /\ {"erase_dst", "select_src", "write_data", "read_first", "read_last", "write_first",
          "copy_first"} \subseteq Early
      /\ {"erase_dst", "select", "write", "read_first", "read_last", "first"} \subseteq EarlyEnds
  BY DEF Early, EarlyEnds
<1>3. CASE EraseDst
  BY <1>1, <1>2, <1>3, EarlySubmit DEF EraseDst
<1>4. CASE SelectSrc
  BY <1>1, <1>2, <1>4, EarlySubmit DEF SelectSrc
<1>5. CASE WriteData
  BY <1>1, <1>2, <1>5, EarlySubmit DEF WriteData
<1>6. CASE ReadFirst
  BY <1>1, <1>2, <1>6, EarlySubmit, EarlySkip DEF ReadFirst
<1>7. CASE ReadLast
  BY <1>1, <1>2, <1>7, EarlySubmit, EarlySkip DEF ReadLast
<1>8. CASE CopyFirst
  BY <1>1, <1>2, <1>8, EarlySubmit, EarlySkip DEF CopyFirst
<1>9. CASE WriteFirst
  <2> DEFINE f == [Popped EXCEPT !.block_buf[0] = Fill]
  <2>1. IsFsd(f) /\ SameWork(f, Popped)
    <3>1. f = [Popped EXCEPT !.block_buf = [Popped.block_buf EXCEPT ![0] = Fill]]
      BY <1>1 DEF IsFsd
    <3> QED BY <1>1, <3>1, BufFields
  <2>2. \/ Skip \/ Submit(f, "WRITE", pos.dst, 0, 1, "first")
        \/ Submit(Popped, "WRITE", pos.dst, 0, pos.off, "first")
    BY <1>9 DEF WriteFirst
  <2>3. Calls("write_first")
    BY <1>9 DEF WriteFirst
  <2> HIDE DEF f
  <2> QED BY <1>1, <1>2, <2>1, <2>2, <2>3, EarlySubmit, EarlySkip
<1> QED BY <1>3, <1>4, <1>5, <1>6, <1>7, <1>8, <1>9

\* The function after which the block is mapped: its command, or its end without one.
LEMMA CommitSubmit ==
  ASSUME IInv, NEW fn \in Commits, Calls(fn), NEW end \in CommitEnds, NEW cmd, NEW blk,
         NEW from, NEW cnt, Submit(Popped, cmd, blk, from, cnt, end)
  PROVE  IInv'
<1> DEFINE s == Tail(fsd.req_fn)
<1>1. /\ fsd.at = "get" /\ fsd.req_fn # <<>> /\ Head(fsd.req_fn) = fn
  BY DEF Calls
<1>2. /\ s \in {<<>>, <<"erase_src">>}
      /\ Fresh(lut, pos)
      /\ s = <<"erase_src">> => Copies(pos)
  BY <1>1, TopOfStack
<1>3. /\ IsFsd(fsd') /\ SameWork(fsd', Popped) /\ fsd'.at = "out" /\ fsd'.req_out.end = end
      /\ lut' = lut /\ config' = config /\ flash' = flash /\ client' = client
  BY SubmitFields, PoppedFields, Basics
<1>4. /\ fsd'.req_fn = s /\ fsd'.pos = pos /\ fsd'.req_in = fsd.req_in
      /\ fsd'.req_suspend = fsd.req_suspend /\ fsd'.bmap_avail = fsd.bmap_avail
  BY <1>3, PoppedFields, Basics DEF SameWork
<1>5. Labels' /\ ~ Suspended(fsd')
  BY <1>1, <1>3, <1>4, Basics, NotWaiting DEF Labels, Suspended
<1> HIDE DEF s
<1>6. /\ ~ Body(s) /\ ~ Copying(s) /\ s # <<"lookup_block">> /\ s # <<"resolve">>
  BY <1>2, StackKinds, SingleTop DEF Commits
<1>7. end \notin LastEnds /\ end # "resolve" /\ end # "erase_src"
  BY DEF CommitEnds, LastEnds
<1>8. ~ LooksUp(fsd') /\ ~ Resolves(fsd') /\ Committing(fsd') /\ ~ Erasing(fsd')
  BY <1>3, <1>4, <1>6, <1>7 DEF LooksUp, Resolves, Committing, Erasing
<1>9. Stacked(fsd') /\ Waiting(fsd')
  BY <1>2, <1>3, <1>4, <1>5 DEF Stacked, Waiting
<1>10. Writing(lut', fsd')
  <2>1. fsd'.pos.dst # INVALID => lut'.free[fsd'.pos.dst] = "no"
    BY <1>3, <1>4, Basics DEF Writing, pos
  <2> QED BY <1>2, <1>3, <1>4, <1>5, <1>6, <1>8, <2>1 DEF Writing
<1> QED BY <1>3, <1>4, <1>5, <1>8, <1>9, <1>10, Basics, Assemble

LEMMA CommitFns == ASSUME IInv, MergeData \/ WriteLast \/ CopyLast PROVE IInv'
<1>1. {"merge_data", "write_last", "copy_last"} \subseteq Commits /\ {"merge", "last"} \subseteq CommitEnds
  BY DEF Commits, CommitEnds
<1>2. CASE MergeData
  BY <1>1, <1>2, CommitSubmit DEF MergeData
<1>3. ASSUME NEW fn \in Commits, NEW cmd, SubmitLast(fn, cmd)
      PROVE  IInv'
  <2>1. Calls(fn) /\ fsd.at = "get" /\ fsd.req_fn # <<>> /\ Head(fsd.req_fn) = fn
    BY <1>3 DEF SubmitLast, Calls
  <2>2. CASE Submit(Popped, cmd, pos.dst, After, PageCnt - After, "last")
    BY <1>1, <2>1, <2>2, CommitSubmit
  <2>3. CASE Advance(Popped) /\ UNCHANGED <<flash, config, client, got, flaws, used>>
    <3>1. /\ IsFsd(Popped) /\ Popped.req_in = fsd.req_in /\ Popped.pos = pos
          /\ ~ Suspended(Popped) /\ Popped.at = "get" /\ Popped.req_fn = Tail(fsd.req_fn)
      BY <2>1, Basics, PoppedFields, NotWaiting DEF Suspended
    <3>2. /\ Popped.req_fn \in {<<>>, <<"erase_src">>}
          /\ Fresh(lut, pos)
          /\ Popped.req_fn = <<"erase_src">> => Copies(pos)
      BY <2>1, <3>1, TopOfStack
    <3>3. Labels'
      BY <2>3, Basics DEF Labels
    <3> QED BY <2>3, <3>1, <3>2, <3>3, CommitStep
  <2> QED BY <1>3, <2>2, <2>3 DEF SubmitLast
<1> QED BY <1>1, <1>2, <1>3 DEF WriteLast, CopyLast

LEMMA CountFields ==
  ASSUME NEW f, IsFsd(f), NEW n \in Nat
  PROVE  LET g == [f EXCEPT !.t_count = n]
         IN  /\ IsFsd(g) /\ SameScan(g, f) /\ g.req_fn = f.req_fn /\ g.req_in = f.req_in
             /\ g.req_suspend = f.req_suspend /\ g.bmap_avail = f.bmap_avail /\ g.at = f.at
             /\ g.req_out = f.req_out
<1> DEFINE g == [f EXCEPT !.t_count = n]
<1>1. g = [pos |-> f.pos, clean_dst |-> f.clean_dst, req_suspend |-> f.req_suspend,
          bmap_avail |-> f.bmap_avail, dst_oob |-> f.dst_oob, block_buf |-> f.block_buf,
          scan_pos |-> f.scan_pos, conflict_pos |-> f.conflict_pos, req_fn |-> f.req_fn,
          req_in |-> f.req_in, t_count |-> n, req_out |-> f.req_out, at |-> f.at]
  BY DEF IsFsd
<1> HIDE DEF g
<1>2. IsFsd(g)
  BY <1>1 DEF IsFsd
<1> QED BY <1>1, <1>2 DEF g, SameScan

\* The last command of a write or of a read, or of a write that has failed.
LEMMA LastSubmit ==
  ASSUME IInv, NEW fn \in {"erase_src", "invalidate_dst", "read_data"}, Calls(fn),
         NEW f, IsFsd(f), SameWork(f, Popped), NEW cmd, NEW blk, NEW from, NEW cnt,
         NEW end \in {"erase_src", "invalidate", "read_data"}, end = "erase_src" => fn = "erase_src",
         Submit(f, cmd, blk, from, cnt, end)
  PROVE  IInv'
<1>1. /\ fsd.at = "get" /\ fsd.req_fn # <<>> /\ Head(fsd.req_fn) = fn
  BY DEF Calls
<1>2. Tail(fsd.req_fn) = <<>> /\ fsd.req_fn = <<fn>> /\ ~ Committing(fsd)
  <2>1. fn \in Singles
    BY DEF Singles
  <2> QED BY <1>1, <2>1, TopOfStack
<1>3. /\ IsFsd(fsd') /\ SameWork(fsd', f) /\ fsd'.at = "out" /\ fsd'.req_out.end = end
      /\ lut' = lut /\ config' = config /\ flash' = flash /\ client' = client
  BY SubmitFields
<1>4. /\ fsd'.req_fn = <<>> /\ fsd'.pos = pos /\ fsd'.req_in = fsd.req_in
      /\ fsd'.req_suspend = fsd.req_suspend /\ fsd'.bmap_avail = fsd.bmap_avail
  BY <1>2, <1>3, PoppedFields, Basics DEF SameWork
<1>5. Labels' /\ ~ Suspended(fsd')
  BY <1>1, <1>3, <1>4, Basics, NotWaiting DEF Labels, Suspended
<1>6. end \in LastEnds /\ end \notin CommitEnds /\ end # "resolve"
  BY DEF LastEnds, CommitEnds
<1>7. /\ ~ Body(fsd'.req_fn) /\ ~ Copying(fsd'.req_fn) /\ ~ LooksUp(fsd')
      /\ ~ Resolves(fsd') /\ ~ Committing(fsd')
  BY <1>3, <1>4, <1>6, StackKinds DEF LooksUp, Resolves, Committing
<1>8. Erasing(fsd') => Gone(lut, pos)
  <2>1. ASSUME Erasing(fsd') PROVE fn = "erase_src"
    BY <1>3, <1>4, <2>1, SingleTop DEF Erasing
  <2>2. fn = "erase_src" => Gone(lut, pos)
    BY <1>2, Basics DEF Writing, Erasing, pos
  <2> QED BY <2>1, <2>2
<1>9. Stacked(fsd') /\ Waiting(fsd')
  BY <1>3, <1>4, <1>5, <1>6 DEF Stacked, Waiting
<1>10. Writing(lut', fsd')
  <2>1. fsd'.pos.dst # INVALID => lut'.free[fsd'.pos.dst] = "no"
    BY <1>3, <1>4, Basics DEF Writing, pos
  <2> QED BY <1>3, <1>4, <1>5, <1>7, <1>8, <2>1 DEF Writing
<1> QED BY <1>3, <1>4, <1>5, <1>7, <1>9, <1>10, Basics, Assemble

LEMMA LastFns ==
  ASSUME IInv, EraseSrc \/ ReadData \/ InvalidateDst \/ FillData
  PROVE  IInv'
<1>1. IsFsd(Popped) /\ SameWork(Popped, Popped)
  BY Basics, PoppedFields DEF SameWork
<1>2. CASE EraseSrc
  BY <1>1, <1>2, LastSubmit DEF EraseSrc
<1>3. CASE ReadData
  BY <1>1, <1>3, LastSubmit DEF ReadData
<1>4. CASE InvalidateDst
  <2> DEFINE n == [log |-> INVALID, mark |-> "bad"]
             f == [Popped EXCEPT !.dst_oob = n]
  <2>1. IsLabel(n)
    BY DEF IsLabel
  <2>2. Calls("invalidate_dst") /\ Submit(f, "WRITE", pos.dst, 0, 1, "invalidate")
    BY <1>4 DEF InvalidateDst
  <2> HIDE DEF n
  <2>3. IsFsd(f) /\ SameWork(f, Popped)
    BY <1>1, <2>1, OobFields
  <2> HIDE DEF f
  <2> QED BY <2>2, <2>3, LastSubmit
<1>5. CASE FillData
  <2> DEFINE t == fsd.t_count + pos.len
  <2>0. t \in Nat
    BY Basics DEF PosType
  <2>1. /\ fsd.at = "get" /\ fsd.req_fn # <<>> /\ Head(fsd.req_fn) = "fill_data"
    BY <1>5 DEF FillData, Calls
  <2>2. Tail(fsd.req_fn) = <<>> /\ ~ Suspended(fsd)
    <3>1. "fill_data" \in Singles
      BY DEF Singles
    <3> QED BY <2>1, <3>1, TopOfStack, NotWaiting
  <2>3. lut' = lut /\ flash' = flash /\ config' = config
    BY <1>5 DEF FillData
  <2>4. Labels'
    BY <2>3, Basics DEF Labels
  <2>5. \/ Complete(t, "get")
        \/ fsd' = [Popped EXCEPT !.t_count = t] /\ client' = client
    BY <1>5 DEF FillData
  <2> HIDE DEF t
  <2>6. CASE Complete(t, "get")
    BY <2>0, <2>2, <2>3, <2>4, <2>6, Basics, CompleteStep
  <2>7. CASE fsd' = [Popped EXCEPT !.t_count = t] /\ client' = client
    <3>1. /\ IsFsd(fsd') /\ fsd'.pos = pos /\ fsd'.req_fn = <<>> /\ fsd'.req_in = fsd.req_in
          /\ fsd'.req_suspend = fsd.req_suspend /\ fsd'.bmap_avail = fsd.bmap_avail
          /\ fsd'.at = "get"
      BY <1>1, <2>0, <2>1, <2>2, <2>7, Basics, PoppedFields, CountFields, ZenonT(30)
         DEF SameScan
    <3>2. fsd'.pos.dst # INVALID => lut'.free[fsd'.pos.dst] = "no"
      BY <2>3, <3>1, Basics DEF Writing, pos
    <3>3. ~ Suspended(fsd')
      BY <2>2, <3>1 DEF Suspended
    <3> QED BY <2>3, <2>4, <2>7, <3>1, <3>2, <3>3, Basics, IdleStep
  <2> QED BY <2>5, <2>6, <2>7
<1> QED BY <1>2, <1>3, <1>4, <1>5

-----------------------------------------------------------------------------
(* The scan of a zone.                                                     *)

Order == {p \in Nat \X Nat : p[1] < p[2]}

LEMMA LeastExists ==
  ASSUME NEW S \in SUBSET Nat, S # {}
  PROVE  \E b \in S : \A c \in S : b <= c
<1>1. Order = OpToRel(<, Nat)
  BY DEF OpToRel, Order
<1>2. IsWellFoundedOn(Order, Nat)
  BY <1>1, NatLessThanWellFounded
<1>3. PICK b \in S : \A c \in S : <<c, b>> \notin Order
  BY <1>2, WFMin
<1>4. \A c \in S : ~ (c < b)
  BY <1>3 DEF Order
<1> QED BY <1>4

\* A command, done or cut short, leaves labels.
LEMMA EffectLabels ==
  ASSUME Labels, IsFsd(fsd), NEW new \in Done(flash[out.blk]) \cup CutShort(flash[out.blk]),
         flash' = [flash EXCEPT ![out.blk] = new]
  PROVE  Labels'
<1> DEFINE b == flash[out.blk]
<1>1. ASSUME out.blk \in Phy PROVE Labels'
  <2>1. IsBlock(b)
    BY <1>1 DEF Labels
  <2>2. IsLabel(Unreadable) /\ IsLabel(NoLabel)
    BY DEF IsLabel, Unreadable, NoLabel
  <2>3. IsBlock(Blank)
    BY <2>2 DEF Blank, IsBlock
  <2> HIDE DEF b
  <2>4. ASSUME NEW n PROVE IsBlock(Programmed(b, n)) /\ IsBlock(Torn(b, n))
    <3>1. IsBlock(Programmed(b, n))
      BY <2>1 DEF Programmed, IsBlock, IsFsd
    <3> QED BY <2>2, <3>1 DEF Torn, IsBlock
  <2>5. ASSUME NEW m PROVE IsBlock([b EXCEPT !.label.mark = m])
    BY <2>1 DEF IsBlock, IsLabel
  <2>6. IsBlock([b EXCEPT !.label = [log |-> INVALID, mark |-> "bad"]])
    BY <2>1 DEF IsBlock, IsLabel
  <2>7. \A d \in Done(b) : IsBlock(d)
    BY <2>1, <2>3, <2>4, <2>5, <2>6 DEF Done
  <2>8. \A d \in CutShort(b) : IsBlock(d)
    <3>1. IsBlock([label |-> Unreadable, pages |-> [p \in Pages |-> Garbage]])
      BY <2>2 DEF IsBlock
    <3> QED BY <2>1, <2>4, <3>1 DEF CutShort
  <2>9. IsBlock(new)
    BY <2>7, <2>8 DEF b
  <2>10. flash' = [c \in Phy |-> flash'[c]]
    BY DEF Labels
  <2>11. ASSUME NEW c \in Phy PROVE IsBlock(flash'[c])
    BY <2>9 DEF Labels
  <2>12. Labels'
    BY <2>10, <2>11 DEF Labels, IsBlock, IsLabel
  <2> QED BY <2>12
<1>2. ASSUME out.blk \notin Phy PROVE Labels'
  BY <1>2 DEF Labels
<1> QED BY <1>1, <1>2

\* One that reads leaves the flash as it was.
LEMMA EndedLabels ==
  ASSUME Labels, IsFsd(fsd), NEW r \in Results, Ended(r)
  PROVE  /\ Labels' /\ config' = config
         /\ out.cmd = "READ" /\ out.end \notin {"invalidate", "select"} => flash' = flash
<1> DEFINE b == flash[out.blk]
<1>1. flash' = [flash EXCEPT ![out.blk] = r.blk] /\ config' = config
  BY DEF Ended
<1>2. r.blk \in Done(b) \cup CutShort(b)
  BY DEF Results
<1>3. Labels'
  BY <1>1, <1>2, EffectLabels
<1>4. ASSUME out.cmd = "READ", out.end \notin {"invalidate", "select"}
      PROVE  flash' = flash
  <2>1. Done(b) = {b}
    BY <1>4 DEF Done
  <2>2. CutShort(b) = {b}
    BY <1>4 DEF CutShort
  <2>3. r.blk = b
    BY <1>2, <2>1, <2>2
  <2> QED BY <1>1, <2>3 DEF Labels
<1> QED BY <1>1, <1>3, <1>4

\* The scan goes on.
LEMMA ScanStep ==
  ASSUME IInv, IsLut(lut'), Apart(lut'), IsFsd(fsd'), fsd'.pos.dst = INVALID,
         fsd'.req_in \in {NoReq, client'}, client' = client, ~ Suspended(fsd'), config' = config, Labels',
         \/ fsd'.at # "out" /\ fsd'.req_fn \in {<<"lookup_block">>, <<"resolve">>}
         \/ fsd'.at = "out" /\ fsd'.req_out.end = "lookup_block" /\ fsd'.req_fn = <<"lookup_block">>
         \/ fsd'.at = "out" /\ fsd'.req_out.end = "resolve" /\ fsd'.req_fn = <<>>,
         Scanning(lut, fsd)'
  PROVE  IInv'
<1>1. {"lookup_block", "resolve"} \subseteq Singles \ Commits /\ "resolve" \in LastEnds
  BY DEF Singles, Commits, LastEnds
<1>2. ~ Committing(fsd')
  BY DEF Committing, CommitEnds
<1>3. ~ Body(fsd'.req_fn) /\ ~ Copying(fsd'.req_fn)
  BY <1>1, StackKinds
<1>4. fsd'.req_fn # <<"erase_src">> /\ ~ Erasing(fsd')
  <2>1. fsd'.req_fn # <<"erase_src">>
    BY SingleTop
  <2> QED BY <2>1 DEF Erasing
<1>5. Stacked(fsd')
  BY <1>1 DEF Stacked, Single
<1>6. Writing(lut', fsd') /\ Waiting(fsd')
  BY <1>2, <1>3, <1>4 DEF Writing, Waiting
<1> QED BY <1>5, <1>6, Basics, Assemble

AtScan(f, n, s, a) == [f EXCEPT !.scan_pos = n, !.req_fn = s, !.at = a]

LEMMA ScanFields ==
  ASSUME NEW f, IsFsd(f), NEW n, NEW s, NEW a \in {"idle", "get", "late", "out"}
  PROVE  LET g == AtScan(f, n, s, a)
         IN  /\ IsFsd(g) /\ g.pos = f.pos /\ g.req_in = f.req_in /\ g.t_count = f.t_count
             /\ g.req_suspend = f.req_suspend /\ g.bmap_avail = f.bmap_avail
             /\ g.conflict_pos = f.conflict_pos /\ g.scan_pos = n /\ g.req_fn = s /\ g.at = a
             /\ g.req_out = f.req_out
<1> DEFINE g == AtScan(f, n, s, a)
<1>0. g = [f EXCEPT !.scan_pos = n, !.req_fn = s, !.at = a]
  BY DEF AtScan
<1> HIDE DEF g
<1>1. g = [pos |-> f.pos, clean_dst |-> f.clean_dst, req_suspend |-> f.req_suspend,
          bmap_avail |-> f.bmap_avail, dst_oob |-> f.dst_oob, block_buf |-> f.block_buf,
          scan_pos |-> n, conflict_pos |-> f.conflict_pos, req_fn |-> s,
          req_in |-> f.req_in, t_count |-> f.t_count, req_out |-> f.req_out, at |-> a]
  BY <1>0 DEF IsFsd
<1>2. IsFsd(g)
  BY <1>1 DEF IsFsd
<1> QED BY <1>1, <1>2 DEF g

LEMMA ConflictFields ==
  ASSUME NEW f, IsFsd(f), NEW c
  PROVE  LET g == [f EXCEPT !.conflict_pos = c]
         IN  /\ IsFsd(g) /\ SameWork(g, f) /\ g.scan_pos = f.scan_pos /\ g.conflict_pos = c
             /\ g.at = f.at /\ g.req_out = f.req_out
<1> DEFINE g == [f EXCEPT !.conflict_pos = c]
<1>1. g = [pos |-> f.pos, clean_dst |-> f.clean_dst, req_suspend |-> f.req_suspend,
          bmap_avail |-> f.bmap_avail, dst_oob |-> f.dst_oob, block_buf |-> f.block_buf,
          scan_pos |-> f.scan_pos, conflict_pos |-> c, req_fn |-> f.req_fn,
          req_in |-> f.req_in, t_count |-> f.t_count, req_out |-> f.req_out, at |-> f.at]
  BY DEF IsFsd
<1> HIDE DEF g
<1>2. IsFsd(g)
  BY <1>1 DEF IsFsd
<1> QED BY <1>1, <1>2 DEF g, SameWork

LEMMA ValidMap ==
  ASSUME NEW t, IsLut(t), NEW z \in Zones
  PROVE  SameMaps(t, [t EXCEPT !.valid_zones = @ \cup {z}])
<1> DEFINE u == [t EXCEPT !.valid_zones = @ \cup {z}]
           v == t.valid_zones \cup {z}
<1>1. u = [free |-> t.free, valid_zones |-> v, spare |-> t.spare,
           block_table |-> t.block_table, b_map |-> t.b_map]
  BY DEF IsLut
<1>2. v \subseteq Zones
  BY DEF IsLut
<1> HIDE DEF u, v
<1>3. IsLut(u)
  BY <1>1, <1>2 DEF IsLut
<1>4. SameMaps(t, u)
  BY <1>1, <1>3 DEF SameMaps
<1> QED BY <1>4 DEF u

\* A block has been looked at: the scan goes on with the next, or it has ended.
LEMMA ScannedStep ==
  ASSUME IInv, fsd.at = "out", LooksUp(fsd) \/ Resolves(fsd),
         NEW t, IsLut(t), Apart(t), NEW f, IsFsd(f), f.pos = pos, f.scan_pos = fsd.scan_pos,
         f.req_in = fsd.req_in, f.req_suspend = fsd.req_suspend, f.bmap_avail = fsd.bmap_avail,
         f.req_out = fsd.req_out,
         \A l \in ZoneLog(pos.zone) : t.block_table[l] # INVALID =>
           t.block_table[l] <= fsd.scan_pos /\ flash[t.block_table[l]].label.log = l,
         \A b \in ZonePhy(pos.zone) : b > fsd.scan_pos => t.free[b] = "no",
         Scanned(t, f), flash' = flash, config' = config, client' = client
  PROVE  IInv'
<1> DEFINE z == pos.zone
           n == f.scan_pos + 1
           s == <<"lookup_block">>
           e == <<>>
<1>1. Scanning(lut, fsd)
  BY DEF IInv
<1>2. /\ z \in Zones /\ pos = [NoPos EXCEPT !.zone = z] /\ pos.dst = INVALID
      /\ fsd.scan_pos \in ZonePhy(z) /\ fsd.scan_pos \in Nat
  BY <1>1 DEF Scanning, NoPos, pos
<1>3. /\ z * PhyPerZone <= fsd.scan_pos /\ fsd.scan_pos < (z + 1) * PhyPerZone
      /\ z * PhyPerZone \in Nat /\ (z + 1) * PhyPerZone \in Nat
  BY <1>2, ZoneBlocks
<1>4. Labels' /\ ~ Suspended(fsd)
  BY Basics, NotWaiting DEF Labels
<1>5. CASE n >= ZoneEnd
  <2>1. PICK a \in {"idle", "late"} : fsd' = AtScan(f, n, e, a)
    BY <1>5 DEF Scanned, AtScan
  <2>2. lut' = [t EXCEPT !.valid_zones = @ \cup {z}]
    BY <1>5 DEF Scanned
  <2> HIDE DEF n, e
  <2>3. /\ IsFsd(fsd') /\ fsd'.pos = pos /\ fsd'.req_in = fsd.req_in /\ fsd'.req_fn = e
        /\ fsd'.req_suspend = fsd.req_suspend /\ fsd'.bmap_avail = fsd.bmap_avail
        /\ fsd'.at = a
    BY <2>1, ScanFields
  <2>4. IsLut(lut') /\ Apart(lut')
    <3>1. SameMaps(t, lut')
      BY <1>2, <2>2, ValidMap
    <3> QED BY <3>1, SameApart DEF SameMaps
  <2>5. ~ Suspended(fsd')
    BY <1>4, <2>3 DEF Suspended
  <2> QED BY <1>2, <1>4, <2>3, <2>4, <2>5, Basics, IdleStep DEF e
<1>6. CASE ~ (n >= ZoneEnd)
  <2>1. fsd' = AtScan(f, n, s, "idle") /\ lut' = t
    BY <1>6 DEF Scanned, AtScan
  <2>2. n = fsd.scan_pos + 1 /\ n \in Nat /\ n < (z + 1) * PhyPerZone
    BY <1>2, <1>3, <1>6 DEF ZoneEnd
  <2> HIDE DEF n, s
  <2>3. /\ IsFsd(fsd') /\ fsd'.pos = pos /\ fsd'.req_in = fsd.req_in /\ fsd'.req_fn = s
        /\ fsd'.req_suspend = fsd.req_suspend /\ fsd'.bmap_avail = fsd.bmap_avail
        /\ fsd'.at = "idle" /\ fsd'.scan_pos = n
    BY <2>1, ScanFields
  <2>4. ~ Suspended(fsd') /\ ~ Resolves(fsd')
    BY <1>4, <2>3, SingleTop DEF Suspended, Resolves, s
  <2>5. \A l \in ZoneLog(z) : lut'.block_table[l] # INVALID =>
          lut'.block_table[l] < n /\ flash'[lut'.block_table[l]].label.log = l
    <3> SUFFICES ASSUME NEW l \in ZoneLog(z), t.block_table[l] # INVALID
                 PROVE  t.block_table[l] < n /\ flash[t.block_table[l]].label.log = l
      BY <2>1
    <3>1. t.block_table[l] \in Phy
      BY DEF IsLut, ZoneLog
    <3>2. t.block_table[l] \in Nat
      BY <3>1, PhyFinite
    <3> QED BY <1>2, <2>2, <3>2
  <2>6. \A b \in ZonePhy(z) : b >= n => lut'.free[b] = "no"
    <3> SUFFICES ASSUME NEW b \in ZonePhy(z), b >= n PROVE t.free[b] = "no"
      BY <2>1
    <3>1. b \in Nat
      BY PhyFinite DEF ZonePhy
    <3> QED BY <1>2, <2>2, <3>1
  <2>7. Scanning(lut, fsd)'
    BY <1>2, <1>3, <2>2, <2>3, <2>4, <2>5, <2>6 DEF Scanning, Resolves, ZoneLog, ZonePhy
  <2> QED BY <1>2, <1>4, <2>1, <2>3, <2>4, <2>7, Basics, ScanStep DEF s
<1> QED BY <1>5, <1>6

LEMMA PosAtZone ==
  ASSUME NEW z \in Zones
  PROVE  LET p == [NoPos EXCEPT !.zone = z]
         IN  p \in PosType /\ p.zone = z /\ p.dst = INVALID
<1>1. z \in Int
  BY DEF Zones
<1>2. NoPos \in PosType /\ NoPos.dst = INVALID
  BY DEF NoPos, PosType
<1>3. ASSUME NEW q \in PosType
      PROVE  LET p == [q EXCEPT !.zone = z]
             IN  p \in PosType /\ p.zone = z /\ p.dst = q.dst
  BY <1>1 DEF PosType
<1> QED BY <1>2, <1>3

LEMMA ScanStarts == ASSUME IInv, SetupScan PROVE IInv'
<1> DEFINE z == Address.zone
           at == [NoPos EXCEPT !.zone = z]
           n == z * PhyPerZone
           s == <<"lookup_block">>
           a == SetAt
           i == INVALID
<1>1. /\ fsd.at \in {"get", "late"} /\ fsd.req_fn = <<>> /\ fsd.req_in # NoReq /\ Left > 0
      /\ lut' = ClearZone(lut, z) /\ flash' = flash /\ config' = config /\ client' = client
      /\ fsd' = [fsd EXCEPT !.pos = at, !.scan_pos = n, !.conflict_pos = i, !.req_fn = s,
                            !.at = a]
      /\ ~ fsd.bmap_avail
  BY DEF SetupScan, Setting, Quiet
<1>2. z \in Zones
  BY <1>1, Basics, AddressFields
<1>3. at \in PosType /\ at.dst = INVALID /\ at.zone = z /\ a \in {"idle", "get"}
  <2>1. a \in {"idle", "get"}
    BY <1>1 DEF SetAt
  <2> HIDE DEF z
  <2> QED BY <1>2, <2>1, PosAtZone
<1> HIDE DEF at, n, s, a, i, z
<1>4. fsd' = [pos |-> at, clean_dst |-> fsd.clean_dst, req_suspend |-> fsd.req_suspend,
              bmap_avail |-> fsd.bmap_avail, dst_oob |-> fsd.dst_oob,
              block_buf |-> fsd.block_buf, scan_pos |-> n, conflict_pos |-> i,
              req_fn |-> s, req_in |-> fsd.req_in, t_count |-> fsd.t_count,
              req_out |-> fsd.req_out, at |-> a]
  BY <1>1, Basics DEF IsFsd
<1>5. /\ fsd'.pos = at /\ fsd'.scan_pos = n /\ fsd'.req_fn = s /\ fsd'.req_in = fsd.req_in
      /\ fsd'.at = a /\ fsd'.req_suspend = fsd.req_suspend /\ fsd'.bmap_avail = fsd.bmap_avail
  BY <1>4
<1>6. IsFsd(fsd')
  BY <1>3, <1>4, Basics DEF IsFsd
<1>7. ~ Suspended(fsd')
  BY <1>1, <1>5, Basics DEF Waiting, Suspended
<1>8. /\ IsLut(lut') /\ Apart(lut')
      /\ \A l \in ZoneLog(z) : lut'.block_table[l] = INVALID
      /\ \A b \in ZonePhy(z) : lut'.free[b] = "no"
  BY <1>1, <1>2, Basics, ClearLut
<1>9. /\ z * PhyPerZone \in Nat /\ z * PhyPerZone <= (z + 1) * PhyPerZone
       /\ z * PhyPerZone = n
  <2>1. z \in Nat /\ PhyPerZone \in Nat
    BY <1>2, FtlAssumption DEF Zones
  <2>2. \A p, q \in Nat : p * q <= (p + 1) * q
    OBVIOUS
  <2> QED BY <1>2, <2>1, <2>2, ZoneBlocks DEF n
<1>10. Labels'
  BY <1>1, Basics DEF Labels
<1>11. ~ Resolves(fsd')
  BY <1>3, <1>5, SingleTop DEF Resolves, s
<1>12. Scanning(lut, fsd)'
  BY <1>2, <1>3, <1>5, <1>8, <1>9, <1>11 DEF Scanning, Resolves, ZoneLog, ZonePhy, at
<1> QED BY <1>1, <1>3, <1>5, <1>6, <1>7, <1>8, <1>10, <1>12, Basics, ScanStep DEF s

\* What a scan knows of the block it is at.
LEMMA ScanHere ==
  ASSUME IInv, LooksUp(fsd) \/ Resolves(fsd)
  PROVE  /\ Scanning(lut, fsd) /\ pos.zone \in Zones /\ pos.dst = INVALID
         /\ pos = [NoPos EXCEPT !.zone = pos.zone] /\ ~ Suspended(fsd)
         /\ fsd.at = "out" \/ Resolves(fsd) =>
              LET here == fsd.scan_pos IN
              /\ here \in Phy \ config.special /\ here \in Nat /\ IsLabel(flash[here].label)
              /\ here \in ZonePhy(pos.zone) /\ lut.free[here] = "no" /\ Unmapped(lut, here)
<1>1. Scanning(lut, fsd)
  BY DEF IInv
<1>2. pos.zone \in Zones /\ pos = [NoPos EXCEPT !.zone = pos.zone] /\ pos.dst = INVALID
  BY <1>1 DEF Scanning, pos, NoPos
<1>3. ~ Suspended(fsd)
  BY NotWaiting, SingleTop DEF LooksUp, Resolves
<1> DEFINE here == fsd.scan_pos
<1>4. ASSUME fsd.at = "out" \/ Resolves(fsd)
      PROVE  /\ here \in Phy \ config.special /\ here \in Nat /\ IsLabel(flash[here].label)
             /\ here \in ZonePhy(pos.zone) /\ lut.free[here] = "no" /\ Unmapped(lut, here)
  <2>1. here \in ZonePhy(pos.zone) /\ here \notin config.special
    BY <1>1, <1>4 DEF Scanning, pos
  <2>2. here \in Phy /\ here \in Nat
    BY <2>1, PhyFinite DEF ZonePhy
  <2>3. lut.free[here] = "no"
    BY <1>1, <2>1, <2>2 DEF Scanning, pos
  <2>4. IsLabel(flash[here].label)
    BY <2>2, Basics DEF Labels, IsBlock
  <2>5. ASSUME NEW l \in Log, lut.block_table[l] = here PROVE FALSE
    <3>1. here # INVALID
      BY <2>2, FtlAssumption
    <3>2. here \in ZonePhy(ZoneOf(l))
      BY <2>5, <3>1, Basics DEF Apart
    <3>3. l \in ZoneLog(pos.zone)
      BY <2>1, <3>2 DEF ZonePhy, ZoneLog
    <3> QED BY <1>1, <2>2, <2>5, <3>1, <3>3 DEF Scanning, pos
  <2> QED BY <2>1, <2>2, <2>3, <2>4, <2>5 DEF Unmapped
<1> QED BY <1>1, <1>2, <1>3, <1>4

LEMMA ScanFinds == ASSUME IInv, LookupBlock PROVE IInv'
<1> DEFINE N == ZoneCnt * PhyPerZone
           next == CHOOSE b \in fsd.scan_pos .. N :
                     /\ b \notin config.special
                     /\ \A c \in fsd.scan_pos .. b - 1 : c \in config.special
           z == pos.zone
<1>1. fsd.at = "get" /\ fsd.req_fn # <<>> /\ Head(fsd.req_fn) = "lookup_block"
  BY DEF LookupBlock, Calls
<1>2. fsd.req_fn = <<"lookup_block">> /\ Tail(fsd.req_fn) = <<>>
  <2>1. "lookup_block" \in Singles
    BY DEF Singles
  <2> QED BY <1>1, <2>1, TopOfStack
<1>3. Scanning(lut, fsd) /\ z \in Zones /\ pos.dst = INVALID /\ ~ Suspended(fsd)
  BY <1>2, ScanHere DEF LooksUp
<1>4. /\ fsd.scan_pos \in Nat /\ z * PhyPerZone <= fsd.scan_pos
      /\ fsd.scan_pos <= (z + 1) * PhyPerZone /\ (z + 1) * PhyPerZone <= N
      /\ N \in Nat /\ z * PhyPerZone \in Nat /\ (z + 1) * PhyPerZone \in Nat
  BY <1>3, ZoneBlocks, ProductTypes DEF Scanning, pos
<1>5. next \in fsd.scan_pos .. N /\ next \notin config.special
  <2> DEFINE S == {b \in fsd.scan_pos .. N : b \notin config.special}
  <2>1. N \in S
    BY <1>4, Basics DEF Phy
  <2>2. S \subseteq Nat
    BY <1>4
  <2>3. PICK b \in S : \A c \in S : b <= c
    BY <2>1, <2>2, LeastExists
  <2>4. \A c \in fsd.scan_pos .. b - 1 : c \in config.special
    BY <1>4, <2>3
  <2> QED BY <2>3, <2>4
<1>6. /\ \/ /\ next < ZoneEnd
            /\ Submit([fsd EXCEPT !.scan_pos = next], "READ", next, 0, 0, "lookup_block")
         \/ /\ ~ (next < ZoneEnd)
            /\ lut' = [lut EXCEPT !.valid_zones = @ \cup {z}]
            /\ fsd' = [Popped EXCEPT !.scan_pos = next]
            /\ flash' = flash /\ config' = config /\ client' = client
  BY DEF LookupBlock, Quiet
<1> HIDE DEF next
<1>7. ASSUME NEW f, IsFsd(f), NEW g, g = [f EXCEPT !.scan_pos = next]
      PROVE  /\ IsFsd(g) /\ SameWork(g, f) /\ g.scan_pos = next /\ g.at = f.at
             /\ g.conflict_pos = f.conflict_pos
  <2>1. g = [pos |-> f.pos, clean_dst |-> f.clean_dst, req_suspend |-> f.req_suspend,
          bmap_avail |-> f.bmap_avail, dst_oob |-> f.dst_oob, block_buf |-> f.block_buf,
          scan_pos |-> next, conflict_pos |-> f.conflict_pos, req_fn |-> f.req_fn,
          req_in |-> f.req_in, t_count |-> f.t_count, req_out |-> f.req_out, at |-> f.at]
    BY <1>7 DEF IsFsd
  <2>2. IsFsd(g)
    BY <1>7, <2>1 DEF IsFsd
  <2> QED BY <2>1, <2>2 DEF SameWork
<1>8. CASE /\ next < ZoneEnd
           /\ Submit([fsd EXCEPT !.scan_pos = next], "READ", next, 0, 0, "lookup_block")
  <2> DEFINE f == [fsd EXCEPT !.scan_pos = next]
  <2>1. IsFsd(f) /\ SameWork(f, fsd) /\ f.scan_pos = next
    BY <1>7, Basics
  <2> HIDE DEF f
  <2>2. Submit(f, "READ", next, 0, 0, "lookup_block")
    BY <1>8 DEF f
  <2>3. /\ IsFsd(fsd') /\ SameWork(fsd', f) /\ SameScan(fsd', f) /\ fsd'.at = "out"
        /\ fsd'.req_out.end = "lookup_block" /\ fsd'.req_out.cmd = "READ"
        /\ lut' = lut /\ config' = config /\ flash' = flash /\ client' = client
    BY <2>1, <2>2, SubmitFields
  <2>4. /\ fsd'.pos = pos /\ fsd'.req_fn = <<"lookup_block">> /\ fsd'.req_in = fsd.req_in
        /\ fsd'.req_suspend = fsd.req_suspend /\ fsd'.bmap_avail = fsd.bmap_avail
        /\ fsd'.scan_pos = next
    BY <1>2, <2>1, <2>3 DEF SameWork, SameScan, pos
  <2>5. Labels' /\ ~ Suspended(fsd') /\ ~ Resolves(fsd')
    BY <1>3, <2>3, <2>4, Basics, SingleTop DEF Labels, Suspended, Resolves
  <2>6. next \in Nat /\ fsd.scan_pos <= next /\ next < (z + 1) * PhyPerZone
    BY <1>4, <1>5, <1>8 DEF ZoneEnd
  <2>7. next \in ZonePhy(z)
    BY <1>3, <1>4, <2>6, ZoneBlocks
  <2>8. \A l \in ZoneLog(z) : lut.block_table[l] # INVALID =>
          lut.block_table[l] < next /\ flash[lut.block_table[l]].label.log = l
    <3> SUFFICES ASSUME NEW l \in ZoneLog(z), lut.block_table[l] # INVALID
                 PROVE  lut.block_table[l] < next /\ flash[lut.block_table[l]].label.log = l
      OBVIOUS
    <3>1. lut.block_table[l] \in Nat
      BY PhyFinite, Basics DEF IsLut, ZoneLog
    <3> QED BY <1>3, <1>4, <2>6, <3>1 DEF Scanning, pos
  <2>9. \A b \in ZonePhy(z) : b >= next => lut.free[b] = "no"
    <3> SUFFICES ASSUME NEW b \in ZonePhy(z), b >= next PROVE lut.free[b] = "no"
      OBVIOUS
    <3>1. b \in Nat
      BY PhyFinite DEF ZonePhy
    <3> QED BY <1>3, <1>4, <2>6, <3>1 DEF Scanning, pos
  <2>10. pos = [NoPos EXCEPT !.zone = z]
    BY <1>3 DEF Scanning, pos
  <2>11. Scanning(lut, fsd)'
    BY <1>3, <1>4, <1>5, <2>3, <2>4, <2>5, <2>6, <2>7, <2>8, <2>9, <2>10
       DEF Scanning, Resolves, ZoneLog, ZonePhy
  <2> QED BY <1>3, <2>3, <2>4, <2>5, <2>11, Basics, ScanStep
<1>9. CASE /\ ~ (next < ZoneEnd)
           /\ lut' = [lut EXCEPT !.valid_zones = @ \cup {z}]
           /\ fsd' = [Popped EXCEPT !.scan_pos = next]
           /\ flash' = flash /\ config' = config /\ client' = client
  <2>1. IsFsd(fsd') /\ SameWork(fsd', Popped) /\ fsd'.at = Popped.at
    BY <1>7, <1>9, Basics, PoppedFields
  <2>2. /\ fsd'.pos = pos /\ fsd'.req_fn = <<>> /\ fsd'.req_in = fsd.req_in /\ fsd'.at = "get"
        /\ fsd'.req_suspend = fsd.req_suspend /\ fsd'.bmap_avail = fsd.bmap_avail
    BY <1>1, <1>2, <2>1, Basics, PoppedFields DEF SameWork
  <2>3. SameMaps(lut, lut')
    BY <1>3, <1>9, Basics, ValidMap
  <2>4. IsLut(lut') /\ Apart(lut')
    BY <2>3, Basics, SameApart DEF SameMaps
  <2>5. Labels' /\ ~ Suspended(fsd')
    BY <1>3, <1>9, <2>2, Basics DEF Labels, Suspended
  <2> QED BY <1>3, <1>9, <2>1, <2>2, <2>4, <2>5, Basics, IdleStep
<1> QED BY <1>6, <1>8, <1>9

LEMMA ScanResolves == ASSUME IInv, Resolve PROVE IInv'
<1> DEFINE z == pos.zone
<1>1. /\ fsd.at = "get" /\ fsd.req_fn # <<>> /\ Head(fsd.req_fn) = "resolve"
      /\ Submit(Popped, "READ", fsd.conflict_pos, 0, 0, "resolve")
  BY DEF Resolve, Calls
<1>2. fsd.req_fn = <<"resolve">> /\ Tail(fsd.req_fn) = <<>>
  <2>1. "resolve" \in Singles
    BY DEF Singles
  <2> QED BY <1>1, <2>1, TopOfStack
<1>3. Scanning(lut, fsd) /\ z \in Zones /\ pos.dst = INVALID /\ ~ Suspended(fsd) /\ Resolves(fsd)
  BY <1>2, ScanHere DEF Resolves
<1>4. /\ IsFsd(fsd') /\ SameWork(fsd', Popped) /\ SameScan(fsd', Popped) /\ fsd'.at = "out"
      /\ fsd'.req_out.end = "resolve" /\ fsd'.req_out.cmd = "READ"
      /\ lut' = lut /\ config' = config /\ flash' = flash /\ client' = client
  BY <1>1, SubmitFields, PoppedFields, Basics
<1>5. /\ fsd'.pos = pos /\ fsd'.req_fn = <<>> /\ fsd'.req_in = fsd.req_in
      /\ fsd'.req_suspend = fsd.req_suspend /\ fsd'.bmap_avail = fsd.bmap_avail
      /\ fsd'.scan_pos = fsd.scan_pos /\ fsd'.conflict_pos = fsd.conflict_pos
  BY <1>2, <1>4, PoppedFields, Basics DEF SameWork, SameScan
<1>6. Labels' /\ ~ Suspended(fsd')
  BY <1>3, <1>4, <1>5, Basics DEF Labels, Suspended
<1>7. Scanning(lut, fsd)'
  BY <1>3, <1>4, <1>5 DEF Scanning, Resolves, ZoneLog, ZonePhy, pos
<1> QED BY <1>3, <1>4, <1>5, <1>6, <1>7, Basics, ScanStep

\* What end_request knows of the label it has read.
LEMMA ReadFields ==
  ASSUME IInv, NEW b \in Phy
  PROVE  LET f == ReadLabel(b)
         IN  IsFsd(f) /\ SameWork(f, fsd) /\ SameScan(f, fsd) /\ f.at = fsd.at
             /\ f.req_out = fsd.req_out
<1> DEFINE n == IF flash[b].label = Unreadable THEN NoLabel ELSE flash[b].label
<1>1. IsLabel(n)
  <2>1. IsLabel(flash[b].label) /\ IsLabel(NoLabel)
    BY Basics DEF Labels, IsBlock, IsLabel, NoLabel
  <2> QED BY <2>1
<1> HIDE DEF n
<1>2. ReadLabel(b) = [fsd EXCEPT !.dst_oob = n]
  BY DEF ReadLabel, n
<1> QED BY <1>1, <1>2, Basics, OobFields

LEMMA InfoFields ==
  ASSUME NEW label, IsLabel(label), pos.zone \in Zones
  PROVE  LET i == Info(label)
         IN /\ i.log = INVALID => i.status \in {"failure", "unmapped"}
            /\ i.log # INVALID => /\ i.log = label.log /\ i.log \in Log
                                  /\ ZoneOf(i.log) = pos.zone /\ i.log \in ZoneLog(pos.zone)
<1>1. pos.zone # -1
  BY FtlAssumption DEF Zones
<1>2. CASE label.mark = "unreadable" \/ ZoneOf(label.log) # pos.zone
  BY <1>2 DEF Info
<1>3. CASE ~ (label.mark = "unreadable" \/ ZoneOf(label.log) # pos.zone)
  <2>1. label.log # INVALID
    BY <1>1, <1>3 DEF ZoneOf
  <2>2. label.log \in Log
    BY <2>1 DEF IsLabel
  <2> QED BY <1>3, <2>1, <2>2 DEF Info, ZoneLog
<1> QED BY <1>2, <1>3

\* Nobody has the other block any more when the block at hand is mapped in its place.
Dirtied(t, b) == Put(t, b, TRUE)
Mapped(t, l, b)  == [t EXCEPT !.block_table[l] = b]
Replaced(t, l, b) ==
  IF t.block_table[l] = INVALID THEN Mapped(t, l, b)
  ELSE Dirtied(Mapped(t, l, b), t.block_table[l])

LEMMA ReplaceLut ==
  ASSUME config.special \subseteq Phy, NEW t, IsLut(t), Apart(t), NEW b, b \in Phy \ config.special,
         NEW l \in Log, b \in ZonePhy(ZoneOf(l)), Unmapped(t, b), t.free[b] = "no"
  PROVE  LET m == Mapped(t, l, b)
             u == Replaced(t, l, b)
         IN /\ IsLut(m) /\ Apart(m) /\ m.free = t.free
            /\ IsLut(u) /\ Apart(u)
            /\ m.block_table = u.block_table
            /\ \A k \in Log : u.block_table[k] = IF k = l THEN b ELSE t.block_table[k]
            /\ \A c \in Phy : c # t.block_table[l] => u.free[c] = t.free[c]
            /\ t.block_table[l] # INVALID =>
                 Mapped(Dirtied(t, t.block_table[l]), l, b) = u
<1> DEFINE c == t.block_table[l]
           m == Mapped(t, l, b)
           u == Replaced(t, l, b)
<1>0. /\ m = [t EXCEPT !.block_table[l] = b]
      /\ u = IF c = INVALID THEN m ELSE Dirtied(m, c)
  BY DEF Mapped, Replaced
<1> HIDE DEF m, u
<1>1. /\ IsLut(m) /\ Apart(m) /\ m.free = t.free
      /\ \A k \in Log : m.block_table[k] = IF k = l THEN b ELSE t.block_table[k]
  BY <1>0, MapLut
<1>2. CASE c = INVALID
  BY <1>0, <1>1, <1>2 DEF m, u
<1>3. CASE c # INVALID
  <2>1. c \in Phy \ config.special
    BY <1>3 DEF Apart, ZonePhy
  <2>2. Mapped(Dirtied(t, c), l, b) = u
    <3> DEFINE tab == [t.block_table EXCEPT ![l] = b]
               fr == [t.free EXCEPT ![c] = "dirty"]
               r == [free |-> fr, valid_zones |-> t.valid_zones, spare |-> t.spare,
                     block_table |-> tab, b_map |-> t.b_map]
    <3>1. Dirtied(t, c) = [free |-> fr, valid_zones |-> t.valid_zones, spare |-> t.spare,
                             block_table |-> t.block_table, b_map |-> t.b_map]
      BY DEF Dirtied, Put, IsLut
    <3>2. [Dirtied(t, c) EXCEPT !.block_table[l] = b] = r
      <4> DEFINE p == Dirtied(t, c)
      <4> HIDE DEF p, fr
      <4>1. p = [free |-> fr, valid_zones |-> t.valid_zones, spare |-> t.spare,
                 block_table |-> t.block_table, b_map |-> t.b_map]
        BY <3>1 DEF p
      <4>2. [p EXCEPT !.block_table[l] = b] = r
        BY <4>1
      <4> QED BY <4>2 DEF p
    <3>3. m = [free |-> t.free, valid_zones |-> t.valid_zones, spare |-> t.spare,
               block_table |-> tab, b_map |-> t.b_map]
      BY <1>0 DEF IsLut
    <3>4. Dirtied(m, c) = r
      <4> QED BY <3>3 DEF Dirtied, Put
    <3> QED BY <1>0, <1>3, <3>2, <3>4 DEF Mapped
  <2>3. Unmapped(m, c)
    <3> SUFFICES ASSUME NEW k \in Log, m.block_table[k] = c PROVE FALSE
      BY DEF Unmapped
    <3>1. c # b
      BY DEF Unmapped
    <3> QED BY <1>1, <1>3, <3>1 DEF Apart
  <2>4. IsLut(m) /\ Apart(m) /\ config.special \subseteq Phy
    BY <1>1
  <2>5. u = Dirtied(m, c)
    BY <1>0, <1>3
  <2>6. u = Given(m, c, "dirty")
    BY <2>5 DEF Dirtied, Put, Given
  <2> HIDE DEF c
  <2>7. /\ IsLut(u) /\ Apart(u) /\ u.block_table = m.block_table
        /\ \A d \in Phy : d # c => u.free[d] = t.free[d]
    BY <1>1, <2>1, <2>3, <2>4, <2>6, PutLut
  <2> QED BY <1>1, <2>2, <2>7 DEF m, u, c
<1> QED BY <1>2, <1>3

\* A command has failed, and the request with it.
LEMMA AbortStep ==
  ASSUME IInv, fsd.at = "out", EndAbort(lut, FALSE, FALSE), config' = config, Labels'
  PROVE  IInv'
<1>1. lut' = lut /\ Complete(fsd.t_count, "idle")
  BY DEF EndAbort
<1> QED BY <1>1, Basics, NotWaiting, CompleteStep

LEMMA EndsWith ==
  ASSUME IInv, fsd.at = "out"
  PROVE  LET end == fsd.req_out.end
             s   == fsd.req_fn
         IN /\ end = "lookup_block" => LooksUp(fsd)
            /\ end = "resolve" => Resolves(fsd) /\ s = <<>>
            /\ end \in LastEnds => s = <<>>
            /\ end \in CommitEnds => /\ s \in {<<>>, <<"erase_src">>} /\ Fresh(lut, pos)
                                     /\ s = <<"erase_src">> => Copies(pos)
            /\ end \in EarlyEnds => /\ Body(s) \/ Copying(s)
                                    /\ Fresh(lut, pos)
                                    /\ Copying(s) => Copies(pos)
<1>1. /\ "lookup_block" \notin EarlyEnds \cup CommitEnds \cup LastEnds
      /\ "resolve" \in LastEnds
      /\ \A e \in EarlyEnds : e \notin CommitEnds /\ e \notin LastEnds
      /\ \A e \in CommitEnds : e \notin LastEnds
  BY DEF EarlyEnds, CommitEnds, LastEnds
<1> DEFINE end == fsd.req_out.end
           s   == fsd.req_fn
<1>2. \/ end \in EarlyEnds /\ (Body(s) \/ Copying(s))
      \/ end \in CommitEnds /\ s \in {<<>>, <<"erase_src">>}
      \/ end \in LastEnds /\ s = <<>>
      \/ end = "lookup_block" /\ s = <<"lookup_block">>
  BY Basics DEF Stacked
<1>3. /\ Body(s) \/ Copying(s) => Fresh(lut, pos)
      /\ Copying(s) => Copies(pos)
      /\ end \in CommitEnds => Fresh(lut, pos)
      /\ end \in CommitEnds /\ s = <<"erase_src">> => Copies(pos)
  BY Basics DEF Writing, Committing, pos
<1> HIDE DEF end, s
<1>4. end = "lookup_block" => s = <<"lookup_block">>
  BY <1>1, <1>2
<1>5. end \in LastEnds => s = <<>>
  BY <1>1, <1>2
<1>6. end \in CommitEnds => s \in {<<>>, <<"erase_src">>}
  BY <1>1, <1>2
<1>7. end \in EarlyEnds => Body(s) \/ Copying(s)
  BY <1>1, <1>2
<1> QED BY <1>1, <1>3, <1>4, <1>5, <1>6, <1>7 DEF end, s, LooksUp, Resolves

\* The table and the allocator after a block has been looked at.
Looked(t, z, here) ==
  /\ IsLut(t) /\ Apart(t)
  /\ \A l \in ZoneLog(z) : t.block_table[l] # INVALID =>
       t.block_table[l] <= here /\ flash[t.block_table[l]].label.log = l
  /\ \A b \in ZonePhy(z) : b > here => t.free[b] = "no"

LEMMA LookedAt ==
  ASSUME IInv, fsd.at = "out", LooksUp(fsd) \/ Resolves(fsd)
  PROVE  LET here == fsd.scan_pos
             z    == pos.zone
         IN /\ Looked(lut, z, here) /\ Looked(Dirtied(lut, here), z, here)
            /\ \A l \in ZoneLog(z) : flash[here].label.log = l =>
                 /\ Looked(Mapped(lut, l, here), z, here)
                 /\ Looked(Replaced(lut, l, here), z, here)
                 /\ lut.block_table[l] # INVALID =>
                      Mapped(Dirtied(lut, lut.block_table[l]), l, here)
                        = Replaced(lut, l, here)
<1> DEFINE here == fsd.scan_pos
           z    == pos.zone
<1>1. /\ Scanning(lut, fsd) /\ z \in Zones /\ here \in Phy \ config.special /\ here \in Nat
      /\ here \in ZonePhy(z) /\ lut.free[here] = "no" /\ Unmapped(lut, here)
  BY ScanHere
<1>2. /\ \A l \in ZoneLog(z) : lut.block_table[l] # INVALID =>
           lut.block_table[l] < here /\ flash[lut.block_table[l]].label.log = l
      /\ \A b \in ZonePhy(z) : b >= here => lut.free[b] = "no"
  BY <1>1 DEF Scanning, pos
<1> HIDE DEF here, z
<1>3. \A l \in Log : lut.block_table[l] # INVALID => lut.block_table[l] \in Nat
  BY Basics, PhyFinite DEF IsLut
<1>4. \A b \in ZonePhy(z) : b \in Phy /\ b \in Nat
  BY PhyFinite DEF ZonePhy
<1>5. \A l \in ZoneLog(z) : l \in Log /\ ZoneOf(l) = z
  BY DEF ZoneLog
<1>6. Looked(lut, z, here)
  BY <1>1, <1>2, <1>3, <1>4, <1>5, Basics DEF Looked
<1>7. Looked(Dirtied(lut, here), z, here)
  <2> DEFINE u == Dirtied(lut, here)
  <2>1. u = Given(lut, here, "dirty")
    BY DEF Dirtied, Put, Given
  <2> HIDE DEF u
  <2>2. /\ IsLut(u) /\ Apart(u) /\ u.block_table = lut.block_table
        /\ \A c \in Phy : c # here => u.free[c] = lut.free[c]
    BY <1>1, <2>1, Basics, PutLut
  <2>3. ASSUME NEW b \in ZonePhy(z), b > here PROVE u.free[b] = "no"
    <3>1. b \in Phy /\ b \in Nat
      BY <1>4
    <3>2. b >= here /\ b # here
      BY <1>1, <2>3, <3>1
    <3> QED BY <1>2, <2>2, <3>1, <3>2
  <2>4. Looked(u, z, here)
    BY <1>1, <1>2, <1>3, <1>5, <2>2, <2>3 DEF Looked
  <2> QED BY <2>4 DEF u
<1>8. ASSUME NEW l \in ZoneLog(z), flash[here].label.log = l
      PROVE  /\ Looked(Mapped(lut, l, here), z, here)
             /\ Looked(Replaced(lut, l, here), z, here)
             /\ lut.block_table[l] # INVALID =>
                  Mapped(Dirtied(lut, lut.block_table[l]), l, here) = Replaced(lut, l, here)
  <2> DEFINE c == lut.block_table[l]
             m == Mapped(lut, l, here)
             u == Replaced(lut, l, here)
  <2>1. /\ l \in Log /\ here \in ZonePhy(ZoneOf(l)) /\ here \in Phy \ config.special
        /\ Unmapped(lut, here) /\ lut.free[here] = "no"
        /\ config.special \subseteq Phy /\ IsLut(lut) /\ Apart(lut)
    BY <1>1, <1>5, Basics
  <2>2. /\ IsLut(m) /\ Apart(m) /\ m.free = lut.free
        /\ IsLut(u) /\ Apart(u)
        /\ m.block_table = u.block_table
        /\ \A k \in Log : u.block_table[k] = IF k = l THEN here ELSE lut.block_table[k]
        /\ \A d \in Phy : d # c => u.free[d] = lut.free[d]
        /\ c # INVALID => Mapped(Dirtied(lut, c), l, here) = u
    BY <2>1, ReplaceLut
  <2>3. c # INVALID => c < here
    BY <1>2
  <2> HIDE DEF u, m, c
  <2>5. ASSUME NEW k \in ZoneLog(z), u.block_table[k] # INVALID
        PROVE  u.block_table[k] <= here /\ flash[u.block_table[k]].label.log = k
    <3>1. CASE k = l
      BY <1>1, <1>8, <2>1, <2>2, <3>1
    <3>2. CASE k # l
      BY <1>1, <1>2, <1>3, <1>5, <2>2, <2>5, <3>2
    <3> QED BY <3>1, <3>2
  <2>6. ASSUME NEW b \in ZonePhy(z), b > here PROVE u.free[b] = "no" /\ m.free[b] = "no"
    <3>0. b \in Phy /\ b \in Nat
      BY <1>4
    <3>1. b >= here
      BY <1>1, <2>6, <3>0
    <3>2. lut.free[b] = "no"
      BY <1>2, <3>1
    <3>3. CASE b = c
      <4>1. c # INVALID
        BY <3>0, <3>3, FtlAssumption
      <4> QED BY <1>1, <2>3, <2>6, <3>0, <3>3, <4>1
    <3>4. CASE b # c
      BY <2>2, <3>0, <3>2, <3>4
    <3> QED BY <3>3, <3>4
  <2>7. Looked(u, z, here) /\ Looked(m, z, here)
    BY <2>2, <2>5, <2>6 DEF Looked
  <2> QED BY <2>2, <2>7 DEF m, u, c
<1> QED BY <1>6, <1>7, <1>8 DEF here, z

LEMMA LookedStep ==
  ASSUME IInv, fsd.at = "out", LooksUp(fsd) \/ Resolves(fsd),
         NEW t, Looked(t, pos.zone, fsd.scan_pos), NEW f, IsFsd(f), SameWork(f, fsd),
         f.scan_pos = fsd.scan_pos, f.req_out = fsd.req_out,
         Scanned(t, f), flash' = flash, config' = config, client' = client
  PROVE  IInv'
BY ScannedStep DEF Looked, SameWork, pos

LEMMA ScanReads == ASSUME IInv, EndLookupBlock PROVE IInv'
<1> DEFINE here == fsd.scan_pos
           info == Info(flash[here].label)
           other == IF info.log = INVALID THEN fsd.conflict_pos ELSE lut.block_table[info.log]
           g == ReadLabel(here)
           f == [g EXCEPT !.conflict_pos = other]
           z == pos.zone
<1>1. fsd.at = "out" /\ fsd.req_out.end = "lookup_block"
  BY DEF EndLookupBlock, EndOf, out
<1>2. /\ LooksUp(fsd) /\ fsd.req_fn = <<"lookup_block">> /\ ~ Resolves(fsd) /\ ~ Suspended(fsd)
  BY <1>1, EndsWith, NotWaiting, SingleTop DEF LooksUp, Resolves
<1>3. /\ Scanning(lut, fsd) /\ z \in Zones /\ pos.dst = INVALID /\ here \in Phy \ config.special
      /\ here \in ZonePhy(z) /\ IsLabel(flash[here].label) /\ out.cmd = "READ"
      /\ pos = [NoPos EXCEPT !.zone = pos.zone]
  BY <1>1, <1>2, ScanHere, SMTT(30) DEF Scanning, out
<1>4. PICK r \in Results : 
        /\ Ended(r)
        /\ \/ r.error # "no" /\ EndAbort(lut, FALSE, FALSE)
           \/ /\ r.error = "no" /\ Keeps
              /\ \/ Scanned(Dirtied(lut, here), f)
                 \/ Scanned(lut, f)
                 \/ /\ info.status \in {"mapped", "selected"}
                    /\ other = INVALID \/ info.status = "selected"
                    /\ Scanned(IF info.log = INVALID
                               THEN IF other = INVALID THEN lut ELSE Dirtied(lut, other)
                               ELSE IF other = INVALID THEN Mapped(lut, info.log, here)
                               ELSE Dirtied(Mapped(lut, info.log, here), other), f)
                 \/ /\ info.status = "mapped" /\ other # INVALID /\ UNCHANGED lut
                    /\ Idles([f EXCEPT !.req_fn = <<"resolve">>])
  <2> HIDE DEF info, here
  <2> QED BY ZenonT(30) DEF EndLookupBlock, Dirtied, Mapped, here, info
<1>5. flash' = flash /\ Labels' /\ config' = config
  BY <1>1, <1>3, <1>4, Basics, EndedLabels DEF out
<1>6. /\ info.log = INVALID => info.status \in {"failure", "unmapped"}
      /\ info.log # INVALID => /\ info.log = flash[here].label.log /\ info.log \in Log
                               /\ ZoneOf(info.log) = z /\ info.log \in ZoneLog(z)
  BY <1>3, InfoFields
<1>7. IsFsd(g) /\ SameWork(g, fsd) /\ SameScan(g, fsd) /\ g.at = fsd.at /\ g.req_out = fsd.req_out
  BY <1>3, ReadFields
<1> HIDE DEF here, info, other, g, z
<1>8. /\ IsFsd(f) /\ SameWork(f, fsd) /\ f.scan_pos = fsd.scan_pos /\ f.conflict_pos = other
      /\ f.req_out = fsd.req_out /\ f.at = fsd.at
  BY <1>7, ConflictFields DEF SameWork, SameScan
<1> HIDE DEF f
<1>9. ASSUME NEW t, Looked(t, z, here), Scanned(t, f), Keeps
      PROVE  IInv'
  <2>1. client' = client /\ Looked(t, pos.zone, fsd.scan_pos)
    BY <1>9 DEF Keeps, here, z
  <2> QED BY <1>1, <1>2, <1>5, <1>8, <1>9, <2>1, LookedStep
<1>10. /\ Looked(lut, z, here) /\ Looked(Dirtied(lut, here), z, here)
       /\ \A l \in ZoneLog(z) : flash[here].label.log = l =>
            Looked(Mapped(lut, l, here), z, here) /\ Looked(Replaced(lut, l, here), z, here)
  BY <1>1, <1>2, LookedAt DEF here, z
<1>11. CASE r.error # "no" /\ EndAbort(lut, FALSE, FALSE)
  BY <1>1, <1>5, <1>11, AbortStep
<1>12. CASE Keeps /\ Scanned(Dirtied(lut, here), f)
  BY <1>9, <1>10, <1>12
<1>13. CASE Keeps /\ Scanned(lut, f)
  BY <1>9, <1>10, <1>13
<1>14. CASE /\ Keeps /\ info.status \in {"mapped", "selected"}
            /\ Scanned(IF info.log = INVALID
                       THEN IF other = INVALID THEN lut ELSE Dirtied(lut, other)
                       ELSE IF other = INVALID THEN Mapped(lut, info.log, here)
                       ELSE Dirtied(Mapped(lut, info.log, here), other), f)
  <2>1. info.log # INVALID /\ info.log \in ZoneLog(z) /\ flash[here].label.log = info.log
    BY <1>6, <1>14
  <2>2. other = lut.block_table[info.log]
    BY <2>1 DEF other
  <2>3. \/ Scanned(Mapped(lut, info.log, here), f)
        \/ Scanned(Replaced(lut, info.log, here), f)
    <3>1. CASE other = INVALID
      BY <1>14, <2>1, <3>1
    <3>2. CASE other # INVALID
      <4>1. Replaced(lut, info.log, here) = Dirtied(Mapped(lut, info.log, here), other)
        BY <2>2, <3>2 DEF Replaced
      <4> QED BY <1>14, <2>1, <3>2, <4>1
    <3> QED BY <3>1, <3>2
  <2> QED BY <1>9, <1>10, <1>14, <2>1, <2>3
<1>15. CASE /\ Keeps /\ info.status = "mapped" /\ other # INVALID /\ UNCHANGED lut
            /\ Idles([f EXCEPT !.req_fn = <<"resolve">>])
  <2> DEFINE s == <<"resolve">>
  <2>1. info.log # INVALID /\ info.log \in ZoneLog(z) /\ flash[here].label.log = info.log
    BY <1>6, <1>15
  <2>2. other = lut.block_table[info.log]
    BY <2>1 DEF other
  <2>3. lut' = lut /\ client' = client /\ fsd' = [[f EXCEPT !.req_fn = s] EXCEPT !.at = "idle"]
    BY <1>15 DEF Keeps, Idles
  <2> HIDE DEF s
  <2>4. fsd' = [pos |-> f.pos, clean_dst |-> f.clean_dst, req_suspend |-> f.req_suspend,
          bmap_avail |-> f.bmap_avail, dst_oob |-> f.dst_oob, block_buf |-> f.block_buf,
          scan_pos |-> f.scan_pos, conflict_pos |-> f.conflict_pos, req_fn |-> s,
          req_in |-> f.req_in, t_count |-> f.t_count, req_out |-> f.req_out, at |-> "idle"]
    BY <1>8, <2>3 DEF IsFsd
  <2>5. IsFsd(fsd')
    BY <1>8, <2>4 DEF IsFsd
  <2>6. /\ fsd'.pos = pos /\ fsd'.req_fn = s /\ fsd'.req_in = fsd.req_in
        /\ fsd'.req_suspend = fsd.req_suspend /\ fsd'.bmap_avail = fsd.bmap_avail
        /\ fsd'.at = "idle" /\ fsd'.scan_pos = here /\ fsd'.conflict_pos = other
    BY <1>8, <2>4 DEF SameWork, here, pos
  <2>7. ~ Suspended(fsd')
    BY <1>2, <2>6 DEF Suspended
  <2>8. here \in Nat
    BY <1>3, PhyFinite
  <2>9. Scanning(lut, fsd)'
    BY <1>3, <1>5, <1>15, <2>1, <2>2, <2>3, <2>6, <2>8
       DEF Scanning, Resolves, ZoneLog, ZonePhy, here, pos, z
  <2> QED BY <1>3, <1>5, <2>3, <2>5, <2>6, <2>7, <2>9, Basics, ScanStep DEF s
<1> QED BY <1>4, <1>11, <1>12, <1>13, <1>14, <1>15

LEMMA ScanDecides == ASSUME IInv, EndResolve PROVE IInv'
<1> DEFINE here == fsd.scan_pos
           c == fsd.conflict_pos
           z == pos.zone
           f == ReadLabel(c)
<1>1. fsd.at = "out" /\ fsd.req_out.end = "resolve"
  BY Zenon DEF EndResolve, EndOf, out
<1>2. Resolves(fsd)
  BY <1>1, EndsWith
<1>3. /\ Scanning(lut, fsd) /\ z \in Zones /\ here \in Phy \ config.special /\ out.cmd = "READ"
  BY <1>1, <1>2, ScanHere DEF Scanning, out
<1>4. PICK l \in ZoneLog(z) : /\ c = lut.block_table[l] /\ c # INVALID
                              /\ flash[here].label.log = l
  BY <1>2, <1>3 DEF Scanning, pos
<1>5. flash[c].label.log = l /\ c \in Phy
  <2>1. flash[c].label.log = l
    BY <1>3, <1>4 DEF Scanning, pos
  <2>2. c \in Phy
    BY <1>4, Basics DEF IsLut, ZoneLog
  <2> QED BY <2>1, <2>2
<1>6. PICK r \in Results :
        /\ Ended(r) /\ Keeps
        /\ \/ Scanned(lut, f)
           \/ Scanned(Dirtied(lut, here), f)
           \/ Scanned(Mapped(Dirtied(lut, c), l, here), f)
  <2>1. \E r \in Results :
          /\ Ended(r) /\ Keeps
          /\ \/ Scanned(lut, f)
             \/ Scanned(Put(lut, here, TRUE), f)
             \/ Scanned([Put(lut, lut.block_table[flash[c].label.log], TRUE) EXCEPT
                           !.block_table[flash[c].label.log] = here], f)
    BY Zenon DEF EndResolve
  <2> QED BY <1>4, <1>5, <2>1, Zenon DEF Mapped, Dirtied
<1>7. flash' = flash /\ Labels' /\ config' = config /\ client' = client
  BY <1>1, <1>3, <1>6, Basics, EndedLabels DEF out, Keeps
<1>8. IsFsd(f) /\ SameWork(f, fsd) /\ SameScan(f, fsd) /\ f.req_out = fsd.req_out
  BY <1>5, ReadFields
<1> HIDE DEF f
<1>9. /\ Looked(lut, z, here) /\ Looked(Dirtied(lut, here), z, here)
      /\ Looked(Mapped(Dirtied(lut, c), l, here), z, here)
  BY <1>1, <1>2, <1>4, LookedAt
<1>10. ASSUME NEW t, Looked(t, z, here), Scanned(t, f)
       PROVE  IInv'
  BY <1>1, <1>2, <1>7, <1>8, <1>10, LookedStep DEF SameScan
<1> QED BY <1>6, <1>9, <1>10, SMTT(30)

-----------------------------------------------------------------------------
(* ftl_simple_setup_request(), and what comes from above.                  *)

LEMMA LockStep ==
  ASSUME IInv, IsFsd(fsd'), fsd'.pos = pos, fsd'.scan_pos = fsd.scan_pos,
         fsd'.conflict_pos = fsd.conflict_pos, fsd'.req_fn = fsd.req_fn,
         fsd'.req_suspend = fsd.req_suspend, fsd'.bmap_avail = fsd.bmap_avail,
         \/ fsd.at # "out" /\ fsd'.at # "out"
         \/ fsd'.at = fsd.at /\ fsd'.req_out = fsd.req_out,
         fsd'.req_in \in {NoReq, client'}, IsReq(client'), Waiting(fsd'),
         lut' = lut, flash' = flash, config' = config
  PROVE  IInv'
<1>1. Labels' /\ Stacked(fsd')
  BY Basics DEF Labels, Stacked
<1>2. Writing(lut', fsd')
  <2>1. /\ Committing(fsd') = Committing(fsd) /\ Suspended(fsd') = Suspended(fsd)
        /\ Erasing(fsd') = Erasing(fsd)
    BY DEF Committing, Suspended, Erasing
  <2> QED BY <2>1, Basics DEF Writing, pos
<1>3. ASSUME LooksUp(fsd') \/ Resolves(fsd') PROVE Scanning(lut, fsd)'
  <2>1. /\ LooksUp(fsd') = LooksUp(fsd) /\ Resolves(fsd') = Resolves(fsd)
        /\ fsd'.at = "out" => fsd.at = "out" /\ fsd'.req_out = fsd.req_out
    BY DEF LooksUp, Resolves
  <2>2. Scanning(lut, fsd)
    BY <1>3, <2>1 DEF IInv
  <2> QED BY <2>1, <2>2 DEF Scanning, pos, ZoneLog, ZonePhy
<1> QED BY <1>1, <1>2, <1>3, Basics, Assemble

\* A write begins: the block it goes to is its own.
LEMMA WriteStarts ==
  ASSUME IInv, IsLut(lut'), Apart(lut'), IsFsd(fsd'), fsd'.at # "out",
         Body(fsd'.req_fn) \/ Copying(fsd'.req_fn), Fresh(lut', fsd'.pos),
         Copying(fsd'.req_fn) => Copies(fsd'.pos), lut'.free[fsd'.pos.dst] = "no",
         ~ Suspended(fsd'), fsd'.req_in = fsd.req_in, client' = client, config' = config,
         flash' = flash
  PROVE  IInv'
<1> DEFINE s == fsd'.req_fn
<1>0. Body(s) \/ Copying(s)
  OBVIOUS
<1> HIDE DEF s
<1>1. ~ Single(s) /\ s # <<>> /\ s # <<"lookup_block">> /\ s # <<"resolve">> /\ s # <<"erase_src">>
  BY <1>0, StackKinds DEF Commits
<1> USE DEF s
<1>2. /\ ~ LooksUp(fsd') /\ ~ Resolves(fsd') /\ ~ Committing(fsd') /\ ~ Erasing(fsd')
  BY <1>1 DEF LooksUp, Resolves, Committing, Erasing
<1>3. Stacked(fsd') /\ Waiting(fsd') /\ Writing(lut', fsd')
  BY <1>2 DEF Stacked, Waiting, Writing
<1>4. Labels'
  BY Basics DEF Labels
<1> QED BY <1>2, <1>3, <1>4, Basics, Assemble

LEMMA DstFields ==
  ASSUME NEW p \in PosType, NEW b \in Phy \cup {INVALID}
  PROVE  /\ LET q == [p EXCEPT !.dst = b]
            IN  /\ q \in PosType /\ q.dst = b /\ q.logical = p.logical /\ q.src = p.src
                /\ q.zone = p.zone /\ q.off = p.off /\ q.len = p.len
         /\ LET q == [p EXCEPT !.dst = b, !.in_place = TRUE]
            IN  q \in PosType /\ q.dst = b /\ q.logical = p.logical /\ q.src = p.src
BY DEF PosType

LEMMA Suspends ==
  ASSUME IInv, Setting
  PROVE  /\ ~ fsd.req_suspend /\ (fsd.bmap_avail \/ ~ Suspended(fsd))
         /\ SetAt \in {"idle", "get"} /\ fsd.req_fn = <<>> /\ fsd.at \in {"get", "late"}
<1>1. ~ fsd.req_suspend
  BY Basics DEF Waiting, Suspended, Setting
<1> QED BY <1>1 DEF Setting, SetAt, Suspended

\* A block that is free is nobody's; one that is mapped can be written in place.
LEMMA AddressFresh ==
  ASSUME IInv, Left > 0
  PROVE  /\ \A b \in Free : /\ b \in Phy /\ b # INVALID
                            /\ b \in ZonePhy(ZoneOf(Address.logical)) \ config.special
                            /\ Unmapped(lut, b) /\ b # Address.src
         /\ Address.src # INVALID =>
              /\ Address.src \in ZonePhy(ZoneOf(Address.logical)) \ config.special
              /\ Address.src \in Phy /\ lut.free[Address.src] = "no"
<1>1. /\ Address.logical \in Log /\ Address.zone = ZoneOf(Address.logical)
      /\ Address.src = lut.block_table[Address.logical]
  BY Basics, AddressFields
<1>2. ASSUME NEW b \in Free
      PROVE  /\ b \in Phy /\ b # INVALID
             /\ b \in ZonePhy(ZoneOf(Address.logical)) \ config.special
             /\ Unmapped(lut, b) /\ b # Address.src
  <2>1. b \in ZonePhy(Address.zone) /\ lut.free[b] # "no" /\ b \in Phy
    BY DEF Free, ZonePhy
  <2>2. b # INVALID
    BY <2>1, FtlAssumption
  <2>3. b \notin config.special /\ Unmapped(lut, b)
    BY <2>1, <2>2, Basics DEF Apart, Unmapped
  <2> QED BY <1>1, <2>1, <2>2, <2>3 DEF Unmapped
<1>3. ASSUME Address.src # INVALID
      PROVE  /\ Address.src \in ZonePhy(ZoneOf(Address.logical)) \ config.special
             /\ Address.src \in Phy /\ lut.free[Address.src] = "no"
  BY <1>1, <1>3, Basics DEF Apart, ZonePhy
<1> QED BY <1>2, <1>3

SetOut(p, s, c, o, a) ==
  [fsd EXCEPT !.pos = p, !.req_fn = s, !.clean_dst = c, !.dst_oob = o, !.at = a]

LEMMA SetFields ==
  ASSUME IsFsd(fsd), NEW p \in PosType, NEW s, NEW c, NEW o, IsLabel(o),
         NEW a \in {"idle", "get", "late", "out"}
  PROVE  LET g == SetOut(p, s, c, o, a)
         IN  /\ IsFsd(g) /\ g.pos = p /\ g.req_fn = s /\ g.at = a /\ g.req_in = fsd.req_in
             /\ g.req_suspend = fsd.req_suspend /\ g.bmap_avail = fsd.bmap_avail
<1> DEFINE g == SetOut(p, s, c, o, a)
<1>0. g = [fsd EXCEPT !.pos = p, !.req_fn = s, !.clean_dst = c, !.dst_oob = o, !.at = a]
  BY DEF SetOut
<1> HIDE DEF g
<1>1. g = [pos |-> p, clean_dst |-> c, req_suspend |-> fsd.req_suspend,
          bmap_avail |-> fsd.bmap_avail, dst_oob |-> o, block_buf |-> fsd.block_buf,
          scan_pos |-> fsd.scan_pos, conflict_pos |-> fsd.conflict_pos, req_fn |-> s,
          req_in |-> fsd.req_in, t_count |-> fsd.t_count, req_out |-> fsd.req_out, at |-> a]
  BY <1>0 DEF IsFsd
<1>2. IsFsd(g)
  BY <1>1 DEF IsFsd
<1> QED BY <1>1, <1>2 DEF g

\* The write begins with a stack of functions.
LEMMA SetupStarts ==
  ASSUME IInv, Setting, Left > 0, ~ fsd.bmap_avail, NEW p \in PosType, NEW s, NEW c,
         fsd' = SetOut(p, s, c, MappedTo(Address.logical), SetAt),
         Body(s) \/ Copying(s), Copying(s) => Copies(p), Fresh(lut', p), lut'.free[p.dst] = "no",
         IsLut(lut'), Apart(lut'), flash' = flash, config' = config, client' = client
  PROVE  IInv'
<1> DEFINE o == MappedTo(Address.logical)
           a == SetAt
<1>1. IsLabel(o)
  BY Basics, AddressFields DEF IsLabel, MappedTo
<1>2. a \in {"idle", "get"} /\ ~ fsd.req_suspend
  BY Suspends
<1> HIDE DEF o, a
<1>3. /\ IsFsd(fsd') /\ fsd'.pos = p /\ fsd'.req_fn = s /\ fsd'.at = a
      /\ fsd'.req_in = fsd.req_in /\ fsd'.req_suspend = fsd.req_suspend
      /\ fsd'.bmap_avail = fsd.bmap_avail
  <2>1. fsd' = SetOut(p, s, c, o, a)
    BY DEF o, a
  <2> QED BY <1>1, <1>2, <2>1, Basics, SetFields
<1>4. ~ Suspended(fsd') /\ fsd'.at # "out"
  BY <1>2, <1>3 DEF Suspended
<1> QED BY <1>3, <1>4, WriteStarts

LEMMA WriteSetups ==
  ASSUME IInv, SetupMerge \/ SetupInPlace \/ SetupCopy \/ SetupNewFull
  PROVE  IInv'
<1> DEFINE o == MappedTo(Address.logical)
           no == FALSE
<1>1. /\ Setting /\ Left > 0 /\ ~ fsd.bmap_avail
      /\ flash' = flash /\ config' = config /\ client' = client
  BY DEF SetupMerge, SetupInPlace, SetupCopy, SetupNewFull, Ready, Quiet
<1>2. /\ Address \in PosType /\ Address.logical \in Log
      /\ Address.src = lut.block_table[Address.logical]
  BY <1>1, Basics, AddressFields
<1>3. /\ \A b \in Free : /\ b \in Phy /\ b # INVALID
                         /\ b \in ZonePhy(ZoneOf(Address.logical)) \ config.special
                         /\ Unmapped(lut, b) /\ b # Address.src
      /\ Address.src # INVALID =>
           /\ Address.src \in ZonePhy(ZoneOf(Address.logical)) \ config.special
           /\ Address.src \in Phy /\ lut.free[Address.src] = "no"
  BY <1>1, AddressFresh
<1>4. ASSUME NEW b \in Free
      PROVE  LET p == [Address EXCEPT !.dst = b]
             IN  /\ p \in PosType /\ IsLut(Took(b)) /\ Apart(Took(b)) /\ Took(b).free[p.dst] = "no"
                 /\ Fresh(Took(b), p)
                 /\ Address.src # INVALID => Copies(p)
  <2> DEFINE p == [Address EXCEPT !.dst = b]
  <2>1. /\ p \in PosType /\ p.dst = b /\ p.logical = Address.logical /\ p.src = Address.src
    BY <1>2, <1>3, DstFields
  <2>2. /\ IsLut(Took(b)) /\ Apart(Took(b)) /\ Took(b).block_table = lut.block_table
        /\ Took(b).free[b] = "no"
    BY <1>3, Basics, TookLut DEF Took
  <2> HIDE DEF p
  <2>3. Fresh(Took(b), p)
    BY <1>2, <1>3, <2>1, <2>2 DEF Fresh, Unmapped
  <2>4. Address.src # INVALID => Copies(p)
    BY <1>3, <2>1 DEF Copies
  <2> QED BY <2>1, <2>2, <2>3, <2>4 DEF p
<1>5. ASSUME Address.src # INVALID
      PROVE  /\ LET p == [Address EXCEPT !.dst = Address.src]
                IN  p \in PosType /\ Fresh(lut, p) /\ lut.free[p.dst] = "no"
             /\ LET p == [Address EXCEPT !.dst = Address.src, !.in_place = TRUE]
                IN  p \in PosType /\ Fresh(lut, p) /\ lut.free[p.dst] = "no"
  <2>1. ASSUME NEW p \in PosType, p.dst = Address.src, p.logical = Address.logical,
               p.src = Address.src
        PROVE  p \in PosType /\ Fresh(lut, p) /\ lut.free[p.dst] = "no"
    BY <1>2, <1>3, <1>5, <2>1 DEF Fresh
  <2> QED BY <1>2, <1>3, <1>5, <2>1, DstFields, ZenonT(30)
<1>6. CASE SetupMerge
  <2> DEFINE p == [Address EXCEPT !.dst = Address.src]
             s == <<"merge_data">>
  <2>1. fsd' = SetOut(p, s, no, o, SetAt) /\ lut' = lut
    BY <1>6 DEF SetupMerge, SetOut
  <2>2. Address.src # INVALID
    BY <1>6, FtlAssumption, Basics DEF SetupMerge, Merges, CanMerge, IsLut
  <2>3. p \in PosType /\ Fresh(lut', p) /\ lut'.free[p.dst] = "no"
    BY <1>5, <2>1, <2>2
  <2>4. Body(s) /\ ~ Copying(s)
    BY WholeStacks, StackKinds
  <2>5. IsLut(lut') /\ Apart(lut')
    BY <2>1, Basics
  <2> HIDE DEF p, s, no
  <2> QED BY <1>1, <2>1, <2>3, <2>4, <2>5, SetupStarts DEF o
<1>7. CASE SetupInPlace
  <2> DEFINE p == [Address EXCEPT !.dst = Address.src, !.in_place = TRUE]
             s == <<"read_first", "read_last", "erase_dst", "write_first", "write_data",
                    "write_last">>
  <2>1. fsd' = SetOut(p, s, no, o, SetAt) /\ lut' = lut /\ Address.src # INVALID
    BY <1>7 DEF SetupInPlace, SetOut
  <2>3. p \in PosType /\ Fresh(lut', p) /\ lut'.free[p.dst] = "no"
    BY <1>5, <2>1
  <2>4. Body(s) /\ ~ Copying(s)
    BY WholeStacks, StackKinds
  <2>5. IsLut(lut') /\ Apart(lut')
    BY <2>1, Basics
  <2> HIDE DEF p, s, no
  <2> QED BY <1>1, <2>1, <2>3, <2>4, <2>5, SetupStarts DEF o
<1>8. CASE SetupNewFull
  <2>1. PICK b \in Free :
          /\ lut' = Took(b)
          /\ fsd' = SetOut([Address EXCEPT !.dst = b], EraseIf(b) \o <<"merge_data">>,
                           lut.free[b] = "clean", o, SetAt)
    BY <1>8 DEF SetupNewFull, SetOut
  <2> DEFINE p == [Address EXCEPT !.dst = b]
             s == EraseIf(b) \o <<"merge_data">>
             c == lut.free[b] = "clean"
  <2>2. fsd' = SetOut(p, s, c, o, SetAt)
    BY <2>1
  <2>3. /\ p \in PosType /\ Fresh(lut', p) /\ lut'.free[p.dst] = "no"
        /\ IsLut(lut') /\ Apart(lut')
    BY <1>4, <2>1
  <2>4. Body(s) /\ ~ Copying(s)
    BY WholeStacks, CopyStack, StackKinds
  <2> HIDE DEF p, s, c
  <2> QED BY <1>1, <2>2, <2>3, <2>4, SetupStarts DEF o
<1>9. CASE SetupCopy
  <2> DEFINE w == IF config.mode # "peb" THEN <<"copy_first", "write_data", "copy_last">>
                  ELSE <<"read_first", "read_last", "write_first", "write_data", "write_last">>
  <2>1. PICK b \in Free :
          /\ lut' = Took(b)
          /\ fsd' = SetOut([Address EXCEPT !.dst = b],
                           EraseIf(b) \o <<"select_src">> \o w \o <<"erase_src">>,
                           lut.free[b] = "clean", o, SetAt)
    BY <1>9 DEF SetupCopy, SetOut
  <2> DEFINE p == [Address EXCEPT !.dst = b]
             s == EraseIf(b) \o <<"select_src">> \o w \o <<"erase_src">>
             c == lut.free[b] = "clean"
  <2>2. fsd' = SetOut(p, s, c, o, SetAt)
    BY <2>1
  <2>3. /\ p \in PosType /\ Fresh(lut', p) /\ lut'.free[p.dst] = "no"
        /\ IsLut(lut') /\ Apart(lut') /\ Copies(p)
    <3>1. Address.src # INVALID
      BY <1>9 DEF SetupCopy
    <3> QED BY <1>4, <2>1, <3>1
  <2>4. Copying(s)
    <3>1. Body(w)
      BY WholeStacks
    <3> HIDE DEF w
    <3> QED BY <3>1, CopyStack
  <2> HIDE DEF p, s, c
  <2> QED BY <1>1, <2>2, <2>3, <2>4, SetupStarts DEF o
<1> QED BY <1>6, <1>7, <1>8, <1>9

LEMMA PartialStep ==
  ASSUME IInv, Setting, NEW p \in PosType, Partial(p), Fresh(lut', p), lut'.free[p.dst] = "no",
         IsLut(lut'), Apart(lut'), flash' = flash, config' = config, client' = client
  PROVE  IInv'
<1> DEFINE s == <<"write_first", "write_data", "write_last">>
           buf == [q \in Pages |-> IF q \in p.off .. p.off + p.len - 1 THEN fsd.block_buf[q]
                                   ELSE Fill]
           no == FALSE
           a == SetAt
<1>0. fsd' = [fsd EXCEPT !.pos = p, !.clean_dst = no, !.bmap_avail = no, !.req_suspend = no,
                         !.at = a, !.block_buf = buf, !.req_fn = s]
  BY DEF Partial
<1>1. a \in {"idle", "get"} /\ no \in BOOLEAN
  BY Suspends
<1>2. ~ no /\ Body(s)
  BY WholeStacks
<1> HIDE DEF s, buf, no, a
<1>3. fsd' = [pos |-> p, clean_dst |-> no, req_suspend |-> no,
          bmap_avail |-> no, dst_oob |-> fsd.dst_oob, block_buf |-> buf,
          scan_pos |-> fsd.scan_pos, conflict_pos |-> fsd.conflict_pos, req_fn |-> s,
          req_in |-> fsd.req_in, t_count |-> fsd.t_count, req_out |-> fsd.req_out, at |-> a]
  BY <1>0, Basics DEF IsFsd
<1>4. IsFsd(fsd')
  BY <1>1, <1>3, Basics DEF IsFsd
<1>5. /\ fsd'.pos = p /\ fsd'.req_fn = s /\ fsd'.at = a /\ fsd'.req_in = fsd.req_in
      /\ fsd'.req_suspend = no /\ fsd'.bmap_avail = no
  BY <1>3
<1>6. ~ Suspended(fsd')
  BY <1>2, <1>5 DEF Suspended
<1>7. ~ Copying(s)
  BY <1>2, StackKinds
<1> QED BY <1>1, <1>2, <1>4, <1>5, <1>6, <1>7, WriteStarts

LEMMA PartSetups == ASSUME IInv, SetupNewPart \/ SetupContinue PROVE IInv'
<1>1. /\ Setting /\ Left > 0 /\ fsd.req_in.op = "write"
      /\ flash' = flash /\ config' = config /\ client' = client
  BY DEF SetupNewPart, SetupContinue, Ready, Quiet
<1>2. CASE SetupNewPart
  <2>1. PICK b \in Free :
          /\ lut' = IF MapInserts(lut, b) THEN MapInsert(Took(b), b) ELSE Took(b)
          /\ \/ Partial([Address EXCEPT !.dst = b])
             \/ fsd' = [fsd EXCEPT !.pos = [Address EXCEPT !.dst = b], !.at = "idle",
                                   !.clean_dst = FALSE, !.req_suspend = TRUE]
    BY <1>2 DEF SetupNewPart
  <2> DEFINE p == [Address EXCEPT !.dst = b]
             no == FALSE
             yes == TRUE
  <2>2. /\ Address \in PosType /\ Address.logical \in Log
        /\ Address.src = lut.block_table[Address.logical]
        /\ b \in Phy /\ b \in ZonePhy(ZoneOf(Address.logical)) \ config.special
        /\ Unmapped(lut, b)
    BY <1>1, Basics, AddressFields, AddressFresh
  <2>3. /\ p \in PosType /\ p.dst = b /\ p.logical = Address.logical /\ p.src = Address.src
    BY <2>2, DstFields
  <2> HIDE DEF p
  <2>4. /\ IsLut(Took(b)) /\ Apart(Took(b)) /\ Took(b).block_table = lut.block_table
        /\ Took(b).free[b] = "no" /\ Took(b).spare = lut.spare
    BY <2>2, Basics, TookLut DEF Took
  <2>5. SameMaps(Took(b), lut')
    <3>1. CASE MapInserts(lut, b)
      BY <2>1, <2>2, <2>4, <3>1, InsertMap DEF MapInserts
    <3>2. CASE ~ MapInserts(lut, b)
      BY <2>1, <2>4, <3>2 DEF SameMaps
    <3> QED BY <3>1, <3>2
  <2>6. /\ IsLut(lut') /\ Apart(lut') /\ lut'.block_table = lut.block_table
        /\ lut'.free[b] = "no"
    BY <2>4, <2>5, SameApart DEF SameMaps
  <2>7. Fresh(lut', p) /\ lut'.free[p.dst] = "no"
    BY <2>2, <2>3, <2>6 DEF Fresh, Unmapped
  <2>8. CASE Partial([Address EXCEPT !.dst = b])
    <3>1. Partial(p)
      BY <2>8 DEF p
    <3> QED BY <1>1, <2>3, <2>6, <2>7, <3>1, PartialStep
  <2>9. CASE fsd' = [fsd EXCEPT !.pos = [Address EXCEPT !.dst = b], !.at = "idle",
                                !.clean_dst = FALSE, !.req_suspend = TRUE]
    <3>1. fsd' = [fsd EXCEPT !.pos = p, !.at = "idle", !.clean_dst = no, !.req_suspend = yes]
      BY <2>9 DEF p
    <3>2. yes /\ yes \in BOOLEAN
      OBVIOUS
    <3> HIDE DEF no, yes
    <3>3. fsd' = [pos |-> p, clean_dst |-> no, req_suspend |-> yes,
              bmap_avail |-> fsd.bmap_avail, dst_oob |-> fsd.dst_oob,
              block_buf |-> fsd.block_buf,
              scan_pos |-> fsd.scan_pos, conflict_pos |-> fsd.conflict_pos,
              req_fn |-> fsd.req_fn, req_in |-> fsd.req_in, t_count |-> fsd.t_count,
              req_out |-> fsd.req_out, at |-> "idle"]
      BY <3>1, Basics DEF IsFsd
    <3>4. IsFsd(fsd')
      BY <2>3, <3>2, <3>3, Basics DEF IsFsd
    <3>5. /\ fsd'.pos = p /\ fsd'.req_fn = <<>> /\ fsd'.at = "idle" /\ fsd'.req_in = fsd.req_in
          /\ fsd'.t_count = fsd.t_count
      BY <1>1, <3>3 DEF Setting
    <3>6. /\ ~ Body(fsd'.req_fn) /\ ~ Copying(fsd'.req_fn) /\ ~ LooksUp(fsd')
          /\ ~ Resolves(fsd') /\ ~ Committing(fsd') /\ ~ Erasing(fsd')
      BY <3>5, StackKinds DEF LooksUp, Resolves, Committing, Erasing
    <3>7. Stacked(fsd') /\ Writing(lut', fsd') /\ Waiting(fsd')
      BY <1>1, <2>7, <3>5, <3>6 DEF Stacked, Writing, Waiting, Left
    <3>8. Labels'
      BY <1>1, Basics DEF Labels
    <3> QED BY <1>1, <2>6, <3>4, <3>5, <3>6, <3>7, <3>8, Basics, Assemble
  <2> QED BY <2>1, <2>8, <2>9
<1>3. CASE SetupContinue
  <2>1. fsd.bmap_avail /\ Partial(pos) /\ lut' = lut
    BY <1>3 DEF SetupContinue
  <2>2. Fresh(lut, pos) /\ lut.free[pos.dst] = "no"
    <3>1. Fresh(lut, pos)
      BY <2>1, Basics DEF Writing, Suspended, pos
    <3>2. pos.dst # INVALID
      BY <3>1, FtlAssumption DEF Fresh, ZonePhy
    <3> QED BY <3>1, <3>2, Basics DEF Writing, pos
  <2> QED BY <1>1, <2>1, <2>2, Basics, PartialStep
<1> QED BY <1>2, <1>3

LEMMA NodeStep == ASSUME IInv, AllocNode PROVE IInv'
<1> DEFINE no == FALSE
           yes == TRUE
           t == [lut EXCEPT !.spare = IF @ = 0 THEN 1 ELSE @]
<1>1. /\ fsd.req_suspend /\ fsd.at = "idle"
      /\ fsd' = [fsd EXCEPT !.req_suspend = no, !.bmap_avail = yes]
      /\ flash' = flash /\ config' = config /\ client' = client
  BY DEF AllocNode, Quiet
<1>2. yes /\ yes \in BOOLEAN /\ ~ no /\ no \in BOOLEAN
  OBVIOUS
<1>3. Fresh(lut, pos) /\ pos.dst \in Phy /\ fsd.req_fn = <<>> /\ lut.free[pos.dst] = "no"
      /\ Suspended(fsd)
  <2>1. Suspended(fsd)
    BY <1>1 DEF Suspended
  <2>2. Fresh(lut, pos) /\ pos.dst \in Phy /\ pos.dst # INVALID /\ fsd.req_fn = <<>>
    BY <2>1, Basics, FtlAssumption DEF Writing, Waiting, Fresh, ZonePhy, pos
  <2> QED BY <2>1, <2>2, Basics DEF Writing, pos
<1>4. SameMaps(lut, lut')
  <2>1. CASE lut' = lut
    BY <2>1, Basics DEF SameMaps
  <2>2. CASE lut' = MapInsert(t, pos.dst)
    <3> DEFINE n == IF lut.spare = 0 THEN 1 ELSE lut.spare
    <3>1. n \in Nat /\ n > 0
      BY Basics DEF IsLut
    <3> HIDE DEF n
    <3>2. t = [lut EXCEPT !.spare = n]
      BY DEF n
    <3>3. t = [free |-> lut.free, valid_zones |-> lut.valid_zones, spare |-> n,
               block_table |-> lut.block_table, b_map |-> lut.b_map]
      <4> HIDE DEF t
      <4> QED BY <3>2, Basics DEF IsLut
    <3> HIDE DEF t
    <3>4. IsLut(t)
      BY <3>1, <3>3, Basics DEF IsLut
    <3>5. SameMaps(lut, t) /\ t.spare > 0
      BY <3>1, <3>3, <3>4 DEF SameMaps
    <3>6. SameMaps(t, lut')
      BY <1>3, <2>2, <3>4, <3>5, InsertMap
    <3> QED BY <3>5, <3>6, SameMapsTwice
  <2> QED BY <2>1, <2>2 DEF AllocNode
<1> HIDE DEF no, yes, t
<1>5. fsd' = [pos |-> fsd.pos, clean_dst |-> fsd.clean_dst, req_suspend |-> no,
              bmap_avail |-> yes, dst_oob |-> fsd.dst_oob,
              block_buf |-> fsd.block_buf,
              scan_pos |-> fsd.scan_pos, conflict_pos |-> fsd.conflict_pos,
              req_fn |-> fsd.req_fn, req_in |-> fsd.req_in, t_count |-> fsd.t_count,
              req_out |-> fsd.req_out, at |-> fsd.at]
  BY <1>1, Basics DEF IsFsd
<1>6. IsFsd(fsd')
  BY <1>2, <1>5, Basics DEF IsFsd
<1>7. /\ fsd'.pos = pos /\ fsd'.req_fn = <<>> /\ fsd'.at = "idle" /\ fsd'.req_in = fsd.req_in
      /\ fsd'.t_count = fsd.t_count /\ ~ fsd'.req_suspend
  BY <1>1, <1>2, <1>3, <1>5 DEF pos
<1>8. /\ ~ Body(fsd'.req_fn) /\ ~ Copying(fsd'.req_fn) /\ ~ LooksUp(fsd')
      /\ ~ Resolves(fsd') /\ ~ Committing(fsd') /\ ~ Erasing(fsd')
  BY <1>7, StackKinds DEF LooksUp, Resolves, Committing, Erasing
<1>9. IsLut(lut') /\ Apart(lut') /\ Fresh(lut', pos) /\ lut'.free[pos.dst] = "no"
  BY <1>3, <1>4, Basics, SameApart DEF SameMaps, Fresh, Unmapped
<1>10. Stacked(fsd') /\ Writing(lut', fsd') /\ Waiting(fsd')
  <2>1. Waiting(fsd')
    BY <1>3, <1>7, Basics DEF Waiting
  <2> QED BY <1>7, <1>8, <1>9, <2>1 DEF Stacked, Writing
<1>11. Labels'
  BY <1>1, Basics DEF Labels
<1> QED BY <1>1, <1>6, <1>7, <1>8, <1>9, <1>10, <1>11, Basics, Assemble

LEMMA OtherSetups ==
  ASSUME IInv, SetupFails \/ SetupDone \/ SetupNoSpace \/ SetupRead
  PROVE  IInv'
<1>1. Setting /\ flash' = flash /\ config' = config /\ lut' = lut
  BY DEF SetupFails, SetupDone, SetupNoSpace, SetupRead, Ready, Quiet
<1>2. Labels' /\ IsLut(lut') /\ Apart(lut')
  BY <1>1, Basics DEF Labels
<1>3. /\ ~ fsd.req_suspend
      /\ fsd.bmap_avail \/ ~ Suspended(fsd)
      /\ SetAt \in {"idle", "get"} /\ fsd.req_fn = <<>> /\ fsd.at \in {"get", "late"}
  BY <1>1, Suspends
<1>4. CASE SetupFails
  <2>1. fsd' = [fsd EXCEPT !.at = "idle"] /\ fsd.at = "late" /\ client' = client
    BY <1>4 DEF SetupFails, Quiet
  <2>2. /\ IsFsd(fsd') /\ SameWork(fsd', fsd) /\ SameScan(fsd', fsd) /\ fsd'.at = "idle"
    BY <2>1, Basics, AtFields
  <2>3. ~ Suspended(fsd')
    BY <2>1, <2>2, NotWaiting DEF Suspended, SameWork
  <2>4. Waiting(fsd')
    BY <2>3 DEF Waiting
  <2> QED BY <1>1, <2>1, <2>2, <2>4, Basics, LockStep DEF SameWork, SameScan, pos
<1>5. CASE SetupDone \/ SetupNoSpace
  <2>1. Complete(fsd.t_count, "get")
    BY <1>5 DEF SetupDone, SetupNoSpace
  <2>2. ~ Suspended(fsd)
    <3>1. CASE SetupDone
      <4>1. Left = 0
        BY <3>1 DEF SetupDone
      <4> QED BY <4>1, Basics DEF Waiting, Left
    <3>2. CASE SetupNoSpace
      BY <1>3, <3>2 DEF SetupNoSpace, Ready, Suspended
    <3> QED BY <1>5, <3>1, <3>2
  <2> QED BY <1>1, <1>2, <2>1, <2>2, Basics, CompleteStep
<1>6. CASE SetupRead
  <2> DEFINE s == IF Address.src = INVALID THEN <<"fill_data">> ELSE <<"read_data">>
             a == SetAt
             p == Address
  <2>1. /\ fsd' = [fsd EXCEPT !.pos = p, !.at = a, !.req_fn = s]
        /\ Left > 0 /\ ~ fsd.bmap_avail /\ client' = client
    BY <1>6 DEF SetupRead, Ready, Quiet
  <2>2. p \in PosType /\ p.dst = INVALID
    BY <2>1, Basics, AddressFields
  <2>3. Single(s) /\ s # <<"lookup_block">> /\ s # <<"resolve">> /\ s # <<"erase_src">>
    <3>1. {"fill_data", "read_data"} \subseteq Singles
      BY DEF Singles
    <3> QED BY <3>1, SingleTop DEF Single
  <2> HIDE DEF s, a, p
  <2>4. fsd' = [pos |-> p, clean_dst |-> fsd.clean_dst, req_suspend |-> fsd.req_suspend,
              bmap_avail |-> fsd.bmap_avail, dst_oob |-> fsd.dst_oob,
              block_buf |-> fsd.block_buf,
              scan_pos |-> fsd.scan_pos, conflict_pos |-> fsd.conflict_pos,
              req_fn |-> s, req_in |-> fsd.req_in, t_count |-> fsd.t_count,
              req_out |-> fsd.req_out, at |-> a]
    BY <2>1, Basics DEF IsFsd
  <2>5. a \in {"idle", "get"}
    BY <1>3 DEF a
  <2>6. IsFsd(fsd')
    BY <2>2, <2>4, <2>5, Basics DEF IsFsd
  <2>7. /\ fsd'.pos = p /\ fsd'.req_fn = s /\ fsd'.at = a /\ fsd'.req_in = fsd.req_in
        /\ fsd'.req_suspend = fsd.req_suspend /\ fsd'.bmap_avail = fsd.bmap_avail
    BY <2>4
  <2>8. /\ ~ Body(s) /\ ~ Copying(s) /\ ~ LooksUp(fsd') /\ ~ Resolves(fsd')
        /\ ~ Committing(fsd') /\ ~ Erasing(fsd') /\ ~ Suspended(fsd')
    BY <1>3, <2>1, <2>3, <2>5, <2>7, StackKinds
       DEF LooksUp, Resolves, Committing, Erasing, Suspended
  <2>9. Stacked(fsd') /\ Writing(lut', fsd') /\ Waiting(fsd')
    BY <2>2, <2>3, <2>5, <2>7, <2>8 DEF Stacked, Writing, Waiting
  <2> QED BY <1>1, <1>2, <2>1, <2>6, <2>7, <2>8, <2>9, Basics, Assemble
<1> QED BY <1>4, <1>5, <1>6

LEMMA AboveStep == ASSUME IInv, NewRequest \/ Ask \/ FetchReq PROVE IInv'
<1>1. lut' = lut /\ flash' = flash /\ config' = config
  BY DEF NewRequest, Ask, FetchReq
<1>2. CASE NewRequest
  <2>1. fsd' = fsd /\ client = NoReq
    BY <1>2 DEF NewRequest
  <2>2. PICK op \in {"read", "write"}, s \in Shapes :
          client' = [op |-> op, at |-> s[1], len |-> s[2],
                     ver |-> IF op = "write" THEN used.requests + 1 ELSE 0]
    BY <1>2 DEF NewRequest
  <2> DEFINE v == IF op = "write" THEN used.requests + 1 ELSE 0
             n == s[1]
             m == s[2]
  <2>3. n \in Nat /\ m \in Int /\ n + m <= ZoneCnt * LogPerZone * PageCnt
    BY ShapesAssumption
  <2>4. client' = [op |-> op, at |-> n, len |-> m, ver |-> v]
    BY <2>2
  <2> HIDE DEF v, n, m
  <2>5. IsReq(client')
    BY <2>3, <2>4 DEF IsReq
  <2>6. fsd'.req_in \in {NoReq, client'}
    BY <2>1, Basics
  <2>7. Waiting(fsd')
    BY <2>1, Basics
  <2> QED BY <1>1, <2>1, <2>5, <2>6, <2>7, Basics, LockStep DEF pos
<1>3. CASE Ask
  <2>1. fsd.at = "idle" /\ ~ fsd.req_suspend /\ fsd' = [fsd EXCEPT !.at = "get"] /\ client' = client
    BY <1>3 DEF Ask
  <2>2. IsFsd(fsd') /\ SameWork(fsd', fsd) /\ SameScan(fsd', fsd) /\ fsd'.at = "get"
    BY <2>1, Basics, AtFields
  <2>3. Waiting(fsd')
    BY <2>1, <2>2, Basics DEF Waiting, Suspended, SameWork
  <2> QED BY <1>1, <2>1, <2>2, <2>3, Basics, LockStep DEF SameWork, SameScan, pos
<1>4. CASE FetchReq
  <2>1. /\ fsd.at = "get" /\ fsd.req_in = NoReq /\ client' = client
        /\ \/ fsd' = [fsd EXCEPT !.at = "idle"]
           \/ fsd' = [fsd EXCEPT !.req_in = client]
    BY <1>4 DEF FetchReq
  <2>2. ~ fsd.req_suspend /\ ~ fsd.bmap_avail
    <3>1. NoReq.op # "write"
      BY DEF NoReq
    <3> QED BY <2>1, <3>1, Basics DEF Waiting, Suspended
  <2>3. CASE fsd' = [fsd EXCEPT !.at = "idle"]
    <3>1. IsFsd(fsd') /\ SameWork(fsd', fsd) /\ SameScan(fsd', fsd) /\ fsd'.at = "idle"
      BY <2>3, Basics, AtFields
    <3>2. Waiting(fsd')
      BY <2>2, <3>1 DEF Waiting, Suspended, SameWork
    <3> QED BY <1>1, <2>1, <3>1, <3>2, Basics, LockStep DEF SameWork, SameScan, pos
  <2>4. CASE fsd' = [fsd EXCEPT !.req_in = client]
    <3>1. fsd' = [pos |-> fsd.pos, clean_dst |-> fsd.clean_dst, req_suspend |-> fsd.req_suspend,
              bmap_avail |-> fsd.bmap_avail, dst_oob |-> fsd.dst_oob,
              block_buf |-> fsd.block_buf,
              scan_pos |-> fsd.scan_pos, conflict_pos |-> fsd.conflict_pos,
              req_fn |-> fsd.req_fn, req_in |-> client, t_count |-> fsd.t_count,
              req_out |-> fsd.req_out, at |-> fsd.at]
      BY <2>4, Basics DEF IsFsd
    <3>2. IsFsd(fsd')
      BY <3>1, Basics DEF IsFsd
    <3>3. /\ fsd'.pos = pos /\ fsd'.scan_pos = fsd.scan_pos
          /\ fsd'.conflict_pos = fsd.conflict_pos /\ fsd'.req_fn = fsd.req_fn
          /\ fsd'.req_suspend = fsd.req_suspend /\ fsd'.bmap_avail = fsd.bmap_avail
          /\ fsd'.at = fsd.at /\ fsd'.req_out = fsd.req_out /\ fsd'.req_in = client
      BY <3>1 DEF pos
    <3>4. Waiting(fsd')
      BY <2>2, <3>3 DEF Waiting, Suspended
    <3> QED BY <1>1, <2>1, <3>2, <3>3, <3>4, Basics, LockStep
  <2> QED BY <2>1, <2>3, <2>4
<1> QED BY <1>2, <1>3, <1>4

-----------------------------------------------------------------------------
(* ftl_simple_end_request().                                               *)

CleanFields(f, g) == IsFsd(g) /\ SameWork(g, f) /\ g.at = "idle"

LEMMA CleanIdle ==
  ASSUME IsFsd(fsd), NEW c, fsd' = [[fsd EXCEPT !.clean_dst = c] EXCEPT !.at = "idle"]
  PROVE  CleanFields(fsd, fsd')
<1>1. fsd' = [pos |-> fsd.pos, clean_dst |-> c, req_suspend |-> fsd.req_suspend,
          bmap_avail |-> fsd.bmap_avail, dst_oob |-> fsd.dst_oob, block_buf |-> fsd.block_buf,
          scan_pos |-> fsd.scan_pos, conflict_pos |-> fsd.conflict_pos,
          req_fn |-> fsd.req_fn, req_in |-> fsd.req_in, t_count |-> fsd.t_count,
          req_out |-> fsd.req_out, at |-> "idle"]
  BY DEF IsFsd
<1>2. IsFsd(fsd')
  BY <1>1 DEF IsFsd
<1> QED BY <1>1, <1>2 DEF CleanFields, SameWork

\* One command of a write is done, and there are more.
LEMMA EarlyEndStep ==
  ASSUME IInv, fsd.at = "out", fsd.req_out.end \in EarlyEnds, CleanFields(fsd, fsd'),
         lut' = lut, client' = client, config' = config, Labels'
  PROVE  IInv'
<1> DEFINE s == fsd.req_fn
<1>1. Body(s) \/ Copying(s)
  BY EndsWith
<1>2. Fresh(lut, pos) /\ (Copying(s) => Copies(pos)) /\ ~ Suspended(fsd)
  BY EndsWith, NotWaiting
<1>3. /\ fsd'.req_fn = s /\ fsd'.pos = pos /\ fsd'.req_in = fsd.req_in /\ IsFsd(fsd')
      /\ fsd'.req_suspend = fsd.req_suspend /\ fsd'.bmap_avail = fsd.bmap_avail
      /\ fsd'.at = "idle"
  BY DEF CleanFields, SameWork, pos
<1> HIDE DEF s
<1> QED BY <1>1, <1>2, <1>3, EarlyStep

\* The block that could not be written will be marked bad.
LEMMA InvalidStep ==
  ASSUME IInv, fsd.at = "out", Invalidates, config' = config, Labels'
  PROVE  IInv'
<1> DEFINE s == <<"invalidate_dst">>
<1>1. fsd' = [[fsd EXCEPT !.req_fn = s] EXCEPT !.at = "idle"] /\ lut' = lut /\ client' = client
  BY DEF Invalidates, Idles, Keeps
<1>2. Single(s) /\ s # <<"lookup_block">> /\ s # <<"resolve">> /\ s # <<"erase_src">>
  <2>1. "invalidate_dst" \in Singles
    BY DEF Singles
  <2> QED BY <2>1, SingleTop DEF Single
<1> HIDE DEF s
<1>3. fsd' = [pos |-> fsd.pos, clean_dst |-> fsd.clean_dst, req_suspend |-> fsd.req_suspend,
          bmap_avail |-> fsd.bmap_avail, dst_oob |-> fsd.dst_oob, block_buf |-> fsd.block_buf,
          scan_pos |-> fsd.scan_pos, conflict_pos |-> fsd.conflict_pos,
          req_fn |-> s, req_in |-> fsd.req_in, t_count |-> fsd.t_count,
          req_out |-> fsd.req_out, at |-> "idle"]
  BY <1>1, Basics DEF IsFsd
<1>4. IsFsd(fsd')
  BY <1>3, Basics DEF IsFsd
<1>5. /\ fsd'.pos = pos /\ fsd'.req_fn = s /\ fsd'.req_in = fsd.req_in /\ fsd'.at = "idle"
      /\ fsd'.req_suspend = fsd.req_suspend /\ fsd'.bmap_avail = fsd.bmap_avail
  BY <1>3 DEF pos
<1>6. /\ ~ Body(s) /\ ~ Copying(s) /\ ~ LooksUp(fsd') /\ ~ Resolves(fsd')
      /\ ~ Committing(fsd') /\ ~ Erasing(fsd') /\ ~ Suspended(fsd')
  BY <1>2, <1>5, StackKinds, NotWaiting
     DEF LooksUp, Resolves, Committing, Erasing, Suspended
<1>7. fsd'.pos.dst # INVALID => lut'.free[fsd'.pos.dst] = "no"
  BY <1>1, <1>5, Basics DEF Writing, pos
<1>8. Stacked(fsd') /\ Writing(lut', fsd') /\ Waiting(fsd')
  BY <1>2, <1>5, <1>6, <1>7 DEF Stacked, Writing, Waiting
<1> QED BY <1>1, <1>4, <1>5, <1>6, <1>8, Basics, Assemble

\* A write has failed and its block, if it is a new one, is free again.
Freed(t) == \/ lut' = t
            \/ pos.dst # pos.src /\ \E how \in {"clean", "dirty"} : lut' = Given(t, pos.dst, how)

LEMMA FreeStep ==
  ASSUME IInv, fsd.at = "out", Fresh(lut, pos), NEW t, SameMaps(lut, t), Freed(t),
         Complete(fsd.t_count, "idle"), config' = config, Labels'
  PROVE  IInv'
<1>1. IsLut(t) /\ Apart(t)
  BY Basics, SameApart DEF SameMaps
<1>2. IsLut(lut') /\ Apart(lut')
  <2>1. CASE lut' = t
    BY <1>1, <2>1
  <2>2. CASE /\ pos.dst # pos.src
             /\ \E how \in {"clean", "dirty"} : lut' = Given(t, pos.dst, how)
    <3>1. PICK how \in {"clean", "dirty"} : lut' = Given(t, pos.dst, how)
      BY <2>2
    <3>2. pos.dst \in Phy \ config.special /\ Unmapped(t, pos.dst)
      BY <2>2 DEF Fresh, ZonePhy, SameMaps, Unmapped
    <3> QED BY <1>1, <3>1, <3>2, Basics, PutLut
  <2> QED BY <2>1, <2>2 DEF Freed
<1> QED BY <1>2, Basics, NotWaiting, CompleteStep

LEMMA AbortFrees ==
  ASSUME NEW t, EndAbort(t, TRUE, FALSE) \/ EndAbort(t, TRUE, fsd.clean_dst)
  PROVE  Freed(t) /\ Complete(fsd.t_count, "idle")
<1>1. CASE EndAbort(t, TRUE, FALSE)
  BY <1>1 DEF EndAbort, Freed, Put, Given
<1>2. CASE EndAbort(t, TRUE, fsd.clean_dst)
  BY <1>2 DEF EndAbort, Freed, Put, Given
<1> QED BY <1>1, <1>2

LEMMA EarlyEndsInv ==
  ASSUME IInv, EndEraseDst \/ EndSelectSrc \/ EndWriteData \/ EndCopyFirst \/ EndReadRest
  PROVE  IInv'
<1>1. fsd.at = "out" /\ fsd.req_out.end \in EarlyEnds
  BY DEF EndEraseDst, EndSelectSrc, EndWriteData, EndCopyFirst, EndReadRest, EndOf, out, EarlyEnds
<1>2. PICK r \in Results : Ended(r)
  BY DEF EndEraseDst, EndSelectSrc, EndWriteData, EndCopyFirst, EndReadRest
<1>3. Labels' /\ config' = config
  BY <1>2, Basics, EndedLabels
<1>4. Fresh(lut, pos)
  BY <1>1, EndsWith
<1>5. ASSUME NEW c, fsd' = [[fsd EXCEPT !.clean_dst = c] EXCEPT !.at = "idle"], lut' = lut, Keeps
      PROVE  IInv'
  <2>1. CleanFields(fsd, fsd') /\ client' = client
    BY <1>5, Basics, CleanIdle DEF Keeps
  <2> QED BY <1>1, <1>3, <1>5, <2>1, EarlyEndStep
<1>6. ASSUME NEW t, SameMaps(lut, t), EndAbort(t, TRUE, FALSE) \/ EndAbort(t, TRUE, fsd.clean_dst)
      PROVE  IInv'
  BY <1>1, <1>3, <1>4, <1>6, AbortFrees, FreeStep
<1>7. SameMaps(lut, lut) /\ SameMaps(lut, MapErase(lut, pos.src))
  BY Basics, EraseMap DEF SameMaps
<1>8. ASSUME EndAbort(lut, FALSE, FALSE) PROVE IInv'
  BY <1>1, <1>3, <1>8, AbortStep
<1>9. ASSUME Invalidates PROVE IInv'
  BY <1>1, <1>3, <1>9, InvalidStep
<1>10. ASSUME Idles([fsd EXCEPT !.clean_dst = FALSE]), lut' = lut, Keeps PROVE IInv'
  <2> DEFINE c == FALSE
  <2>1. fsd' = [[fsd EXCEPT !.clean_dst = c] EXCEPT !.at = "idle"]
    BY <1>10 DEF Idles
  <2> HIDE DEF c
  <2> QED BY <1>5, <1>10, <2>1
<1>11. CASE EndEraseDst
  <2>1. \/ Invalidates
        \/ Idles([fsd EXCEPT !.clean_dst = TRUE]) /\ lut' = lut /\ Keeps
    BY <1>11 DEF EndEraseDst
  <2>2. CASE Idles([fsd EXCEPT !.clean_dst = TRUE]) /\ lut' = lut /\ Keeps
    <3> DEFINE c == TRUE
    <3>1. fsd' = [[fsd EXCEPT !.clean_dst = c] EXCEPT !.at = "idle"]
      BY <2>2 DEF Idles
    <3> HIDE DEF c
    <3> QED BY <1>5, <2>2, <3>1
  <2> QED BY <1>9, <2>1, <2>2
<1>12. CASE EndSelectSrc
  <2>1. EndAbort(lut, TRUE, fsd.clean_dst) \/ Nothing
    BY <1>12 DEF EndSelectSrc
  <2>2. CASE Nothing
    <3>1. fsd' = [fsd EXCEPT !.at = "idle"] /\ lut' = lut /\ client' = client
      BY <2>2 DEF Nothing, Idles, Keeps
    <3>2. CleanFields(fsd, fsd')
      BY <3>1, Basics, AtFields DEF CleanFields
    <3> QED BY <1>1, <1>3, <3>1, <3>2, EarlyEndStep
  <2> QED BY <1>6, <1>7, <2>1, <2>2
<1>13. CASE EndWriteData
  <2>1. \/ EndAbort(lut, FALSE, FALSE)
        \/ Idles([fsd EXCEPT !.clean_dst = FALSE]) /\ lut' = lut /\ Keeps
    BY <1>13 DEF EndWriteData
  <2> QED BY <1>8, <1>10, <2>1
<1>14. CASE EndCopyFirst
  <2>1. \/ EndAbort(MapErase(lut, pos.src), TRUE, FALSE) \/ Invalidates
        \/ Idles([fsd EXCEPT !.clean_dst = FALSE]) /\ lut' = lut /\ Keeps
    BY <1>14 DEF EndCopyFirst
  <2> QED BY <1>6, <1>7, <1>9, <1>10, <2>1
<1>15. CASE EndReadRest
  <2> DEFINE buf == [p \in Pages |-> IF p \in Cells THEN Reads(flash[pos.src].pages[p])
                                     ELSE fsd.block_buf[p]]
  <2>1. \/ EndAbort(MapErase(lut, pos.src), TRUE, fsd.clean_dst)
        \/ fsd' = [[fsd EXCEPT !.block_buf = buf] EXCEPT !.at = "idle"] /\ lut' = lut /\ Keeps
    BY <1>15 DEF EndReadRest, Idles
  <2> HIDE DEF buf
  <2>2. CASE fsd' = [[fsd EXCEPT !.block_buf = buf] EXCEPT !.at = "idle"] /\ lut' = lut /\ Keeps
    <3> DEFINE f == [fsd EXCEPT !.block_buf = buf]
    <3>1. IsFsd(f) /\ SameWork(f, fsd)
      BY Basics, BufFields
    <3>2. fsd' = [f EXCEPT !.at = "idle"]
      BY <2>2
    <3> HIDE DEF f
    <3>3. IsFsd(fsd') /\ SameWork(fsd', f) /\ fsd'.at = "idle"
      BY <3>1, <3>2, AtFields
    <3>4. CleanFields(fsd, fsd') /\ client' = client
      BY <2>2, <3>1, <3>3 DEF CleanFields, SameWork, Keeps
    <3> QED BY <1>1, <1>3, <2>2, <3>4, EarlyEndStep
  <2> QED BY <1>6, <1>7, <2>1, <2>2
<1> QED BY <1>11, <1>12, <1>13, <1>14, <1>15

LEMMA CommitEndsInv == ASSUME IInv, EndMergeData \/ EndCopyLast PROVE IInv'
<1>1. fsd.at = "out" /\ fsd.req_out.end \in CommitEnds
  BY DEF EndMergeData, EndCopyLast, EndOf, out, CommitEnds
<1>2. PICK r \in Results : Ended(r)
  BY DEF EndMergeData, EndCopyLast
<1>3. Labels' /\ config' = config
  BY <1>2, Basics, EndedLabels
<1>4. /\ fsd.req_fn \in {<<>>, <<"erase_src">>} /\ Fresh(lut, pos)
      /\ fsd.req_fn = <<"erase_src">> => Copies(pos)
  BY <1>1, EndsWith
<1>5. ~ Suspended(fsd)
  BY <1>1, NotWaiting
<1>6. ASSUME NEW f, IsFsd(f), SameWork(f, fsd), f.at = "idle", Advance(f), client' = client
      PROVE  IInv'
  <2>1. /\ f.pos = pos /\ f.req_in = fsd.req_in /\ f.req_fn = fsd.req_fn /\ ~ Suspended(f)
    BY <1>5, <1>6 DEF SameWork, Suspended, pos
  <2> QED BY <1>3, <1>4, <1>6, <2>1, CommitStep
<1>7. CASE EndMergeData
  <2> DEFINE f == [fsd EXCEPT !.at = "idle"]
  <2>1. EndAbort(lut, FALSE, FALSE) \/ (Advance(f) /\ client' = client)
    BY <1>7 DEF EndMergeData
  <2>2. IsFsd(f) /\ SameWork(f, fsd) /\ f.at = "idle"
    BY Basics, AtFields
  <2> HIDE DEF f
  <2> QED BY <1>1, <1>3, <1>6, <2>1, <2>2, AbortStep
<1>8. CASE EndCopyLast
  <2> DEFINE no == FALSE
             g == [fsd EXCEPT !.clean_dst = no, !.at = "idle"]
  <2>1. \/ EndAbort(MapErase(lut, pos.src), TRUE, FALSE) \/ Invalidates
        \/ Advance(g) /\ client' = client
    BY <1>8 DEF EndCopyLast
  <2>2. SameMaps(lut, MapErase(lut, pos.src))
    BY Basics, EraseMap
  <2>9. g = [fsd EXCEPT !.clean_dst = no, !.at = "idle"]
    OBVIOUS
  <2> HIDE DEF no, g
  <2>3. g = [pos |-> fsd.pos, clean_dst |-> no, req_suspend |-> fsd.req_suspend,
          bmap_avail |-> fsd.bmap_avail, dst_oob |-> fsd.dst_oob, block_buf |-> fsd.block_buf,
          scan_pos |-> fsd.scan_pos, conflict_pos |-> fsd.conflict_pos,
          req_fn |-> fsd.req_fn, req_in |-> fsd.req_in, t_count |-> fsd.t_count,
          req_out |-> fsd.req_out, at |-> "idle"]
    BY <2>9, Basics DEF IsFsd
  <2>4. IsFsd(g)
    BY <2>3, Basics DEF IsFsd
  <2>5. SameWork(g, fsd) /\ g.at = "idle"
    BY <2>3 DEF SameWork
  <2>6. CASE Advance(g) /\ client' = client
    BY <1>6, <2>4, <2>5, <2>6
  <2>7. CASE EndAbort(MapErase(lut, pos.src), TRUE, FALSE)
    BY <1>1, <1>3, <1>4, <2>2, <2>7, AbortFrees, FreeStep
  <2>8. CASE Invalidates
    BY <1>1, <1>3, <2>8, InvalidStep
  <2> QED BY <2>1, <2>6, <2>7, <2>8
<1> QED BY <1>7, <1>8

LEMMA LastEndsInv == ASSUME IInv, EndInvalidateDst \/ EndEraseSrc \/ EndReadData PROVE IInv'
<1>1. fsd.at = "out" /\ fsd.req_out.end \in LastEnds
  BY DEF EndInvalidateDst, EndEraseSrc, EndReadData, EndOf, out, LastEnds
<1>2. PICK r \in Results : Ended(r)
  BY DEF EndInvalidateDst, EndEraseSrc, EndReadData
<1>3. Labels' /\ config' = config
  BY <1>2, Basics, EndedLabels
<1>4. fsd.req_fn = <<>> /\ ~ Suspended(fsd)
  BY <1>1, EndsWith, NotWaiting
<1>5. CASE EndInvalidateDst
  BY <1>1, <1>3, <1>5, AbortStep DEF EndInvalidateDst
<1>6. CASE EndEraseSrc
  <2>1. /\ fsd' = [fsd EXCEPT !.at = "idle"] /\ client' = client
        /\ lut' = Dirtied(lut, pos.src) \/ lut' = lut
    BY <1>6 DEF EndEraseSrc, Idles, Keeps, Dirtied
  <2>2. IsFsd(fsd') /\ SameWork(fsd', fsd) /\ fsd'.at = "idle"
    BY <2>1, Basics, AtFields
  <2>3. Gone(lut, pos)
    BY <1>6, Basics DEF EndEraseSrc, EndOf, out, Writing, Erasing, pos
  <2>4. pos.src # pos.dst /\ pos.src \in Phy \ config.special /\ Unmapped(lut, pos.src)
    BY <2>3 DEF Gone, Copies
  <2>5. /\ IsLut(lut') /\ Apart(lut')
        /\ \A c \in Phy : c # pos.src => lut'.free[c] = lut.free[c]
    <3>1. CASE lut' = lut
      BY <3>1, Basics
    <3>2. CASE lut' = Dirtied(lut, pos.src)
      <4>1. lut' = Given(lut, pos.src, "dirty")
        BY <3>2 DEF Dirtied, Put, Given
      <4> QED BY <2>4, <4>1, Basics, PutLut
    <3> QED BY <2>1, <3>1, <3>2
  <2>6. fsd'.pos.dst # INVALID => lut'.free[fsd'.pos.dst] = "no"
    <3>1. fsd'.pos = pos /\ pos.dst \in Phy \cup {INVALID}
      BY <2>2, Basics DEF SameWork, pos, PosType
    <3> QED BY <2>4, <2>5, <3>1, Basics DEF Writing, pos
  <2>7. ~ Suspended(fsd') /\ fsd'.req_fn = <<>> /\ fsd'.req_in \in {NoReq, client'}
    BY <1>4, <2>1, <2>2, Basics DEF Suspended, SameWork
  <2> QED BY <1>3, <2>1, <2>2, <2>5, <2>6, <2>7, Basics, IdleStep
<1>7. CASE EndReadData
  <2>1. PICK n \in 0 .. pos.len :
          /\ lut' = lut
          /\ \/ fsd' = [[fsd EXCEPT !.t_count = fsd.t_count + n] EXCEPT !.at = "idle"]
                /\ client' = client
             \/ Complete(fsd.t_count + n, "idle")
    BY <1>7 DEF EndReadData, Idles
  <2> DEFINE t == fsd.t_count + n
  <2>2. t \in Nat
    BY Basics DEF PosType
  <2>3. /\ \/ fsd' = [[fsd EXCEPT !.t_count = t] EXCEPT !.at = "idle"] /\ client' = client
           \/ Complete(t, "idle")
    BY <2>1
  <2> HIDE DEF t
  <2>4. CASE fsd' = [[fsd EXCEPT !.t_count = t] EXCEPT !.at = "idle"] /\ client' = client
    <3> DEFINE f == [fsd EXCEPT !.t_count = t]
    <3>1. /\ IsFsd(f) /\ f.pos = pos /\ f.req_fn = fsd.req_fn /\ f.req_in = fsd.req_in
          /\ f.req_suspend = fsd.req_suspend /\ f.bmap_avail = fsd.bmap_avail
      BY <2>2, Basics, CountFields DEF SameScan, pos
    <3>2. fsd' = [f EXCEPT !.at = "idle"]
      BY <2>4
    <3> HIDE DEF f
    <3>3. /\ IsFsd(fsd') /\ fsd'.pos = pos /\ fsd'.req_fn = <<>> /\ fsd'.req_in = fsd.req_in
          /\ fsd'.req_suspend = fsd.req_suspend /\ fsd'.bmap_avail = fsd.bmap_avail
          /\ fsd'.at = "idle"
      BY <1>4, <3>1, <3>2, AtFields, ZenonT(30) DEF SameWork
    <3>4. ~ Suspended(fsd')
      BY <1>4, <3>3 DEF Suspended
    <3>5. fsd'.pos.dst # INVALID => lut'.free[fsd'.pos.dst] = "no"
      BY <2>1, <3>3, Basics DEF Writing, pos
    <3> QED BY <1>3, <2>1, <2>4, <3>3, <3>4, <3>5, Basics, IdleStep
  <2>5. CASE Complete(t, "idle")
    BY <1>3, <1>4, <2>1, <2>2, <2>5, Basics, CompleteStep
  <2> QED BY <2>3, <2>4, <2>5
<1> QED BY <1>5, <1>6, <1>7

-----------------------------------------------------------------------------
(* The start, a restart and a formatting.                                  *)

LEMMA NewMaps ==
  ASSUME config.special \subseteq Phy
  PROVE  IsLut(NewLut) /\ Apart(NewLut)
<1> DEFINE free == [b \in Phy |-> "no"]
           table == [l \in Log |-> INVALID]
           map == [b \in {} |-> {}]
           none == {}
<1>1. NewLut = [free |-> free, valid_zones |-> none, spare |-> 0, block_table |-> table,
                b_map |-> map]
  BY DEF NewLut
<1>2. /\ free \in [Phy -> {"no", "clean", "dirty"}] /\ table \in [Log -> Phy \cup {INVALID}]
      /\ DOMAIN map \subseteq Phy /\ none \subseteq Zones
      /\ \A b \in Phy : free[b] = "no"
      /\ \A l \in Log : table[l] = INVALID
  OBVIOUS
<1> HIDE DEF free, table, map, none
<1>3. IsLut(NewLut)
  BY <1>1, <1>2 DEF IsLut
<1>4. Apart(NewLut)
  BY <1>1, <1>2 DEF Apart
<1> QED BY <1>3, <1>4

LEMMA NewRest ==
  /\ IsFsd(NewFsd) /\ NewFsd.req_fn = <<>> /\ NewFsd.at = "idle" /\ NewFsd.pos.dst = INVALID
  /\ NewFsd.req_in = NoReq /\ ~ Suspended(NewFsd) /\ IsReq(NoReq)
<1> DEFINE buf == [p \in Pages |-> Fill]
           e == <<>>
           no == FALSE
<1>1. NewFsd = [pos |-> NoPos, clean_dst |-> no, req_suspend |-> no,
           bmap_avail |-> no, dst_oob |-> NoLabel, block_buf |-> buf,
           scan_pos |-> 0, conflict_pos |-> INVALID, req_fn |-> e,
           req_in |-> NoReq, t_count |-> 0, req_out |-> NoOut, at |-> "idle"]
  BY DEF NewFsd
<1>2. no \in BOOLEAN /\ ~ no
  OBVIOUS
<1>3. NoPos \in PosType /\ NoPos.dst = INVALID
  BY DEF NoPos, PosType
<1>4. IsLabel(NoLabel)
  BY DEF NoLabel, IsLabel
<1> HIDE DEF buf, e, no
<1>5. IsFsd(NewFsd)
  BY <1>1, <1>2, <1>3, <1>4 DEF IsFsd
<1>6. NewFsd.req_fn = <<>>
  BY <1>1 DEF e
<1>7. ~ Suspended(NewFsd)
  BY <1>1, <1>2 DEF Suspended
<1>8. IsReq(NoReq)
  BY ProductTypes DEF IsReq, NoReq
<1>9. NewFsd.at = "idle" /\ NewFsd.pos = NoPos /\ NewFsd.req_in = NoReq
  BY <1>1
<1> QED BY <1>3, <1>5, <1>6, <1>7, <1>8, <1>9

LEMMA CrashStep == ASSUME IInv, Crash PROVE IInv'
<1>1. lut' = NewLut /\ fsd' = NewFsd /\ client' = NoReq /\ config' = config
  BY DEF Crash
<1>2. Labels'
  <2>1. CASE flash' = flash
    BY <2>1, Basics DEF Labels
  <2>2. CASE \E b \in CutShort(flash[out.blk]) \cup Done(flash[out.blk]) :
               flash' = [flash EXCEPT ![out.blk] = b]
    BY <2>2, Basics, EffectLabels
  <2> QED BY <2>1, <2>2 DEF Crash
<1>3. IsLut(lut') /\ Apart(lut')
  BY <1>1, Basics, NewMaps
<1> QED BY <1>1, <1>2, <1>3, NewRest, IdleStep

LEMMA BlankLabels == IsBlock(Blank)
<1>1. IsLabel(NoLabel)
  BY DEF NoLabel, IsLabel
<1> QED BY <1>1 DEF Blank, IsBlock

LEMMA FormatStep == ASSUME IInv, Notify PROVE IInv'
<1>1. /\ fsd.at = "idle" /\ fsd.req_fn = <<>> /\ fsd' = fsd /\ config' = config /\ client' = client
      /\ flash' = [b \in Phy |-> Blank] /\ client = NoReq
      /\ lut' = IF 0 \in lut.valid_zones THEN ClearZone(lut, 0) ELSE lut
  BY DEF Notify
<1>2. Labels'
  <2>1. flash' = [b \in Phy |-> flash'[b]] /\ \A b \in Phy : flash'[b] = Blank
    BY <1>1
  <2>2. Labels' = (flash' = [b \in Phy |-> flash'[b]] /\ \A b \in Phy : IsBlock(flash'[b]))
    BY DEF Labels, IsBlock, IsLabel
  <2> QED BY <2>1, <2>2, BlankLabels
<1>3. 0 \in Zones
  BY FtlAssumption DEF Zones
<1>4. /\ IsLut(lut') /\ Apart(lut')
      /\ \A b \in Phy : lut.free[b] = "no" => lut'.free[b] = "no"
  <2>1. CASE 0 \in lut.valid_zones
    BY <1>1, <1>3, <2>1, Basics, ClearLut
  <2>2. CASE 0 \notin lut.valid_zones
    BY <1>1, <2>2, Basics
  <2> QED BY <2>1, <2>2
<1>5. fsd'.pos.dst # INVALID => lut'.free[fsd'.pos.dst] = "no"
  <2>1. pos.dst \in Phy \cup {INVALID}
    BY Basics DEF PosType
  <2> QED BY <1>1, <1>4, <2>1, Basics DEF Writing, pos
<1>6. ~ Suspended(fsd')
  <2>1. fsd.req_in = NoReq
    BY <1>1, Basics
  <2> QED BY <1>1, <2>1, Basics DEF Waiting, NoReq
<1> QED BY <1>1, <1>2, <1>4, <1>5, <1>6, Basics, IdleStep

LEMMA InitInv == Init => IInv
<1> SUFFICES ASSUME Init PROVE IInv
  OBVIOUS
<1>1. lut = NewLut /\ fsd = NewFsd /\ client = NoReq
  BY DEF Init
<1>2. config.special \subseteq Phy
  BY FtlAssumption DEF Init
<1>3. Types
  BY <1>1, <1>2, NewMaps, NewRest DEF Types
<1>4. Labels
  <2> DEFINE logs == {l \in Written : Home(l) \notin config.special}
             lab(b) == IF \E l \in logs : Home(l) = b
                       THEN LET l == CHOOSE l \in logs : Home(l) = b
                            IN [label |-> MappedTo(l), pages |-> store[l]]
                       ELSE Blank
  <2>1. flash = [b \in Phy |-> lab(b)]
    BY DEF Init
  <2>2. ASSUME NEW b \in Phy PROVE IsBlock(lab(b))
    <3>1. CASE \E l \in logs : Home(l) = b
      <4>1. PICK l \in logs : lab(b) = [label |-> MappedTo(l), pages |-> store[l]]
        BY <3>1
      <4>2. l \in Log
        BY <4>1, FtlAssumption
      <4>3. IsLabel(MappedTo(l))
        BY <4>2 DEF IsLabel, MappedTo
      <4> HIDE DEF lab
      <4> QED BY <4>1, <4>3 DEF IsBlock
    <3>2. CASE ~ \E l \in logs : Home(l) = b
      BY <3>2, BlankLabels
    <3> QED BY <3>1, <3>2
  <2> HIDE DEF lab
  <2>3. flash = [b \in Phy |-> flash[b]] /\ \A b \in Phy : flash[b] = lab(b)
    BY <2>1
  <2> QED BY <2>2, <2>3 DEF Labels
<1>5. Apart(lut)
  BY <1>1, <1>2, NewMaps
<1>6. /\ ~ Body(fsd.req_fn) /\ ~ Copying(fsd.req_fn) /\ ~ LooksUp(fsd)
      /\ ~ Resolves(fsd) /\ ~ Committing(fsd) /\ ~ Erasing(fsd) /\ ~ Suspended(fsd)
  BY <1>1, NewRest, StackKinds DEF LooksUp, Resolves, Committing, Erasing
<1>7. Stacked(fsd) /\ Writing(lut, fsd) /\ Waiting(fsd)
  BY <1>1, <1>6, NewRest DEF Stacked, Writing, Waiting
<1> QED BY <1>3, <1>4, <1>5, <1>6, <1>7 DEF IInv

LEMMA NextInv == IInv /\ [Next]_vars => IInv'
<1> SUFFICES ASSUME IInv, [Next]_vars PROVE IInv'
  OBVIOUS
<1>1. CASE NewRequest \/ Ask \/ FetchReq
  BY <1>1, AboveStep
<1>2. CASE Setup
  BY <1>2, ScanStarts, WriteSetups, PartSetups, OtherSetups DEF Setup
<1>3. CASE AllocNode
  BY <1>3, NodeStep
<1>4. CASE Fns
  BY <1>4, ScanFinds, ScanResolves, EarlyFns, CommitFns, LastFns DEF Fns
<1>5. CASE Ends
  BY <1>5, ScanReads, ScanDecides, EarlyEndsInv, CommitEndsInv, LastEndsInv DEF Ends
<1>6. CASE Crash
  BY <1>6, CrashStep
<1>7. CASE Notify
  BY <1>7, FormatStep
<1>8. CASE UNCHANGED vars
  <2>1. /\ lut' = lut /\ flash' = flash /\ config' = config /\ fsd' = fsd /\ client' = client
    BY <1>8 DEF vars
  <2> QED BY <2>1, Basics, LockStep DEF pos
<1> QED BY <1>1, <1>2, <1>3, <1>4, <1>5, <1>6, <1>7, <1>8 DEF Next

LEMMA InvOneUser == IInv => OneUser
<1> SUFFICES ASSUME IInv PROVE OneUser
  OBVIOUS
<1>1. pos.src \in Phy \cup {INVALID} /\ pos.dst \in Phy \cup {INVALID}
  BY Basics DEF PosType
<1>2. TypeOK
  BY <1>1, Basics DEF TypeOK, IsLut, IsFsd
<1>3. pos.dst # INVALID => lut.free[pos.dst] = "no"
  BY Basics DEF Writing, pos
<1>4. Apart(lut)
  BY Basics
<1> QED BY <1>2, <1>3, <1>4 DEF OneUser, Apart

\* A block is mapped by one logical block, or free, or the destination of the write in
\* progress, or special, and never two of these at a time.
THEOREM FtlOneUser == Spec => []OneUser
<1>1. Init /\ [][Next]_vars => []IInv
  BY InitInv, NextInv, PTL
<1>2. Spec => Init /\ [][Next]_vars
  BY DEF Spec
<1> QED BY <1>1, <1>2, InvOneUser, PTL

-----------------------------------------------------------------------------
(* What b_map says is unwritten.                                           *)

\* Nothing has failed so far, and pages are written upwards (track_inc).
Good == config.mode = "inc" /\ used.troubles = 0 /\ "unerased" \notin flaws
Counted == used = [requests |-> used.requests, troubles |-> used.troubles] /\ used.troubles \in Nat

\* What a page may hold that b_map calls unwritten.
Low == {Erased, Fill}

\* What is still on the stack, and what comes after what: the end of a block is read
\* before the block is erased, copied before the old one is, and nothing is written
\* before the new one is erased.
Has(s, fn) == \E i \in 1 .. Len(s) : s[i] = fn
Copiers == {"copy_first", "copy_last"}
Writers == {"write_first", "write_data", "copy_first"}
InOrder(s) == \A i \in 1 .. Len(s) :
  /\ s[i] # "invalidate_dst"
  /\ s[i] = "read_last" => \E j \in i + 1 .. Len(s) : s[j] = "erase_dst"
  /\ s[i] \in Copiers   => \E j \in i + 1 .. Len(s) : s[j] = "erase_src"
  /\ s[i] \in Writers   => \A j \in i + 1 .. Len(s) : s[j] # "erase_dst"

Out(f, end)  == f.at = "out" /\ f.req_out.end = end
ErasesDst(f) == Has(f.req_fn, "erase_dst") \/ Out(f, "erase_dst")
ReadsLast(f) == Has(f.req_fn, "read_last") \/ Out(f, "read_last")
Works(f) == Body(f.req_fn) \/ Copying(f.req_fn) \/ Committing(f) \/ Suspended(f)

KeyOf(p)   == IF p.src # INVALID THEN p.src ELSE p.dst
AfterOf(p) == p.off + p.len
Keys(t)    == DOMAIN t.b_map

\* The command below.
To(o, blk, from, cnt) == o.blk = blk /\ o.from = from /\ o.cnt = cnt
Reading == {"lookup_block", "resolve", "read_first", "read_last", "read_data"}
OutRight(f) ==
  f.at = "out" =>
    /\ f.req_out.end # "invalidate"
    /\ f.req_out.end \in Reading => f.req_out.cmd = "READ"
    /\ f.req_out.end = "select" => f.req_out.cmd = "OVERWRITE"
    /\ f.req_out.end \in {"merge", "write"} =>
         f.req_out.cmd = "WRITE" /\ To(f.req_out, f.pos.dst, f.pos.off, f.pos.len)
    /\ f.req_out.end = "first" =>
         /\ f.req_out.cmd \in {"WRITE", "COPY"} /\ To(f.req_out, f.pos.dst, 0, f.req_out.cnt)
         /\ f.req_out.cnt \in Nat /\ f.req_out.cnt <= f.pos.off
    /\ f.req_out.end = "read_first" => f.req_out.from = 0 /\ f.req_out.cnt = f.pos.off
    /\ f.req_out.end \in {"last", "read_last"} =>
         f.req_out.from = AfterOf(f.pos) /\ f.req_out.cnt = PageCnt - AfterOf(f.pos)
    /\ f.req_out.end = "last" => /\ f.req_out.cmd \in {"WRITE", "COPY"} /\ f.req_out.blk = f.pos.dst
                                 /\ f.req_out.cmd = "COPY" => Copies(f.pos)
    /\ f.req_out.end = "read_last" => Has(f.req_fn, "erase_dst")
    /\ f.req_out.end \in {"first", "write"} => ~ Has(f.req_fn, "erase_dst")
    /\ f.req_out.end = "erase_dst" => f.req_out.cmd = "ERASE" /\ f.req_out.blk = f.pos.dst
    /\ f.req_out.end = "erase_src" => f.req_out.cmd = "ERASE" /\ f.req_out.blk = f.pos.src

\* The unmarked pages of a block; the pages of the destination, and those in the buffer,
\* that come after what is written.
True(t, fl, k)  == \A c \in Pages \ t.b_map[k] : fl[k].pages[c] \in Low
Above(t, f)     == t.b_map[KeyOf(f.pos)] \subseteq 0 .. AfterOf(f.pos) - 1
High(fl, p)     == \A c \in Pages : c >= AfterOf(p) => fl[p.dst].pages[c] \in Low
Buffered(t, f)  == \A c \in Pages : c >= AfterOf(f.pos) /\ c \notin t.b_map[KeyOf(f.pos)] =>
                     f.block_buf[c] \in Low

\* No block is free that has pages marked, and none is called clean.
MapsRight(t) ==
  /\ \A b \in Phy : t.free[b] # "clean"
  /\ \A k \in Keys(t) : t.free[k] = "no" /\ k \div PhyPerZone \in t.valid_zones

\* The write in progress.
WorkRight(t, f, fl) ==
  /\ ZoneOf(f.pos.logical) \in t.valid_zones
  /\ AfterOf(f.pos) <= PageCnt
  /\ Suspended(f) => f.pos.src = INVALID
  /\ Copies(f.pos) => f.pos.dst \notin Keys(t)
  /\ ReadsLast(f) => f.pos.src # INVALID
  /\ Suspended(f) \/ ErasesDst(f) \/ High(fl, f.pos)
  /\ Has(f.req_fn, "write_last") /\ ~ ReadsLast(f) /\ KeyOf(f.pos) \in Keys(t) =>
       Above(t, f) \/ Buffered(t, f)
  /\ Out(f, "last") /\ f.req_out.cmd = "WRITE" /\ KeyOf(f.pos) \in Keys(t) => Buffered(t, f)

\* The marks are true but for the destination of the write, once it has been erased.
MarksTrue(t, f, fl) ==
  \A k \in Keys(t) : (Works(f) /\ ~ ErasesDst(f) /\ k = f.pos.dst) \/ True(t, fl, k)

MarkInv(t, f, fl) ==
  /\ MapsRight(t) /\ InOrder(f.req_fn) /\ OutRight(f) /\ MarksTrue(t, f, fl)
  /\ Works(f) => WorkRight(t, f, fl)
  /\ Erasing(f) => f.pos.src \notin Keys(t)
  /\ LooksUp(f) \/ Resolves(f) => f.pos.zone \notin t.valid_zones
  /\ f.block_buf = [c \in Pages |-> f.block_buf[c]]

\* Blocks that are written all at once have no map.
NoMaps == config.mode = "peb" => Keys(lut) = {} /\ lut.spare = 0 /\ ~ Suspended(fsd)

MInv == /\ IInv /\ Counted /\ config.mode \in {"inc", "any", "peb"} /\ NoMaps
        /\ Good => MarkInv(lut, fsd, flash)

-----------------------------------------------------------------------------
LEMMA InvMarkIsTrue ==
  ASSUME MInv, config.mode # "any"
  PROVE  MarkIsTrue
<1>1. CASE config.mode = "peb"
  BY <1>1 DEF MarkIsTrue, MInv, NoMaps, Keys
<1>2. CASE config.mode = "inc"
  <2>1. SUFFICES ASSUME ~ Excused, used.troubles = 0,
                        NEW b \in DOMAIN lut.b_map \ {pos.src, pos.dst},
                        NEW p \in Pages \ lut.b_map[b]
                 PROVE  flash[b].pages[p] \in {Erased} \cup If(Fill, config.mode = "inc")
    BY DEF MarkIsTrue
  <2>2. Good
    BY <1>2, <2>1 DEF Good, Excused
  <2>3. True(lut, flash, b)
    BY <2>2 DEF MInv, MarkInv, MarksTrue, Keys, pos
  <2> QED BY <1>2, <2>3 DEF True, Low, If
<1> QED BY <1>1, <1>2 DEF MInv

LEMMA SameInv ==
  MarkInv(lut, fsd, flash)' = MarkInv(lut', fsd', flash')
BY DEF MarkInv, MapsRight, InOrder, OutRight, MarksTrue, WorkRight, Works, Erasing, LooksUp,
       Resolves, Has, Out, ErasesDst, ReadsLast, KeyOf, AfterOf, Keys, To, True, Above, High,
       Buffered, Body, Copying, Committing, Suspended, Copies

-----------------------------------------------------------------------------
(* Stacks.                                                                 *)

LEMMA HasTail ==
  ASSUME NEW S, NEW s \in Seq(S), s # <<>>, NEW fn
  PROVE  Has(s, fn) <=> Head(s) = fn \/ Has(Tail(s), fn)
<1>1. /\ Len(s) \in Nat /\ Len(s) > 0 /\ Head(s) = s[1] /\ Len(Tail(s)) = Len(s) - 1
      /\ \A i \in 1 .. Len(Tail(s)) : Tail(s)[i] = s[i + 1]
  OBVIOUS
<1>2. ASSUME NEW i \in 1 .. Len(s), s[i] = fn, i # 1 PROVE Has(Tail(s), fn)
  <2>1. i - 1 \in 1 .. Len(Tail(s)) /\ Tail(s)[i - 1] = s[i]
    BY <1>1, <1>2
  <2> QED BY <1>2, <2>1 DEF Has
<1>3. ASSUME NEW i \in 1 .. Len(Tail(s)), Tail(s)[i] = fn PROVE Has(s, fn)
  <2>1. i + 1 \in 1 .. Len(s) /\ s[i + 1] = fn
    BY <1>1, <1>3
  <2> QED BY <2>1 DEF Has
<1> QED BY <1>1, <1>2, <1>3 DEF Has

LEMMA OrderTail ==
  ASSUME NEW S, NEW s \in Seq(S), s # <<>>, InOrder(s)
  PROVE  /\ InOrder(Tail(s)) /\ Head(s) # "invalidate_dst"
         /\ Head(s) = "read_last" => Has(Tail(s), "erase_dst")
         /\ Head(s) \in Copiers => Has(Tail(s), "erase_src")
         /\ Head(s) \in Writers => ~ Has(Tail(s), "erase_dst")
<1> DEFINE n == Len(s)
           u == Tail(s)
<1>1. /\ n \in Nat /\ n > 0 /\ Head(s) = s[1] /\ Len(u) = n - 1
      /\ \A i \in 1 .. n - 1 : u[i] = s[i + 1]
  OBVIOUS
<1>2. /\ \A i \in 1 .. n - 1 : i + 1 \in 1 .. n
      /\ \A i \in 1 .. n : \A j \in i + 1 .. n : j - 1 \in i .. n - 1 /\ j - 1 \in 1 .. n - 1
      /\ \A i \in 1 .. n - 1 : \A j \in i + 1 .. n - 1 : j + 1 \in i + 2 .. n
  BY <1>1
<1>3. \A i \in 1 .. n : \A j \in i + 1 .. n : u[j - 1] = s[j]
  BY <1>1, <1>2
<1> HIDE DEF n, u
<1>4. \A i \in 1 .. n :
        /\ s[i] # "invalidate_dst"
        /\ s[i] = "read_last" => \E j \in i + 1 .. n : s[j] = "erase_dst"
        /\ s[i] \in Copiers   => \E j \in i + 1 .. n : s[j] = "erase_src"
        /\ s[i] \in Writers   => \A j \in i + 1 .. n : s[j] # "erase_dst"
  BY DEF InOrder, n
<1>5. ASSUME NEW i \in 1 .. n - 1
      PROVE  /\ u[i] # "invalidate_dst"
             /\ u[i] = "read_last" => \E j \in i + 1 .. n - 1 : u[j] = "erase_dst"
             /\ u[i] \in Copiers   => \E j \in i + 1 .. n - 1 : u[j] = "erase_src"
             /\ u[i] \in Writers   => \A j \in i + 1 .. n - 1 : u[j] # "erase_dst"
  <2>1. i + 1 \in 1 .. n /\ u[i] = s[i + 1]
    BY <1>1, <1>2
  <2>2. ASSUME NEW fn, \E j \in (i + 1) + 1 .. n : s[j] = fn
        PROVE  \E j \in i + 1 .. n - 1 : u[j] = fn
    <3>1. PICK j \in (i + 1) + 1 .. n : s[j] = fn
      BY <2>2
    <3>2. j - 1 \in i + 1 .. n - 1 /\ u[j - 1] = s[j]
      BY <1>1, <1>2, <1>3, <2>1
    <3> QED BY <3>1, <3>2
  <2>3. ASSUME \A j \in (i + 1) + 1 .. n : s[j] # "erase_dst"
        PROVE  \A j \in i + 1 .. n - 1 : u[j] # "erase_dst"
    <3>1. \A j \in i + 1 .. n - 1 : j + 1 \in (i + 1) + 1 .. n /\ u[j] = s[j + 1]
      BY <1>1
    <3> QED BY <2>3, <3>1
  <2> QED BY <1>4, <2>1, <2>2, <2>3
<1>6. InOrder(u)
  BY <1>1, <1>5 DEF InOrder
<1>7. ASSUME NEW fn, \E j \in 1 + 1 .. n : s[j] = fn PROVE Has(u, fn)
  <2>1. PICK j \in 1 + 1 .. n : s[j] = fn
    BY <1>7
  <2>2. j - 1 \in 1 .. n - 1 /\ u[j - 1] = s[j]
    BY <1>1, <1>3, <2>1
  <2> QED BY <1>1, <2>1, <2>2 DEF Has
<1>8. ASSUME \A j \in 1 + 1 .. n : s[j] # "erase_dst" PROVE ~ Has(u, "erase_dst")
  <2>1. \A i \in 1 .. n - 1 : i + 1 \in 1 + 1 .. n /\ u[i] = s[i + 1]
    BY <1>1
  <2> QED BY <1>1, <1>8, <2>1 DEF Has
<1>9. 1 \in 1 .. n
  BY <1>1
<1> QED BY <1>1, <1>4, <1>6, <1>7, <1>8, <1>9 DEF u

\* Stacks that are put together for a write.
LEMMA StackOrder ==
  /\ InOrder(<<>>) /\ \A fn : ~ Has(<<>>, fn)
  /\ \A fn \in Singles \ {"invalidate_dst"} : InOrder(<<fn>>)
  /\ \A fn, gn : Has(<<fn>>, gn) <=> fn = gn
<1>1. Len(<<>>) = 0 /\ \A fn : Len(<<fn>>) = 1 /\ <<fn>>[1] = fn
  OBVIOUS
<1>2. \A fn \in Singles : fn # "read_last" /\ fn \notin Copiers /\ fn \notin Writers
  BY DEF Singles, Copiers, Writers
<1>3. \A i \in 1 .. 1 : i = 1
  OBVIOUS
<1> QED BY <1>1, <1>2, <1>3 DEF InOrder, Has

LEMMA WriteOrder ==
  /\ LET s == <<"merge_data">>
     IN  InOrder(s) /\ ~ Has(s, "erase_dst") /\ ~ Has(s, "read_last") /\ ~ Has(s, "write_last")
  /\ LET s == <<"erase_dst", "merge_data">>
     IN  InOrder(s) /\ Has(s, "erase_dst") /\ ~ Has(s, "read_last") /\ ~ Has(s, "write_last")
  /\ LET s == <<"write_first", "write_data", "write_last">>
     IN  InOrder(s) /\ ~ Has(s, "erase_dst") /\ ~ Has(s, "read_last")
  /\ LET s == <<"read_first", "read_last", "erase_dst", "write_first", "write_data", "write_last">>
     IN  InOrder(s) /\ Has(s, "erase_dst") /\ Has(s, "read_last")
  /\ LET s == <<"erase_dst", "select_src", "copy_first", "write_data", "copy_last", "erase_src">>
     IN  InOrder(s) /\ Has(s, "erase_dst") /\ ~ Has(s, "read_last") /\ ~ Has(s, "write_last")
BY DEF InOrder, Has, Copiers, Writers

LEMMA Joined ==
  ASSUME NEW S, NEW s \in Seq(S), NEW t \in Seq(S), NEW u \in Seq(S), Len(u) = Len(s) + Len(t),
         \A i \in 1 .. Len(s) : u[i] = s[i], \A i \in 1 .. Len(t) : u[Len(s) + i] = t[i]
  PROVE  s \o t = u
<1> DEFINE v == s \o t
           n == Len(s)
           m == Len(t)
<1>1. /\ v \in Seq(S) /\ Len(v) = n + m /\ n \in Nat /\ m \in Nat
      /\ \A i \in 1 .. Len(v) : v[i] = IF i <= n THEN s[i] ELSE t[i - n]
  OBVIOUS
<1> HIDE DEF v, n, m
<1>2. ASSUME NEW i \in 1 .. Len(v) PROVE v[i] = u[i]
  <2>1. CASE i <= n
    <3>1. i \in 1 .. n
      BY <1>1, <2>1
    <3> QED BY <1>1, <2>1, <3>1 DEF n
  <2>2. CASE ~ (i <= n)
    <3>1. i - n \in 1 .. m /\ n + (i - n) = i
      BY <1>1, <2>2
    <3>2. u[n + (i - n)] = t[i - n]
      BY <3>1 DEF n, m
    <3> QED BY <1>1, <2>2, <3>1, <3>2
  <2> QED BY <2>1, <2>2
<1>3. Len(v) = Len(u)
  BY <1>1 DEF n, m
<1>4. v = u
  BY <1>1, <1>2, <1>3, SeqEqual
<1> QED BY <1>4 DEF v

LEMMA JoinedStacks ==
  /\ <<"erase_dst">> \o <<"merge_data">> = <<"erase_dst", "merge_data">>
  /\ <<"erase_dst">> \o <<"select_src">> \o <<"copy_first", "write_data", "copy_last">>
       \o <<"erase_src">>
     = <<"erase_dst", "select_src", "copy_first", "write_data", "copy_last", "erase_src">>
<1> DEFINE S == {"erase_dst", "merge_data", "select_src", "copy_first", "write_data", "copy_last",
                 "erase_src"}
<1> DEFINE Joins(s, t, u) ==
             /\ s \in Seq(S) /\ t \in Seq(S) /\ u \in Seq(S) /\ Len(u) = Len(s) + Len(t)
             /\ \A i \in 1 .. Len(s) : u[i] = s[i]
             /\ \A i \in 1 .. Len(t) : u[Len(s) + i] = t[i]
<1>1. ASSUME NEW s, NEW t, NEW u, Joins(s, t, u) PROVE s \o t = u
  BY <1>1, Joined
<1>2. <<"erase_dst">> \o <<"merge_data">>
      = <<"erase_dst", "merge_data">>
  <2>1. Joins(<<"erase_dst">>, <<"merge_data">>,
              <<"erase_dst", "merge_data">>)
    OBVIOUS
  <2> HIDE DEF Joins
  <2> QED BY <1>1, <2>1
<1>3. <<"erase_dst">> \o <<"select_src">>
      = <<"erase_dst", "select_src">>
  <2>1. Joins(<<"erase_dst">>, <<"select_src">>,
              <<"erase_dst", "select_src">>)
    OBVIOUS
  <2> HIDE DEF Joins
  <2> QED BY <1>1, <2>1
<1>4. <<"erase_dst", "select_src">> \o <<"copy_first", "write_data", "copy_last">>
      = <<"erase_dst", "select_src", "copy_first", "write_data", "copy_last">>
  <2>1. Joins(<<"erase_dst", "select_src">>, <<"copy_first", "write_data", "copy_last">>,
              <<"erase_dst", "select_src", "copy_first", "write_data", "copy_last">>)
    OBVIOUS
  <2> HIDE DEF Joins
  <2> QED BY <1>1, <2>1
<1>5. <<"erase_dst", "select_src", "copy_first", "write_data", "copy_last">> \o <<"erase_src">>
      = <<"erase_dst", "select_src", "copy_first", "write_data", "copy_last", "erase_src">>
  <2>1. Joins(<<"erase_dst", "select_src", "copy_first", "write_data", "copy_last">>, <<"erase_src">>,
              <<"erase_dst", "select_src", "copy_first", "write_data", "copy_last", "erase_src">>)
    OBVIOUS
  <2> HIDE DEF Joins
  <2> QED BY <1>1, <2>1
<1> QED BY <1>2, <1>3, <1>4, <1>5

LEMMA StackSeq ==
  ASSUME NEW f, Stacked(f)
  PROVE  f.req_fn \in Seq(Early \cup Commits \cup Singles)
<1>1. ASSUME NEW s, s = <<>> \/ Single(s) \/ Body(s) \/ Copying(s)
      PROVE  s \in Seq(Early \cup Commits \cup Singles)
  <2>1. CASE Single(s)
    BY <2>1 DEF Single
  <2>2. CASE Body(s)
    <3>1. s \in Seq(Early \cup Commits)
      BY <2>2 DEF Body
    <3> QED BY <3>1
  <2>3. CASE Copying(s)
    BY <2>3 DEF Copying
  <2>4. CASE s = <<>>
    BY <2>4
  <2> QED BY <1>1, <2>1, <2>2, <2>3, <2>4
<1>2. Single(<<"erase_src">>) /\ Single(<<"lookup_block">>)
  BY DEF Single, Singles
<1> QED BY <1>1, <1>2 DEF Stacked

\* A write has nothing else to do, and its command is none of another.
LEMMA WorkKinds ==
  ASSUME NEW f, Body(f.req_fn) \/ Copying(f.req_fn), f.at = "out" => f.req_out.end \in EarlyEnds
  PROVE  Works(f) /\ ~ Committing(f) /\ ~ Erasing(f) /\ ~ LooksUp(f) /\ ~ Resolves(f)
<1> DEFINE s == f.req_fn
<1>0. Body(s) \/ Copying(s)
  OBVIOUS
<1> HIDE DEF s
<1>1. s # <<"lookup_block">> /\ s # <<"resolve">> /\ s # <<"erase_src">>
  BY <1>0, StackKinds DEF Commits
<1>2. EarlyEnds \cap (CommitEnds \cup LastEnds) = {}
  BY DEF EarlyEnds, CommitEnds, LastEnds
<1>3. Works(f)
  BY <1>0 DEF Works, s
<1> QED BY <1>1, <1>2, <1>3 DEF Committing, Erasing, LooksUp, Resolves, LastEnds, s

-----------------------------------------------------------------------------
(* What steps do to the marks.                                             *)

LEMMA MarkSame ==
  ASSUME NEW t, NEW f, NEW fl, NEW g, MarkInv(t, f, fl), g.pos = f.pos, g.req_fn = f.req_fn,
         Suspended(g) <=> Suspended(f), g.block_buf = f.block_buf,
         \/ f.at # "out" /\ g.at # "out"
         \/ g.at = f.at /\ g.req_out = f.req_out
  PROVE  MarkInv(t, g, fl)
<1>1. /\ Committing(g) <=> Committing(f)
      /\ Erasing(g) <=> Erasing(f)
      /\ LooksUp(g) <=> LooksUp(f)
      /\ Resolves(g) <=> Resolves(f)
      /\ \A end : Out(g, end) <=> Out(f, end)
  BY DEF Committing, Erasing, LooksUp, Resolves, Out
<1>2. /\ Works(g) <=> Works(f)
      /\ ErasesDst(g) <=> ErasesDst(f)
      /\ ReadsLast(g) <=> ReadsLast(f)
  BY <1>1 DEF Works, ErasesDst, ReadsLast
<1>3. OutRight(g)
  BY DEF MarkInv, OutRight
<1>4. MarksTrue(t, g, fl)
  BY <1>2 DEF MarkInv, MarksTrue
<1>5. ASSUME Works(g) PROVE WorkRight(t, g, fl)
  <2>1. WorkRight(t, f, fl)
    BY <1>2, <1>5 DEF MarkInv
  <2>2. Out(g, "last") => Out(f, "last") /\ g.req_out = f.req_out
    BY <1>1 DEF Out
  <2>3. (Above(t, g) <=> Above(t, f)) /\ (Buffered(t, g) <=> Buffered(t, f))
    BY DEF Above, Buffered
  <2> QED BY <1>2, <2>1, <2>2, <2>3 DEF WorkRight
<1>6. Erasing(g) => g.pos.src \notin Keys(t)
  BY <1>1 DEF MarkInv
<1>7. LooksUp(g) \/ Resolves(g) => g.pos.zone \notin t.valid_zones
  BY <1>1 DEF MarkInv
<1> QED BY <1>3, <1>4, <1>5, <1>6, <1>7 DEF MarkInv

\* When nothing is written all marks are true.
LEMMA AllTrue ==
  ASSUME NEW t, NEW f, NEW fl, MarkInv(t, f, fl), ~ Works(f)
  PROVE  \A k \in Keys(t) : True(t, fl, k)
BY DEF MarkInv, MarksTrue

\* What has to be shown of a state in which nothing is written ...
LEMMA MarkRest ==
  ASSUME NEW t, NEW f, NEW fl, MapsRight(t), \A k \in Keys(t) : True(t, fl, k), ~ Works(f),
         InOrder(f.req_fn), OutRight(f), Erasing(f) => f.pos.src \notin Keys(t),
         LooksUp(f) \/ Resolves(f) => f.pos.zone \notin t.valid_zones,
         f.block_buf = [c \in Pages |-> f.block_buf[c]]
  PROVE  MarkInv(t, f, fl)
BY DEF MarkInv, MarksTrue

\* ... and of a write that goes on.
LEMMA MarkWork ==
  ASSUME NEW t, NEW f, NEW fl, MapsRight(t), Body(f.req_fn) \/ Copying(f.req_fn),
         f.at = "out" => f.req_out.end \in EarlyEnds,
         InOrder(f.req_fn), OutRight(f), MarksTrue(t, f, fl), WorkRight(t, f, fl),
         f.block_buf = [c \in Pages |-> f.block_buf[c]]
  PROVE  MarkInv(t, f, fl)
BY WorkKinds DEF MarkInv

LEMMA MarkEarly ==
  ASSUME IInv, MarkInv(lut, fsd, flash), NEW fn \in Early, Calls(fn), NEW g,
         g.pos = pos, g.req_fn = Tail(fsd.req_fn), ~ Suspended(g),
         \/ /\ g.at # "out" /\ fn # "erase_dst"
            /\ fn = "read_last" /\ KeyOf(pos) \in Keys(lut) =>
                 Above(lut, fsd) \/ AfterOf(pos) = PageCnt
         \/ /\ g.at = "out" /\ g.req_out.end \in EarlyEnds
            /\ g.req_out.end = "erase_dst" <=> fn = "erase_dst"
            /\ g.req_out.end = "read_last" <=> fn = "read_last",
         OutRight(g), g.block_buf = [c \in Pages |-> g.block_buf[c]],
         \A c \in Pages : c >= AfterOf(pos) => g.block_buf[c] = fsd.block_buf[c]
  PROVE  MarkInv(lut, g, flash)
<1> DEFINE s == Tail(fsd.req_fn)
<1>1. fsd.at = "get" /\ fsd.req_fn # <<>> /\ Head(fsd.req_fn) = fn
  BY DEF Calls
<1>2. /\ fsd.req_fn \in Seq(Early \cup Commits \cup Singles)
      /\ Body(s) \/ Copying(s)
  BY <1>1, Basics, StackSeq, TopOfStack
<1>3. /\ \A gn : Has(fsd.req_fn, gn) <=> fn = gn \/ Has(s, gn)
      /\ InOrder(s)
  BY <1>1, <1>2, HasTail, OrderTail DEF MarkInv
<1>4. Works(fsd)
  <2>1. Stacked(fsd)
    BY Basics
  <2>2. fn \notin Singles
    BY DEF Early, Singles
  <2>3. ~ Single(fsd.req_fn)
    BY <1>1, <2>2, StackKinds
  <2> QED BY <1>1, <2>1, <2>3 DEF Stacked, Works
<1> HIDE DEF s
<1>5. Body(g.req_fn) \/ Copying(g.req_fn)
  BY <1>2 DEF s
<1>6. g.at = "out" => g.req_out.end \in EarlyEnds
  OBVIOUS
<1>7. ErasesDst(g) <=> ErasesDst(fsd)
  BY <1>1, <1>3 DEF ErasesDst, Out, s
<1>8. /\ fn # "read_last" => (ReadsLast(g) <=> ReadsLast(fsd))
      /\ fn = "read_last" => ReadsLast(fsd) /\ (g.at = "out" => ReadsLast(g))
  BY <1>1, <1>3 DEF ReadsLast, Out, s
<1>9. MarksTrue(lut, g, flash)
  <2>1. Works(g)
    BY <1>5, <1>6, WorkKinds
  <2> QED BY <1>4, <1>7, <2>1 DEF MarkInv, MarksTrue, pos
<1>10. WorkRight(lut, g, flash)
  <2>0. WorkRight(lut, fsd, flash)
    BY <1>4 DEF MarkInv
  <2>1. ReadsLast(g) => ReadsLast(fsd)
    BY <1>8
  <2>2. ~ Suspended(fsd)
    BY <1>1, NotWaiting
  <2>3. Suspended(g) \/ ErasesDst(g) \/ High(flash, g.pos)
    BY <1>7, <2>0, <2>2 DEF WorkRight, pos
  <2>4. (Above(lut, g) <=> Above(lut, fsd)) /\ (Buffered(lut, g) <=> Buffered(lut, fsd))
    BY DEF Above, Buffered, pos
  <2>5. ASSUME Has(g.req_fn, "write_last"), ~ ReadsLast(g), KeyOf(g.pos) \in Keys(lut)
        PROVE  Above(lut, g) \/ Buffered(lut, g)
    <3>1. Has(fsd.req_fn, "write_last")
      BY <1>3, <2>5 DEF s
    <3>2. CASE fn # "read_last"
      BY <1>8, <2>0, <2>4, <2>5, <3>1, <3>2 DEF WorkRight, pos
    <3>3. CASE fn = "read_last"
      <4>1. Above(lut, fsd) \/ AfterOf(pos) = PageCnt
        BY <1>8, <2>5, <3>3
      <4>2. AfterOf(pos) = PageCnt => Buffered(lut, g)
        <5>1. PageCnt \in Nat /\ \A c \in Pages : ~ (c >= PageCnt)
          BY FtlAssumption DEF Pages
        <5> QED BY <5>1 DEF Buffered, pos
      <4> QED BY <2>4, <4>1, <4>2
    <3> QED BY <3>2, <3>3
  <2>6. ~ Out(g, "last")
    BY <1>6 DEF Out, EarlyEnds
  <2>7. ~ Suspended(g)
    OBVIOUS
  <2> QED BY <2>0, <2>1, <2>3, <2>5, <2>6, <2>7 DEF WorkRight, pos
<1> QED BY <1>3, <1>5, <1>6, <1>9, <1>10, MarkWork DEF MarkInv, s

-----------------------------------------------------------------------------
(* The functions on the stack.                                             *)

LEMMA PoppedBuf ==
  ASSUME IsFsd(fsd)
  PROVE  Popped.block_buf = fsd.block_buf
<1> DEFINE s == Tail(fsd.req_fn)
<1>1. Popped = [fsd EXCEPT !.req_fn = s]
  BY DEF Popped
<1> HIDE DEF s
<1> QED BY <1>1 DEF IsFsd

LEMMA SubmitMarks ==
  ASSUME IInv, NEW f, IsFsd(f), SameWork(f, Popped), NEW cmd, NEW blk, NEW from, NEW cnt, NEW end,
         Submit(f, cmd, blk, from, cnt, end)
  PROVE  /\ fsd'.pos = pos /\ fsd'.req_fn = Tail(fsd.req_fn) /\ fsd'.at = "out"
         /\ fsd'.req_out.cmd = cmd /\ fsd'.req_out.end = end /\ To(fsd'.req_out, blk, from, cnt)
         /\ fsd'.block_buf = f.block_buf /\ lut' = lut /\ flash' = flash
         /\ Suspended(fsd') <=> Suspended(fsd)
<1> DEFINE o == [cmd |-> cmd, blk |-> blk, from |-> from, cnt |-> cnt, end |-> end]
<1>1. fsd' = [f EXCEPT !.req_out = o, !.at = "out"] /\ lut' = lut /\ flash' = flash
  BY DEF Submit, Quiet
<1>4. o.cmd = cmd /\ o.end = end /\ To(o, blk, from, cnt)
  BY DEF To
<1> HIDE DEF o
<1>2. /\ fsd'.pos = f.pos /\ fsd'.req_fn = f.req_fn /\ fsd'.at = "out" /\ fsd'.req_out = o
      /\ fsd'.block_buf = f.block_buf /\ fsd'.req_suspend = f.req_suspend
      /\ fsd'.bmap_avail = f.bmap_avail
  BY <1>1 DEF IsFsd
<1>3. /\ f.pos = pos /\ f.req_fn = Tail(fsd.req_fn) /\ f.req_suspend = fsd.req_suspend
      /\ f.bmap_avail = fsd.bmap_avail
  BY Basics, PoppedFields DEF SameWork
<1> QED BY <1>1, <1>2, <1>3, <1>4 DEF Suspended

\* The functions of a write before its last command.
EarlyEndOf(fn, end) == /\ end = "erase_dst" <=> fn = "erase_dst"
                       /\ end = "read_last" <=> fn = "read_last"

LEMMA EarlySubmits ==
  ASSUME IInv, MarkInv(lut, fsd, flash), NEW fn \in Early, Calls(fn), NEW f, IsFsd(f),
         SameWork(f, Popped), NEW end \in EarlyEnds, EarlyEndOf(fn, end),
         NEW cmd, NEW blk, NEW from, NEW cnt, Submit(f, cmd, blk, from, cnt, end), OutRight(fsd'),
         f.block_buf = [c \in Pages |-> f.block_buf[c]],
         \A c \in Pages : c >= AfterOf(pos) => f.block_buf[c] = fsd.block_buf[c]
  PROVE  MarkInv(lut', fsd', flash')
<1>1. /\ fsd'.pos = pos /\ fsd'.req_fn = Tail(fsd.req_fn) /\ fsd'.at = "out"
      /\ fsd'.req_out.end = end /\ fsd'.block_buf = f.block_buf
      /\ lut' = lut /\ flash' = flash /\ ~ Suspended(fsd')
  BY SubmitMarks, NotWaiting DEF Calls
<1> DEFINE g == fsd'
<1>2. /\ g.at = "out" /\ g.req_out.end \in EarlyEnds
      /\ g.req_out.end = "erase_dst" <=> fn = "erase_dst"
      /\ g.req_out.end = "read_last" <=> fn = "read_last"
  BY <1>1 DEF EarlyEndOf
<1>3. /\ g.pos = pos /\ g.req_fn = Tail(fsd.req_fn) /\ OutRight(g) /\ ~ Suspended(g)
      /\ g.block_buf = [c \in Pages |-> g.block_buf[c]]
      /\ \A c \in Pages : c >= AfterOf(pos) => g.block_buf[c] = fsd.block_buf[c]
  BY <1>1
<1> HIDE DEF g
<1>4. MarkInv(lut, g, flash)
  BY <1>2, <1>3, MarkEarly
<1> QED BY <1>1, <1>4 DEF g

LEMMA EarlySkips ==
  ASSUME IInv, MarkInv(lut, fsd, flash), NEW fn \in Early, Calls(fn), Skip, fn # "erase_dst",
         fn = "read_last" /\ KeyOf(pos) \in Keys(lut) =>
           Above(lut, fsd) \/ AfterOf(pos) = PageCnt
  PROVE  MarkInv(lut', fsd', flash')
<1>1. fsd' = Popped /\ lut' = lut /\ flash' = flash /\ fsd.at = "get"
  BY DEF Skip, Quiet, Calls
<1>2. /\ Popped.pos = pos /\ Popped.req_fn = Tail(fsd.req_fn) /\ Popped.at = "get"
      /\ Popped.block_buf = fsd.block_buf
  BY <1>1, Basics, PoppedFields, PoppedBuf
<1>3. OutRight(Popped) /\ Popped.at # "out" /\ ~ Suspended(Popped)
  BY <1>2, Basics, PoppedFields, NotWaiting DEF OutRight, Calls, Suspended
<1>4. MarkInv(lut, Popped, flash)
  BY <1>2, <1>3, MarkEarly DEF MarkInv
<1> QED BY <1>1, <1>4

LEMMA EarlyMarks ==
  ASSUME IInv, Good, MarkInv(lut, fsd, flash),
         \/ EraseDst \/ SelectSrc \/ WriteData \/ ReadFirst \/ ReadLast \/ WriteFirst \/ CopyFirst
  PROVE  MarkInv(lut', fsd', flash')
<1>1. /\ IsFsd(Popped) /\ SameWork(Popped, Popped)
      /\ Popped.block_buf = fsd.block_buf /\ fsd.block_buf = [c \in Pages |-> fsd.block_buf[c]]
  BY Basics, PoppedFields, PoppedBuf DEF SameWork, MarkInv
<1>2. /\ pos.off \in Nat /\ pos.len \in Nat
  BY Basics DEF PosType
<1>3. /\ {"erase_dst", "select_src", "write_data", "read_first", "read_last", "write_first",
          "copy_first"} \subseteq Early
      /\ {"erase_dst", "select", "write", "read_first", "read_last", "first"} \subseteq EarlyEnds
  BY DEF Early, EarlyEnds
<1>4. ASSUME NEW fn \in Early, Calls(fn)
      PROVE  /\ fn = "read_last" => Has(Tail(fsd.req_fn), "erase_dst")
             /\ fn \in Writers => ~ Has(Tail(fsd.req_fn), "erase_dst")
  <2>1. fsd.req_fn \in Seq(Early \cup Commits \cup Singles) /\ fsd.req_fn # <<>>
        /\ Head(fsd.req_fn) = fn
    BY <1>4, Basics, StackSeq DEF Calls
  <2> QED BY <2>1, OrderTail DEF MarkInv
<1>5. ASSUME NEW fn \in Early, Calls(fn), NEW end \in EarlyEnds, EarlyEndOf(fn, end), NEW cmd,
             NEW blk, NEW from, NEW cnt, Submit(Popped, cmd, blk, from, cnt, end), OutRight(fsd')
      PROVE  MarkInv(lut', fsd', flash')
  BY <1>1, <1>5, EarlySubmits
<1>6. CASE EraseDst
  <2>1. Calls("erase_dst") /\ Submit(Popped, "ERASE", pos.dst, 0, 0, "erase_dst")
    BY <1>6 DEF EraseDst
  <2>2. OutRight(fsd')
    BY <1>1, <2>1, SubmitMarks DEF OutRight, Reading, To
  <2> QED BY <1>3, <1>5, <2>1, <2>2 DEF EarlyEndOf
<1>7. CASE SelectSrc
  <2>1. Calls("select_src") /\ Submit(Popped, "OVERWRITE", pos.src, 0, 1, "select")
    BY <1>7 DEF SelectSrc
  <2>2. OutRight(fsd')
    BY <1>1, <2>1, SubmitMarks DEF OutRight, Reading, To
  <2> QED BY <1>3, <1>5, <2>1, <2>2 DEF EarlyEndOf
<1>8. CASE WriteData
  <2>1. Calls("write_data") /\ Submit(Popped, "WRITE", pos.dst, pos.off, pos.len, "write")
    BY <1>8 DEF WriteData
  <2>2. OutRight(fsd')
    <3>1. ~ Has(Tail(fsd.req_fn), "erase_dst")
      BY <1>3, <1>4, <2>1 DEF Writers
    <3> QED BY <1>1, <2>1, <3>1, SubmitMarks DEF OutRight, Reading, To
  <2> QED BY <1>3, <1>5, <2>1, <2>2 DEF EarlyEndOf
<1>9. CASE ReadFirst
  <2>1. Calls("read_first") /\ (Skip \/ Submit(Popped, "READ", pos.src, 0, pos.off, "read_first"))
    BY <1>9 DEF ReadFirst
  <2>2. CASE Submit(Popped, "READ", pos.src, 0, pos.off, "read_first")
    <3>1. OutRight(fsd')
      BY <1>1, <2>2, SubmitMarks DEF OutRight, Reading, To
    <3> QED BY <1>3, <1>5, <2>1, <2>2, <3>1 DEF EarlyEndOf
  <2> QED BY <1>3, <2>1, <2>2, EarlySkips
<1>10. CASE ReadLast
  <2>1. Calls("read_last")
    BY <1>10 DEF ReadLast
  <2>2. CASE After = PageCnt \/ LastNew(pos.src)
    <3>1. Skip
      BY <1>10, <2>2 DEF ReadLast
    <3>2. ASSUME LastNew(pos.src) PROVE Above(lut, fsd)
      <4>1. pos.src \in Keys(lut) /\ lut.b_map[pos.src] \subseteq 0 .. After - 1
        BY <3>2 DEF LastNew, CanMerge, Good, Keys
      <4>2. pos.src # INVALID
        BY <4>1, Basics, FtlAssumption DEF Keys, IsLut
      <4> QED BY <4>1, <4>2 DEF Above, KeyOf, AfterOf, After, pos
    <3>3. After = PageCnt => AfterOf(pos) = PageCnt
      BY DEF After, AfterOf
    <3> QED BY <1>3, <2>1, <2>2, <3>1, <3>2, <3>3, EarlySkips
  <2>3. CASE ~ (After = PageCnt \/ LastNew(pos.src))
    <3>1. Submit(Popped, "READ", pos.src, After, PageCnt - After, "read_last")
      BY <1>10, <2>3 DEF ReadLast
    <3>2. OutRight(fsd')
      <4>1. Has(Tail(fsd.req_fn), "erase_dst")
        BY <1>3, <1>4, <2>1
      <4> QED BY <1>1, <3>1, <4>1, SubmitMarks DEF OutRight, Reading, AfterOf, After, To
    <3> QED BY <1>3, <1>5, <2>1, <3>1, <3>2 DEF EarlyEndOf
  <2> QED BY <2>2, <2>3
<1>11. ASSUME NEW f, IsFsd(f), SameWork(f, Popped), NEW cmd \in {"WRITE", "COPY"}, NEW n \in Nat,
              n <= pos.off, Submit(f, cmd, pos.dst, 0, n, "first"),
              NEW fn \in {"write_first", "copy_first"}, Calls(fn)
       PROVE  OutRight(fsd')
  <2>1. ~ Has(Tail(fsd.req_fn), "erase_dst")
    BY <1>3, <1>4, <1>11 DEF Writers
  <2> QED BY <1>11, <2>1, SubmitMarks DEF OutRight, Reading, To
<1>12. CASE CopyFirst
  <2>1. Calls("copy_first") /\ (Skip \/ Submit(Popped, "COPY", pos.dst, 0, pos.off, "first"))
    BY <1>12 DEF CopyFirst
  <2>2. CASE Submit(Popped, "COPY", pos.dst, 0, pos.off, "first")
    <3>1. OutRight(fsd')
      BY <1>1, <1>2, <1>11, <2>1, <2>2
    <3> QED BY <1>3, <1>5, <2>1, <2>2, <3>1 DEF EarlyEndOf
  <2> QED BY <1>3, <2>1, <2>2, EarlySkips
<1>13. CASE WriteFirst
  <2> DEFINE buf == [fsd.block_buf EXCEPT ![0] = Fill]
             f == [Popped EXCEPT !.block_buf = buf]
  <2>1. Calls("write_first")
    BY <1>13 DEF WriteFirst
  <2>2. CASE pos.off = 0
    BY <1>3, <1>13, <2>1, <2>2, EarlySkips DEF WriteFirst
  <2>3. CASE pos.off # 0 /\ FirstNew(MapKey)
    <3>1. Submit([Popped EXCEPT !.block_buf[0] = Fill], "WRITE", pos.dst, 0, 1, "first")
      BY <1>13, <2>3 DEF WriteFirst
    <3>2. f = [Popped EXCEPT !.block_buf[0] = Fill]
      BY <1>1 DEF IsFsd
    <3>3. Submit(f, "WRITE", pos.dst, 0, 1, "first")
      BY <3>1, <3>2
    <3>4. /\ buf = [c \in Pages |-> buf[c]]
          /\ \A c \in Pages : c >= AfterOf(pos) => buf[c] = fsd.block_buf[c]
      BY <1>1, <1>2, <2>3 DEF AfterOf
    <3> HIDE DEF buf
    <3>5. f.block_buf = buf
      BY <1>1 DEF IsFsd
    <3>6. IsFsd(f) /\ SameWork(f, Popped)
      BY <1>1, BufFields
    <3> HIDE DEF f
    <3>7. OutRight(fsd')
      BY <1>2, <1>11, <2>1, <2>3, <3>3, <3>6
    <3> QED BY <1>3, <2>1, <3>3, <3>4, <3>5, <3>6, <3>7, EarlySubmits DEF EarlyEndOf
  <2>4. CASE pos.off # 0 /\ ~ FirstNew(MapKey)
    <3>1. Submit(Popped, "WRITE", pos.dst, 0, pos.off, "first")
      BY <1>13, <2>4 DEF WriteFirst
    <3>2. OutRight(fsd')
      BY <1>1, <1>2, <1>11, <2>1, <3>1
    <3> QED BY <1>3, <1>5, <2>1, <3>1, <3>2 DEF EarlyEndOf
  <2> QED BY <2>2, <2>3, <2>4
<1> QED BY <1>6, <1>7, <1>8, <1>9, <1>10, <1>12, <1>13

-----------------------------------------------------------------------------
(* The end of a write.                                                     *)

LEMMA MapsOf ==
  ASSUME NEW t, IsLut(t), NEW m, NEW n
  PROVE  LET u == [t EXCEPT !.b_map = m, !.spare = n]
         IN  u.b_map = m /\ u.valid_zones = t.valid_zones /\ u.free = t.free /\ u.spare = n
BY DEF IsLut

LEMMA EraseMarks ==
  ASSUME NEW t, IsLut(t), NEW b
  PROVE  LET u == MapErase(t, b)
         IN  /\ Keys(u) = Keys(t) \ {b} /\ u.valid_zones = t.valid_zones
             /\ \A k \in Keys(u) : u.b_map[k] = t.b_map[k]
<1>1. CASE b \notin DOMAIN t.b_map
  BY <1>1 DEF MapErase, Keys
<1>2. CASE b \in DOMAIN t.b_map
  <2> DEFINE m == [k \in DOMAIN t.b_map \ {b} |-> t.b_map[k]]
             n == t.spare + 1
  <2>1. MapErase(t, b) = [t EXCEPT !.b_map = m, !.spare = n]
    BY <1>2 DEF MapErase
  <2>2. DOMAIN m = DOMAIN t.b_map \ {b} /\ \A k \in DOMAIN m : m[k] = t.b_map[k]
    OBVIOUS
  <2> HIDE DEF m, n
  <2> QED BY <2>1, <2>2, MapsOf DEF Keys
<1> QED BY <1>1, <1>2

LEMMA MoveMarks ==
  ASSUME NEW t, IsLut(t), NEW b, NEW a \in Keys(t), a = b \/ b \notin Keys(t)
  PROVE  LET u == MapMove(t, b, a)
         IN  /\ Keys(u) = (Keys(t) \ {a}) \cup {b} /\ u.valid_zones = t.valid_zones
             /\ \A k \in Keys(u) : u.b_map[k] = IF k = b THEN t.b_map[a] ELSE t.b_map[k]
<1>1. CASE a = b
  BY <1>1 DEF MapMove, Keys
<1>2. CASE a # b
  <2> DEFINE m == [k \in (DOMAIN t.b_map \ {a}) \cup {b} |->
                     IF k = b THEN t.b_map[a] ELSE t.b_map[k]]
             n == t.spare
  <2>1. MapMove(t, b, a) = [t EXCEPT !.b_map = m]
    BY <1>2 DEF MapMove, Keys
  <2>2. /\ DOMAIN m = (DOMAIN t.b_map \ {a}) \cup {b}
        /\ \A k \in DOMAIN m : m[k] = IF k = b THEN t.b_map[a] ELSE t.b_map[k]
    OBVIOUS
  <2> HIDE DEF m
  <2>3. MapMove(t, b, a).b_map = m /\ MapMove(t, b, a).valid_zones = t.valid_zones
    BY <2>1 DEF IsLut
  <2> QED BY <2>2, <2>3 DEF Keys
<1> QED BY <1>1, <1>2

\* ftl_simple_advance(): which blocks have marks, and which, once a block is written.
LEMMA AdvancedMarks ==
  ASSUME IsLut(lut), Good, Copies(pos) => pos.dst \notin Keys(lut), pos.logical \in Log,
         pos \in PosType
  PROVE  LET u == Advanced(lut)
         IN  /\ u.valid_zones = lut.valid_zones
             /\ \A k \in Keys(u) :
                  IF k = pos.dst
                  THEN /\ MapKey \in Keys(lut)
                       /\ u.b_map[k] = lut.b_map[MapKey] \cup 0 .. After - 1
                  ELSE k \in Keys(lut) /\ u.b_map[k] = lut.b_map[k]
             /\ Copies(pos) => pos.src \notin Keys(u)
<1> DEFINE mapped == IF pos.dst = pos.src THEN lut
                     ELSE [lut EXCEPT !.block_table[pos.logical] = pos.dst]
           v == lut.b_map[MapKey] \cup 0 .. After - 1
           w == [mapped EXCEPT !.b_map[MapKey] = v]
           u == Advanced(lut)
<1>1. Marked = v
  BY DEF Marked, Good
<1>2. /\ mapped.b_map = lut.b_map /\ mapped.valid_zones = lut.valid_zones /\ IsLut(mapped)
  <2>1. CASE pos.dst = pos.src
    BY <2>1
  <2>2. CASE pos.dst # pos.src
    <3> DEFINE table == [lut.block_table EXCEPT ![pos.logical] = pos.dst]
    <3>1. mapped = [free |-> lut.free, valid_zones |-> lut.valid_zones, spare |-> lut.spare,
                    block_table |-> table, b_map |-> lut.b_map]
      BY <2>2 DEF IsLut
    <3>2. table \in [Log -> Phy \cup {INVALID}]
      BY DEF IsLut, PosType
    <3> HIDE DEF table, mapped
    <3> QED BY <3>1, <3>2 DEF IsLut
  <2> QED BY <2>1, <2>2
<1>3. u = IF MapKey \notin Keys(lut) THEN mapped
          ELSE IF v \in {{}, Pages} THEN MapErase(mapped, MapKey)
          ELSE MapMove(w, pos.dst, MapKey)
  BY <1>1 DEF Advanced, Keys
<1>4. /\ Copies(pos) => MapKey = pos.src /\ pos.src # pos.dst
      /\ ~ Copies(pos) => MapKey = pos.dst
  BY FtlAssumption DEF Copies, MapKey, PosType
<1> HIDE DEF u, mapped
<1>5. CASE MapKey \notin Keys(lut)
  BY <1>2, <1>3, <1>4, <1>5 DEF Keys, u
<1>6. CASE MapKey \in Keys(lut) /\ v \in {{}, Pages}
  <2>1. /\ Keys(u) = Keys(lut) \ {MapKey} /\ u.valid_zones = lut.valid_zones
        /\ \A k \in Keys(u) : u.b_map[k] = lut.b_map[k]
    <3>1. Keys(mapped) = Keys(lut)
      BY <1>2 DEF Keys
    <3> QED BY <1>2, <1>3, <1>6, <3>1, EraseMarks
  <2>2. pos.dst \notin Keys(u) /\ (Copies(pos) => pos.src \notin Keys(u))
    BY <1>4, <2>1
  <2> QED BY <2>1, <2>2 DEF u
<1>7. CASE MapKey \in Keys(lut) /\ v \notin {{}, Pages}
  <2>0. w.b_map = [mapped.b_map EXCEPT ![MapKey] = v] /\ w.valid_zones = mapped.valid_zones
    BY <1>2 DEF IsLut
  <2>1. IsLut(w) /\ Keys(w) = Keys(lut) /\ w.valid_zones = lut.valid_zones
    BY <1>2, <2>0, SetMap DEF SameMaps, Keys
  <2>2. \A k \in Keys(lut) : w.b_map[k] = IF k = MapKey THEN v ELSE lut.b_map[k]
    BY <1>2, <2>0 DEF Keys
  <2> HIDE DEF w, v
  <2>3. MapKey = pos.dst \/ pos.dst \notin Keys(w)
    BY <1>4, <2>1
  <2>4. /\ Keys(u) = (Keys(w) \ {MapKey}) \cup {pos.dst} /\ u.valid_zones = w.valid_zones
        /\ \A k \in Keys(u) : u.b_map[k] = IF k = pos.dst THEN w.b_map[MapKey] ELSE w.b_map[k]
    BY <1>3, <1>7, <2>1, <2>3, MoveMarks
  <2>5. v = lut.b_map[MapKey] \cup 0 .. After - 1
    BY DEF v
  <2> QED BY <1>4, <1>7, <2>1, <2>2, <2>4, <2>5 DEF u
<1> QED BY <1>5, <1>6, <1>7

\* The block is written: the pages it has not written, and that were not before, are
\* what they should be.
LEMMA CommitMarks ==
  ASSUME IInv, Good, MarkInv(lut, fsd, flash), Works(fsd), Fresh(lut, pos),
         NEW f, IsFsd(f), f.pos = pos, f.req_fn \in {<<>>, <<"erase_src">>},
         f.req_fn = <<"erase_src">> => Copies(pos), ~ Suspended(f), f.at \in {"idle", "get"},
         f.block_buf = fsd.block_buf, Advance(f),
         \A b \in Phy : b # pos.dst => flash'[b].pages = flash[b].pages,
         MapKey \in Keys(lut) =>
           \A c \in Pages : c >= After /\ c \notin lut.b_map[MapKey] =>
             flash'[pos.dst].pages[c] \in Low
  PROVE  MarkInv(lut', fsd', flash')
<1>1. /\ WorkRight(lut, fsd, flash) /\ MapsRight(lut)
      /\ \A k \in Keys(lut) : k # pos.dst => True(lut, flash, k)
  BY DEF MarkInv, MarksTrue, pos
<1>2. /\ pos.logical \in Log /\ pos.dst \in ZonePhy(ZoneOf(pos.logical)) /\ pos.dst \in Phy
      /\ pos.dst # INVALID /\ lut.free[pos.dst] = "no" /\ pos \in PosType
  BY Basics, FtlAssumption DEF Fresh, ZonePhy, Writing, pos
<1>3. lut' = Advanced(lut) /\ IsLut(lut') /\ lut'.free = lut.free
  BY <1>2, Basics, AdvancedLut DEF Advance
<1>4. /\ lut'.valid_zones = lut.valid_zones
      /\ \A k \in Keys(lut') :
           IF k = pos.dst
           THEN MapKey \in Keys(lut) /\ lut'.b_map[k] = lut.b_map[MapKey] \cup 0 .. After - 1
           ELSE k \in Keys(lut) /\ lut'.b_map[k] = lut.b_map[k]
      /\ Copies(pos) => pos.src \notin Keys(lut')
  BY <1>1, <1>2, <1>3, Basics, AdvancedMarks DEF WorkRight, pos
<1>5. MapsRight(lut')
  BY <1>1, <1>2, <1>3, <1>4 DEF MapsRight, WorkRight, ZonePhy, pos
<1>6. ASSUME NEW k \in Keys(lut') PROVE True(lut', flash', k)
  <2>1. CASE k = pos.dst
    <3>1. \A c \in Pages : c \notin 0 .. After - 1 => c >= After
      BY <1>2, FtlAssumption DEF Pages, After, PosType
    <3> QED BY <1>4, <2>1, <3>1 DEF True
  <2>2. CASE k # pos.dst
    <3>1. k \in Keys(lut) /\ lut'.b_map[k] = lut.b_map[k] /\ k \in Phy
      BY <1>4, <2>2, Basics DEF Keys, IsLut
    <3> QED BY <1>1, <2>2, <3>1 DEF True
  <2> QED BY <2>1, <2>2
<1> DEFINE n == f.t_count + pos.len
<1>7. fsd' = [f EXCEPT !.t_count = n]
  BY DEF Advance
<1> HIDE DEF n
<1>8. /\ fsd'.pos = pos /\ fsd'.req_fn = f.req_fn /\ fsd'.at = f.at
      /\ fsd'.block_buf = fsd.block_buf /\ ~ Suspended(fsd')
  BY <1>7 DEF IsFsd, Suspended
<1>9. /\ ~ Works(fsd') /\ ~ LooksUp(fsd') /\ ~ Resolves(fsd')
      /\ Erasing(fsd') => fsd'.req_fn = <<"erase_src">>
  <2>1. ~ Body(f.req_fn) /\ ~ Copying(f.req_fn)
    BY StackKinds DEF Commits
  <2>2. f.req_fn # <<"lookup_block">> /\ f.req_fn # <<"resolve">>
    BY SingleTop
  <2> QED BY <1>8, <2>1, <2>2 DEF Works, LooksUp, Resolves, Erasing, Committing
<1>10. InOrder(fsd'.req_fn)
  <2>1. "erase_src" \in Singles \ {"invalidate_dst"}
    BY DEF Singles
  <2> QED BY <1>8, <2>1, StackOrder
<1>11. OutRight(fsd')
  BY <1>8 DEF OutRight
<1>12. fsd'.block_buf = [c \in Pages |-> fsd'.block_buf[c]]
  BY <1>8 DEF MarkInv
<1> QED BY <1>4, <1>5, <1>6, <1>8, <1>9, <1>10, <1>11, <1>12, MarkRest

\* At the last function of a write its block has been erased.
LEMMA CommitTop ==
  ASSUME IInv, MarkInv(lut, fsd, flash), NEW fn \in Commits, Calls(fn)
  PROVE  /\ Works(fsd) /\ WorkRight(lut, fsd, flash) /\ Fresh(lut, pos) /\ ~ Suspended(fsd)
         /\ ~ ErasesDst(fsd) /\ ~ ReadsLast(fsd) /\ High(flash, pos)
         /\ Tail(fsd.req_fn) \in {<<>>, <<"erase_src">>}
         /\ Tail(fsd.req_fn) = <<"erase_src">> => Copies(pos)
         /\ fn = "copy_last" => Copies(pos)
         /\ Has(fsd.req_fn, fn)
<1>1. /\ fsd.at = "get" /\ fsd.req_fn # <<>> /\ Head(fsd.req_fn) = fn
      /\ fsd.req_fn \in Seq(Early \cup Commits \cup Singles)
  BY Basics, StackSeq DEF Calls
<1> DEFINE s == Tail(fsd.req_fn)
<1>2. /\ s \in {<<>>, <<"erase_src">>}
      /\ Fresh(lut, pos)
      /\ s = <<"erase_src">> => Copies(pos)
  BY <1>1, TopOfStack
<1>3. /\ \A gn : Has(fsd.req_fn, gn) <=> fn = gn \/ Has(s, gn)
      /\ fn = "copy_last" => Has(s, "erase_src")
  BY <1>1, HasTail, OrderTail DEF MarkInv, Copiers
<1> HIDE DEF s
<1>4. \A gn : Has(s, gn) => gn = "erase_src"
  BY <1>2, StackOrder
<1>5. s = <<"erase_src">> => Copies(pos)
  BY <1>2
<1>6. fn # "erase_dst" /\ fn # "read_last"
  BY DEF Commits
<1>7. ~ ErasesDst(fsd) /\ ~ ReadsLast(fsd)
  BY <1>1, <1>3, <1>4, <1>6 DEF ErasesDst, ReadsLast, Out
<1>8. Works(fsd)
  <2>1. fn \notin Singles
    BY DEF Commits, Singles
  <2>2. ~ Single(fsd.req_fn)
    BY <1>1, <2>1, StackKinds
  <2> QED BY <1>1, <2>2, Basics DEF Stacked, Works
<1>9. fn = "copy_last" => Copies(pos)
  BY <1>2, <1>3, StackOrder
<1> QED BY <1>1, <1>2, <1>3, <1>7, <1>8, <1>9, NotWaiting DEF MarkInv, WorkRight, pos, s

LEMMA CommitSubmits ==
  ASSUME IInv, MarkInv(lut, fsd, flash), NEW fn \in Commits, Calls(fn), NEW end \in CommitEnds,
         NEW cmd, NEW blk, NEW from, NEW cnt, Submit(Popped, cmd, blk, from, cnt, end),
         OutRight(fsd'),
         end = "last" /\ cmd = "WRITE" /\ KeyOf(pos) \in Keys(lut) => Buffered(lut, fsd)
  PROVE  MarkInv(lut', fsd', flash')
<1>1. /\ WorkRight(lut, fsd, flash) /\ ~ ErasesDst(fsd) /\ ~ Suspended(fsd) /\ High(flash, pos)
      /\ Tail(fsd.req_fn) \in {<<>>, <<"erase_src">>} /\ Works(fsd)
  BY CommitTop
<1> DEFINE g == fsd'
<1>2. /\ g.pos = pos /\ g.req_fn = Tail(fsd.req_fn) /\ g.at = "out"
      /\ g.req_out.cmd = cmd /\ g.req_out.end = end /\ g.block_buf = fsd.block_buf
      /\ lut' = lut /\ flash' = flash /\ ~ Suspended(g)
  <2>1. IsFsd(Popped) /\ SameWork(Popped, Popped) /\ Popped.block_buf = fsd.block_buf
    BY Basics, PoppedFields, PoppedBuf DEF SameWork
  <2> QED BY <1>1, <2>1, SubmitMarks
<1> HIDE DEF g
<1>3. /\ \A gn : Has(g.req_fn, gn) => gn = "erase_src"
      /\ InOrder(g.req_fn)
  <2>1. "erase_src" \in Singles \ {"invalidate_dst"}
    BY DEF Singles
  <2>2. g.req_fn = <<>> \/ g.req_fn = <<"erase_src">>
    BY <1>1, <1>2
  <2>3. InOrder(<<>>) /\ InOrder(<<"erase_src">>)
    BY <2>1, StackOrder
  <2>4. \A gn : ~ Has(<<>>, gn) /\ (Has(<<"erase_src">>, gn) => gn = "erase_src")
    BY StackOrder
  <2> QED BY <2>2, <2>3, <2>4
<1>4. /\ ~ ErasesDst(g) /\ ~ ReadsLast(g) /\ Works(g) /\ ~ Erasing(g) /\ ~ Resolves(g)
      /\ ~ LooksUp(g) /\ ~ Has(g.req_fn, "write_last")
  <2>1. end # "erase_dst" /\ end # "read_last" /\ end # "erase_src" /\ end # "resolve"
    BY DEF CommitEnds
  <2>2. Committing(g)
    BY <1>2 DEF Committing
  <2>3. g.req_fn # <<"lookup_block">> /\ g.req_fn # <<"resolve">>
    BY <1>1, <1>2, SingleTop
  <2> QED BY <1>2, <1>3, <2>1, <2>2, <2>3 DEF ErasesDst, ReadsLast, Works, Erasing, Resolves,
             LooksUp, Out
<1>5. MarksTrue(lut, g, flash)
  BY <1>1, <1>2, <1>4 DEF MarksTrue, MarkInv, pos
<1>6. WorkRight(lut, g, flash)
  <2>1. Buffered(lut, g) <=> Buffered(lut, fsd)
    BY <1>2 DEF Buffered, pos
  <2>2. Out(g, "last") /\ g.req_out.cmd = "WRITE" => end = "last" /\ cmd = "WRITE"
    BY <1>2 DEF Out
  <2> QED BY <1>1, <1>2, <1>4, <2>1, <2>2 DEF WorkRight, pos
<1>7. OutRight(g)
  BY DEF g
<1> QED BY <1>2, <1>3, <1>4, <1>5, <1>6, <1>7 DEF MarkInv, g

LEMMA CommitFnMarks ==
  ASSUME IInv, Good, MarkInv(lut, fsd, flash), MergeData \/ WriteLast \/ CopyLast
  PROVE  MarkInv(lut', fsd', flash')
<1>1. {"merge_data", "write_last", "copy_last"} \subseteq Commits /\ {"merge", "last"} \subseteq CommitEnds
  BY DEF Commits, CommitEnds
<1>2. /\ IsFsd(Popped) /\ SameWork(Popped, Popped)
      /\ Popped.block_buf = fsd.block_buf /\ Popped.pos = pos
      /\ Popped.req_fn = Tail(fsd.req_fn) /\ Popped.at = fsd.at
  BY Basics, PoppedFields, PoppedBuf DEF SameWork
<1>3. CASE MergeData
  <2>1. Calls("merge_data") /\ Submit(Popped, "WRITE", pos.dst, pos.off, pos.len, "merge")
    BY <1>3 DEF MergeData
  <2>2. OutRight(fsd')
    BY <1>2, <2>1, SubmitMarks DEF OutRight, Reading, To
  <2> QED BY <1>1, <2>1, <2>2, CommitSubmits
<1>4. ASSUME NEW fn \in Commits, NEW cmd, SubmitLast(fn, cmd),
             <<fn, cmd>> \in {<<"write_last", "WRITE">>, <<"copy_last", "COPY">>}
      PROVE  MarkInv(lut', fsd', flash')
  <2>1. Calls(fn) /\ fsd.at = "get"
    BY <1>4 DEF SubmitLast, Calls
  <2>2. /\ WorkRight(lut, fsd, flash) /\ ~ Suspended(fsd) /\ High(flash, pos) /\ Works(fsd)
        /\ Tail(fsd.req_fn) \in {<<>>, <<"erase_src">>} /\ ~ ReadsLast(fsd) /\ Fresh(lut, pos)
        /\ Tail(fsd.req_fn) = <<"erase_src">> => Copies(pos)
        /\ fn = "copy_last" => Copies(pos)
        /\ Has(fsd.req_fn, fn)
    BY <2>1, CommitTop
  <2>3. CASE After = PageCnt \/ LastNew(MapKey)
    <3>1. Advance(Popped) /\ flash' = flash
      BY <1>4, <2>3 DEF SubmitLast
    <3>2. ~ Suspended(Popped)
      BY <2>2, Basics, PoppedFields DEF Suspended
    <3>3. \A c \in Pages : c >= After => flash'[pos.dst].pages[c] \in Low
      BY <2>2, <3>1 DEF High, AfterOf, After
    <3> QED BY <1>2, <2>1, <2>2, <3>1, <3>2, <3>3, CommitMarks
  <2>4. CASE ~ (After = PageCnt \/ LastNew(MapKey))
    <3>1. Submit(Popped, cmd, pos.dst, After, PageCnt - After, "last")
      BY <1>4, <2>4 DEF SubmitLast
    <3>2. OutRight(fsd')
      BY <1>2, <1>4, <2>2, <3>1, SubmitMarks DEF OutRight, Reading, AfterOf, After, To
    <3>3. ASSUME cmd = "WRITE", KeyOf(pos) \in Keys(lut) PROVE Buffered(lut, fsd)
      <4>1. ~ Above(lut, fsd)
        BY <2>4, <3>3 DEF LastNew, CanMerge, Good, Keys, KeyOf, MapKey, After, AfterOf, Above, pos
      <4>2. fn = "write_last"
        BY <1>4, <3>3
      <4> QED BY <2>2, <3>3, <4>1, <4>2 DEF WorkRight, pos
    <3> QED BY <1>1, <2>1, <3>1, <3>2, <3>3, CommitSubmits
  <2> QED BY <2>3, <2>4
<1>5. CASE WriteLast
  BY <1>1, <1>4, <1>5 DEF WriteLast
<1>6. CASE CopyLast
  BY <1>1, <1>4, <1>6 DEF CopyLast
<1> QED BY <1>3, <1>5, <1>6

-----------------------------------------------------------------------------
(* Steps that write nothing.                                               *)

\* What leaves block_buf alone.
LEMMA BufKept ==
  ASSUME NEW f, IsFsd(f)
  PROVE  /\ \A a : [f EXCEPT !.at = a].block_buf = f.block_buf
         /\ \A a : Completed(f, a).block_buf = f.block_buf
         /\ \A n, s, a : AtScan(f, n, s, a).block_buf = f.block_buf
         /\ \A c : [f EXCEPT !.conflict_pos = c].block_buf = f.block_buf
         /\ \A c : [f EXCEPT !.clean_dst = c].block_buf = f.block_buf
         /\ \A o : [f EXCEPT !.dst_oob = o].block_buf = f.block_buf
         /\ \A n : [f EXCEPT !.t_count = n].block_buf = f.block_buf
         /\ \A n : [f EXCEPT !.scan_pos = n].block_buf = f.block_buf
BY DEF IsFsd, Completed, AtScan

LEMMA SetBuf ==
  ASSUME IsFsd(fsd), NEW p, NEW s, NEW c, NEW o, NEW a
  PROVE  SetOut(p, s, c, o, a).block_buf = fsd.block_buf
BY DEF IsFsd, SetOut

\* A state in which nothing is on the stack and no command below.
LEMMA MarkIdle ==
  ASSUME NEW t, NEW g, NEW fl, MapsRight(t), \A k \in Keys(t) : True(t, fl, k), g.req_fn = <<>>,
         g.at # "out", ~ Suspended(g), g.block_buf = [c \in Pages |-> g.block_buf[c]]
  PROVE  MarkInv(t, g, fl)
<1>1. /\ ~ Body(g.req_fn) /\ ~ Copying(g.req_fn) /\ g.req_fn # <<"lookup_block">>
      /\ g.req_fn # <<"resolve">> /\ g.req_fn # <<"erase_src">>
  BY StackKinds
<1>2. ~ Works(g) /\ ~ Erasing(g) /\ ~ LooksUp(g) /\ ~ Resolves(g)
  BY <1>1 DEF Works, Erasing, LooksUp, Resolves, Committing
<1>3. OutRight(g) /\ InOrder(g.req_fn)
  BY StackOrder DEF OutRight
<1> QED BY <1>2, <1>3, MarkRest

LEMMA AtRest ==
  ASSUME IInv, MarkInv(lut, fsd, flash), fsd.req_fn = <<>>, fsd.at # "out", ~ Suspended(fsd)
  PROVE  \A k \in Keys(lut) : True(lut, flash, k)
<1>1. ~ Body(fsd.req_fn) /\ ~ Copying(fsd.req_fn)
  BY StackKinds
<1>2. ~ Works(fsd)
  BY <1>1 DEF Works, Committing
<1> QED BY <1>2, AllTrue

LEMMA CompletedMarks ==
  ASSUME IsFsd(fsd), ~ Suspended(fsd), fsd.block_buf = [c \in Pages |-> fsd.block_buf[c]],
         NEW t, NEW fl, MapsRight(t), \A k \in Keys(t) : True(t, fl, k),
         NEW a \in {"idle", "get"}
  PROVE  MarkInv(t, Completed(fsd, a), fl)
<1> DEFINE g == Completed(fsd, a)
<1>1. /\ g.req_fn = <<>> /\ g.at = a /\ g.req_suspend = fsd.req_suspend
      /\ g.bmap_avail = fsd.bmap_avail /\ g.block_buf = fsd.block_buf
  BY CompletedFields, BufKept
<1> HIDE DEF g
<1>2. ~ Suspended(g) /\ g.at # "out" /\ g.block_buf = [c \in Pages |-> g.block_buf[c]]
  BY <1>1 DEF Suspended
<1>3. MarkInv(t, g, fl)
  BY <1>1, <1>2, MarkIdle
<1> QED BY <1>3 DEF g

\* A function that is alone on its stack.
LEMMA SingleCalled ==
  ASSUME IInv, MarkInv(lut, fsd, flash), NEW fn \in Singles, Calls(fn)
  PROVE  /\ Tail(fsd.req_fn) = <<>> /\ fsd.req_fn = <<fn>> /\ ~ Suspended(fsd) /\ fsd.at = "get"
         /\ ~ Works(fsd) /\ fn # "invalidate_dst"
         /\ \A k \in Keys(lut) : True(lut, flash, k)
<1>1. fsd.at = "get" /\ fsd.req_fn # <<>> /\ Head(fsd.req_fn) = fn
  BY DEF Calls
<1>2. Tail(fsd.req_fn) = <<>> /\ fsd.req_fn = <<fn>> /\ ~ Suspended(fsd)
  BY <1>1, TopOfStack, NotWaiting
<1>3. Single(fsd.req_fn)
  BY <1>2 DEF Single
<1>4. ~ Works(fsd)
  BY <1>1, <1>2, <1>3, StackKinds DEF Works, Committing
<1>5. fn # "invalidate_dst"
  BY <1>1, Basics, StackSeq, OrderTail DEF MarkInv
<1> QED BY <1>1, <1>2, <1>4, <1>5, AllTrue

LEMMA SingleSubmits ==
  ASSUME IInv, MarkInv(lut, fsd, flash), NEW fn \in Singles, Calls(fn),
         NEW end \in {"erase_src", "read_data", "resolve"},
         end = "erase_src" <=> fn = "erase_src", end = "resolve" => fn = "resolve",
         NEW cmd, NEW blk, NEW from, NEW cnt, Submit(Popped, cmd, blk, from, cnt, end),
         end = "erase_src" => cmd = "ERASE" /\ blk = pos.src,
         end # "erase_src" => cmd = "READ"
  PROVE  MarkInv(lut', fsd', flash')
<1> DEFINE g == fsd'
<1>1. /\ g.pos = pos /\ g.req_fn = Tail(fsd.req_fn) /\ g.at = "out"
      /\ g.req_out.cmd = cmd /\ g.req_out.end = end /\ To(g.req_out, blk, from, cnt)
      /\ g.block_buf = fsd.block_buf
      /\ lut' = lut /\ flash' = flash /\ (Suspended(g) <=> Suspended(fsd))
  <2>1. IsFsd(Popped) /\ SameWork(Popped, Popped) /\ Popped.block_buf = fsd.block_buf
    BY Basics, PoppedFields, PoppedBuf DEF SameWork
  <2> QED BY <2>1, SubmitMarks
<1>2. /\ Tail(fsd.req_fn) = <<>> /\ fsd.req_fn = <<fn>> /\ ~ Suspended(fsd) /\ ~ Works(fsd)
      /\ \A k \in Keys(lut) : True(lut, flash, k) /\ fsd.at = "get"
  BY SingleCalled
<1> HIDE DEF g
<1>3. ~ Body(g.req_fn) /\ ~ Copying(g.req_fn) /\ g.req_fn # <<"lookup_block">>
      /\ g.req_fn # <<"resolve">> /\ g.req_fn # <<"erase_src">>
  BY <1>1, <1>2, StackKinds
<1>4. ~ Works(g) /\ ~ LooksUp(g) /\ (Resolves(g) => Resolves(fsd)) /\ (Erasing(g) => Erasing(fsd))
  <2>1. end \notin CommitEnds
    BY DEF CommitEnds
  <2> QED BY <1>1, <1>2, <1>3, <2>1 DEF Works, LooksUp, Resolves, Erasing, Committing
<1>5. OutRight(g)
  BY <1>1 DEF OutRight, Reading, To
<1>6. InOrder(g.req_fn)
  BY <1>1, <1>2, StackOrder
<1>7. g.block_buf = [c \in Pages |-> g.block_buf[c]]
  BY <1>1 DEF MarkInv
<1>8. MapsRight(lut) /\ (Erasing(g) => g.pos.src \notin Keys(lut))
      /\ (LooksUp(g) \/ Resolves(g) => g.pos.zone \notin lut.valid_zones)
  BY <1>1, <1>4 DEF MarkInv, pos
<1>9. MarkInv(lut, g, flash)
  BY <1>2, <1>4, <1>5, <1>6, <1>7, <1>8, MarkRest
<1> QED BY <1>1, <1>9 DEF g

LEMMA SingleMarks ==
  ASSUME IInv, MarkInv(lut, fsd, flash),
         EraseSrc \/ ReadData \/ Resolve \/ InvalidateDst \/ FillData
  PROVE  MarkInv(lut', fsd', flash')
<1>1. {"erase_src", "read_data", "resolve", "invalidate_dst", "fill_data"} \subseteq Singles
  BY DEF Singles
<1>2. CASE EraseSrc
  BY <1>1, <1>2, SingleSubmits DEF EraseSrc
<1>3. CASE ReadData
  BY <1>1, <1>3, SingleSubmits DEF ReadData
<1>4. CASE Resolve
  BY <1>1, <1>4, SingleSubmits DEF Resolve
<1>5. CASE InvalidateDst
  BY <1>1, <1>5, SingleCalled DEF InvalidateDst
<1>6. CASE FillData
  <2> DEFINE t == fsd.t_count + pos.len
  <2>1. /\ Tail(fsd.req_fn) = <<>> /\ ~ Suspended(fsd) /\ fsd.at = "get"
        /\ \A k \in Keys(lut) : True(lut, flash, k)
    BY <1>1, <1>6, SingleCalled DEF FillData
  <2>2. /\ lut' = lut /\ flash' = flash
        /\ Complete(t, "get") \/ fsd' = [Popped EXCEPT !.t_count = t]
    BY <1>6 DEF FillData
  <2>3. IsFsd(fsd) /\ MapsRight(lut) /\ fsd.block_buf = [c \in Pages |-> fsd.block_buf[c]]
    BY Basics DEF MarkInv
  <2>4. t \in Nat
    BY Basics DEF PosType
  <2> HIDE DEF t
  <2>5. CASE Complete(t, "get")
    BY <2>1, <2>2, <2>3, <2>5, CompletedMarks DEF Complete
  <2>6. CASE fsd' = [Popped EXCEPT !.t_count = t]
    <3>1. /\ IsFsd(Popped) /\ Popped.req_fn = <<>> /\ Popped.at = "get" /\ ~ Suspended(Popped)
          /\ Popped.block_buf = fsd.block_buf
      BY <2>1, <2>3, PoppedFields, PoppedBuf DEF Suspended
    <3>2. /\ fsd'.req_fn = <<>> /\ fsd'.at = "get" /\ fsd'.block_buf = fsd.block_buf
          /\ ~ Suspended(fsd')
      BY <2>4, <2>6, <3>1, CountFields, BufKept DEF Suspended
    <3> QED BY <2>1, <2>2, <2>3, <3>2, MarkIdle
  <2> QED BY <2>2, <2>5, <2>6
<1> QED BY <1>2, <1>3, <1>4, <1>5, <1>6

LEMMA AboveMarks ==
  ASSUME IInv, MarkInv(lut, fsd, flash), NewRequest \/ Ask \/ FetchReq
  PROVE  MarkInv(lut', fsd', flash')
<1>1. lut' = lut /\ flash' = flash
  BY DEF NewRequest, Ask, FetchReq
<1>2. CASE fsd' = fsd
  BY <1>1, <1>2
<1>3. CASE fsd.at # "out" /\ \E a \in {"get", "idle"} : fsd' = [fsd EXCEPT !.at = a]
  <2>0. PICK a \in {"get", "idle"} : fsd' = [fsd EXCEPT !.at = a]
    BY <1>3
  <2>1. /\ SameWork(fsd', fsd) /\ fsd'.at # "out" /\ fsd'.block_buf = fsd.block_buf
    <3>1. SameWork(fsd', fsd) /\ fsd'.at = a
      BY <2>0, Basics, AtFields
    <3>2. fsd'.block_buf = fsd.block_buf
      BY <2>0, Basics, BufKept
    <3> QED BY <3>1, <3>2
  <2>2. fsd'.pos = fsd.pos /\ fsd'.req_fn = fsd.req_fn /\ (Suspended(fsd') <=> Suspended(fsd))
    BY <2>1 DEF SameWork, Suspended
  <2>3. MarkInv(lut, fsd', flash)
    BY <1>3, <2>1, <2>2, MarkSame
  <2> QED BY <1>1, <2>3
<1>4. CASE fsd' = [fsd EXCEPT !.req_in = client]
  <2>1. /\ fsd'.pos = fsd.pos /\ fsd'.req_fn = fsd.req_fn /\ fsd'.at = fsd.at
        /\ fsd'.req_suspend = fsd.req_suspend /\ fsd'.bmap_avail = fsd.bmap_avail
        /\ fsd'.req_out = fsd.req_out /\ fsd'.block_buf = fsd.block_buf
    BY <1>4, Basics DEF IsFsd
  <2> QED BY <1>1, <2>1, MarkSame DEF Suspended
<1>5. fsd' = fsd \/ (fsd.at # "out" /\ \E a \in {"get", "idle"} : fsd' = [fsd EXCEPT !.at = a])
      \/ fsd' = [fsd EXCEPT !.req_in = client]
  BY DEF NewRequest, Ask, FetchReq
<1> QED BY <1>2, <1>3, <1>4, <1>5

-----------------------------------------------------------------------------
(* ftl_simple_setup_request().                                             *)

LEMMA OtherSetupMarks ==
  ASSUME IInv, MarkInv(lut, fsd, flash), SetupFails \/ SetupDone \/ SetupNoSpace \/ SetupRead
  PROVE  MarkInv(lut', fsd', flash')
<1>1. Setting /\ flash' = flash /\ lut' = lut
  BY DEF SetupFails, SetupDone, SetupNoSpace, SetupRead, Ready, Quiet
<1>2. /\ ~ fsd.req_suspend
      /\ fsd.bmap_avail \/ ~ Suspended(fsd)
      /\ SetAt \in {"idle", "get"} /\ fsd.req_fn = <<>> /\ fsd.at # "out"
  BY <1>1, Suspends
<1>3. MapsRight(lut) /\ fsd.block_buf = [c \in Pages |-> fsd.block_buf[c]] /\ IsFsd(fsd)
  BY Basics DEF MarkInv
<1>4. CASE SetupFails
  <2>1. fsd' = [fsd EXCEPT !.at = "idle"]
    BY <1>4 DEF SetupFails
  <2>2. SameWork(fsd', fsd) /\ fsd'.at # "out" /\ fsd'.block_buf = fsd.block_buf
    <3>1. SameWork(fsd', fsd) /\ fsd'.at = "idle"
      BY <1>3, <2>1, AtFields
    <3>2. fsd'.block_buf = fsd.block_buf
      BY <1>3, <2>1, BufKept
    <3> QED BY <3>1, <3>2
  <2>3. fsd'.pos = fsd.pos /\ fsd'.req_fn = fsd.req_fn /\ (Suspended(fsd') <=> Suspended(fsd))
    BY <2>2 DEF SameWork, Suspended
  <2>4. MarkInv(lut, fsd', flash)
    BY <1>2, <2>2, <2>3, MarkSame
  <2> QED BY <1>1, <2>4
<1>5. CASE SetupDone \/ SetupNoSpace
  <2>1. fsd' = Completed(fsd, "get")
    BY <1>5 DEF SetupDone, SetupNoSpace, Complete
  <2>2. ~ Suspended(fsd)
    <3>1. CASE SetupDone
      <4>1. Left = 0
        BY <3>1 DEF SetupDone
      <4> QED BY <4>1, Basics DEF Waiting, Left
    <3>2. CASE SetupNoSpace
      BY <1>2, <3>2 DEF SetupNoSpace, Ready, Suspended
    <3> QED BY <1>5, <3>1, <3>2
  <2> QED BY <1>1, <1>2, <1>3, <2>1, <2>2, AtRest, CompletedMarks
<1>6. CASE SetupRead
  <2> DEFINE s == IF Address.src = INVALID THEN <<"fill_data">> ELSE <<"read_data">>
             a == SetAt
             p == Address
  <2>1. fsd' = [fsd EXCEPT !.pos = p, !.at = a, !.req_fn = s] /\ ~ fsd.bmap_avail
    BY <1>6 DEF SetupRead, Ready
  <2>2. /\ Single(s) /\ s # <<"lookup_block">> /\ s # <<"resolve">> /\ s # <<"erase_src">>
        /\ InOrder(s)
    <3>1. {"fill_data", "read_data"} \subseteq Singles \ {"invalidate_dst"}
      BY DEF Singles
    <3>2. Single(<<"fill_data">>) /\ Single(<<"read_data">>)
      BY <3>1 DEF Single
    <3> QED BY <3>1, <3>2, SingleTop, StackOrder
  <2> HIDE DEF s, a, p
  <2>3. /\ fsd'.pos = p /\ fsd'.req_fn = s /\ fsd'.at = a /\ fsd'.block_buf = fsd.block_buf
        /\ fsd'.req_suspend = fsd.req_suspend /\ fsd'.bmap_avail = fsd.bmap_avail
    BY <1>3, <2>1 DEF IsFsd
  <2>4. a \in {"idle", "get"} /\ ~ Suspended(fsd)
    BY <1>2, <2>1 DEF a, Suspended
  <2>5. /\ ~ Works(fsd') /\ ~ LooksUp(fsd') /\ ~ Resolves(fsd') /\ ~ Erasing(fsd')
    BY <2>2, <2>3, <2>4, StackKinds DEF LooksUp, Resolves, Committing, Erasing, Suspended, Works
  <2>6. OutRight(fsd') /\ fsd'.block_buf = [c \in Pages |-> fsd'.block_buf[c]]
    BY <1>3, <2>3, <2>4 DEF OutRight
  <2>7. \A k \in Keys(lut) : True(lut, flash, k)
    BY <1>2, <2>4, AtRest
  <2> QED BY <1>1, <1>3, <2>2, <2>3, <2>5, <2>6, <2>7, MarkRest
<1> QED BY <1>4, <1>5, <1>6

LEMMA ClearMarks ==
  ASSUME NEW t, IsLut(t), NEW z
  PROVE  LET u == ClearZone(t, z)
         IN  /\ Keys(u) \subseteq Keys(t) /\ u.valid_zones = t.valid_zones
             /\ \A k \in Keys(u) : u.b_map[k] = t.b_map[k]
             /\ \A b \in Phy : u.free[b] \in {"no", t.free[b]}
<1> DEFINE mapped == {t.block_table[l] : l \in ZoneLog(z)}
           table == [l \in Log |-> IF l \in ZoneLog(z) THEN INVALID ELSE t.block_table[l]]
           free  == [b \in Phy |-> IF b \in ZonePhy(z) THEN "no" ELSE t.free[b]]
           bmap  == [k \in DOMAIN t.b_map \ mapped |-> t.b_map[k]]
           spare == t.spare + Cardinality(mapped \cap DOMAIN t.b_map)
           u == ClearZone(t, z)
<1>0. u = [t EXCEPT !.block_table = table, !.b_map = bmap, !.spare = spare, !.free = free]
  BY DEF ClearZone
<1>1. u = [free |-> free, valid_zones |-> t.valid_zones, spare |-> spare,
           block_table |-> table, b_map |-> bmap]
  <2> HIDE DEF u, free, table, bmap, spare
  <2> QED BY <1>0 DEF IsLut
<1>2. /\ DOMAIN bmap \subseteq DOMAIN t.b_map
      /\ \A k \in DOMAIN bmap : bmap[k] = t.b_map[k]
      /\ \A b \in Phy : free[b] \in {"no", t.free[b]}
  OBVIOUS
<1> HIDE DEF u, free, table, bmap, spare
<1> QED BY <1>1, <1>2 DEF Keys, u

\* Marks that are kept of fewer blocks, of which none becomes free.
LEMMA FewerMarks ==
  ASSUME NEW t, NEW u, NEW fl, MapsRight(t), Keys(u) \subseteq Keys(t), Keys(t) \subseteq Phy,
         t.valid_zones \subseteq u.valid_zones,
         \A k \in Keys(u) : u.b_map[k] = t.b_map[k] /\ u.free[k] = "no",
         \A b \in Phy : u.free[b] # "clean"
  PROVE  /\ MapsRight(u)
         /\ \A k \in Keys(u) : True(t, fl, k) => True(u, fl, k)
<1>1. MapsRight(u)
  BY DEF MapsRight
<1>2. ASSUME NEW k \in Keys(u), True(t, fl, k) PROVE True(u, fl, k)
  <2>1. u.b_map[k] = t.b_map[k]
    OBVIOUS
  <2> QED BY <1>2, <2>1 DEF True
<1> QED BY <1>1, <1>2

LEMMA ScanStartMarks ==
  ASSUME IInv, MarkInv(lut, fsd, flash), SetupScan
  PROVE  MarkInv(lut', fsd', flash')
<1> DEFINE z == Address.zone
           at == [NoPos EXCEPT !.zone = z]
           n == z * PhyPerZone
           s == <<"lookup_block">>
           a == SetAt
           i == INVALID
<1>1. /\ Setting /\ z \notin lut.valid_zones
      /\ lut' = ClearZone(lut, z) /\ flash' = flash
      /\ fsd' = [fsd EXCEPT !.pos = at, !.scan_pos = n, !.conflict_pos = i, !.req_fn = s,
                            !.at = a]
      /\ ~ fsd.bmap_avail
  BY DEF SetupScan, Quiet
<1>2. /\ a \in {"idle", "get"} /\ fsd.req_fn = <<>> /\ fsd.at # "out" /\ ~ Suspended(fsd)
      /\ ~ fsd.req_suspend
  BY <1>1, Suspends DEF Suspended
<1>3. at.zone = z
  BY DEF NoPos
<1>4. MapsRight(lut) /\ fsd.block_buf = [c \in Pages |-> fsd.block_buf[c]] /\ IsFsd(fsd)
      /\ IsLut(lut) /\ Keys(lut) \subseteq Phy
  BY Basics DEF MarkInv, IsLut, Keys
<1> HIDE DEF at, n, s, a, i, z
<1>5. /\ fsd'.pos = at /\ fsd'.req_fn = s /\ fsd'.at = a /\ fsd'.block_buf = fsd.block_buf
      /\ fsd'.req_suspend = fsd.req_suspend /\ fsd'.bmap_avail = fsd.bmap_avail
  BY <1>1, <1>4 DEF IsFsd
<1>6. /\ Keys(lut') \subseteq Keys(lut) /\ lut'.valid_zones = lut.valid_zones
      /\ \A k \in Keys(lut') : lut'.b_map[k] = lut.b_map[k]
      /\ \A b \in Phy : lut'.free[b] \in {"no", lut.free[b]}
  BY <1>1, <1>4, ClearMarks
<1>7. MapsRight(lut') /\ \A k \in Keys(lut') : True(lut', flash', k)
  <2>1. /\ \A k \in Keys(lut') : lut'.free[k] = "no"
        /\ \A b \in Phy : lut'.free[b] # "clean"
    BY <1>4, <1>6 DEF MapsRight
  <2>2. \A k \in Keys(lut) : True(lut, flash, k)
    BY <1>2, AtRest
  <2> QED BY <1>1, <1>4, <1>6, <2>1, <2>2, FewerMarks
<1>8. Single(s) /\ InOrder(s) /\ s # <<"erase_src">> /\ s # <<"resolve">>
  <2>1. "lookup_block" \in Singles \ {"invalidate_dst"}
    BY DEF Singles
  <2> QED BY <2>1, SingleTop, StackOrder DEF Single, s
<1>9. ~ Works(fsd') /\ ~ Erasing(fsd') /\ OutRight(fsd')
  BY <1>1, <1>2, <1>5, <1>8, StackKinds DEF Works, Erasing, Committing, Suspended, OutRight
<1>10. fsd'.pos.zone \notin lut'.valid_zones
  BY <1>1, <1>3, <1>5, <1>6
<1>11. InOrder(fsd'.req_fn) /\ fsd'.block_buf = [c \in Pages |-> fsd'.block_buf[c]]
  BY <1>4, <1>5, <1>8
<1> QED BY <1>7, <1>9, <1>10, <1>11, MarkRest

\* A write begins.
LEMMA WriteBegins ==
  ASSUME NEW t, NEW g, NEW fl, MapsRight(t), Body(g.req_fn) \/ Copying(g.req_fn), g.at # "out",
         InOrder(g.req_fn), ~ Suspended(g), g.block_buf = [c \in Pages |-> g.block_buf[c]],
         \A k \in Keys(t) : (~ Has(g.req_fn, "erase_dst") /\ k = g.pos.dst) \/ True(t, fl, k),
         ZoneOf(g.pos.logical) \in t.valid_zones, AfterOf(g.pos) <= PageCnt,
         Copies(g.pos) => g.pos.dst \notin Keys(t),
         Has(g.req_fn, "read_last") => g.pos.src # INVALID,
         Has(g.req_fn, "erase_dst") \/ High(fl, g.pos),
         Has(g.req_fn, "write_last") =>
           Has(g.req_fn, "read_last") \/ Above(t, g) \/ Buffered(t, g)
  PROVE  MarkInv(t, g, fl)
<1>1. /\ ErasesDst(g) <=> Has(g.req_fn, "erase_dst")
      /\ ReadsLast(g) <=> Has(g.req_fn, "read_last")
      /\ ~ Out(g, "last")
  BY DEF ErasesDst, ReadsLast, Out
<1>2. OutRight(g)
  BY DEF OutRight
<1>3. Works(g)
  BY DEF Works
<1>4. MarksTrue(t, g, fl)
  BY <1>1, <1>3 DEF MarksTrue
<1>5. WorkRight(t, g, fl)
  BY <1>1 DEF WorkRight
<1> QED BY <1>2, <1>4, <1>5, MarkWork

LEMMA AddressAfter ==
  ASSUME IInv, Left > 0
  PROVE  AfterOf(Address) <= PageCnt /\ Address.off \in Nat /\ Address.len \in Nat
<1>1. Address \in PosType
  BY Basics, AddressFields
<1>2. Address.len <= PageCnt - Address.off
  <2>1. fsd.req_in.len \in Int /\ fsd.t_count \in Nat /\ fsd.req_in.at \in Nat /\ PageCnt \in Nat \ {0}
    BY Basics, FtlAssumption DEF IsReq
  <2> DEFINE n == PageCnt - ((fsd.req_in.at + fsd.t_count) % PageCnt)
  <2>2. n \in Int /\ Left \in Int
    BY <2>1 DEF Left
  <2>3. Address.len = IF Left < n THEN Left ELSE n
    BY DEF Address
  <2>4. PageCnt - Address.off = n
    BY DEF Address
  <2> HIDE DEF n
  <2> QED BY <2>2, <2>3, <2>4
<1>3. Address.off \in Nat /\ Address.len \in Nat
  BY <1>1 DEF PosType
<1>4. PageCnt \in Nat
  BY FtlAssumption
<1> QED BY <1>2, <1>3, <1>4 DEF AfterOf

LEMMA TookMarks ==
  ASSUME NEW b \in Phy, IsLut(lut), MapsRight(lut)
  PROVE  /\ MapsRight(Took(b)) /\ Keys(Took(b)) = Keys(lut)
         /\ Took(b).b_map = lut.b_map /\ Took(b).valid_zones = lut.valid_zones
         /\ Took(b).free = [lut.free EXCEPT ![b] = "no"] /\ Took(b).spare = lut.spare
<1>1. /\ Took(b).b_map = lut.b_map /\ Took(b).valid_zones = lut.valid_zones
      /\ Took(b).free = [lut.free EXCEPT ![b] = "no"] /\ Took(b).spare = lut.spare
  BY DEF Took, IsLut
<1>2. \A c \in Phy : Took(b).free[c] \in {"no", lut.free[c]}
  BY <1>1 DEF IsLut
<1>3. Keys(lut) \subseteq Phy
  BY DEF IsLut, Keys
<1> QED BY <1>1, <1>2, <1>3 DEF MapsRight, Keys

LEMMA TookTrue ==
  ASSUME NEW b \in Phy, IsLut(lut), MapsRight(lut), \A k \in Keys(lut) : True(lut, flash, k)
  PROVE  \A k \in Keys(Took(b)) : True(Took(b), flash, k)
BY TookMarks DEF True

\* The write begins with a stack of functions.
LEMMA SetupMarks ==
  ASSUME IInv, MarkInv(lut, fsd, flash), Setting, Left > 0, ~ fsd.bmap_avail,
         Address.zone \in lut.valid_zones, NEW b \in Phy, NEW p, p \in PosType, p.dst = b,
         p.src = Address.src, p.logical = Address.logical, p.off = Address.off,
         p.len = Address.len, NEW s, NEW c, NEW t,
         t = lut \/ t = Took(b), Body(s) \/ Copying(s), InOrder(s), Copies(p) => b \notin Keys(lut),
         Has(s, "read_last") => p.src # INVALID,
         Has(s, "erase_dst") \/ High(flash, p),
         Has(s, "write_last") => Has(s, "read_last")
  PROVE  MarkInv(t, SetOut(p, s, c, MappedTo(Address.logical), SetAt), flash)
<1> DEFINE o == MappedTo(Address.logical)
           a == SetAt
           g == SetOut(p, s, c, o, a)
<1>1. IsLabel(o)
  BY Basics, AddressFields DEF IsLabel, MappedTo
<1>2. a \in {"idle", "get"} /\ ~ fsd.req_suspend /\ ~ Suspended(fsd) /\ fsd.at # "out"
      /\ fsd.req_fn = <<>>
  BY Suspends DEF Suspended
<1>3. IsFsd(fsd) /\ IsLut(lut) /\ MapsRight(lut)
      /\ fsd.block_buf = [q \in Pages |-> fsd.block_buf[q]]
  BY Basics DEF MarkInv
<1> HIDE DEF o, a
<1>4. /\ g.pos = p /\ g.req_fn = s /\ g.at = a
      /\ g.req_suspend = fsd.req_suspend
      /\ g.bmap_avail = fsd.bmap_avail /\ g.block_buf = fsd.block_buf
  BY <1>1, <1>2, <1>3, SetFields, SetBuf
<1> HIDE DEF g
<1>5. ~ Suspended(g) /\ g.at # "out"
  BY <1>2, <1>4 DEF Suspended
<1>6. \A k \in Keys(lut) : True(lut, flash, k)
  BY <1>2, AtRest
<1>7. /\ MapsRight(t) /\ Keys(t) = Keys(lut) /\ t.valid_zones = lut.valid_zones
      /\ \A k \in Keys(t) : True(t, flash, k)
  <2>1. CASE t = lut
    BY <1>3, <1>6, <2>1
  <2>2. CASE t = Took(b)
    BY <1>3, <1>6, <2>2, TookMarks, TookTrue
  <2> QED BY <2>1, <2>2
<1>8. ZoneOf(p.logical) \in t.valid_zones /\ AfterOf(p) <= PageCnt
  BY <1>7, Basics, AddressFields, AddressAfter DEF AfterOf
<1>9. MarkInv(t, g, flash)
  BY <1>3, <1>4, <1>5, <1>7, <1>8, WriteBegins
<1> QED BY <1>9 DEF g, o, a

LEMMA WriteSetupMarks ==
  ASSUME IInv, Good, MarkInv(lut, fsd, flash),
         SetupMerge \/ SetupInPlace \/ SetupCopy \/ SetupNewFull
  PROVE  MarkInv(lut', fsd', flash')
<1> DEFINE o == MappedTo(Address.logical)
           no == FALSE
<1>1. /\ Setting /\ Left > 0 /\ ~ fsd.bmap_avail /\ Address.zone \in lut.valid_zones
      /\ flash' = flash
  BY DEF SetupMerge, SetupInPlace, SetupCopy, SetupNewFull, Ready, Quiet
<1>2. /\ Address \in PosType /\ IsLut(lut) /\ MapsRight(lut) /\ INVALID \notin Phy
      /\ INVALID \notin Keys(lut)
  BY <1>1, Basics, AddressFields, FtlAssumption DEF MarkInv, Keys, IsLut
<1>3. /\ \A b \in Free : b \in Phy /\ b # Address.src /\ b \notin Keys(lut) /\ lut.free[b] = "dirty"
      /\ Address.src # INVALID => Address.src \in Phy
  <2>1. /\ \A b \in Free : b \in Phy /\ b # Address.src
        /\ Address.src # INVALID => Address.src \in Phy
    BY <1>1, AddressFresh
  <2>2. ASSUME NEW b \in Free PROVE b \notin Keys(lut) /\ lut.free[b] = "dirty"
    <3>1. lut.free[b] # "no" /\ b \in Phy
      BY <2>1 DEF Free
    <3> QED BY <1>2, <3>1 DEF MapsRight, IsLut
  <2> QED BY <2>1, <2>2
<1>4. ASSUME NEW b \in Phy
      PROVE  /\ LET p == [Address EXCEPT !.dst = b]
                IN  /\ p \in PosType /\ p.dst = b /\ p.src = Address.src
                    /\ p.logical = Address.logical /\ p.off = Address.off /\ p.len = Address.len
             /\ LET p == [Address EXCEPT !.dst = b, !.in_place = TRUE]
                IN  /\ p \in PosType /\ p.dst = b /\ p.src = Address.src
                    /\ p.logical = Address.logical /\ p.off = Address.off /\ p.len = Address.len
  BY <1>2 DEF PosType
<1>5. CASE SetupMerge
  <2> DEFINE p == [Address EXCEPT !.dst = Address.src]
             s == <<"merge_data">>
  <2>1. fsd' = SetOut(p, s, no, o, SetAt) /\ lut' = lut
    BY <1>5 DEF SetupMerge, SetOut
  <2>2. Address.src \in Keys(lut) /\ lut.b_map[Address.src] \subseteq 0 .. Address.off - 1
    BY <1>5 DEF SetupMerge, Merges, CanMerge, Good, Keys
  <2>3. Address.src # INVALID /\ Address.src \in Phy
    BY <1>2, <1>3, <2>2
  <2>4. /\ p \in PosType /\ p.dst = Address.src /\ p.src = Address.src
        /\ p.logical = Address.logical /\ p.off = Address.off /\ p.len = Address.len
    BY <1>4, <2>3
  <2>5. Body(s) /\ InOrder(s) /\ ~ Has(s, "read_last") /\ ~ Has(s, "write_last")
    BY WholeStacks, WriteOrder
  <2> HIDE DEF p, s, no
  <2>6. ~ Copies(p)
    BY <2>4 DEF Copies
  <2>7. High(flash, p)
    <3>1. True(lut, flash, Address.src)
      <4>1. fsd.req_fn = <<>> /\ fsd.at # "out" /\ ~ Suspended(fsd)
        BY <1>1, Suspends
      <4> QED BY <2>2, <4>1, AtRest
    <3>2. Address.off \in Nat /\ Address.len \in Nat
      BY <1>2 DEF PosType
    <3>3. ASSUME NEW c \in Pages, c >= AfterOf(p) PROVE c \notin lut.b_map[Address.src]
      <4>1. c \in Int
        BY DEF Pages
      <4>2. c >= Address.off
        BY <2>4, <3>2, <3>3, <4>1 DEF AfterOf
      <4> QED BY <2>2, <3>2, <4>1, <4>2
    <3> QED BY <2>4, <3>1, <3>3 DEF High, True
  <2>8. MarkInv(lut, SetOut(p, s, no, o, SetAt), flash)
    BY <1>1, <2>3, <2>4, <2>5, <2>6, <2>7, SetupMarks DEF o
  <2> QED BY <1>1, <2>1, <2>8
<1>6. CASE SetupInPlace
  <2> DEFINE p == [Address EXCEPT !.dst = Address.src, !.in_place = TRUE]
             s == <<"read_first", "read_last", "erase_dst", "write_first", "write_data",
                    "write_last">>
  <2>1. fsd' = SetOut(p, s, no, o, SetAt) /\ lut' = lut /\ Address.src # INVALID
    BY <1>6 DEF SetupInPlace, SetOut
  <2>2. Address.src \in Phy
    BY <1>3, <2>1
  <2>4. /\ p \in PosType /\ p.dst = Address.src /\ p.src = Address.src
        /\ p.logical = Address.logical /\ p.off = Address.off /\ p.len = Address.len
    BY <1>4, <2>2
  <2>5. Body(s) /\ InOrder(s) /\ Has(s, "read_last") /\ Has(s, "erase_dst")
    BY WholeStacks, WriteOrder
  <2> HIDE DEF p, s, no
  <2>6. ~ Copies(p)
    BY <2>4 DEF Copies
  <2>8. MarkInv(lut, SetOut(p, s, no, o, SetAt), flash)
    BY <1>1, <2>1, <2>2, <2>4, <2>5, <2>6, SetupMarks DEF o
  <2> QED BY <1>1, <2>1, <2>8
<1>7. CASE SetupNewFull
  <2>1. PICK b \in Free :
          /\ lut' = Took(b)
          /\ fsd' = SetOut([Address EXCEPT !.dst = b], EraseIf(b) \o <<"merge_data">>,
                           lut.free[b] = "clean", o, SetAt)
    BY <1>7 DEF SetupNewFull, SetOut
  <2> DEFINE p == [Address EXCEPT !.dst = b]
             s == EraseIf(b) \o <<"merge_data">>
             c == lut.free[b] = "clean"
  <2>2. fsd' = SetOut(p, s, c, o, SetAt)
    BY <2>1
  <2>4. /\ p \in PosType /\ p.dst = b /\ p.src = Address.src /\ b \in Phy /\ b \notin Keys(lut)
        /\ p.logical = Address.logical /\ p.off = Address.off /\ p.len = Address.len
    BY <1>3, <1>4, <2>1
  <2>5. Body(s) /\ InOrder(s) /\ Has(s, "erase_dst") /\ ~ Has(s, "read_last")
        /\ ~ Has(s, "write_last")
    <3>1. s = <<"erase_dst", "merge_data">>
      BY <1>3, JoinedStacks DEF EraseIf
    <3>2. Body(s)
      BY WholeStacks, CopyStack
    <3> QED BY <3>1, <3>2, WriteOrder
  <2> HIDE DEF p, s, c
  <2>8. MarkInv(Took(b), SetOut(p, s, c, o, SetAt), flash)
    BY <1>1, <2>4, <2>5, SetupMarks DEF o
  <2> QED BY <1>1, <2>1, <2>2, <2>8
<1>8. CASE SetupCopy
  <2> DEFINE w == IF config.mode # "peb" THEN <<"copy_first", "write_data", "copy_last">>
                  ELSE <<"read_first", "read_last", "write_first", "write_data", "write_last">>
  <2>1. PICK b \in Free :
          /\ lut' = Took(b)
          /\ fsd' = SetOut([Address EXCEPT !.dst = b],
                           EraseIf(b) \o <<"select_src">> \o w \o <<"erase_src">>,
                           lut.free[b] = "clean", o, SetAt)
    BY <1>8 DEF SetupCopy, SetOut
  <2> DEFINE p == [Address EXCEPT !.dst = b]
             s == EraseIf(b) \o <<"select_src">> \o w \o <<"erase_src">>
             c == lut.free[b] = "clean"
  <2>2. fsd' = SetOut(p, s, c, o, SetAt)
    BY <2>1
  <2>4. /\ p \in PosType /\ p.dst = b /\ p.src = Address.src /\ b \in Phy /\ b \notin Keys(lut)
        /\ p.logical = Address.logical /\ p.off = Address.off /\ p.len = Address.len
    BY <1>3, <1>4, <2>1
  <2>5. Copying(s) /\ InOrder(s) /\ Has(s, "erase_dst") /\ ~ Has(s, "read_last")
        /\ ~ Has(s, "write_last")
    <3>1. w = <<"copy_first", "write_data", "copy_last">> /\ EraseIf(b) = <<"erase_dst">>
      BY <1>3 DEF EraseIf, Good
    <3>2. s = <<"erase_dst", "select_src", "copy_first", "write_data", "copy_last", "erase_src">>
      BY <3>1, JoinedStacks
    <3>3. Body(w)
      BY WholeStacks
    <3> HIDE DEF w
    <3>4. Copying(s)
      BY <3>3, CopyStack
    <3> QED BY <3>2, <3>4, WriteOrder
  <2> HIDE DEF p, s, c
  <2>8. MarkInv(Took(b), SetOut(p, s, c, o, SetAt), flash)
    BY <1>1, <2>4, <2>5, SetupMarks DEF o
  <2> QED BY <1>1, <2>1, <2>2, <2>8
<1> QED BY <1>5, <1>6, <1>7, <1>8

\* A write that is done in part of a block that holds nothing ...
LEMMA PartialMarks ==
  ASSUME IsFsd(fsd), Setting, NEW p \in PosType, Partial(p), NEW t, MapsRight(t),
         \A k \in Keys(t) : k = p.dst \/ True(t, flash, k),
         ZoneOf(p.logical) \in t.valid_zones, AfterOf(p) <= PageCnt, p.src = INVALID,
         flash[p.dst] = Blank
  PROVE  MarkInv(t, fsd', flash)
<1> DEFINE s == <<"write_first", "write_data", "write_last">>
           buf == [q \in Pages |-> IF q \in p.off .. p.off + p.len - 1 THEN fsd.block_buf[q]
                                   ELSE Fill]
           no == FALSE
           a == SetAt
           g == fsd'
<1>1. fsd' = [fsd EXCEPT !.pos = p, !.clean_dst = no, !.bmap_avail = no, !.req_suspend = no,
                         !.at = a, !.block_buf = buf, !.req_fn = s]
  BY DEF Partial
<1>2. a \in {"idle", "get"} /\ ~ no
  BY DEF SetAt
<1>3. Body(s) /\ InOrder(s) /\ ~ Has(s, "erase_dst") /\ ~ Has(s, "read_last")
  BY WholeStacks, WriteOrder
<1>4. buf = [c \in Pages |-> buf[c]]
  OBVIOUS
<1>5. \A c \in Pages : c >= AfterOf(p) => buf[c] = Fill
  BY DEF AfterOf, Pages, PosType
<1> HIDE DEF s, buf, no, a, g
<1>6. /\ g.pos = p /\ g.req_fn = s /\ g.at = a /\ g.block_buf = buf
      /\ g.req_suspend = no /\ g.bmap_avail = no
  BY <1>1 DEF IsFsd, g
<1>7. ~ Suspended(g) /\ g.at # "out"
  BY <1>2, <1>6 DEF Suspended
<1>8. Buffered(t, g)
  BY <1>5, <1>6 DEF Buffered, Low
<1>9. High(flash, p)
  BY DEF High, Blank, Low
<1>10. ~ Copies(p)
  BY FtlAssumption DEF Copies
<1>11. MarkInv(t, g, flash)
  BY <1>3, <1>4, <1>6, <1>7, <1>8, <1>9, <1>10, WriteBegins
<1> QED BY <1>11 DEF g

\* ... or waits for a node of the map.
LEMMA WaitMarks ==
  ASSUME NEW t, NEW g, NEW fl, Suspended(g), g.req_fn = <<>>, g.at # "out", MapsRight(t),
         \A k \in Keys(t) : k = g.pos.dst \/ True(t, fl, k),
         ZoneOf(g.pos.logical) \in t.valid_zones, AfterOf(g.pos) <= PageCnt,
         g.pos.src = INVALID, g.block_buf = [c \in Pages |-> g.block_buf[c]]
  PROVE  MarkInv(t, g, fl)
<1>1. /\ ~ ErasesDst(g) /\ ~ ReadsLast(g) /\ ~ Has(g.req_fn, "write_last") /\ ~ Out(g, "last")
      /\ InOrder(g.req_fn)
  BY StackOrder DEF ErasesDst, ReadsLast, Out
<1>2. Works(g) /\ OutRight(g) /\ ~ Committing(g) /\ ~ Copies(g.pos)
  BY FtlAssumption DEF Works, OutRight, Committing, Copies
<1>3. g.req_fn # <<"lookup_block">> /\ g.req_fn # <<"resolve">> /\ g.req_fn # <<"erase_src">>
  OBVIOUS
<1>4. ~ Erasing(g) /\ ~ LooksUp(g) /\ ~ Resolves(g)
  BY <1>3 DEF Erasing, LooksUp, Resolves
<1>5. MarksTrue(t, g, fl)
  BY <1>1, <1>2 DEF MarksTrue
<1>6. WorkRight(t, g, fl)
  BY <1>1, <1>2 DEF WorkRight
<1> QED BY <1>1, <1>2, <1>4, <1>5, <1>6 DEF MarkInv

LEMMA InsertMarks ==
  ASSUME NEW t, IsLut(t), MapsRight(t), NEW b \in Phy, b \notin Keys(t), t.free[b] = "no",
         b \div PhyPerZone \in t.valid_zones
  PROVE  LET u == MapInsert(t, b)
         IN  /\ Keys(u) = Keys(t) \cup {b} /\ u.valid_zones = t.valid_zones /\ MapsRight(u)
             /\ \A k \in Keys(u) : u.b_map[k] = IF k = b THEN {} ELSE t.b_map[k]
<1> DEFINE m == [k \in DOMAIN t.b_map \cup {b} |-> IF k = b THEN {} ELSE t.b_map[k]]
           n == t.spare - 1
           u == MapInsert(t, b)
<1>1. u = [t EXCEPT !.b_map = m, !.spare = n]
  BY DEF MapInsert
<1>2. /\ DOMAIN m = DOMAIN t.b_map \cup {b}
      /\ \A k \in DOMAIN m : m[k] = IF k = b THEN {} ELSE t.b_map[k]
  OBVIOUS
<1> HIDE DEF u, m, n
<1>3. u.b_map = m /\ u.valid_zones = t.valid_zones /\ u.free = t.free
  BY <1>1, MapsOf
<1>4. MapsRight(u)
  BY <1>2, <1>3 DEF MapsRight, Keys
<1> QED BY <1>2, <1>3, <1>4 DEF Keys, u

LEMMA PartSetupMarks ==
  ASSUME IInv, Good, "unerased" \notin flaws', MarkInv(lut, fsd, flash),
         SetupNewPart \/ SetupContinue
  PROVE  MarkInv(lut', fsd', flash')
<1>1. /\ Setting /\ Left > 0 /\ flash' = flash /\ fsd.req_fn = <<>> /\ fsd.at # "out"
      /\ ~ fsd.req_suspend
  BY Suspends DEF SetupNewPart, SetupContinue, Ready, Quiet
<1>2. /\ IsFsd(fsd) /\ IsLut(lut) /\ MapsRight(lut)
      /\ fsd.block_buf = [c \in Pages |-> fsd.block_buf[c]]
  BY Basics DEF MarkInv
<1>3. ASSUME NEW b, PartFlaws(b) PROVE flash[b] = Blank
  BY <1>3 DEF PartFlaws, If
<1>4. CASE SetupNewPart
  <2>1. PICK b \in Free :
          /\ lut' = IF MapInserts(lut, b) THEN MapInsert(Took(b), b) ELSE Took(b)
          /\ IF MapInserts(lut, b) \/ config.mode = "peb"
             THEN Partial([Address EXCEPT !.dst = b]) /\ PartFlaws(b)
             ELSE fsd' = [fsd EXCEPT !.pos = [Address EXCEPT !.dst = b], !.at = "idle",
                                     !.clean_dst = FALSE, !.req_suspend = TRUE]
    BY <1>4 DEF SetupNewPart
  <2>2. /\ Address.src = INVALID /\ Address.zone \in lut.valid_zones /\ ~ fsd.bmap_avail
        /\ Address \in PosType /\ Address.logical \in Log
        /\ Address.zone = ZoneOf(Address.logical) /\ AfterOf(Address) <= PageCnt
    BY <1>1, <1>4, Basics, AddressFields, AddressAfter DEF SetupNewPart, Ready
  <2>3. b \in Phy /\ b \in ZonePhy(Address.zone) /\ lut.free[b] # "no" /\ b \notin Keys(lut)
    BY <1>2, <2>1 DEF Free, ZonePhy, MapsRight
  <2> DEFINE p == [Address EXCEPT !.dst = b]
  <2>4. /\ p \in PosType /\ p.dst = b /\ p.logical = Address.logical /\ p.src = Address.src
        /\ p.off = Address.off /\ p.len = Address.len
    BY <2>2, <2>3 DEF PosType
  <2>5. Partial([Address EXCEPT !.dst = b]) => Partial(p)
    OBVIOUS
  <2> HIDE DEF p
  <2>6. /\ MapsRight(Took(b)) /\ Keys(Took(b)) = Keys(lut) /\ IsLut(Took(b))
        /\ Took(b).valid_zones = lut.valid_zones /\ Took(b).free[b] = "no"
        /\ \A k \in Keys(Took(b)) : True(Took(b), flash, k)
    <3>1. \A k \in Keys(lut) : True(lut, flash, k)
      BY <1>1, <2>2, AtRest DEF Suspended
    <3>2. IsLut(Took(b)) /\ Took(b).free[b] = "no"
      BY <1>2, <2>3, Basics, TookLut DEF Took
    <3> QED BY <1>2, <2>3, <3>1, <3>2, TookMarks, TookTrue
  <2>7. ZoneOf(p.logical) \in lut.valid_zones /\ AfterOf(p) <= PageCnt /\ p.src = INVALID
    BY <2>2, <2>4 DEF AfterOf
  <2>8. CASE MapInserts(lut, b)
    <3>1. lut' = MapInsert(Took(b), b) /\ Partial(p) /\ PartFlaws(b)
      BY <2>1, <2>5, <2>8
    <3>2. b \div PhyPerZone \in Took(b).valid_zones
      BY <2>2, <2>3, <2>6 DEF ZonePhy
    <3>3. /\ MapsRight(lut') /\ Keys(lut') = Keys(lut) \cup {b}
          /\ lut'.valid_zones = lut.valid_zones
          /\ \A k \in Keys(lut') : lut'.b_map[k] = IF k = b THEN {} ELSE Took(b).b_map[k]
      BY <2>3, <2>6, <3>1, <3>2, InsertMarks
    <3>4. \A k \in Keys(lut') : k = p.dst \/ True(lut', flash, k)
      BY <2>4, <2>6, <3>3 DEF True
    <3>5. flash[p.dst] = Blank
      BY <1>3, <2>4, <3>1
    <3> QED BY <1>1, <1>2, <2>4, <2>7, <3>1, <3>3, <3>4, <3>5, PartialMarks
  <2>9. CASE ~ MapInserts(lut, b)
    <3> DEFINE no == FALSE
               yes == TRUE
    <3>1. lut' = Took(b)
      BY <2>1, <2>9
    <3>2. fsd' = [fsd EXCEPT !.pos = p, !.at = "idle", !.clean_dst = no, !.req_suspend = yes]
      BY <2>1, <2>9 DEF Good, p
    <3>3. yes
      OBVIOUS
    <3> HIDE DEF no, yes
    <3>4. /\ fsd'.pos = p /\ fsd'.req_fn = <<>> /\ fsd'.at = "idle" /\ fsd'.req_suspend = yes
          /\ fsd'.block_buf = fsd.block_buf
      BY <1>1, <1>2, <3>2 DEF IsFsd
    <3>5. Suspended(fsd')
      BY <3>3, <3>4 DEF Suspended
    <3>6. MarkInv(Took(b), fsd', flash)
      BY <1>2, <2>6, <2>7, <3>4, <3>5, WaitMarks
    <3> QED BY <1>1, <3>1, <3>6
  <2> QED BY <2>8, <2>9
<1>5. CASE SetupContinue
  <2>1. fsd.bmap_avail /\ Partial(pos) /\ lut' = lut /\ PartFlaws(pos.dst)
    BY <1>5 DEF SetupContinue
  <2>2. Suspended(fsd) /\ Works(fsd)
    BY <2>1 DEF Suspended, Works
  <2>3. /\ ZoneOf(pos.logical) \in lut.valid_zones /\ AfterOf(pos) <= PageCnt
        /\ pos.src = INVALID
    BY <2>2 DEF MarkInv, WorkRight, pos
  <2>4. \A k \in Keys(lut) : k = pos.dst \/ True(lut, flash, k)
    BY DEF MarkInv, MarksTrue, pos
  <2>5. flash[pos.dst] = Blank
    BY <1>3, <2>1
  <2>6. pos \in PosType
    BY Basics
  <2>7. MarkInv(lut, fsd', flash)
    BY <1>1, <1>2, <2>1, <2>3, <2>4, <2>5, <2>6, PartialMarks
  <2> QED BY <1>1, <2>1, <2>7
<1> QED BY <1>4, <1>5

LEMMA NodeMarks ==
  ASSUME IInv, MarkInv(lut, fsd, flash), AllocNode
  PROVE  MarkInv(lut', fsd', flash')
<1> DEFINE no == FALSE
           yes == TRUE
           t == [lut EXCEPT !.spare = IF @ = 0 THEN 1 ELSE @]
<1>1. /\ fsd.req_suspend /\ fsd.at = "idle" /\ flash' = flash
      /\ fsd' = [fsd EXCEPT !.req_suspend = no, !.bmap_avail = yes]
  BY DEF AllocNode, Quiet
<1>2. Suspended(fsd) /\ Works(fsd)
  BY <1>1 DEF Suspended, Works
<1>3. Fresh(lut, pos) /\ fsd.req_fn = <<>> /\ pos.dst \in Phy /\ lut.free[pos.dst] = "no"
      /\ pos.dst \in ZonePhy(ZoneOf(pos.logical))
  <2>1. Fresh(lut, pos) /\ pos.dst \in Phy /\ pos.dst # INVALID /\ fsd.req_fn = <<>>
    BY <1>2, Basics, FtlAssumption DEF Writing, Waiting, Fresh, ZonePhy, pos
  <2> QED BY <2>1, Basics DEF Writing, Fresh, pos
<1>4. /\ ZoneOf(pos.logical) \in lut.valid_zones /\ AfterOf(pos) <= PageCnt
      /\ pos.src = INVALID
      /\ fsd.block_buf = [c \in Pages |-> fsd.block_buf[c]] /\ MapsRight(lut) /\ IsLut(lut)
      /\ IsFsd(fsd)
  BY <1>2, Basics DEF MarkInv, WorkRight, pos
<1>5. \A k \in Keys(lut) : k = pos.dst \/ True(lut, flash, k)
  BY DEF MarkInv, MarksTrue, pos
<1>6. /\ MapsRight(lut') /\ lut'.valid_zones = lut.valid_zones
      /\ \A k \in Keys(lut') : k = pos.dst \/ True(lut', flash, k)
  <2>1. CASE lut' = lut
    BY <1>4, <1>5, <2>1
  <2>2. CASE pos.dst \notin DOMAIN lut.b_map /\ lut' = MapInsert(t, pos.dst)
    <3> DEFINE n == IF lut.spare = 0 THEN 1 ELSE lut.spare
    <3>1. n \in Nat
      BY <1>4 DEF IsLut
    <3>2. t = [lut EXCEPT !.spare = n]
      OBVIOUS
    <3> HIDE DEF n, t
    <3>3. t = [free |-> lut.free, valid_zones |-> lut.valid_zones, spare |-> n,
               block_table |-> lut.block_table, b_map |-> lut.b_map]
      BY <1>4, <3>2 DEF IsLut
    <3>4. /\ IsLut(t) /\ t.b_map = lut.b_map /\ t.free = lut.free
          /\ t.valid_zones = lut.valid_zones
      BY <1>4, <3>1, <3>3 DEF IsLut
    <3>5. MapsRight(t) /\ Keys(t) = Keys(lut)
      BY <1>4, <3>4 DEF MapsRight, Keys
    <3>6. pos.dst \div PhyPerZone \in t.valid_zones
      BY <1>3, <1>4, <3>4 DEF ZonePhy
    <3>7. /\ MapsRight(lut') /\ Keys(lut') = Keys(lut) \cup {pos.dst}
          /\ lut'.valid_zones = lut.valid_zones
          /\ \A k \in Keys(lut') : lut'.b_map[k] = IF k = pos.dst THEN {} ELSE lut.b_map[k]
      BY <1>3, <2>2, <3>4, <3>5, <3>6, InsertMarks DEF Keys
    <3>8. \A k \in Keys(lut') : k = pos.dst \/ True(lut', flash, k)
      BY <1>5, <3>7 DEF True
    <3> QED BY <3>7, <3>8
  <2> QED BY <2>1, <2>2 DEF AllocNode
<1>7. yes
  OBVIOUS
<1> HIDE DEF no, yes, t
<1>8. /\ fsd'.pos = pos /\ fsd'.req_fn = <<>> /\ fsd'.at = "idle" /\ fsd'.bmap_avail = yes
      /\ fsd'.block_buf = fsd.block_buf
  BY <1>1, <1>3, <1>4 DEF IsFsd, pos
<1>9. Suspended(fsd')
  BY <1>7, <1>8 DEF Suspended
<1>10. MarkInv(lut', fsd', flash)
  BY <1>4, <1>6, <1>8, <1>9, WaitMarks
<1> QED BY <1>1, <1>10

-----------------------------------------------------------------------------
(* A scan.                                                                 *)

\* A state in which a zone is scanned.
LEMMA LookMarks ==
  ASSUME NEW t, NEW g, NEW fl, MapsRight(t), \A k \in Keys(t) : True(t, fl, k),
         g.req_fn \in {<<"lookup_block">>, <<"resolve">>}, ~ Suspended(g),
         g.at = "out" => g.req_out.end = "lookup_block" /\ g.req_out.cmd = "READ",
         g.pos.zone \notin t.valid_zones, g.block_buf = [c \in Pages |-> g.block_buf[c]]
  PROVE  MarkInv(t, g, fl)
<1>1. {"lookup_block", "resolve"} \subseteq Singles \ {"invalidate_dst"}
  BY DEF Singles
<1>2. Single(g.req_fn) /\ InOrder(g.req_fn) /\ g.req_fn # <<"erase_src">>
  BY <1>1, SingleTop, StackOrder DEF Single
<1>3. ~ Works(g) /\ ~ Erasing(g)
  BY <1>2, StackKinds DEF Works, Erasing, Committing, CommitEnds
<1>4. OutRight(g)
  BY DEF OutRight, Reading
<1> QED BY <1>2, <1>3, <1>4, MarkRest

\* Zones are added, blocks are freed that have no marks.
LEMMA MoreZones ==
  ASSUME NEW t, NEW u, NEW fl, MapsRight(t), Keys(t) \subseteq Phy,
         \A k \in Keys(t) : True(t, fl, k), u.b_map = t.b_map,
         t.valid_zones \subseteq u.valid_zones,
         \A b \in Phy : u.free[b] = t.free[b] \/ (b \notin Keys(t) /\ u.free[b] = "dirty")
  PROVE  MapsRight(u) /\ \A k \in Keys(u) : True(u, fl, k)
BY DEF MapsRight, Keys, True

LEMMA LookupMarks ==
  ASSUME IInv, MarkInv(lut, fsd, flash), LookupBlock
  PROVE  MarkInv(lut', fsd', flash')
<1> DEFINE N == ZoneCnt * PhyPerZone
           next == CHOOSE b \in fsd.scan_pos .. N :
                     /\ b \notin config.special
                     /\ \A c \in fsd.scan_pos .. b - 1 : c \in config.special
           z == pos.zone
           v == lut.valid_zones \cup {z}
<1>1. Calls("lookup_block") /\ "lookup_block" \in Singles
  BY DEF LookupBlock, Singles
<1>2. /\ Tail(fsd.req_fn) = <<>> /\ fsd.req_fn = <<"lookup_block">> /\ ~ Suspended(fsd)
      /\ fsd.at = "get" /\ \A k \in Keys(lut) : True(lut, flash, k)
  BY <1>1, SingleCalled
<1>3. /\ MapsRight(lut) /\ pos.zone \notin lut.valid_zones
      /\ fsd.block_buf = [c \in Pages |-> fsd.block_buf[c]] /\ IsLut(lut) /\ IsFsd(fsd)
      /\ Keys(lut) \subseteq Phy
  BY <1>2, Basics DEF MarkInv, LooksUp, pos, Keys, IsLut
<1>4. /\ flash' = flash
      /\ \/ Submit([fsd EXCEPT !.scan_pos = next], "READ", next, 0, 0, "lookup_block")
         \/ /\ lut' = [lut EXCEPT !.valid_zones = v]
            /\ fsd' = [Popped EXCEPT !.scan_pos = next]
  BY DEF LookupBlock, Submit, Quiet
<1> HIDE DEF next, v
<1>5. CASE Submit([fsd EXCEPT !.scan_pos = next], "READ", next, 0, 0, "lookup_block")
  <2> DEFINE o == [cmd |-> "READ", blk |-> next, from |-> 0, cnt |-> 0, end |-> "lookup_block"]
  <2>1. fsd' = [fsd EXCEPT !.scan_pos = next, !.req_out = o, !.at = "out"] /\ lut' = lut
    BY <1>5 DEF Submit
  <2>2. o.cmd = "READ" /\ o.end = "lookup_block"
    OBVIOUS
  <2> HIDE DEF o
  <2>3. /\ fsd'.pos = fsd.pos /\ fsd'.req_fn = fsd.req_fn /\ fsd'.at = "out" /\ fsd'.req_out = o
        /\ fsd'.block_buf = fsd.block_buf /\ fsd'.req_suspend = fsd.req_suspend
        /\ fsd'.bmap_avail = fsd.bmap_avail
    BY <1>3, <2>1 DEF IsFsd
  <2>4. ~ Suspended(fsd')
    BY <1>2, <2>3 DEF Suspended
  <2>5. MarkInv(lut, fsd', flash)
    BY <1>2, <1>3, <2>2, <2>3, <2>4, LookMarks DEF pos
  <2> QED BY <1>4, <2>1, <2>5
<1>6. CASE /\ lut' = [lut EXCEPT !.valid_zones = v]
           /\ fsd' = [Popped EXCEPT !.scan_pos = next]
  <2>1. /\ Popped.at = "get" /\ Popped.req_fn = <<>> /\ Popped.block_buf = fsd.block_buf
        /\ ~ Suspended(Popped) /\ IsFsd(Popped)
    BY <1>2, <1>3, PoppedFields, PoppedBuf DEF Suspended
  <2>2. /\ fsd'.req_fn = <<>> /\ fsd'.at = "get" /\ fsd'.block_buf = fsd.block_buf
        /\ fsd'.req_suspend = Popped.req_suspend /\ fsd'.bmap_avail = Popped.bmap_avail
    BY <1>6, <2>1 DEF IsFsd
  <2>3. lut'.b_map = lut.b_map /\ lut'.free = lut.free /\ lut.valid_zones \subseteq lut'.valid_zones
    BY <1>3, <1>6 DEF IsLut, v
  <2>4. MapsRight(lut') /\ \A k \in Keys(lut') : True(lut', flash, k)
    BY <1>2, <1>3, <2>3, MoreZones
  <2>5. ~ Suspended(fsd') /\ fsd'.at # "out"
    BY <2>1, <2>2 DEF Suspended
  <2>6. MarkInv(lut', fsd', flash)
    BY <1>3, <2>2, <2>4, <2>5, MarkIdle
  <2> QED BY <1>4, <2>6
<1> QED BY <1>4, <1>5, <1>6

\* What a scan does to the maps of the blocks: those it frees are in its zone.
Frees(t) == /\ t.b_map = lut.b_map /\ t.valid_zones = lut.valid_zones /\ IsLut(t)
            /\ \A b \in Phy : t.free[b] = lut.free[b] \/ (b \notin Keys(lut) /\ t.free[b] = "dirty")

LEMMA ScanFrees ==
  ASSUME IInv, MarkInv(lut, fsd, flash), fsd.at = "out", LooksUp(fsd) \/ Resolves(fsd)
  PROVE  /\ ~ Works(fsd) /\ pos.zone \notin lut.valid_zones
         /\ LET here == fsd.scan_pos
                z    == pos.zone
            IN /\ Frees(lut) /\ Frees(Dirtied(lut, here))
               /\ \A l \in ZoneLog(z) : Frees(Mapped(lut, l, here)) /\ Frees(Replaced(lut, l, here))
<1> DEFINE here == fsd.scan_pos
           z    == pos.zone
<1>1. /\ Scanning(lut, fsd) /\ z \in Zones /\ here \in Phy /\ here \in ZonePhy(z)
  BY ScanHere
<1>2. z \notin lut.valid_zones /\ MapsRight(lut) /\ IsLut(lut)
  BY Basics DEF MarkInv, pos
<1>3. \A b \in ZonePhy(z) : b \notin Keys(lut)
  BY <1>2 DEF MapsRight, ZonePhy
<1>4. ~ Works(fsd)
  <2>1. /\ ~ Committing(fsd)
        /\ fsd.req_fn \in {<<"lookup_block">>, <<"resolve">>, <<>>}
    <3> DEFINE q == fsd.req_fn
               end == fsd.req_out.end
    <3>1. /\ end \in CommitEnds => q \in {<<>>, <<"erase_src">>}
          /\ end = "resolve" => q = <<>>
      BY EndsWith
    <3>2. \/ q = <<"lookup_block">> \/ q = <<"resolve">> \/ end = "resolve"
      BY DEF LooksUp, Resolves
    <3> HIDE DEF q, end
    <3>3. end = "resolve" => end \notin CommitEnds
      BY DEF CommitEnds
    <3>4. <<"lookup_block">> \notin {<<>>, <<"erase_src">>} /\ <<"resolve">> \notin {<<>>, <<"erase_src">>}
      BY SingleTop
    <3>5. end \notin CommitEnds /\ q \in {<<"lookup_block">>, <<"resolve">>, <<>>}
      BY <3>1, <3>2, <3>3, <3>4
    <3> QED BY <3>5 DEF Committing, q, end
  <2>2. ~ Body(fsd.req_fn) /\ ~ Copying(fsd.req_fn)
    BY <2>1, StackKinds DEF Commits
  <2> QED BY <2>1, <2>2, NotWaiting DEF Works
<1> HIDE DEF here, z
<1>5. ASSUME NEW t, IsLut(t), NEW b \in Phy, b \notin Keys(lut), t.b_map = lut.b_map,
             t.valid_zones = lut.valid_zones,  t.free = lut.free
      PROVE  Frees(Dirtied(t, b))
  <2> DEFINE fr == [t.free EXCEPT ![b] = "dirty"]
             u == Dirtied(t, b)
  <2>1. u = [t EXCEPT !.free = fr]
    BY DEF Dirtied, Put
  <2>2. fr \in [Phy -> {"no", "clean", "dirty"}]
        /\ \A c \in Phy : fr[c] = IF c = b THEN "dirty" ELSE lut.free[c]
    BY <1>5 DEF IsLut
  <2> HIDE DEF fr, u
  <2>3. u = [free |-> fr, valid_zones |-> t.valid_zones, spare |-> t.spare,
             block_table |-> t.block_table, b_map |-> t.b_map]
    BY <1>5, <2>1 DEF IsLut
  <2>4. IsLut(u)
    BY <1>5, <2>2, <2>3 DEF IsLut
  <2>5. u.free = fr /\ u.b_map = lut.b_map /\ u.valid_zones = lut.valid_zones
    BY <1>5, <2>3
  <2>6. Frees(u)
    BY <1>5, <2>2, <2>4, <2>5 DEF Frees
  <2> QED BY <2>6 DEF u
<1>6. Frees(lut) /\ Frees(Dirtied(lut, here))
  <2>1. Frees(lut)
    BY <1>2 DEF Frees
  <2> QED BY <1>1, <1>2, <1>3, <1>5, <2>1
<1>7. ASSUME NEW l \in ZoneLog(z)
      PROVE  Frees(Mapped(lut, l, here)) /\ Frees(Replaced(lut, l, here))
  <2> DEFINE m == Mapped(lut, l, here)
             table == [lut.block_table EXCEPT ![l] = here]
             c == lut.block_table[l]
  <2>1. m = [free |-> lut.free, valid_zones |-> lut.valid_zones, spare |-> lut.spare,
             block_table |-> table, b_map |-> lut.b_map]
    BY <1>2 DEF Mapped, IsLut
  <2>2. table \in [Log -> Phy \cup {INVALID}] /\ l \in Log /\ ZoneOf(l) = z
    BY <1>1, <1>2, <1>7 DEF IsLut, ZoneLog
  <2>3. c # INVALID => c \in ZonePhy(z) /\ c \in Phy
    BY <2>2, Basics DEF Apart, ZonePhy
  <2>4. Replaced(lut, l, here) = IF c = INVALID THEN m ELSE Dirtied(m, c)
    BY DEF Replaced
  <2> HIDE DEF m, table, c
  <2>5. /\ IsLut(m) /\ m.b_map = lut.b_map /\ m.valid_zones = lut.valid_zones
        /\ m.free = lut.free
    BY <1>2, <2>1, <2>2 DEF IsLut
  <2>6. Frees(m)
    BY <2>5 DEF Frees
  <2>7. c # INVALID => Frees(Dirtied(m, c))
    BY <1>3, <1>5, <2>3, <2>5
  <2> QED BY <2>4, <2>6, <2>7 DEF m
<1> QED BY <1>2, <1>4, <1>6, <1>7 DEF here, z

LEMMA ScannedMarks ==
  ASSUME IInv, MarkInv(lut, fsd, flash), fsd.at = "out", LooksUp(fsd) \/ Resolves(fsd),
         NEW t, Frees(t), NEW f, IsFsd(f), SameWork(f, fsd), f.block_buf = fsd.block_buf,
         Scanned(t, f), flash' = flash
  PROVE  MarkInv(lut', fsd', flash')
<1> DEFINE z == pos.zone
           n == f.scan_pos + 1
           s == <<"lookup_block">>
           e == <<>>
           v == t.valid_zones \cup {z}
<1>1. /\ ~ Works(fsd) /\ z \notin lut.valid_zones /\ ~ Suspended(fsd)
      /\ \A k \in Keys(lut) : True(lut, flash, k)
  BY ScanFrees, AllTrue, NotWaiting
<1>2. /\ MapsRight(lut) /\ fsd.block_buf = [c \in Pages |-> fsd.block_buf[c]] /\ IsLut(t)
      /\ Keys(lut) \subseteq Phy
  BY Basics DEF MarkInv, Keys, IsLut, Frees
<1>3. f.pos = pos /\ ~ Suspended(f)
  BY <1>1 DEF SameWork, Suspended, pos
<1>4. CASE n >= ZoneEnd
  <2>1. PICK a \in {"idle", "late"} : fsd' = AtScan(f, n, e, a)
    BY <1>4 DEF Scanned, AtScan
  <2>2. lut' = [t EXCEPT !.valid_zones = v]
    BY <1>4 DEF Scanned
  <2>3. lut'.b_map = t.b_map /\ lut'.free = t.free /\ t.valid_zones \subseteq lut'.valid_zones
    BY <1>2, <2>2 DEF IsLut
  <2> HIDE DEF n, e
  <2>4. /\ fsd'.req_fn = e /\ fsd'.req_suspend = f.req_suspend /\ fsd'.bmap_avail = f.bmap_avail
        /\ fsd'.at = a /\ fsd'.block_buf = f.block_buf
    BY <2>1, ScanFields, BufKept
  <2>5. ~ Suspended(fsd') /\ fsd'.at # "out"
    BY <1>3, <2>4 DEF Suspended
  <2>6. MapsRight(lut') /\ \A k \in Keys(lut') : True(lut', flash, k)
    BY <1>1, <1>2, <2>3, MoreZones DEF Frees
  <2> QED BY <1>2, <2>4, <2>5, <2>6, MarkIdle DEF e
<1>5. CASE ~ (n >= ZoneEnd)
  <2>1. fsd' = AtScan(f, n, s, "idle") /\ lut' = t
    BY <1>5 DEF Scanned, AtScan
  <2> HIDE DEF n, s
  <2>4. /\ fsd'.req_fn = s /\ fsd'.req_suspend = f.req_suspend /\ fsd'.bmap_avail = f.bmap_avail
        /\ fsd'.at = "idle" /\ fsd'.block_buf = f.block_buf /\ fsd'.pos = f.pos
    BY <2>1, ScanFields, BufKept
  <2>5. ~ Suspended(fsd') /\ fsd'.at # "out"
    BY <1>3, <2>4 DEF Suspended
  <2>6. MapsRight(lut') /\ \A k \in Keys(lut') : True(lut', flash, k)
    BY <1>1, <1>2, <2>1, MoreZones DEF Frees
  <2>7. fsd'.pos.zone \notin lut'.valid_zones
    BY <1>1, <1>3, <2>1, <2>4 DEF Frees
  <2> QED BY <1>2, <2>4, <2>5, <2>6, <2>7, LookMarks DEF s
<1> QED BY <1>4, <1>5

-----------------------------------------------------------------------------
(* The ends of commands.                                                   *)

\* A command that has not failed, in a state in which none has before.
Well(r) == /\ r.error = "no" /\ r.blk \in Done(flash[out.blk]) /\ ~ Unerased
           /\ flash' = [flash EXCEPT ![out.blk] = r.blk]

LEMMA GoodEnd ==
  ASSUME Counted, NEW r \in Results, Ended(r), Good'
  PROVE  Good /\ Well(r)
<1>1. /\ flash' = [flash EXCEPT ![out.blk] = r.blk] /\ config' = config
      /\ used'  = IF r.error = "no" THEN used ELSE [used EXCEPT !.troubles = used.troubles + 1]
      /\ flaws' = flaws \cup If("unerased", Unerased) \cup If("misnamed", Misnamed)
                     \cup If("in place", InPlace /\ r.error # "no")
  BY DEF Ended
<1>2. config'.mode = "inc" /\ used'.troubles = 0 /\ "unerased" \notin flaws'
  BY DEF Good
<1>3. r.error = "no"
  <2>1. SUFFICES ASSUME r.error # "no" PROVE FALSE
    OBVIOUS
  <2>2. used'.troubles = used.troubles + 1
    BY <1>1, <2>1 DEF Counted
  <2> QED BY <1>2, <2>2 DEF Counted
<1>4. Good /\ ~ Unerased
  BY <1>1, <1>2, <1>3 DEF Good, If
<1>5. r.blk \in Done(flash[out.blk])
  BY <1>3 DEF Results
<1> QED BY <1>1, <1>3, <1>4, <1>5 DEF Well

Writes == {"merge", "write", "first", "last"}

LEMMA EndEffect ==
  ASSUME IInv, OutRight(fsd), fsd.at = "out", NEW r, Well(r)
  PROVE  /\ \A b \in Phy : b # out.blk => flash'[b] = flash[b]
         /\ out.end \in Reading => flash' = flash
         /\ out.end = "select" => \A b \in Phy : flash'[b].pages = flash[b].pages
         /\ out.end \in {"erase_src", "erase_dst"} /\ out.blk \in Phy => flash'[out.blk] = Blank
         /\ out.end \in Writes /\ out.blk \in Phy =>
              \A c \in Pages : flash'[out.blk].pages[c] =
                                 IF c \in Cells THEN Data[c] ELSE flash[out.blk].pages[c]
<1> DEFINE b == flash[out.blk]
<1>1. /\ flash' = [flash EXCEPT ![out.blk] = r.blk] /\ r.blk \in Done(b) /\ ~ Unerased
      /\ flash = [c \in Phy |-> flash[c]]
  BY Basics DEF Well, Labels
<1>2. /\ \A c \in Phy : c # out.blk => flash'[c] = flash[c]
      /\ out.blk \in Phy => flash'[out.blk] = r.blk
      /\ r.blk = b => flash' = flash
  BY <1>1
<1>3. ASSUME out.end \in Reading PROVE flash' = flash
  <2>1. out.cmd = "READ" /\ out.end \notin {"invalidate", "select"}
    BY <1>3 DEF OutRight, out, Reading
  <2>2. Done(b) = {b}
    BY <2>1 DEF Done
  <2> QED BY <1>1, <1>2, <2>2
<1>4. ASSUME out.end = "select", NEW c \in Phy PROVE flash'[c].pages = flash[c].pages
  <2>1. out.cmd = "OVERWRITE"
    BY <1>4 DEF OutRight, out
  <2>2. r.blk = [b EXCEPT !.label.mark = "selected"]
    BY <1>1, <1>4, <2>1 DEF Done
  <2>3. CASE c = out.blk
    <3>1. IsBlock(b)
      BY <2>3, Basics DEF Labels
    <3>2. r.blk.pages = b.pages
      BY <2>2, <3>1 DEF IsBlock
    <3> QED BY <1>2, <2>3, <3>2
  <2> QED BY <1>2, <2>3
<1>5. ASSUME out.end \in {"erase_src", "erase_dst"}, out.blk \in Phy PROVE flash'[out.blk] = Blank
  <2>1. out.cmd = "ERASE"
    BY <1>5 DEF OutRight, out
  <2>2. r.blk = Blank
    BY <1>1, <1>5, <2>1 DEF Done
  <2> QED BY <1>2, <1>5, <2>2
<1>6. ASSUME out.end \in Writes, out.blk \in Phy, NEW c \in Pages
      PROVE  flash'[out.blk].pages[c] = IF c \in Cells THEN Data[c] ELSE flash[out.blk].pages[c]
  <2>1. out.cmd \in {"WRITE", "COPY"} /\ out.end \notin {"invalidate", "select"}
    BY <1>6 DEF OutRight, out, Writes
  <2>2. r.blk = Programmed(b, out.cnt)
    BY <1>1, <2>1 DEF Done
  <2>3. c \in Cells => b.pages[c] = Erased
    BY <1>1, <2>1 DEF Unerased, Programs
  <2>4. r.blk.pages[c] = IF c \notin Cells THEN b.pages[c]
                         ELSE IF b.pages[c] = Erased THEN Data[c] ELSE Garbage
    BY <2>2 DEF Programmed, Cells
  <2>5. r.blk.pages[c] = IF c \in Cells THEN Data[c] ELSE b.pages[c]
    BY <2>3, <2>4
  <2>6. flash'[out.blk] = r.blk
    BY <1>2, <1>6
  <2> HIDE DEF b
  <2> QED BY <2>5, <2>6 DEF b
<1> QED BY <1>2, <1>3, <1>4, <1>5, <1>6

\* What end_request has read of a label changes nothing that is about the marks.
LEMMA LookedAtMarks ==
  ASSUME IInv, NEW b \in Phy, NEW c
  PROVE  LET g == ReadLabel(b)
             f == [g EXCEPT !.conflict_pos = c]
         IN  /\ IsFsd(g) /\ SameWork(g, fsd) /\ g.block_buf = fsd.block_buf
             /\ IsFsd(f) /\ SameWork(f, fsd) /\ f.block_buf = fsd.block_buf
<1> DEFINE n == IF flash[b].label = Unreadable THEN NoLabel ELSE flash[b].label
           g == ReadLabel(b)
           f == [g EXCEPT !.conflict_pos = c]
<1>1. g = [fsd EXCEPT !.dst_oob = n]
  BY DEF ReadLabel
<1> HIDE DEF n
<1>2. IsFsd(g) /\ SameWork(g, fsd) /\ g.block_buf = fsd.block_buf
  BY <1>1, ReadFields, Basics, BufKept
<1> HIDE DEF g
<1>3. IsFsd(f) /\ SameWork(f, g) /\ f.block_buf = g.block_buf
  BY <1>2, ConflictFields, BufKept
<1> HIDE DEF f
<1>4. SameWork(f, fsd) /\ f.block_buf = fsd.block_buf
  BY <1>2, <1>3 DEF SameWork
<1> QED BY <1>2, <1>3, <1>4 DEF f, g

LEMMA EndLookupMarks ==
  ASSUME IInv, Counted, Good', Good => MarkInv(lut, fsd, flash), EndLookupBlock
  PROVE  MarkInv(lut', fsd', flash')
<1> DEFINE here == fsd.scan_pos
           info == Info(flash[here].label)
           other == IF info.log = INVALID THEN fsd.conflict_pos ELSE lut.block_table[info.log]
           f == [ReadLabel(here) EXCEPT !.conflict_pos = other]
           z == pos.zone
<1>1. fsd.at = "out" /\ fsd.req_out.end = "lookup_block"
  BY DEF EndLookupBlock, EndOf, out
<1>2. LooksUp(fsd) /\ ~ Suspended(fsd)
  BY <1>1, EndsWith, NotWaiting
<1>3. here \in Phy /\ IsLabel(flash[here].label) /\ z \in Zones
  BY <1>1, <1>2, ScanHere, SMTT(30)
<1>4. PICK r \in Results :
        /\ Ended(r)
        /\ \/ r.error # "no"
           \/ Scanned(Dirtied(lut, here), f)
           \/ Scanned(lut, f)
           \/ /\ info.status \in {"mapped", "selected"}
              /\ Scanned(IF info.log = INVALID
                         THEN IF other = INVALID THEN lut ELSE Dirtied(lut, other)
                         ELSE IF other = INVALID THEN Mapped(lut, info.log, here)
                         ELSE Dirtied(Mapped(lut, info.log, here), other), f)
           \/ UNCHANGED lut /\ Idles([f EXCEPT !.req_fn = <<"resolve">>])
  <2> HIDE DEF info, here
  <2> QED BY ZenonT(30) DEF EndLookupBlock, Dirtied, Mapped, here, info
<1>5. Good /\ Well(r) /\ MarkInv(lut, fsd, flash) /\ OutRight(fsd)
  BY <1>4, GoodEnd DEF MarkInv
<1>6. flash' = flash /\ r.error = "no"
  BY <1>1, <1>5, EndEffect DEF Well, Reading, out
<1>7. /\ info.log = INVALID => info.status \in {"failure", "unmapped"}
      /\ info.log # INVALID => info.log \in ZoneLog(z)
  BY <1>3, InfoFields
<1>8. IsFsd(f) /\ SameWork(f, fsd) /\ f.block_buf = fsd.block_buf
  BY <1>3, LookedAtMarks
<1>9. /\ ~ Works(fsd) /\ z \notin lut.valid_zones
      /\ Frees(lut) /\ Frees(Dirtied(lut, here))
      /\ \A l \in ZoneLog(z) : Frees(Mapped(lut, l, here)) /\ Frees(Replaced(lut, l, here))
  BY <1>1, <1>2, <1>5, ScanFrees
<1> HIDE DEF here, info, other, f, z
<1>10. ASSUME NEW t, Frees(t), Scanned(t, f) PROVE MarkInv(lut', fsd', flash')
  BY <1>1, <1>2, <1>5, <1>6, <1>8, <1>10, ScannedMarks
<1>11. CASE /\ info.status \in {"mapped", "selected"}
            /\ Scanned(IF info.log = INVALID
                       THEN IF other = INVALID THEN lut ELSE Dirtied(lut, other)
                       ELSE IF other = INVALID THEN Mapped(lut, info.log, here)
                       ELSE Dirtied(Mapped(lut, info.log, here), other), f)
  <2>1. info.log # INVALID /\ info.log \in ZoneLog(z)
    BY <1>7, <1>11
  <2>2. other = lut.block_table[info.log]
    BY <2>1 DEF other
  <2>3. CASE other = INVALID
    BY <1>9, <1>10, <1>11, <2>1, <2>3
  <2>4. CASE other # INVALID
    <3>1. Replaced(lut, info.log, here) = Dirtied(Mapped(lut, info.log, here), other)
      BY <2>2, <2>4 DEF Replaced
    <3> QED BY <1>9, <1>10, <1>11, <2>1, <2>4, <3>1
  <2> QED BY <2>3, <2>4
<1>12. CASE UNCHANGED lut /\ Idles([f EXCEPT !.req_fn = <<"resolve">>])
  <2> DEFINE s == <<"resolve">>
             g == fsd'
  <2>1. lut' = lut /\ g = [[f EXCEPT !.req_fn = s] EXCEPT !.at = "idle"]
    BY <1>12 DEF Idles
  <2> HIDE DEF s, g
  <2>2. /\ g.pos = f.pos /\ g.req_fn = s /\ g.at = "idle" /\ g.block_buf = f.block_buf
        /\ g.req_suspend = f.req_suspend /\ g.bmap_avail = f.bmap_avail
    BY <1>8, <2>1 DEF IsFsd
  <2>3. f.pos = pos /\ ~ Suspended(g)
    BY <1>2, <1>8, <2>2 DEF SameWork, Suspended, pos
  <2>4. /\ MapsRight(lut) /\ \A k \in Keys(lut) : True(lut, flash, k)
    BY <1>5, <1>9, AllTrue DEF MarkInv
  <2>5. /\ g.pos.zone \notin lut.valid_zones /\ g.block_buf = [c \in Pages |-> g.block_buf[c]]
    BY <1>5, <1>8, <1>9, <2>2, <2>3 DEF MarkInv, z
  <2>6. MarkInv(lut, g, flash)
    BY <2>2, <2>3, <2>4, <2>5, LookMarks DEF s
  <2> QED BY <1>6, <2>1, <2>6 DEF g
<1> QED BY <1>4, <1>6, <1>9, <1>10, <1>11, <1>12, SMTT(30)

LEMMA EndResolveMarks ==
  ASSUME IInv, Counted, Good', Good => MarkInv(lut, fsd, flash), EndResolve
  PROVE  MarkInv(lut', fsd', flash')
<1> DEFINE here == fsd.scan_pos
           c == fsd.conflict_pos
           z == pos.zone
           f == ReadLabel(c)
<1>1. fsd.at = "out" /\ fsd.req_out.end = "resolve"
  BY Zenon DEF EndResolve, EndOf, out
<1>2. Resolves(fsd)
  BY <1>1, EndsWith
<1>3. Scanning(lut, fsd)
  BY <1>2, ScanHere
<1>4. PICK l \in ZoneLog(z) : c = lut.block_table[l] /\ c # INVALID
  BY <1>2, <1>3 DEF Scanning, pos
<1>5. flash[c].label.log = l /\ c \in Phy
  <2>1. flash[c].label.log = l
    BY <1>3, <1>4 DEF Scanning, pos
  <2>2. c \in Phy
    BY <1>4, Basics DEF IsLut, ZoneLog
  <2> QED BY <2>1, <2>2
<1>6. PICK r \in Results :
        /\ Ended(r)
        /\ \/ Scanned(lut, f)
           \/ Scanned(Dirtied(lut, here), f)
           \/ Scanned(Mapped(Dirtied(lut, c), l, here), f)
  <2>1. \E r \in Results :
          /\ Ended(r)
          /\ \/ Scanned(lut, f)
             \/ Scanned(Put(lut, here, TRUE), f)
             \/ Scanned([Put(lut, lut.block_table[flash[c].label.log], TRUE) EXCEPT
                           !.block_table[flash[c].label.log] = here], f)
    BY Zenon DEF EndResolve
  <2> QED BY <1>4, <1>5, <2>1 DEF Mapped, Dirtied
<1>7. Good /\ Well(r) /\ MarkInv(lut, fsd, flash) /\ OutRight(fsd)
  BY <1>6, GoodEnd DEF MarkInv
<1>8. flash' = flash
  BY <1>1, <1>7, EndEffect DEF Reading, out
<1>9. IsFsd(f) /\ SameWork(f, fsd) /\ f.block_buf = fsd.block_buf
  BY <1>5, LookedAtMarks
<1>10. Frees(lut) /\ Frees(Dirtied(lut, here)) /\ Frees(Mapped(Dirtied(lut, c), l, here))
  <2>1. /\ Frees(lut) /\ Frees(Dirtied(lut, here)) /\ Frees(Replaced(lut, l, here))
    BY <1>1, <1>2, <1>7, ScanFrees
  <2>2. flash[here].label.log = l
    <3>1. PICK k \in ZoneLog(z) : c = lut.block_table[k] /\ flash[here].label.log = k
      BY <1>2, <1>3 DEF Scanning, pos
    <3>2. k = l
      BY <1>4, <3>1, Basics DEF Apart, ZoneLog
    <3> QED BY <3>1, <3>2
  <2>3. Mapped(Dirtied(lut, c), l, here) = Replaced(lut, l, here)
    BY <1>1, <1>2, <1>4, <2>2, LookedAt
  <2> QED BY <2>1, <2>3
<1> HIDE DEF f, here, c
<1>11. ASSUME NEW t, Frees(t), Scanned(t, f) PROVE MarkInv(lut', fsd', flash')
  BY <1>1, <1>2, <1>7, <1>8, <1>9, <1>11, ScannedMarks
<1> QED BY <1>6, <1>10, <1>11

\* One command of a write is done, and there are more.
LEMMA EarlyEndMarks ==
  ASSUME IInv, MarkInv(lut, fsd, flash), fsd.at = "out", out.end \in EarlyEnds, NEW r, Well(r),
         NEW g, g.pos = pos, g.req_fn = fsd.req_fn, ~ Suspended(g), g.at = "idle",
         g.block_buf = IF out.end \in {"read_first", "read_last"}
                       THEN [c \in Pages |-> IF c \in Cells THEN Reads(flash[pos.src].pages[c])
                                             ELSE fsd.block_buf[c]]
                       ELSE fsd.block_buf
  PROVE  MarkInv(lut, g, flash')
<1> DEFINE end == out.end
<1>1. /\ Body(fsd.req_fn) \/ Copying(fsd.req_fn)
      /\ Fresh(lut, pos) /\ fsd.req_out.end \in EarlyEnds
  BY EndsWith DEF out
<1>2. /\ Works(fsd) /\ WorkRight(lut, fsd, flash) /\ OutRight(fsd) /\ InOrder(fsd.req_fn)
      /\ MapsRight(lut) /\ fsd.block_buf = [c \in Pages |-> fsd.block_buf[c]]
      /\ MarksTrue(lut, fsd, flash)
  BY <1>1, WorkKinds DEF MarkInv
<1>3. /\ \A b \in Phy : b # out.blk => flash'[b] = flash[b]
      /\ end \in Reading => flash' = flash
      /\ end = "select" => \A b \in Phy : flash'[b].pages = flash[b].pages
      /\ end \in {"erase_src", "erase_dst"} /\ out.blk \in Phy => flash'[out.blk] = Blank
      /\ end \in Writes /\ out.blk \in Phy =>
           \A c \in Pages : flash'[out.blk].pages[c] =
                              IF c \in Cells THEN Data[c] ELSE flash[out.blk].pages[c]
  BY <1>2, EndEffect
<1>4. /\ pos.dst \in Phy /\ pos.off \in Nat /\ pos.len \in Nat /\ Keys(lut) \subseteq Phy
      /\ PageCnt \in Nat /\ pos.src \in Phy \cup {INVALID}
  BY <1>1, Basics, FtlAssumption DEF PosType, Fresh, ZonePhy, Keys, IsLut
<1>5. end \in {"select", "first", "read_first", "read_last", "write", "erase_dst"}
  BY DEF EarlyEnds
<1>6. /\ end \in {"write", "first"} => out.blk = pos.dst /\ ~ Has(fsd.req_fn, "erase_dst")
      /\ end = "erase_dst" => out.blk = pos.dst
      /\ end = "read_last" => /\ Has(fsd.req_fn, "erase_dst")
                              /\ out.from = AfterOf(pos) /\ out.cnt = PageCnt - AfterOf(pos)
      /\ end = "read_first" => out.from = 0 /\ out.cnt = pos.off
      /\ end = "write" => out.from = pos.off /\ out.cnt = pos.len
      /\ end = "first" => out.from = 0 /\ out.cnt \in Nat /\ out.cnt <= pos.off
  BY <1>2 DEF OutRight, out, pos, To
<1>7. \A c \in Pages : c \in Nat /\ c < PageCnt
  BY <1>4 DEF Pages
<1>8. \A c \in Pages : c >= AfterOf(pos) /\ end \in {"write", "first", "read_first"} => c \notin Cells
  <2>1. AfterOf(pos) = pos.off + pos.len
    BY DEF AfterOf
  <2> QED BY <1>4, <1>6, <1>7, <2>1 DEF Cells
<1>9. \A c \in Pages : c >= AfterOf(pos) /\ end = "read_last" => c \in Cells
  <2>1. AfterOf(pos) \in Nat
    BY <1>4 DEF AfterOf
  <2> QED BY <1>4, <1>6, <1>7, <2>1 DEF Cells
<1>10. Works(g) /\ (Body(g.req_fn) \/ Copying(g.req_fn))
  BY <1>1 DEF Works
<1>11. /\ end # "erase_dst" => (ErasesDst(g) <=> ErasesDst(fsd))
       /\ end \in {"write", "first"} => ~ ErasesDst(g)
       /\ end = "read_last" => ErasesDst(fsd)
       /\ end # "read_last" => (ReadsLast(g) <=> ReadsLast(fsd))
       /\ end = "read_last" => ReadsLast(fsd)
       /\ ReadsLast(g) => ReadsLast(fsd)
  BY <1>6 DEF ErasesDst, ReadsLast, Out, out
<1> HIDE DEF end
<1>12. ASSUME NEW b \in Phy, NEW c \in Pages, b # pos.dst \/ end \notin {"write", "first", "erase_dst"}
       PROVE  flash'[b].pages[c] = flash[b].pages[c]
  <2>1. CASE end \in {"read_first", "read_last"}
    BY <1>3, <2>1 DEF Reading
  <2>2. CASE end = "select"
    BY <1>3, <2>2
  <2>3. CASE end \in {"write", "first", "erase_dst"}
    BY <1>3, <1>6, <1>12, <2>3
  <2> QED BY <1>5, <2>1, <2>2, <2>3
<1>13. MarksTrue(lut, g, flash')
  <2> SUFFICES ASSUME NEW k \in Keys(lut)
               PROVE  (~ ErasesDst(g) /\ k = pos.dst) \/ True(lut, flash', k)
    BY <1>10 DEF MarksTrue
  <2>1. (~ ErasesDst(fsd) /\ k = pos.dst) \/ True(lut, flash, k)
    BY <1>2 DEF MarksTrue, pos
  <2>2. k \in Phy
    BY <1>4
  <2>3. CASE k = pos.dst /\ end = "erase_dst"
    <3>1. flash'[k] = Blank
      BY <1>3, <1>4, <1>6, <2>3
    <3> QED BY <3>1 DEF True, Blank, Low
  <2>4. CASE k = pos.dst /\ end \in {"write", "first"}
    BY <1>11, <2>4
  <2>5. CASE k # pos.dst \/ end \notin {"write", "first", "erase_dst"}
    <3>1. \A c \in Pages : flash'[k].pages[c] = flash[k].pages[c]
      BY <1>12, <2>2, <2>5
    <3>2. CASE True(lut, flash, k)
      BY <3>1, <3>2 DEF True
    <3>3. CASE ~ ErasesDst(fsd) /\ k = pos.dst
      BY <1>11, <2>5, <3>3
    <3> QED BY <2>1, <3>2, <3>3
  <2> QED BY <2>3, <2>4, <2>5
<1>14. ErasesDst(g) \/ High(flash', pos)
  <2>1. CASE end = "erase_dst"
    <3>1. flash'[pos.dst] = Blank
      BY <1>3, <1>4, <1>6, <2>1
    <3> QED BY <3>1 DEF High, Blank, Low
  <2>2. CASE end # "erase_dst"
    <3>1. ErasesDst(g) \/ High(flash, pos)
      <4>1. ~ Suspended(fsd)
        BY NotWaiting
      <4> QED BY <1>2, <1>11, <2>2, <4>1 DEF WorkRight, pos
    <3>2. ASSUME NEW c \in Pages, c >= AfterOf(pos)
          PROVE  flash'[pos.dst].pages[c] = flash[pos.dst].pages[c]
      <4>1. CASE end \in {"write", "first"}
        BY <1>3, <1>4, <1>6, <1>8, <3>2, <4>1 DEF Writes
      <4>2. CASE end \notin {"write", "first"}
        BY <1>4, <1>12, <2>2, <4>2
      <4> QED BY <4>1, <4>2
    <3> QED BY <3>1, <3>2 DEF High
  <2> QED BY <2>1, <2>2
<1>15. g.block_buf = [c \in Pages |-> g.block_buf[c]]
  <2> DEFINE buf == [c \in Pages |-> IF c \in Cells THEN Reads(flash[pos.src].pages[c])
                                     ELSE fsd.block_buf[c]]
  <2>1. buf = [c \in Pages |-> buf[c]]
    OBVIOUS
  <2>2. g.block_buf = buf \/ g.block_buf = fsd.block_buf
    BY DEF end
  <2> HIDE DEF buf
  <2> QED BY <1>2, <2>1, <2>2
<1>16. ASSUME Has(g.req_fn, "write_last"), ~ ReadsLast(g), KeyOf(pos) \in Keys(lut)
       PROVE  Above(lut, g) \/ Buffered(lut, g)
  <2>1. CASE end = "read_last"
    <3>1. pos.src # INVALID /\ ErasesDst(fsd)
      BY <1>2, <1>11, <2>1 DEF WorkRight, pos
    <3>2. KeyOf(pos) = pos.src
      BY <3>1 DEF KeyOf
    <3>3. True(lut, flash, pos.src)
      BY <1>2, <1>16, <3>1, <3>2 DEF MarksTrue
    <3>4. ASSUME NEW c \in Pages, c >= AfterOf(pos), c \notin lut.b_map[pos.src]
          PROVE  g.block_buf[c] \in Low
      <4>1. g.block_buf[c] = Reads(flash[pos.src].pages[c])
        BY <1>9, <2>1, <3>4 DEF end
      <4>2. flash[pos.src].pages[c] \in Low
        BY <3>3, <3>4 DEF True
      <4> QED BY <4>1, <4>2 DEF Reads, Low
    <3>5. Buffered(lut, g)
      BY <3>2, <3>4 DEF Buffered
    <3> QED BY <3>5
  <2>2. CASE end # "read_last"
    <3>1. Above(lut, fsd) \/ Buffered(lut, fsd)
      BY <1>2, <1>11, <1>16, <2>2 DEF WorkRight, pos
    <3>2. \A c \in Pages : c >= AfterOf(pos) => g.block_buf[c] = fsd.block_buf[c]
      <4>1. CASE end = "read_first"
        BY <1>8, <4>1 DEF end
      <4>2. CASE end # "read_first"
        BY <2>2, <4>2 DEF end
      <4> QED BY <4>1, <4>2
    <3>3. (Above(lut, fsd) => Above(lut, g)) /\ (Buffered(lut, fsd) => Buffered(lut, g))
      BY <3>2 DEF Above, Buffered, pos
    <3> QED BY <3>1, <3>3
  <2> QED BY <2>1, <2>2
<1>17. WorkRight(lut, g, flash')
  <2>1. ~ Out(g, "last")
    BY DEF Out
  <2> QED BY <1>2, <1>11, <1>14, <1>16, <2>1 DEF WorkRight, pos
<1>18. OutRight(g) /\ g.at # "out"
  BY DEF OutRight
<1> QED BY <1>2, <1>10, <1>13, <1>15, <1>17, <1>18, MarkWork

LEMMA EarlyEndsMarks ==
  ASSUME IInv, Counted, Good', Good => MarkInv(lut, fsd, flash),
         EndEraseDst \/ EndSelectSrc \/ EndWriteData \/ EndCopyFirst \/ EndReadRest
  PROVE  MarkInv(lut', fsd', flash')
<1> DEFINE buf == [p \in Pages |-> IF p \in Cells THEN Reads(flash[pos.src].pages[p])
                                   ELSE fsd.block_buf[p]]
           yes == TRUE
           no == FALSE
<1>1. fsd.at = "out" /\ out.end \in EarlyEnds
  BY DEF EndEraseDst, EndSelectSrc, EndWriteData, EndCopyFirst, EndReadRest, EndOf, out, EarlyEnds
<1>2. /\ out.end \in {"read_first", "read_last"} <=> EndReadRest
      /\ EndReadRest => ~ (EndEraseDst \/ EndSelectSrc \/ EndWriteData \/ EndCopyFirst)
  BY DEF EndEraseDst, EndSelectSrc, EndWriteData, EndCopyFirst, EndReadRest, EndOf
<1>3. PICK r \in Results :
        /\ Ended(r)
        /\ r.error = "no" =>
             /\ lut' = lut
             /\ IF EndReadRest THEN fsd' = [[fsd EXCEPT !.block_buf = buf] EXCEPT !.at = "idle"]
                ELSE \/ fsd' = [fsd EXCEPT !.at = "idle"]
                     \/ \E c \in {yes, no} : fsd' = [[fsd EXCEPT !.clean_dst = c] EXCEPT !.at = "idle"]
  <2>1. CASE EndEraseDst
    BY <1>2, <2>1 DEF EndEraseDst, Idles, Keeps
  <2>2. CASE EndSelectSrc
    BY <1>2, <2>2 DEF EndSelectSrc, Nothing, Idles, Keeps
  <2>3. CASE EndWriteData
    BY <1>2, <2>3 DEF EndWriteData, Idles, Keeps
  <2>4. CASE EndCopyFirst
    BY <1>2, <2>4 DEF EndCopyFirst, Idles, Keeps
  <2>5. CASE EndReadRest
    BY <1>2, <2>5 DEF EndReadRest, Idles, Keeps
  <2> QED BY <2>1, <2>2, <2>3, <2>4, <2>5
<1>4. Good /\ Well(r) /\ MarkInv(lut, fsd, flash) /\ r.error = "no" /\ ~ Suspended(fsd)
  BY <1>1, <1>3, GoodEnd, NotWaiting DEF Well
<1> HIDE DEF buf, yes, no
<1>5. /\ fsd'.pos = pos /\ fsd'.req_fn = fsd.req_fn /\ fsd'.at = "idle"
      /\ fsd'.req_suspend = fsd.req_suspend /\ fsd'.bmap_avail = fsd.bmap_avail
      /\ fsd'.block_buf = IF EndReadRest THEN buf ELSE fsd.block_buf
  <2>1. CASE EndReadRest
    BY <1>3, <1>4, <2>1, Basics DEF IsFsd, pos
  <2>2. CASE fsd' = [fsd EXCEPT !.at = "idle"] /\ ~ EndReadRest
    BY <2>2, Basics DEF IsFsd, pos
  <2>3. ASSUME NEW c \in {yes, no}, ~ EndReadRest,
               fsd' = [[fsd EXCEPT !.clean_dst = c] EXCEPT !.at = "idle"]
        PROVE  /\ fsd'.pos = pos /\ fsd'.req_fn = fsd.req_fn /\ fsd'.at = "idle"
               /\ fsd'.req_suspend = fsd.req_suspend /\ fsd'.bmap_avail = fsd.bmap_avail
               /\ fsd'.block_buf = fsd.block_buf
    BY <2>3, Basics DEF IsFsd, pos
  <2> QED BY <1>3, <1>4, <2>1, <2>2, <2>3
<1>6. ~ Suspended(fsd')
  BY <1>4, <1>5 DEF Suspended
<1>7. fsd'.block_buf = IF out.end \in {"read_first", "read_last"} THEN buf ELSE fsd.block_buf
  BY <1>2, <1>5
<1>8. MarkInv(lut, fsd', flash')
  BY <1>1, <1>4, <1>5, <1>6, <1>7, EarlyEndMarks DEF buf
<1> QED BY <1>3, <1>4, <1>8

LEMMA CommitEndMarks ==
  ASSUME IInv, Counted, Good', Good => MarkInv(lut, fsd, flash), EndMergeData \/ EndCopyLast
  PROVE  MarkInv(lut', fsd', flash')
<1> DEFINE no == FALSE
           f == [fsd EXCEPT !.at = "idle"]
           g == [fsd EXCEPT !.clean_dst = no, !.at = "idle"]
<1>1. fsd.at = "out" /\ fsd.req_out.end \in CommitEnds /\ out.end \in {"merge", "last"}
  BY DEF EndMergeData, EndCopyLast, EndOf, out, CommitEnds
<1>2. /\ fsd.req_fn \in {<<>>, <<"erase_src">>} /\ Fresh(lut, pos)
      /\ fsd.req_fn = <<"erase_src">> => Copies(pos)
      /\ ~ Suspended(fsd)
  BY <1>1, EndsWith, NotWaiting
<1>3. PICK r \in Results : Ended(r) /\ (r.error = "no" => Advance(f) \/ Advance(g))
  BY DEF EndMergeData, EndCopyLast
<1>4. Good /\ Well(r) /\ MarkInv(lut, fsd, flash) /\ r.error = "no" /\ OutRight(fsd)
  BY <1>3, GoodEnd DEF Well, MarkInv
<1>5. Works(fsd) /\ WorkRight(lut, fsd, flash)
  BY <1>1, <1>4 DEF MarkInv, Works, Committing
<1>6. /\ \A b \in Phy : b # out.blk => flash'[b] = flash[b]
      /\ out.blk \in Phy =>
           \A c \in Pages : flash'[out.blk].pages[c] =
                              IF c \in Cells THEN Data[c] ELSE flash[out.blk].pages[c]
  BY <1>1, <1>4, EndEffect DEF Writes
<1>7. /\ out.blk = pos.dst /\ pos.dst \in Phy
      /\ out.end = "merge" => out.from = pos.off /\ out.cnt = pos.len
      /\ out.end = "last" => /\ out.from = After /\ out.cnt = PageCnt - After
                             /\ out.cmd = "WRITE" \/ (out.cmd = "COPY" /\ Copies(pos))
  <2>1. pos.dst \in Phy
    BY <1>2 DEF Fresh, ZonePhy
  <2> QED BY <1>1, <1>4, <2>1 DEF OutRight, To, out, pos, After, AfterOf
<1>8. /\ pos.off \in Nat /\ pos.len \in Nat /\ After = pos.off + pos.len /\ PageCnt \in Nat
      /\ \A c \in Pages : c \in Nat /\ c < PageCnt
  BY Basics, FtlAssumption DEF PosType, Pages, After
<1>9. ASSUME MapKey \in Keys(lut), NEW c \in Pages, c >= After, c \notin lut.b_map[MapKey]
      PROVE  flash'[pos.dst].pages[c] \in Low
  <2>1. CASE out.end = "merge"
    <3>1. c \notin Cells
      BY <1>7, <1>8, <1>9, <2>1 DEF Cells
    <3>2. ~ ErasesDst(fsd)
      <4>1. ~ Has(fsd.req_fn, "erase_dst")
        <5>1. \A gn : ~ Has(<<>>, gn) /\ (Has(<<"erase_src">>, gn) => gn = "erase_src")
          BY StackOrder
        <5> QED BY <1>2, <5>1
      <4> QED BY <2>1, <4>1 DEF ErasesDst, Out, out
    <3>3. flash[pos.dst].pages[c] \in Low
      <4>1. High(flash, pos)
        BY <1>2, <1>5, <3>2 DEF WorkRight, pos
      <4> QED BY <1>9, <4>1 DEF High, AfterOf, After
    <3> QED BY <1>6, <1>7, <3>1, <3>3
  <2>2. CASE out.end = "last"
    <3>1. c \in Cells
      BY <1>7, <1>8, <1>9, <2>2 DEF Cells
    <3>2. flash'[pos.dst].pages[c] = Data[c]
      BY <1>6, <1>7, <3>1
    <3>3. CASE out.cmd = "WRITE"
      <4>1. Data[c] = fsd.block_buf[c]
        BY <2>2, <3>3 DEF Data
      <4>2. KeyOf(pos) = MapKey
        BY DEF KeyOf, MapKey
      <4>3. Buffered(lut, fsd)
        BY <1>1, <1>5, <1>9, <2>2, <3>3, <4>2 DEF WorkRight, Out, out, pos
      <4>4. fsd.block_buf[c] \in Low
        BY <1>9, <4>2, <4>3 DEF Buffered, AfterOf, After, pos
      <4> QED BY <3>2, <4>1, <4>4
    <3>4. CASE out.cmd = "COPY" /\ Copies(pos)
      <4>1. Data[c] = IF flash[pos.src].pages[c] = Erased THEN Fill ELSE flash[pos.src].pages[c]
        <5>1. out.end \notin {"write", "merge"}
          BY <2>2
        <5> QED BY <3>4, <5>1 DEF Data
      <4>2. MapKey = pos.src /\ pos.src # pos.dst
        BY <3>4, FtlAssumption DEF MapKey, Copies
      <4>3. True(lut, flash, pos.src)
        BY <1>4, <1>9, <4>2 DEF MarkInv, MarksTrue, pos
      <4>4. flash[pos.src].pages[c] \in Low
        BY <1>9, <4>2, <4>3 DEF True
      <4> QED BY <3>2, <4>1, <4>4 DEF Low
    <3> QED BY <1>7, <2>2, <3>3, <3>4
  <2> QED BY <1>1, <2>1, <2>2
<1>10. \A b \in Phy : b # pos.dst => flash'[b].pages = flash[b].pages
  BY <1>6, <1>7
<1>11. ASSUME NEW h, IsFsd(h), SameWork(h, fsd), h.at = "idle", h.block_buf = fsd.block_buf, Advance(h)
       PROVE  MarkInv(lut', fsd', flash')
  <2>1. h.pos = pos /\ h.req_fn = fsd.req_fn /\ ~ Suspended(h)
    BY <1>2, <1>11 DEF SameWork, Suspended, pos
  <2> QED BY <1>2, <1>4, <1>5, <1>9, <1>10, <1>11, <2>1, CommitMarks
<1>12. IsFsd(f) /\ SameWork(f, fsd) /\ f.at = "idle" /\ f.block_buf = fsd.block_buf
  BY Basics, AtFields, BufKept, ZenonT(30)
<1>13. IsFsd(g) /\ SameWork(g, fsd) /\ g.at = "idle" /\ g.block_buf = fsd.block_buf
  <2>1. g = [fsd EXCEPT !.clean_dst = no, !.at = "idle"]
    OBVIOUS
  <2> HIDE DEF no, g
  <2>2. g = [pos |-> fsd.pos, clean_dst |-> no, req_suspend |-> fsd.req_suspend,
          bmap_avail |-> fsd.bmap_avail, dst_oob |-> fsd.dst_oob, block_buf |-> fsd.block_buf,
          scan_pos |-> fsd.scan_pos, conflict_pos |-> fsd.conflict_pos,
          req_fn |-> fsd.req_fn, req_in |-> fsd.req_in, t_count |-> fsd.t_count,
          req_out |-> fsd.req_out, at |-> "idle"]
    BY <2>1, Basics DEF IsFsd
  <2>3. IsFsd(g)
    BY <2>2, Basics DEF IsFsd
  <2> QED BY <2>2, <2>3 DEF SameWork
<1> HIDE DEF f, g
<1> QED BY <1>3, <1>4, <1>11, <1>12, <1>13

LEMMA LastEndMarks ==
  ASSUME IInv, Counted, Good', Good => MarkInv(lut, fsd, flash),
         EndInvalidateDst \/ EndEraseSrc \/ EndReadData
  PROVE  MarkInv(lut', fsd', flash')
<1>1. fsd.at = "out" /\ fsd.req_out.end \in LastEnds
  BY DEF EndInvalidateDst, EndEraseSrc, EndReadData, EndOf, out, LastEnds
<1>2. fsd.req_fn = <<>> /\ ~ Suspended(fsd)
  BY <1>1, EndsWith, NotWaiting
<1>3. PICK r \in Results :
        /\ Ended(r)
        /\ EndEraseSrc => fsd' = [fsd EXCEPT !.at = "idle"]
                          /\ (r.error = "no" => lut' = Put(lut, pos.src, TRUE))
        /\ EndReadData => lut' = lut /\ (r.error = "no" => \E n \in 0 .. pos.len :
                            fsd' = [[fsd EXCEPT !.t_count = fsd.t_count + n] EXCEPT !.at = "idle"])
  <2>1. CASE EndInvalidateDst
    BY <2>1 DEF EndInvalidateDst, EndEraseSrc, EndReadData, EndOf
  <2>2. CASE EndEraseSrc
    BY <2>2 DEF EndEraseSrc, EndReadData, EndOf, Idles
  <2>3. CASE EndReadData
    BY <2>3 DEF EndEraseSrc, EndReadData, EndOf, Idles
  <2> QED BY <2>1, <2>2, <2>3
<1>4. Good /\ Well(r) /\ MarkInv(lut, fsd, flash) /\ r.error = "no" /\ OutRight(fsd)
  BY <1>3, GoodEnd DEF Well, MarkInv
<1>5. /\ MapsRight(lut) /\ fsd.block_buf = [c \in Pages |-> fsd.block_buf[c]] /\ IsFsd(fsd)
      /\ Keys(lut) \subseteq Phy /\ IsLut(lut)
  BY <1>4, Basics DEF MarkInv, Keys, IsLut
<1>6. \A k \in Keys(lut) : True(lut, flash, k)
  <2>1. fsd.req_out.end \notin CommitEnds
    BY <1>1 DEF LastEnds, CommitEnds
  <2>2. ~ Body(fsd.req_fn) /\ ~ Copying(fsd.req_fn)
    BY <1>2, StackKinds
  <2>3. ~ Works(fsd)
    BY <1>2, <2>1, <2>2 DEF Works, Committing
  <2> QED BY <1>4, <2>3, AllTrue
<1>7. CASE EndInvalidateDst
  BY <1>4, <1>7 DEF EndInvalidateDst, EndOf, OutRight, out
<1>8. CASE EndEraseSrc
  <2> DEFINE fr == [lut.free EXCEPT ![pos.src] = "dirty"]
  <2>1. out.end = "erase_src" /\ out.blk = pos.src
    BY <1>4, <1>8 DEF EndEraseSrc, EndOf, OutRight, out, pos
  <2>2. Erasing(fsd)
    BY <1>1, <2>1 DEF Erasing, out
  <2>3. pos.src \notin Keys(lut)
    BY <1>4, <2>2 DEF MarkInv, pos
  <2>4. \A b \in Phy : b # pos.src => flash'[b] = flash[b]
    BY <1>1, <1>4, <2>1, EndEffect
  <2>5. \A k \in Keys(lut) : True(lut, flash', k)
    <3>1. \A k \in Keys(lut) : flash'[k] = flash[k]
      BY <1>5, <2>3, <2>4
    <3> QED BY <1>6, <3>1 DEF True
  <2>6. lut' = [lut EXCEPT !.free = fr]
    BY <1>3, <1>4, <1>8 DEF Put
  <2>7. \A b \in Phy : fr[b] = IF b = pos.src THEN "dirty" ELSE lut.free[b]
    BY <1>5 DEF IsLut
  <2> HIDE DEF fr
  <2>8. lut'.b_map = lut.b_map /\ lut'.valid_zones = lut.valid_zones /\ lut'.free = fr
    BY <1>5, <2>6 DEF IsLut
  <2>9. MapsRight(lut') /\ \A k \in Keys(lut') : True(lut', flash', k)
    BY <1>5, <2>3, <2>5, <2>7, <2>8, MoreZones
  <2>10. /\ fsd'.req_fn = <<>> /\ fsd'.at = "idle" /\ fsd'.block_buf = fsd.block_buf
         /\ fsd'.req_suspend = fsd.req_suspend /\ fsd'.bmap_avail = fsd.bmap_avail
    BY <1>2, <1>3, <1>5, <1>8 DEF IsFsd
  <2>11. ~ Suspended(fsd') /\ fsd'.at # "out"
    BY <1>2, <2>10 DEF Suspended
  <2> QED BY <1>5, <2>9, <2>10, <2>11, MarkIdle
<1>9. CASE EndReadData
  <2>1. flash' = flash
    BY <1>1, <1>4, <1>9, EndEffect DEF EndReadData, EndOf, Reading, out
  <2>2. PICK n \in 0 .. pos.len :
          fsd' = [[fsd EXCEPT !.t_count = fsd.t_count + n] EXCEPT !.at = "idle"]
    BY <1>3, <1>4, <1>9
  <2> DEFINE m == fsd.t_count + n
  <2>3. fsd' = [[fsd EXCEPT !.t_count = m] EXCEPT !.at = "idle"]
    BY <2>2
  <2> HIDE DEF m
  <2>10. /\ fsd'.req_fn = <<>> /\ fsd'.at = "idle" /\ fsd'.block_buf = fsd.block_buf
         /\ fsd'.req_suspend = fsd.req_suspend /\ fsd'.bmap_avail = fsd.bmap_avail
    BY <1>2, <1>5, <2>3 DEF IsFsd
  <2>11. ~ Suspended(fsd') /\ fsd'.at # "out"
    BY <1>2, <2>10 DEF Suspended
  <2> QED BY <1>3, <1>5, <1>6, <1>9, <2>1, <2>10, <2>11, MarkIdle
<1> QED BY <1>7, <1>8, <1>9

-----------------------------------------------------------------------------
(* Without long_map_insert() there are no marks at all.                    *)

\* No node, neither in use nor retired, and nobody who waits for one.
Bare(t) == /\ t = [free |-> t.free, valid_zones |-> t.valid_zones, spare |-> t.spare,
                   block_table |-> t.block_table, b_map |-> t.b_map]
           /\ Keys(t) = {} /\ t.spare = 0
Alone == config.mode = "peb" /\ Bare(lut) /\ ~ Suspended(fsd)

\* What does not insert leaves the map as it is.
LEMMA BareMaps ==
  ASSUME NEW t, Bare(t)
  PROVE  /\ \A b, d : Bare(Put(t, b, d)) /\ Bare(MapErase(t, b)) /\ ~ MapInserts(t, b)
         /\ \A b : Bare([t EXCEPT !.free[b] = "no"])
         /\ \A z : Bare([t EXCEPT !.valid_zones = z])
         /\ \A l, b : Bare([t EXCEPT !.block_table[l] = b])
         /\ \A z : Bare(ClearZone(t, z))
<1>1. ASSUME NEW v
      PROVE  /\ Bare([t EXCEPT !.free = v]) /\ Bare([t EXCEPT !.valid_zones = v])
             /\ Bare([t EXCEPT !.block_table = v])
  BY DEF Bare, Keys
<1>2. ASSUME NEW b, NEW d PROVE Bare(Put(t, b, d)) /\ Bare(MapErase(t, b)) /\ ~ MapInserts(t, b)
  <2> DEFINE v == [t.free EXCEPT ![b] = IF d THEN "dirty" ELSE "clean"]
  <2>1. Put(t, b, d) = [t EXCEPT !.free = v]
    BY DEF Put
  <2>2. MapErase(t, b) = t
    BY DEF MapErase, Bare, Keys
  <2>3. ~ MapInserts(t, b)
    BY DEF MapInserts, Bare
  <2> HIDE DEF v
  <2> QED BY <1>1, <2>1, <2>2, <2>3
<1>3. ASSUME NEW b PROVE Bare([t EXCEPT !.free[b] = "no"])
  <2> DEFINE v == [t.free EXCEPT ![b] = "no"]
  <2>1. [t EXCEPT !.free[b] = "no"] = [t EXCEPT !.free = v]
    OBVIOUS
  <2> HIDE DEF v
  <2> QED BY <1>1, <2>1
<1>4. ASSUME NEW l, NEW b PROVE Bare([t EXCEPT !.block_table[l] = b])
  <2> DEFINE v == [t.block_table EXCEPT ![l] = b]
  <2>1. [t EXCEPT !.block_table[l] = b] = [t EXCEPT !.block_table = v]
    OBVIOUS
  <2> HIDE DEF v
  <2> QED BY <1>1, <2>1
<1>5. ASSUME NEW z PROVE Bare(ClearZone(t, z))
  <2> DEFINE mapped == {t.block_table[l] : l \in ZoneLog(z)}
             table == [l \in Log |-> IF l \in ZoneLog(z) THEN INVALID ELSE t.block_table[l]]
             free  == [b \in Phy |-> IF b \in ZonePhy(z) THEN "no" ELSE t.free[b]]
             bmap  == [k \in DOMAIN t.b_map \ mapped |-> t.b_map[k]]
             spare == t.spare + Cardinality(mapped \cap DOMAIN t.b_map)
             u == ClearZone(t, z)
  <2>0. u = [t EXCEPT !.block_table = table, !.b_map = bmap, !.spare = spare, !.free = free]
    BY DEF ClearZone
  <2>1. spare = 0
    <3>1. mapped \cap DOMAIN t.b_map = {}
      BY DEF Bare, Keys
    <3> HIDE DEF mapped
    <3>2. Cardinality(mapped \cap DOMAIN t.b_map) = 0
      BY <3>1, FS_EmptySet
    <3> QED BY <3>2 DEF Bare
  <2>2. DOMAIN bmap = {}
    BY DEF Bare, Keys
  <2> HIDE DEF u, free, table, bmap, spare
  <2>3. u = [free |-> free, valid_zones |-> t.valid_zones, spare |-> spare,
             block_table |-> table, b_map |-> bmap]
    BY <2>0 DEF Bare
  <2> QED BY <2>1, <2>2, <2>3 DEF Bare, Keys, u
<1> QED BY <1>1, <1>2, <1>3, <1>4, <1>5

LEMMA BareAdvanced ==
  ASSUME Bare(lut)
  PROVE  Bare(Advanced(lut))
<1>1. Advanced(lut) = IF pos.dst = pos.src THEN lut
                      ELSE [lut EXCEPT !.block_table[pos.logical] = pos.dst]
  BY DEF Advanced, Bare, Keys
<1> QED BY <1>1, BareMaps

\* Nor does anything else than those two wait for a node, or stop waiting.
Awake(f) == /\ f = [pos |-> f.pos, clean_dst |-> f.clean_dst, req_suspend |-> f.req_suspend,
                    bmap_avail |-> f.bmap_avail, dst_oob |-> f.dst_oob,
                    block_buf |-> f.block_buf, scan_pos |-> f.scan_pos,
                    conflict_pos |-> f.conflict_pos, req_fn |-> f.req_fn, req_in |-> f.req_in,
                    t_count |-> f.t_count, req_out |-> f.req_out, at |-> f.at]
            /\ ~ f.req_suspend /\ ~ f.bmap_avail

LEMMA AwakeField ==
  ASSUME NEW f, Awake(f), NEW v
  PROVE  /\ Awake([f EXCEPT !.at = v]) /\ Awake([f EXCEPT !.req_fn = v])
         /\ Awake([f EXCEPT !.clean_dst = v]) /\ Awake([f EXCEPT !.block_buf = v])
         /\ Awake([f EXCEPT !.t_count = v]) /\ Awake([f EXCEPT !.req_in = v])
         /\ Awake([f EXCEPT !.dst_oob = v]) /\ Awake([f EXCEPT !.scan_pos = v])
         /\ Awake([f EXCEPT !.conflict_pos = v]) /\ Awake([f EXCEPT !.pos = v])
         /\ Awake([f EXCEPT !.req_out = v])
BY SMTT(30) DEF Awake

LEMMA AwakeForms ==
  ASSUME NEW f, Awake(f)
  PROVE  /\ \A o, a : Awake([f EXCEPT !.req_out = o, !.at = a])
         /\ \A a : Awake(Completed(f, a))
         /\ \A p, s, c, o, a : Awake([f EXCEPT !.pos = p, !.req_fn = s, !.clean_dst = c,
                                               !.dst_oob = o, !.at = a])
         /\ \A p, n, c, s, a : Awake([f EXCEPT !.pos = p, !.scan_pos = n, !.conflict_pos = c,
                                               !.req_fn = s, !.at = a])
         /\ \A p, a, s : Awake([f EXCEPT !.pos = p, !.at = a, !.req_fn = s])
         /\ \A c, a : Awake([f EXCEPT !.clean_dst = c, !.at = a])
         /\ \A n, s, a : Awake(AtScan(f, n, s, a))
         /\ ~ Suspended(f)
<1>1. ASSUME NEW o, NEW a PROVE Awake([f EXCEPT !.req_out = o, !.at = a])
  <2> DEFINE g1 == [f EXCEPT !.req_out = o]
  <2>1. Awake(g1)
    BY AwakeField
  <2>2. [f EXCEPT !.req_out = o, !.at = a] = [g1 EXCEPT !.at = a]
    OBVIOUS
  <2> HIDE DEF g1
  <2> QED BY <2>1, <2>2, AwakeField
<1>2. ASSUME NEW a PROVE Awake(Completed(f, a))
  <2> DEFINE g1 == [f EXCEPT !.req_fn = <<>>]
             g2 == [g1 EXCEPT !.req_in = NoReq]
             g3 == [g2 EXCEPT !.t_count = 0]
             g4 == [g3 EXCEPT !.pos = NoPos]
  <2>1. Awake(g1)
    BY AwakeField
  <2>2. Awake(g2)
    BY <2>1, AwakeField
  <2>3. Awake(g3)
    BY <2>2, AwakeField
  <2>4. Awake(g4)
    BY <2>3, AwakeField
  <2>5. Completed(f, a) = [g4 EXCEPT !.at = a]
    BY DEF Completed
  <2> HIDE DEF g4
  <2>6. Awake([g4 EXCEPT !.at = a])
    BY <2>4, AwakeField
  <2> QED BY <2>5, <2>6
<1>3. ASSUME NEW p, NEW s, NEW c, NEW o, NEW a
      PROVE  Awake([f EXCEPT !.pos = p, !.req_fn = s, !.clean_dst = c, !.dst_oob = o, !.at = a])
  <2> DEFINE g1 == [f EXCEPT !.pos = p]
             g2 == [g1 EXCEPT !.req_fn = s]
             g3 == [g2 EXCEPT !.clean_dst = c]
             g4 == [g3 EXCEPT !.dst_oob = o]
  <2>1. Awake(g1)
    BY AwakeField
  <2>2. Awake(g2)
    BY <2>1, AwakeField
  <2>3. Awake(g3)
    BY <2>2, AwakeField
  <2>4. Awake(g4)
    BY <2>3, AwakeField
  <2>5. [f EXCEPT !.pos = p, !.req_fn = s, !.clean_dst = c, !.dst_oob = o, !.at = a]
          = [g4 EXCEPT !.at = a]
    OBVIOUS
  <2> HIDE DEF g1, g2, g3, g4
  <2> QED BY <2>4, <2>5, AwakeField
<1>4. ASSUME NEW p, NEW n, NEW c, NEW s, NEW a
      PROVE  Awake([f EXCEPT !.pos = p, !.scan_pos = n, !.conflict_pos = c, !.req_fn = s, !.at = a])
  <2> DEFINE g1 == [f EXCEPT !.pos = p]
             g2 == [g1 EXCEPT !.scan_pos = n]
             g3 == [g2 EXCEPT !.conflict_pos = c]
             g4 == [g3 EXCEPT !.req_fn = s]
  <2>1. Awake(g1)
    BY AwakeField
  <2>2. Awake(g2)
    BY <2>1, AwakeField
  <2>3. Awake(g3)
    BY <2>2, AwakeField
  <2>4. Awake(g4)
    BY <2>3, AwakeField
  <2>5. [f EXCEPT !.pos = p, !.scan_pos = n, !.conflict_pos = c, !.req_fn = s, !.at = a]
          = [g4 EXCEPT !.at = a]
    OBVIOUS
  <2> HIDE DEF g1, g2, g3, g4
  <2> QED BY <2>4, <2>5, AwakeField
<1>5. ASSUME NEW p, NEW a, NEW s PROVE Awake([f EXCEPT !.pos = p, !.at = a, !.req_fn = s])
  <2> DEFINE g1 == [f EXCEPT !.pos = p]
             g2 == [g1 EXCEPT !.at = a]
  <2>1. Awake(g1)
    BY AwakeField
  <2>2. Awake(g2)
    BY <2>1, AwakeField
  <2>3. [f EXCEPT !.pos = p, !.at = a, !.req_fn = s] = [g2 EXCEPT !.req_fn = s]
    OBVIOUS
  <2> HIDE DEF g1, g2
  <2> QED BY <2>2, <2>3, AwakeField
<1>6. ASSUME NEW c, NEW a PROVE Awake([f EXCEPT !.clean_dst = c, !.at = a])
  <2> DEFINE g1 == [f EXCEPT !.clean_dst = c]
  <2>1. Awake(g1)
    BY AwakeField
  <2>2. [f EXCEPT !.clean_dst = c, !.at = a] = [g1 EXCEPT !.at = a]
    OBVIOUS
  <2> HIDE DEF g1
  <2> QED BY <2>1, <2>2, AwakeField
<1>7. ASSUME NEW n, NEW s, NEW a PROVE Awake(AtScan(f, n, s, a))
  <2> DEFINE g1 == [f EXCEPT !.scan_pos = n]
             g2 == [g1 EXCEPT !.req_fn = s]
  <2>1. Awake(g1)
    BY AwakeField
  <2>2. Awake(g2)
    BY <2>1, AwakeField
  <2>3. AtScan(f, n, s, a) = [g2 EXCEPT !.at = a]
    BY DEF AtScan
  <2> HIDE DEF g2
  <2>4. Awake([g2 EXCEPT !.at = a])
    BY <2>2, AwakeField
  <2> QED BY <2>3, <2>4
<1>8. ~ Suspended(f)
  BY DEF Awake, Suspended
<1> QED BY <1>1, <1>2, <1>3, <1>4, <1>5, <1>6, <1>7, <1>8

LEMMA AwakeHere ==
  ASSUME IInv, ~ Suspended(fsd)
  PROVE  Awake(fsd) /\ Awake(Popped)
<1>1. Awake(fsd)
  BY Basics DEF Awake, IsFsd, Suspended
<1> QED BY <1>1, AwakeField DEF Popped

\* A scan goes on; at its end the zone is valid.
LEMMA AwakeScanned ==
  ASSUME NEW t, Bare(t), NEW f, Awake(f), Scanned(t, f)
  PROVE  Bare(lut') /\ ~ Suspended(fsd')
<1>1. lut' = t \/ lut' = [t EXCEPT !.valid_zones = t.valid_zones \cup {pos.zone}]
  BY DEF Scanned
<1>2. \/ fsd' = AtScan(f, f.scan_pos + 1, <<"lookup_block">>, "idle")
      \/ fsd' = AtScan(f, f.scan_pos + 1, <<>>, "idle")
      \/ fsd' = AtScan(f, f.scan_pos + 1, <<>>, "late")
  BY DEF Scanned, AtScan
<1>3. \A n, s, a : Awake(AtScan(f, n, s, a))
  BY AwakeForms
<1>4. Awake(fsd')
  BY <1>2, <1>3
<1>5. ~ Suspended(fsd')
  BY <1>4, AwakeForms
<1>6. Bare(lut')
  BY <1>1, BareMaps
<1> QED BY <1>5, <1>6

LEMMA AwakeAbort ==
  ASSUME IInv, ~ Suspended(fsd), NEW t, Bare(t), NEW d, NEW c, EndAbort(t, d, c)
  PROVE  Bare(lut') /\ ~ Suspended(fsd')
<1>1. Bare(lut')
  BY BareMaps DEF EndAbort
<1>2. fsd' = Completed(fsd, "idle")
  BY DEF EndAbort, Complete
<1> QED BY <1>1, <1>2, AwakeHere, AwakeForms

LEMMA AwakeIdle ==
  ASSUME NEW f, Awake(f), Idles(f)
  PROVE  ~ Suspended(fsd')
<1>1. Awake([f EXCEPT !.at = "idle"])
  BY AwakeField
<1> QED BY <1>1, AwakeForms DEF Idles

LEMMA AwakeSubmit ==
  ASSUME NEW f, Awake(f), NEW cmd, NEW blk, NEW from, NEW cnt, NEW end,
         Submit(f, cmd, blk, from, cnt, end), Bare(lut)
  PROVE  Bare(lut') /\ ~ Suspended(fsd')
BY AwakeForms DEF Submit

LEMMA AwakeSkip ==
  ASSUME IInv, ~ Suspended(fsd), Skip, Bare(lut)
  PROVE  Bare(lut') /\ ~ Suspended(fsd')
BY AwakeHere, AwakeForms DEF Skip

LEMMA AwakeAdvance ==
  ASSUME NEW f, Awake(f), Bare(lut), Advance(f)
  PROVE  Bare(lut') /\ ~ Suspended(fsd')
<1>1. fsd' = [f EXCEPT !.t_count = f.t_count + pos.len]
  BY DEF Advance
<1>2. ~ Suspended(fsd')
  BY <1>1, AwakeField, AwakeForms
<1> QED BY <1>2, BareAdvanced DEF Advance

LEMMA AloneFns ==
  ASSUME IInv, Alone, Fns
  PROVE  Bare(lut') /\ ~ Suspended(fsd')
<1>0. Bare(lut) /\ Awake(fsd) /\ Awake(Popped) /\ ~ Suspended(fsd)
  BY AwakeHere DEF Alone
<1>1. CASE LookupBlock
  <2>1. PICK next : \/ Submit([fsd EXCEPT !.scan_pos = next], "READ", next, 0, 0, "lookup_block")
                    \/ /\ lut' = [lut EXCEPT !.valid_zones = lut.valid_zones \cup {pos.zone}]
                       /\ fsd' = [Popped EXCEPT !.scan_pos = next]
    BY <1>1 DEF LookupBlock
  <2>2. Awake([fsd EXCEPT !.scan_pos = next]) /\ Awake([Popped EXCEPT !.scan_pos = next])
    BY <1>0, AwakeField
  <2>3. CASE Submit([fsd EXCEPT !.scan_pos = next], "READ", next, 0, 0, "lookup_block")
    BY <1>0, <2>2, <2>3, AwakeSubmit
  <2>4. CASE /\ lut' = [lut EXCEPT !.valid_zones = lut.valid_zones \cup {pos.zone}]
             /\ fsd' = [Popped EXCEPT !.scan_pos = next]
    BY <1>0, <2>2, <2>4, BareMaps, AwakeForms
  <2> QED BY <2>1, <2>3, <2>4
<1>2. CASE InvalidateDst
  <2> DEFINE bad == [log |-> INVALID, mark |-> "bad"]
             f == [Popped EXCEPT !.dst_oob = bad]
  <2>1. Submit(f, "WRITE", pos.dst, 0, 1, "invalidate")
    BY <1>2 DEF InvalidateDst
  <2>2. Awake(f)
    BY <1>0, AwakeField
  <2> HIDE DEF f
  <2> QED BY <1>0, <2>1, <2>2, AwakeSubmit
<1>3. CASE WriteFirst
  <2> DEFINE buf == [Popped.block_buf EXCEPT ![0] = Fill]
             f == [Popped EXCEPT !.block_buf = buf]
  <2>1. \/ Skip \/ Submit(f, "WRITE", pos.dst, 0, 1, "first")
        \/ Submit(Popped, "WRITE", pos.dst, 0, pos.off, "first")
    BY <1>3 DEF WriteFirst
  <2>2. Awake(f)
    BY <1>0, AwakeField
  <2> HIDE DEF f, buf
  <2> QED BY <1>0, <2>1, <2>2, AwakeSubmit, AwakeSkip
<1>4. CASE \/ Resolve \/ EraseSrc \/ EraseDst \/ SelectSrc \/ MergeData \/ WriteData \/ ReadData
           \/ ReadFirst \/ ReadLast \/ CopyFirst
  <2>1. \/ Skip
        \/ \E cmd, blk, from, cnt, end : Submit(Popped, cmd, blk, from, cnt, end)
    BY <1>4 DEF Resolve, EraseSrc, EraseDst, SelectSrc, MergeData, WriteData, ReadData,
                ReadFirst, ReadLast, CopyFirst
  <2> QED BY <1>0, <2>1, AwakeSubmit, AwakeSkip
<1>5. CASE WriteLast \/ CopyLast
  <2>1. \/ Advance(Popped)
        \/ \E cmd, blk, from, cnt, end : Submit(Popped, cmd, blk, from, cnt, end)
    BY <1>5 DEF WriteLast, CopyLast, SubmitLast
  <2> QED BY <1>0, <2>1, AwakeSubmit, AwakeAdvance
<1>6. CASE FillData
  <2>1. lut' = lut /\ \E t : fsd' = Completed(fsd, "get") \/ fsd' = [Popped EXCEPT !.t_count = t]
    BY <1>6 DEF FillData, Complete
  <2>2. ASSUME NEW t PROVE ~ Suspended([Popped EXCEPT !.t_count = t])
    BY <1>0, AwakeField, AwakeForms
  <2>3. ~ Suspended(Completed(fsd, "get"))
    BY <1>0, AwakeForms
  <2> QED BY <1>0, <2>1, <2>2, <2>3
<1> QED BY <1>1, <1>2, <1>3, <1>4, <1>5, <1>6 DEF Fns

LEMMA AloneSetups ==
  ASSUME IInv, Alone, Setup
  PROVE  Bare(lut') /\ ~ Suspended(fsd')
<1>0. Bare(lut) /\ Awake(fsd) /\ ~ Suspended(fsd) /\ ~ fsd.bmap_avail /\ config.mode = "peb"
  BY AwakeHere DEF Alone, Suspended
<1>1. CASE SetupFails \/ SetupDone \/ SetupNoSpace
  <2>1. lut' = lut /\ (fsd' = [fsd EXCEPT !.at = "idle"] \/ fsd' = Completed(fsd, "get"))
    BY <1>1 DEF SetupFails, SetupDone, SetupNoSpace, Complete
  <2>2. ~ Suspended([fsd EXCEPT !.at = "idle"]) /\ ~ Suspended(Completed(fsd, "get"))
    BY <1>0, AwakeField, AwakeForms
  <2> QED BY <1>0, <2>1, <2>2
<1>2. CASE SetupScan
  <2> DEFINE p == [NoPos EXCEPT !.zone = Address.zone]
             n == Address.zone * PhyPerZone
             s == <<"lookup_block">>
             f == [fsd EXCEPT !.pos = p, !.scan_pos = n, !.conflict_pos = INVALID,
                              !.req_fn = s, !.at = SetAt]
  <2>1. lut' = ClearZone(lut, Address.zone) /\ fsd' = f
    BY <1>2 DEF SetupScan
  <2> HIDE DEF p, n, s
  <2>2. Awake(f)
    BY <1>0, AwakeForms
  <2> HIDE DEF f
  <2> QED BY <1>0, <2>1, <2>2, BareMaps, AwakeForms
<1>3. CASE SetupRead
  <2> DEFINE s == IF Address.src = INVALID THEN <<"fill_data">> ELSE <<"read_data">>
             f == [fsd EXCEPT !.pos = Address, !.at = SetAt, !.req_fn = s]
  <2>1. lut' = lut /\ fsd' = f
    BY <1>3 DEF SetupRead
  <2> HIDE DEF s
  <2>2. Awake(f)
    BY <1>0, AwakeForms
  <2> HIDE DEF f
  <2> QED BY <1>0, <2>1, <2>2, AwakeForms
<1>4. CASE SetupMerge \/ SetupInPlace \/ SetupCopy \/ SetupNewFull
  <2> DEFINE o == MappedTo(Address.logical)
             no == FALSE
  <2>1. ASSUME NEW p, NEW s, NEW c, fsd' = SetOut(p, s, c, o, SetAt) PROVE ~ Suspended(fsd')
    <3>1. Awake(SetOut(p, s, c, o, SetAt))
      BY <1>0, AwakeForms DEF SetOut
    <3> QED BY <2>1, <3>1, AwakeForms
  <2>2. CASE SetupMerge
    <3>1. lut' = lut /\ fsd' = SetOut([Address EXCEPT !.dst = Address.src], <<"merge_data">>,
                                      no, o, SetAt)
      BY <2>2 DEF SetupMerge, SetOut
    <3> HIDE DEF no, o
    <3> QED BY <1>0, <2>1, <3>1
  <2>3. CASE SetupInPlace
    <3>1. lut' = lut /\ fsd' = SetOut([Address EXCEPT !.dst = Address.src, !.in_place = TRUE],
                                      <<"read_first", "read_last", "erase_dst",
                                        "write_first", "write_data", "write_last">>,
                                      no, o, SetAt)
      BY <2>3 DEF SetupInPlace, SetOut
    <3> HIDE DEF no, o
    <3> QED BY <1>0, <2>1, <3>1
  <2>4. CASE SetupNewFull
    <3>1. PICK b \in Free :
            /\ lut' = Took(b)
            /\ fsd' = SetOut([Address EXCEPT !.dst = b], EraseIf(b) \o <<"merge_data">>,
                             lut.free[b] = "clean", o, SetAt)
      BY <2>4 DEF SetupNewFull, SetOut
    <3> DEFINE p == [Address EXCEPT !.dst = b]
               s == EraseIf(b) \o <<"merge_data">>
               c == lut.free[b] = "clean"
    <3>2. fsd' = SetOut(p, s, c, o, SetAt) /\ lut' = [lut EXCEPT !.free[b] = "no"]
      BY <3>1 DEF Took
    <3> HIDE DEF p, s, c, o
    <3> QED BY <1>0, <2>1, <3>2, BareMaps
  <2>5. CASE SetupCopy
    <3> DEFINE w == IF config.mode # "peb" THEN <<"copy_first", "write_data", "copy_last">>
                    ELSE <<"read_first", "read_last", "write_first", "write_data", "write_last">>
    <3>1. PICK b \in Free :
            /\ lut' = Took(b)
            /\ fsd' = SetOut([Address EXCEPT !.dst = b],
                             EraseIf(b) \o <<"select_src">> \o w \o <<"erase_src">>,
                             lut.free[b] = "clean", o, SetAt)
      BY <2>5 DEF SetupCopy, SetOut
    <3> DEFINE p == [Address EXCEPT !.dst = b]
               s == EraseIf(b) \o <<"select_src">> \o w \o <<"erase_src">>
               c == lut.free[b] = "clean"
    <3>2. fsd' = SetOut(p, s, c, o, SetAt) /\ lut' = [lut EXCEPT !.free[b] = "no"]
      BY <3>1 DEF Took
    <3> HIDE DEF p, s, c, o
    <3> QED BY <1>0, <2>1, <3>2, BareMaps
  <2> QED BY <1>4, <2>2, <2>3, <2>4, <2>5
<1>5. CASE SetupNewPart
  <2>1. PICK b \in Free : /\ lut' = IF MapInserts(lut, b) THEN MapInsert(Took(b), b) ELSE Took(b)
                          /\ Partial([Address EXCEPT !.dst = b])
    BY <1>0, <1>5 DEF SetupNewPart
  <2>2. Bare(lut')
    BY <1>0, <2>1, BareMaps DEF Took
  <2>3. ~ Suspended(fsd')
    BY <1>0, <2>1 DEF Partial, Awake, Suspended
  <2> QED BY <2>2, <2>3
<1>6. CASE SetupContinue
  BY <1>0, <1>6 DEF SetupContinue
<1> QED BY <1>1, <1>2, <1>3, <1>4, <1>5, <1>6 DEF Setup

LEMMA AloneOthers ==
  ASSUME IInv, Alone, NewRequest \/ Ask \/ FetchReq \/ AllocNode \/ Crash \/ Notify
  PROVE  Bare(lut') /\ ~ Suspended(fsd')
<1>0. Bare(lut) /\ Awake(fsd) /\ ~ Suspended(fsd) /\ ~ fsd.req_suspend
  BY AwakeHere DEF Alone, Suspended
<1>1. CASE NewRequest \/ Notify
  BY <1>0, <1>1, BareMaps DEF NewRequest, Notify
<1>2. CASE Ask \/ FetchReq
  <2>1. lut' = lut /\ \/ fsd' = [fsd EXCEPT !.at = "get"] \/ fsd' = [fsd EXCEPT !.at = "idle"]
                      \/ fsd' = [fsd EXCEPT !.req_in = client]
    BY <1>2 DEF Ask, FetchReq
  <2>3. \A a : Awake([fsd EXCEPT !.at = a])
    BY <1>0, AwakeField
  <2>4. Awake([fsd EXCEPT !.req_in = client])
    BY <1>0, AwakeField
  <2>2. Awake(fsd')
    BY <2>1, <2>3, <2>4
  <2> QED BY <1>0, <2>1, <2>2, AwakeForms
<1>3. CASE AllocNode
  BY <1>0, <1>3 DEF AllocNode
<1>4. CASE Crash
  BY <1>4, NewRest DEF Crash, NewLut, Bare, Keys
<1> QED BY <1>1, <1>2, <1>3, <1>4

LEMMA AloneEnds ==
  ASSUME IInv, Alone, Ends
  PROVE  Bare(lut') /\ ~ Suspended(fsd')
<1>0. Bare(lut) /\ Awake(fsd) /\ ~ Suspended(fsd)
  BY AwakeHere DEF Alone
<1>1. \A b, c : Awake(ReadLabel(b)) /\ Awake([ReadLabel(b) EXCEPT !.conflict_pos = c])
  <2> SUFFICES ASSUME NEW b, NEW c
               PROVE  Awake(ReadLabel(b)) /\ Awake([ReadLabel(b) EXCEPT !.conflict_pos = c])
    OBVIOUS
  <2> DEFINE g == ReadLabel(b)
  <2>1. Awake(g)
    BY <1>0, AwakeField DEF ReadLabel
  <2> HIDE DEF g
  <2>2. Awake([g EXCEPT !.conflict_pos = c])
    BY <2>1, AwakeField
  <2> QED BY <2>1, <2>2 DEF g
<1>2. ASSUME Invalidates PROVE Bare(lut') /\ ~ Suspended(fsd')
  <2> DEFINE s == <<"invalidate_dst">>
             f == [fsd EXCEPT !.req_fn = s]
  <2>1. Idles(f) /\ lut' = lut
    BY <1>2 DEF Invalidates
  <2>2. Awake(f)
    BY <1>0, AwakeField
  <2> HIDE DEF f
  <2> QED BY <1>0, <2>1, <2>2, AwakeIdle
<1>3. CASE EndLookupBlock
  <2> DEFINE here == fsd.scan_pos
             info == Info(flash[here].label)
             other == IF info.log = INVALID THEN fsd.conflict_pos
                      ELSE lut.block_table[info.log]
             f == [ReadLabel(here) EXCEPT !.conflict_pos = other]
             map == IF info.log = INVALID THEN lut
                    ELSE [lut EXCEPT !.block_table[info.log] = here]
             res == <<"resolve">>
             fr == [f EXCEPT !.req_fn = res]
  <2>1. \/ EndAbort(lut, FALSE, FALSE)
        \/ Scanned(Put(lut, here, TRUE), f) \/ Scanned(lut, f) \/ Scanned(map, f)
        \/ lut' = lut /\ Idles(fr)
        \/ Scanned(IF other = INVALID THEN map ELSE Put(map, other, TRUE), f)
    BY <1>3, Zenon DEF EndLookupBlock
  <2>2. Bare(map)
    BY <1>0, BareMaps
  <2> HIDE DEF map, info
  <2>3. Awake(f)
    BY <1>1
  <2> HIDE DEF f, res
  <2>4. Awake(fr)
    BY <2>3, AwakeField
  <2> HIDE DEF fr, other, here
  <2>5. /\ Bare(Put(lut, here, TRUE))
        /\ Bare(IF other = INVALID THEN map ELSE Put(map, other, TRUE))
    BY <1>0, <2>2, BareMaps
  <2> QED BY <1>0, <2>1, <2>2, <2>3, <2>4, <2>5, AwakeScanned, AwakeAbort, AwakeIdle
<1>4. CASE EndResolve
  <2> DEFINE label == flash[fsd.conflict_pos].label
             f     == ReadLabel(fsd.conflict_pos)
             t     == Put(lut, lut.block_table[label.log], TRUE)
             u     == [t EXCEPT !.block_table[label.log] = fsd.scan_pos]
  <2>1. Scanned(lut, f) \/ Scanned(Put(lut, fsd.scan_pos, TRUE), f) \/ Scanned(u, f)
    BY <1>4, Zenon DEF EndResolve
  <2>2. Awake(f) /\ Bare(t) /\ Bare(Put(lut, fsd.scan_pos, TRUE))
    BY <1>0, <1>1, BareMaps
  <2> HIDE DEF f, t
  <2>3. Bare(u)
    BY <2>2, BareMaps
  <2> HIDE DEF u
  <2> QED BY <1>0, <2>1, <2>2, <2>3, AwakeScanned, Zenon
<1>5. CASE EndInvalidateDst
  BY <1>0, <1>5, AwakeAbort DEF EndInvalidateDst
<1>6. CASE EndEraseSrc
  <2>1. Idles(fsd) /\ (lut' = lut \/ lut' = Put(lut, pos.src, TRUE))
    BY <1>6 DEF EndEraseSrc
  <2>2. Bare(Put(lut, pos.src, TRUE))
    BY <1>0, BareMaps
  <2>3. Bare(lut')
    BY <1>0, <2>1, <2>2
  <2> QED BY <1>0, <2>1, <2>3, AwakeIdle
<1>7. CASE EndEraseDst \/ EndWriteData
  <2> DEFINE yes == TRUE
             no == FALSE
             f == [fsd EXCEPT !.clean_dst = yes]
             g == [fsd EXCEPT !.clean_dst = no]
  <2>1. \/ Invalidates \/ EndAbort(lut, FALSE, FALSE)
        \/ lut' = lut /\ (Idles(f) \/ Idles(g))
    BY <1>7 DEF EndEraseDst, EndWriteData
  <2> HIDE DEF yes, no
  <2>2. Awake(f) /\ Awake(g)
    BY <1>0, AwakeField
  <2> HIDE DEF f, g
  <2> QED BY <1>0, <1>2, <2>1, <2>2, AwakeIdle, AwakeAbort
<1>8. CASE EndSelectSrc
  <2>1. EndAbort(lut, TRUE, fsd.clean_dst) \/ (lut' = lut /\ Idles(fsd))
    BY <1>8 DEF EndSelectSrc, Nothing
  <2> QED BY <1>0, <2>1, AwakeIdle, AwakeAbort
<1>9. CASE EndMergeData
  <2> DEFINE f == [fsd EXCEPT !.at = "idle"]
  <2>1. EndAbort(lut, FALSE, FALSE) \/ Advance(f)
    BY <1>9 DEF EndMergeData
  <2>2. Awake(f)
    BY <1>0, AwakeField
  <2> HIDE DEF f
  <2> QED BY <1>0, <2>1, <2>2, AwakeAdvance, AwakeAbort
<1>10. CASE EndCopyFirst \/ EndCopyLast
  <2> DEFINE no == FALSE
             f == [fsd EXCEPT !.clean_dst = no]
             g == [fsd EXCEPT !.clean_dst = no, !.at = "idle"]
             t == MapErase(lut, pos.src)
  <2>1. EndAbort(t, TRUE, FALSE) \/ Invalidates \/ (lut' = lut /\ Idles(f)) \/ Advance(g)
    BY <1>10 DEF EndCopyFirst, EndCopyLast
  <2> HIDE DEF no
  <2>2. Awake(f) /\ Awake(g) /\ Bare(t)
    BY <1>0, BareMaps, AwakeField, AwakeForms
  <2> HIDE DEF f, g, t
  <2> QED BY <1>0, <1>2, <2>1, <2>2, AwakeIdle, AwakeAdvance, AwakeAbort
<1>11. CASE EndReadRest
  <2> DEFINE buf == [p \in Pages |-> IF p \in Cells THEN Reads(flash[pos.src].pages[p])
                                     ELSE fsd.block_buf[p]]
             f == [fsd EXCEPT !.block_buf = buf]
             t == MapErase(lut, pos.src)
  <2>1. EndAbort(t, TRUE, fsd.clean_dst) \/ (lut' = lut /\ Idles(f))
    BY <1>11 DEF EndReadRest
  <2> HIDE DEF buf
  <2>2. Awake(f) /\ Bare(t)
    BY <1>0, BareMaps, AwakeField
  <2> HIDE DEF f, t
  <2> QED BY <1>0, <2>1, <2>2, AwakeIdle, AwakeAbort
<1>12. CASE EndReadData
  <2>1. PICK n : /\ lut' = lut
                 /\ \/ Idles([fsd EXCEPT !.t_count = n])
                    \/ fsd' = Completed(fsd, "idle")
    BY <1>12 DEF EndReadData, Complete
  <2>2. Awake([fsd EXCEPT !.t_count = n]) /\ Awake(Completed(fsd, "idle"))
    BY <1>0, AwakeField, AwakeForms
  <2>3. CASE Idles([fsd EXCEPT !.t_count = n])
    BY <1>0, <2>1, <2>2, <2>3, AwakeIdle
  <2>4. CASE fsd' = Completed(fsd, "idle")
    BY <1>0, <2>1, <2>2, <2>4, AwakeForms
  <2> QED BY <2>1, <2>3, <2>4
<1> QED BY <1>3, <1>4, <1>5, <1>6, <1>7, <1>8, <1>9, <1>10, <1>11, <1>12 DEF Ends

-----------------------------------------------------------------------------
(* All steps.                                                              *)

\* What has happened is not forgotten.
LEMMA Remembered ==
  ASSUME Counted, [Next]_vars
  PROVE  config' = config /\ Counted' /\ (Good' => Good)
         /\ (Crash \/ Notify => ~ Good')
         /\ used'.requests \in {used.requests, used.requests + 1}
<1> DEFINE asks == [used EXCEPT !.requests = used.requests + 1]
           fails == [used EXCEPT !.troubles = used.troubles + 1]
<1>1. config' = config /\ flaws \subseteq flaws' /\ used' \in {used, asks, fails}
  <2>1. CASE NewRequest \/ Ask \/ FetchReq \/ Crash \/ Notify
    BY <2>1 DEF NewRequest, Ask, FetchReq, Crash, Notify
  <2>2. CASE Setup
    BY <2>2 DEF Setup, SetupFails, SetupDone, SetupScan, SetupRead, SetupMerge, SetupNoSpace,
                SetupInPlace, SetupCopy, SetupNewFull, SetupNewPart, SetupContinue, Quiet,
                PartFlaws
  <2>3. CASE AllocNode
    BY <2>3 DEF AllocNode, Quiet
  <2>4. CASE Fns
    BY <2>4 DEF Fns, LookupBlock, Resolve, InvalidateDst, EraseSrc, EraseDst, SelectSrc,
                MergeData, WriteData, ReadData, ReadFirst, ReadLast, WriteFirst, CopyFirst,
                WriteLast, CopyLast, SubmitLast, FillData, Submit, Skip, Quiet
  <2>5. CASE Ends
    <3>1. \E r \in Results : Ended(r)
      BY <2>5, Zenon DEF Ends, EndLookupBlock, EndResolve, EndInvalidateDst, EndEraseSrc,
                         EndEraseDst, EndSelectSrc, EndMergeData, EndWriteData, EndCopyFirst,
                         EndCopyLast, EndReadRest, EndReadData
    <3> QED BY <3>1, ZenonT(30) DEF Ended
  <2>6. CASE UNCHANGED vars
    BY <2>6 DEF vars
  <2> QED BY <2>1, <2>2, <2>3, <2>4, <2>5, <2>6 DEF Next
<1>2. /\ asks = [requests |-> used.requests + 1, troubles |-> used.troubles]
      /\ fails = [requests |-> used.requests, troubles |-> used.troubles + 1]
  BY DEF Counted
<1>3. Crash \/ Notify => used' = fails
  BY DEF Crash, Notify
<1>7. used'.requests \in {used.requests, used.requests + 1}
  BY <1>1, <1>2
<1> HIDE DEF asks, fails
<1>4. Counted' /\ used'.troubles >= used.troubles
  BY <1>1, <1>2 DEF Counted
<1>5. Good' => Good
  BY <1>1, <1>4 DEF Good, Counted
<1>6. Crash \/ Notify => ~ Good'
  BY <1>2, <1>3 DEF Good, Counted
<1> QED BY <1>1, <1>4, <1>5, <1>6, <1>7

LEMMA InitMarks == Init => MInv
<1> SUFFICES ASSUME Init PROVE MInv
  OBVIOUS
<1>1. lut = NewLut /\ fsd = NewFsd /\ used = [requests |-> 0, troubles |-> 0]
  BY DEF Init
<1>2. IInv /\ config.mode \in {"inc", "any", "peb"}
  BY InitInv DEF Init
<1>3. Counted
  BY <1>1 DEF Counted
<1>4. Keys(NewLut) = {} /\ NewLut.spare = 0 /\ \A b \in Phy : NewLut.free[b] = "no"
  BY DEF NewLut, Keys
<1>5. MapsRight(NewLut)
  BY <1>4 DEF MapsRight
<1>6. NewFsd.block_buf = [c \in Pages |-> NewFsd.block_buf[c]]
  BY DEF NewFsd
<1>7. MarkInv(lut, fsd, flash)
  BY <1>1, <1>4, <1>5, <1>6, NewRest, MarkIdle
<1> QED BY <1>1, <1>2, <1>3, <1>4, <1>7, NewRest DEF MInv, NoMaps

LEMMA NextMarks == MInv /\ [Next]_vars => MInv'
<1> SUFFICES ASSUME MInv, [Next]_vars PROVE MInv'
  OBVIOUS
<1>1. /\ IInv /\ Counted /\ config.mode \in {"inc", "any", "peb"} /\ NoMaps
      /\ Good => MarkInv(lut, fsd, flash)
  BY DEF MInv
<1>2. IInv' /\ config' = config /\ Counted' /\ (Good' => Good) /\ (Crash \/ Notify => ~ Good')
  BY <1>1, NextInv, Remembered
<1>3. NoMaps'
  <2>1. SUFFICES ASSUME config.mode = "peb"
                 PROVE  (Keys(lut) = {} /\ lut.spare = 0 /\ ~ Suspended(fsd))'
    BY <1>2 DEF NoMaps
  <2>2. Alone
    BY <1>1, <2>1, Basics DEF NoMaps, Alone, Bare, IsLut
  <2>3. CASE UNCHANGED vars
    BY <1>1, <2>1, <2>3 DEF vars, NoMaps, Keys, Suspended
  <2>4. CASE Next
    <3>1. Bare(lut') /\ ~ Suspended(fsd')
      BY <1>1, <2>2, <2>4, AloneFns, AloneSetups, AloneOthers, AloneEnds DEF Next
    <3> QED BY <3>1 DEF Bare, Keys, Suspended
  <2> QED BY <2>3, <2>4
<1>4. ASSUME Good' PROVE MarkInv(lut', fsd', flash')
  <2>1. Good /\ MarkInv(lut, fsd, flash) /\ ~ (Crash \/ Notify) /\ "unerased" \notin flaws'
    BY <1>1, <1>2, <1>4 DEF Good
  <2>2. CASE NewRequest \/ Ask \/ FetchReq
    BY <1>1, <2>1, <2>2, AboveMarks
  <2>3. CASE Setup
    BY <1>1, <2>1, <2>3, OtherSetupMarks, ScanStartMarks, WriteSetupMarks, PartSetupMarks DEF Setup
  <2>4. CASE AllocNode
    BY <1>1, <2>1, <2>4, NodeMarks
  <2>5. CASE Fns
    BY <1>1, <2>1, <2>5, LookupMarks, SingleMarks, EarlyMarks, CommitFnMarks DEF Fns
  <2>6. CASE Ends
    BY <1>1, <1>4, <2>6, EndLookupMarks, EndResolveMarks, EarlyEndsMarks, CommitEndMarks,
       LastEndMarks DEF Ends
  <2>7. CASE UNCHANGED vars
    <3>1. lut' = lut /\ fsd' = fsd /\ flash' = flash
      BY <2>7 DEF vars
    <3> QED BY <2>1, <3>1
  <2> QED BY <2>1, <2>2, <2>3, <2>4, <2>5, <2>6, <2>7 DEF Next
<1>5. (Good => MarkInv(lut, fsd, flash))'
  BY <1>4, SameInv
<1> QED BY <1>1, <1>2, <1>3, <1>5 DEF MInv

\* Where pages are written upwards, and where blocks are written all at once, no page
\* that b_map calls unwritten holds data, for any number of zones, blocks and pages
\* and any requests.  Where they are written in any order it is not so: there
\* bitmap_region_empty() is asked, which is wrong for a region inside one word.
THEOREM FtlMarkIsTrue == Spec => [](config.mode # "any" => MarkIsTrue)
<1>1. Init /\ [][Next]_vars => []MInv
  BY InitMarks, NextMarks, PTL
<1>2. Spec => Init /\ [][Next]_vars
  BY DEF Spec
<1>3. MInv => (config.mode # "any" => MarkIsTrue)
  BY InvMarkIsTrue
<1> QED BY <1>1, <1>2, <1>3, PTL
=============================================================================
