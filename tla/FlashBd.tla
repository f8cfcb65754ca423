-------------------------------- MODULE FlashBd --------------------------------
(***************************************************************************)
(* driver/flash_bd.c, the translation layer that turns block requests into *)
(* flash commands, driven by driver/xd_card_blk.c, its only caller.        *)
(*                                                                         *)
(* A request is started (flash_bd_start_reading, flash_bd_start_writing)   *)
(* and then advanced by flash_bd_next_req(): the handler in cmd_handler    *)
(* gets the outcome of the previous flash command, and issues the next one *)
(* or ends the request.  Each handler is an action here; a handler that    *)
(* tail-calls another one is the composition of the two.  Between two      *)
(* calls the caller executes the command on the card (the Exec actions).   *)
(* The card can fail a command, and power can be lost at any moment; the   *)
(* card is then scanned again to rebuild the maps (Scan).                  *)
(*                                                                         *)
(* Sizes are in sectors.  What was written is one of a few Values.         *)
(*                                                                         *)
(* A definition named for a slip (AdvanceNever, HEraseSrcBlind, ...)       *)
(* is what the next one would be with that slip; no run uses it, and it    *)
(* serves to see that a property can fail.  So in the other modules.       *)
(***************************************************************************)
EXTENDS FlashLut, Sequences

CONSTANTS PageCnt,      \* pages of a block
          PageSize,     \* sectors of a page
          CisBlock,     \* last block of the card information structure, zone 0
          Values,       \* what can be written to a sector
          BLANK,        \* what an erased sector reads (0xff)
          JUNK,         \* what no request asked for: a sector programmed twice
                        \* without an erase, t_buf before it is filled
          ERASED,       \* the logical address of an erased page
          GARBLED,        \* that of a page programmed over another one
          Requests,     \* the runs of sectors the block layer may ask for
          InitMedia,    \* the cards that may be inserted
          Faults,       \* <<handler, error>>: the command failures considered
          MaxFaults,    \* bound on the number of failures
          CanLosePower, \* power may be lost during a command
          CanRemount    \* the card may be removed and inserted when idle

ASSUME PageAssumption ==
  /\ PageCnt \in Nat \ {0} /\ PageSize \in Nat \ {0}
  /\ CisBlock \in Blocks
  /\ Requests \subseteq Nat \X (Nat \ {0})
  /\ MaxFaults \in Nat
  /\ CanLosePower \in BOOLEAN /\ CanRemount \in BOOLEAN

BlockSize == PageCnt * PageSize
Offsets   == 0 .. BlockSize - 1
Pages     == 0 .. PageCnt - 1
PageOf(s) == s \div PageSize

Cell == Values \cup {BLANK, JUNK}

\* A physical block of the card: the bad mark, each page's logical address (in
\* its extra data),
\* and the sectors.
MediaBlock == [bad  : BOOLEAN,
               tag  : [Pages -> LogBlocks \cup {ERASED, GARBLED}],
               data : [Offsets -> Cell]]
Media == [Phy -> MediaBlock]

ASSUME MediaAssumption == InitMedia \subseteq Media

Handlers == {"read", "read_tmp_r", "write", "read_tmp_w", "fill_tmp",
             "erase_dst", "mark_dst_bad", "write_inc", "erase_src",
             "mark_src_bad", "null"}
Cmds == {"READ", "READ_TMP", "FLUSH_TMP", "SKIP", "ERASE_TMP", "ERASE",
         "WRITE", "WRITE_TMP", "FILL_TMP", "MARK_BAD"}
Errors == {"OK", "EFAULT", "EIO"}   \* EFAULT: the card's status says failure

VARIABLES lut,      \* the block maps
          io,       \* the request in progress: the fields of struct flash_bd
          req,      \* struct flash_bd_request: the command to execute
          ret,      \* count and error the caller passes to flash_bd_next_req
          phase,    \* who runs: "mount", "idle", "exec" or "call"
          scan,     \* the next block xd_card_fill_lut() reads
          media,    \* the card
          tmp,      \* card->t_buf, one block
          out,      \* what the read in progress has delivered
          faults    \* the number of failures so far

vars == <<lut, io, req, ret, phase, scan, media, tmp, out, faults>>

NoReq  == [cmd |-> "NONE"]
NoRet  == [count |-> 0, error |-> "OK"]
IdleIo == [handler |-> "none"]
StaleTmp == [s \in Offsets |-> JUNK]
NextPhyPastEnd(p) == IF p[2] < PhyBlockCnt THEN <<p[1], p[2] + 1>>
                                          ELSE <<p[1] + 1, 0>>
NextPhy(p) == IF p[2] + 1 < PhyBlockCnt THEN <<p[1], p[2] + 1>>
                                        ELSE <<p[1] + 1, 0>>
FirstScan == NextPhy(<<0, CisBlock>>)

Init == /\ lut = FreshLut(CisBlock)
        /\ media \in InitMedia
        /\ phase = "mount" /\ scan = FirstScan
        /\ io = IdleIo /\ req = NoReq /\ ret = NoRet
        /\ tmp = StaleTmp
        /\ out = <<>> /\ faults = 0

-----------------------------------------------------------------------------
(* Building the maps: xd_card_fill_lut().                                  *)

\* xd_card_resolve_conflict(): p and the block l maps to both claim l; the one
\* whose last page agrees wins, then the lower address.
ResolveConflict(m, p, l) ==
  LET o         == m.block_table[l]
      claims(q) == media[q].tag[PageCnt - 1] = l[2]
  IN  IF claims(p) = claims(o)
      THEN IF p[2] < o[2] THEN SetFull(SetEmpty(m, o, FALSE), p, l)
                          ELSE SetEmpty(m, p, FALSE)
      ELSE IF claims(p) THEN SetFull(SetEmpty(m, o, FALSE), p, l)
                        ELSE SetEmpty(m, p, FALSE)

ScanBlock(m, p) ==
  LET first == media[p].tag[0]
      l     == <<p[1], first>>
  IN  CASE media[p].bad          -> SetReserved(m, p)
        [] ~ media[p].bad /\ first \notin LogBlocks -> SetEmpty(m, p, FALSE)
        [] OTHER -> IF SetFullExists(m, p) THEN ResolveConflict(m, p, l)
                                           ELSE SetFull(m, p, l)

\* xd_card_fill_lut_flash(), a block at a time.  The mount that fails because the first page
\* holds a number no block of the zone has (-EINVAL) is left out: LogBlocks are all there are.
Scan == /\ phase = "mount" /\ scan \in Phy
        /\ lut' = ScanBlock(lut, scan)
        /\ scan' = NextPhy(scan)
        /\ UNCHANGED <<io, req, ret, phase, media, tmp, out, faults>>

ScanEnd == /\ phase = "mount" /\ scan \notin Phy
           /\ phase' = "idle"
           /\ UNCHANGED <<lut, io, req, ret, scan, media, tmp, out, faults>>

\* Everything in memory is lost; flash_bd_init() and a new scan follow.
Reset == /\ lut' = FreshLut(CisBlock)
         /\ phase' = "mount" /\ scan' = FirstScan
         /\ io' = IdleIo /\ req' = NoReq /\ ret' = NoRet
         /\ tmp' = StaleTmp
         /\ out' = <<>>
         /\ faults' = faults

Remount == CanRemount /\ phase = "idle" /\ Reset /\ media' = media

-----------------------------------------------------------------------------
(* Ends of a handler.                                                      *)

\* return 0 with a command for the caller to execute
Issue(cmd, phy, off, cnt, i, m) ==
  /\ req' = [cmd |-> cmd, phy |-> phy, off |-> off, cnt |-> cnt]
  /\ io' = i /\ lut' = m
  /\ phase' = "exec" /\ ret' = NoRet
  /\ UNCHANGED <<out, tmp>>

\* FBD_NONE, or an error code: the caller ends the block request
Finish(m) ==
  /\ lut' = m
  /\ io' = IdleIo /\ req' = NoReq /\ ret' = NoRet
  /\ phase' = "idle"
  /\ out' = <<>> /\ tmp' = StaleTmp

Called(h) == phase = "call" /\ io.handler = h
HandlerFrame == UNCHANGED <<scan, media, faults>>

Failed     == ret.error # "OK"
Short      == ret.count # io.req_count
GoTo(i, h, n) == [i EXCEPT !.handler = h, !.req_count = n]

-----------------------------------------------------------------------------
(* Where the next byte of a request falls.                                 *)

Position(i)  == i.byte_offset + i.t_count
BlockNo(i)   == Position(i) \div BlockSize
ZoneNo(i)    == BlockNo(i) \div LogBlockCnt
LogOf(i)     == <<ZoneNo(i), BlockNo(i) % LogBlockCnt>>
InBlock(i)   == Position(i) % BlockSize
CountDue(i)  == LET room == BlockSize - InBlock(i)
                IN  IF i.rem_count < room THEN i.rem_count ELSE room
FirstPage(i) == i.buf_offset \div PageSize
PageSpanWholePagesOnly(i) == PageOf(i.buf_offset + i.buf_count) - FirstPage(i)
PageSpan(i)  == PageOf(i.buf_offset + i.buf_count - 1) - FirstPage(i) + 1

AdvanceNever(i, n) == i
Advance(i, n) == [i EXCEPT !.t_count = @ + n, !.rem_count = @ - n]
WithBlock(i)  == [i EXCEPT !.buf_offset = InBlock(i), !.buf_count = CountDue(i),
                           !.w_log = LogOf(i)]

-----------------------------------------------------------------------------
(* Starting a request.                                                     *)

StartIo(h, r, v) ==
  [handler |-> h, byte_offset |-> r[1], t_count |-> 0, rem_count |-> r[2],
   val |-> v, w_log |-> INVALID, w_src |-> INVALID, w_dst |-> INVALID,
   buf_offset |-> 0, buf_count |-> 0, req_count |-> 0]

Start(h, r, v) == /\ phase = "idle"
                  /\ io' = StartIo(h, r, v)
                  /\ phase' = "call" /\ ret' = NoRet
                  /\ UNCHANGED <<lut, req, scan, media, tmp, out, faults>>

\* flash_bd_start_reading() and flash_bd_start_writing(); the caller goes on
\* with flash_bd_next_req(.., 0, 0).
StartReading == \E r \in Requests : Start("read", r, BLANK)
StartWriting == \E r \in Requests, v \in Values : Start("write", r, v)

-----------------------------------------------------------------------------
(* Reading.                                                                *)

\* h_flash_bd_read() once the previous chunk is accounted for in i
ReadChunk(i, m) ==
  LET phy == m.block_table[i.w_log]
      off == FirstPage(i) * PageSize
      cnt == PageSpan(i) * PageSize
  IN  \/ /\ phy = INVALID
         /\ Issue("SKIP", INVALID, 0, i.buf_count, GoTo(i, "read", i.buf_count), m)
      \/ /\ phy # INVALID
         /\ i.buf_offset % PageSize # 0 \/ i.buf_count % PageSize # 0
         /\ Issue("READ_TMP", phy, off, cnt, GoTo(i, "read_tmp_r", cnt), m)
      \/ /\ phy # INVALID
         /\ i.buf_offset % PageSize = 0 /\ i.buf_count % PageSize = 0
         /\ Issue("READ", phy, off, cnt, GoTo(i, "read", cnt), m)

\* h_flash_bd_read()
HRead ==
  /\ Called("read") /\ HandlerFrame
  /\ LET i == Advance(io, ret.count)
     IN  \/ (Failed \/ Short) /\ Finish(lut)
         \/ /\ ~ Failed /\ ~ Short
            /\ i.rem_count = 0 \/ ZoneNo(i) \notin Zones       \* done, or -ENOSPC
            /\ Finish(lut)
         \/ /\ ~ Failed /\ ~ Short
            /\ i.rem_count # 0 /\ ZoneNo(i) \in Zones
            /\ ReadChunk(WithBlock(i), lut)

\* h_flash_bd_read_tmp_r(): hand the wanted part of the pages read over
HReadTmpR ==
  /\ Called("read_tmp_r") /\ HandlerFrame
  /\ \/ (Failed \/ Short) /\ Finish(lut)
     \/ /\ ~ Failed /\ ~ Short
        /\ Issue("FLUSH_TMP", INVALID, io.buf_offset - FirstPage(io) * PageSize,
                 io.buf_count, GoTo(io, "read", io.buf_count), lut)

-----------------------------------------------------------------------------
(* Writing.                                                                *)

EraseDstAlwaysTmp(i, m, error) ==
  \/ error # "OK" /\ Finish(m)
  \/ /\ error = "OK"
     /\ Issue("WRITE_TMP", i.w_dst, 0, BlockSize, GoTo(i, "write_inc", BlockSize), m)

\* h_flash_bd_erase_dst()
EraseDst(i, m, error) ==
  \/ /\ error = "EFAULT"
     /\ Issue("MARK_BAD", i.w_dst, 0, BlockSize, GoTo(i, "mark_dst_bad", 0), m)
  \/ error = "EIO" /\ Finish(m)
  \/ /\ error = "OK"
     /\ i.buf_count < BlockSize \/ i.w_src = i.w_dst
     /\ Issue("WRITE_TMP", i.w_dst, 0, BlockSize, GoTo(i, "write_inc", BlockSize), m)
  \/ /\ error = "OK"
     /\ ~ (i.buf_count < BlockSize \/ i.w_src = i.w_dst)
     /\ Issue("WRITE", i.w_dst, 0, BlockSize, GoTo(i, "write_inc", BlockSize), m)

\* Erase the destination, unless erase_map says that it is erased.
PrepareDst(i, m) ==
  \/ i.w_dst \in m.erase_map /\ EraseDst(i, m, "OK")
  \/ /\ i.w_dst \notin m.erase_map
     /\ Issue("ERASE", i.w_dst, 0, 0, GoTo(i, "erase_dst", 0), m)

\* The second half of h_flash_bd_write(): the first command for the block.
WriteBlock(i, m) ==
  \/ i.w_dst = INVALID /\ Finish(m)
  \/ /\ i.w_dst # INVALID
     /\ i.buf_count < BlockSize /\ i.w_src = INVALID
     /\ Issue("ERASE_TMP", INVALID, 0, BlockSize, GoTo(i, "read_tmp_w", BlockSize), m)
  \/ /\ i.w_dst # INVALID
     /\ i.buf_count < BlockSize /\ i.w_src # INVALID
     /\ Issue("READ_TMP", i.w_src, 0, BlockSize, GoTo(i, "read_tmp_w", BlockSize), m)
  \/ i.w_dst # INVALID /\ i.buf_count = BlockSize /\ PrepareDst(i, m)

\* h_flash_bd_write(), also entered from the handlers that end a block.  With
\* no free block left the old block of the logical block is rewritten.
WriteNext(i, m) ==
  \/ ZoneNo(i) \notin Zones /\ Finish(m)                            \* -ENOSPC
  \/ /\ ZoneNo(i) \in Zones
     /\ \E free \in GetFree(m, ZoneNo(i)) :
          LET src == m.block_table[LogOf(i)]
              dst == IF free = INVALID THEN src ELSE free
          IN  WriteBlock([WithBlock(i) EXCEPT !.w_src = src, !.w_dst = dst],
                         Take(m, free))

HWrite ==
  /\ Called("write") /\ HandlerFrame
  /\ IF Failed THEN Finish(lut) ELSE WriteNext(io, lut)

\* h_flash_bd_read_tmp_w(): the old block is in t_buf, put the new data over it
HReadTmpW ==
  /\ Called("read_tmp_w") /\ HandlerFrame
  /\ \/ (Failed \/ Short) /\ Finish(lut)
     \/ /\ ~ Failed /\ ~ Short
        /\ Issue("FILL_TMP", INVALID, io.buf_offset, io.buf_count,
                 GoTo(io, "fill_tmp", io.buf_count), lut)

\* h_flash_bd_fill_tmp()
HFillTmp ==
  /\ Called("fill_tmp") /\ HandlerFrame
  /\ IF Failed \/ Short THEN Finish(lut) ELSE PrepareDst(io, lut)

HEraseDst == Called("erase_dst") /\ HandlerFrame /\ EraseDst(io, lut, ret.error)

\* h_flash_bd_mark_dst_bad(): the request ends with what was done so far
HMarkDstBad == Called("mark_dst_bad") /\ HandlerFrame /\ Finish(lut)

NextBlockOrEnd(i, m) ==
  \/ i.rem_count = 0 /\ Finish(m)
  \/ i.rem_count # 0 /\ WriteNext(i, m)

\* The block is written: the logical block moves to it.
Commit(m, i) == [m EXCEPT !.block_table[i.w_log] = i.w_dst]

\* h_flash_bd_write_inc()
HWriteInc ==
  /\ Called("write_inc") /\ HandlerFrame
  /\ LET i == Advance(io, io.buf_count)
         m == Commit(lut, io)
     IN  \/ /\ ret.error = "EFAULT"
            /\ Issue("MARK_BAD", io.w_dst, 0, BlockSize, GoTo(io, "null", 0),
                     MarkUsed(lut, io.w_dst))
         \/ (ret.error = "EIO" \/ (ret.error = "OK" /\ Short)) /\ Finish(lut)
         \/ /\ ~ Failed /\ ~ Short
            /\ io.w_src \notin {io.w_dst, INVALID}
            /\ Issue("ERASE", io.w_src, 0, 0, GoTo(i, "erase_src", 0),
                     [m EXCEPT !.erase_map = @ \ {io.w_src}])
         \/ /\ ~ Failed /\ ~ Short
            /\ io.w_src \in {io.w_dst, INVALID}
            /\ NextBlockOrEnd(i, m)

HEraseSrcBlind == /\ Called("erase_src") /\ HandlerFrame
                  /\ NextBlockOrEnd(io, MarkErased(lut, io.w_src))

\* h_flash_bd_erase_src(): the old block becomes free before the outcome of its
\* erase is looked at.
HEraseSrc ==
  /\ Called("erase_src") /\ HandlerFrame
  /\ LET m == MarkErased(lut, io.w_src)
     IN  \/ /\ ret.error = "EFAULT"
            /\ Issue("MARK_BAD", io.w_src, 0, BlockSize, GoTo(io, "mark_src_bad", 0),
                     MarkUsed(m, io.w_src))
         \/ ret.error = "EIO" /\ Finish(m)
         \/ ret.error = "OK" /\ NextBlockOrEnd(io, m)

\* h_flash_bd_mark_src_bad(); h_flash_bd_write() is what looks at the error
HMarkSrcBad ==
  /\ Called("mark_src_bad") /\ HandlerFrame
  /\ \/ io.rem_count = 0 /\ Finish(lut)
     \/ io.rem_count # 0 /\ Failed /\ Finish(lut)
     \/ io.rem_count # 0 /\ ~ Failed /\ WriteNext(io, lut)

\* cmd_handler is NULL: flash_bd_next_req() returns last_error
HNull == Called("null") /\ HandlerFrame /\ Finish(lut)

-----------------------------------------------------------------------------
(* xd_card_trans_req() and the h_xd_card_* handlers: executing a command.  *)

Done(n) == phase' = "call" /\ ret' = [count |-> n, error |-> "OK"]
Exec(cmd) == phase = "exec" /\ req.cmd = cmd
ExecFrame == UNCHANGED <<lut, io, req, scan, faults>>

PhyData(p, off, cnt) == [k \in 1 .. cnt |-> media[p].data[off + k - 1]]

\* Sectors off .. off + cnt - 1 of the block, into t_buf from its start.
LoadTmp(p, off, cnt) ==
  [s \in Offsets |-> IF s < cnt THEN media[p].data[off + s] ELSE tmp[s]]

ExecRead == /\ Exec("READ") /\ ExecFrame /\ Done(req.cnt)
            /\ out' = out \o PhyData(req.phy, req.off, req.cnt)
            /\ UNCHANGED <<media, tmp>>

ExecReadTmp == /\ Exec("READ_TMP") /\ ExecFrame /\ Done(req.cnt)
               /\ tmp' = LoadTmp(req.phy, req.off, req.cnt)
               /\ UNCHANGED <<media, out>>

ExecFlushTmp == /\ Exec("FLUSH_TMP") /\ ExecFrame /\ Done(req.cnt)
                /\ out' = out \o [k \in 1 .. req.cnt |-> tmp[req.off + k - 1]]
                /\ UNCHANGED <<media, tmp>>

ExecSkip == /\ Exec("SKIP") /\ ExecFrame /\ Done(req.cnt)
            /\ out' = out \o [k \in 1 .. req.cnt |-> BLANK]
            /\ UNCHANGED <<media, tmp>>

ExecEraseTmp == /\ Exec("ERASE_TMP") /\ ExecFrame /\ Done(req.cnt)
                /\ tmp' = [s \in Offsets |->
                             IF s \in req.off .. req.off + req.cnt - 1
                             THEN BLANK ELSE tmp[s]]
                /\ UNCHANGED <<media, out>>

ExecFillTmp == /\ Exec("FILL_TMP") /\ ExecFrame /\ Done(req.cnt)
               /\ tmp' = [s \in Offsets |->
                            IF s \in req.off .. req.off + req.cnt - 1
                            THEN io.val ELSE tmp[s]]
               /\ UNCHANGED <<media, out>>

ErasedBlock == [bad  |-> FALSE, tag |-> [g \in Pages |-> ERASED],
                data |-> [s \in Offsets |-> BLANK]]

\* Pages 0 .. k - 1 of block b programmed with logical address l and data d.
Program(b, l, d, k) ==
  [b EXCEPT
     !.tag  = [g \in Pages |-> IF g >= k THEN @[g]
                               ELSE IF @[g] \in {ERASED, l} THEN l ELSE GARBLED],
     !.data = [s \in Offsets |-> IF PageOf(s) >= k THEN @[s]
                                 ELSE IF b.tag[PageOf(s)] = ERASED THEN d[s]
                                 ELSE JUNK]]

SourceData == IF req.cmd = "WRITE" THEN [s \in Offsets |-> io.val] ELSE tmp

\* The card after the first k pages of a write, or after an erase.
Written(k) ==
  [media EXCEPT ![req.phy] = Program(@, io.w_log[2], SourceData, k)]
Erased == [media EXCEPT ![req.phy] = ErasedBlock]

ExecErase == /\ Exec("ERASE") /\ ExecFrame /\ Done(0)
             /\ media' = Erased
             /\ UNCHANGED <<tmp, out>>

ExecWrite == /\ Exec("WRITE") \/ Exec("WRITE_TMP")
             /\ ExecFrame /\ Done(BlockSize)
             /\ media' = Written(PageCnt)
             /\ UNCHANGED <<tmp, out>>

\* FBD_MARK_BAD also fills t_buf with 0xff.
ExecMarkBad == /\ Exec("MARK_BAD") /\ ExecFrame /\ Done(BlockSize)
               /\ media' = [media EXCEPT ![req.phy].bad = TRUE]
               /\ tmp' = [s \in Offsets |-> BLANK]
               /\ out' = out

\* The card when a write stopped in the middle of page k.
Torn(k) ==
  [Written(k) EXCEPT
     ![req.phy].tag[k] = GARBLED,
     ![req.phy].data   = [s \in Offsets |-> IF PageOf(s) = k THEN JUNK ELSE @[s]]]

\* What a command that fails or is cut short may leave on the card: nothing
\* done, all done, or a write stopped after or within some page.
Interrupted ==
  {media} \cup CASE req.cmd = "ERASE"                  -> {Erased}
                 [] req.cmd \in {"WRITE", "WRITE_TMP"} ->
                      {Written(k) : k \in 1 .. PageCnt} \cup {Torn(k) : k \in Pages}
                 [] OTHER                              -> {}

\* How a command may fail: by the status the card reports (EFAULT) or by an
\* error of the host (EIO); a read may also end short with no error (OK).
\* Copies within memory cannot fail.
CanFail(e) ==
  req.cmd \in CASE e = "EFAULT" -> {"ERASE", "WRITE", "WRITE_TMP", "MARK_BAD"}
                [] e = "EIO"    -> {"READ", "READ_TMP", "ERASE", "WRITE",
                                    "WRITE_TMP", "MARK_BAD"}
                [] e = "OK"     -> {"READ"}

Fault == /\ phase = "exec" /\ faults < MaxFaults
         /\ \E e \in Errors :
              /\ <<io.handler, e>> \in Faults /\ CanFail(e)
              /\ ret' = [count |-> 0, error |-> e]
         /\ phase' = "call" /\ faults' = faults + 1
         /\ media' \in Interrupted
         /\ tmp' \in IF req.cmd = "READ_TMP"
                     THEN {tmp, LoadTmp(req.phy, req.off, req.cnt)} ELSE {tmp}
         /\ UNCHANGED <<lut, io, req, scan, out>>

\* Power is lost while the card executes a command.
PowerLoss == /\ CanLosePower /\ phase = "exec"
             /\ media' \in Interrupted
             /\ Reset

-----------------------------------------------------------------------------

Mount   == Scan \/ ScanEnd \/ Remount \/ PowerLoss
Handler == HRead \/ HReadTmpR \/ HWrite \/ HReadTmpW \/ HFillTmp \/ HEraseDst
             \/ HMarkDstBad \/ HWriteInc \/ HEraseSrc \/ HMarkSrcBad \/ HNull
Execute == ExecRead \/ ExecReadTmp \/ ExecFlushTmp \/ ExecSkip \/ ExecEraseTmp
             \/ ExecFillTmp \/ ExecErase \/ ExecWrite \/ ExecMarkBad \/ Fault

Next == Mount \/ StartReading \/ StartWriting \/ Handler \/ Execute

Spec == Init /\ [][Next]_vars

\* The caller runs a request to its end and a mounted card is scanned; it
\* need not start another request.
FairSpec == Spec /\ WF_vars(Handler \/ Execute) /\ WF_vars(Scan \/ ScanEnd)

-----------------------------------------------------------------------------
(* Properties.                                                             *)

\* The variables hold values of their types; io and req have the fields the
\* handlers read.
IoType == {IdleIo} \cup
  [handler : Handlers, byte_offset : Nat, t_count : Nat, rem_count : Nat,
   val : Values \cup {BLANK}, w_log : Log \cup {INVALID},
   w_src : Phy \cup {INVALID}, w_dst : Phy \cup {INVALID},
   buf_offset : Offsets, buf_count : 0 .. BlockSize, req_count : 0 .. BlockSize]
ReqType == {NoReq} \cup
  [cmd : Cmds, phy : Phy \cup {INVALID}, off : Offsets, cnt : 0 .. BlockSize]
TypeOK == /\ lut \in Lut /\ io \in IoType /\ req \in ReqType
          /\ ret \in [count : 0 .. BlockSize, error : Errors]
          /\ phase \in {"mount", "idle", "exec", "call"}
          /\ scan \in Nat \X Blocks
          /\ media \in Media /\ tmp \in [Offsets -> Cell]
          /\ out \in Seq(Cell) /\ faults \in 0 .. MaxFaults

\* The maps agree with each other whatever fails and whenever power is lost:
\* free_cnt counts the free blocks, no block is given out twice, no mapped block
\* is given out, no two logical blocks share one.
MapsAgree == LutOK(lut)

\* A block the maps call clean (erase_map set, data_map clear) is erased on the
\* card, so that it may be written without an erase.
CleanIsErased == \A p \in lut.erase_map \ lut.data_map : media[p] = ErasedBlock

\* A block is only ever written after an erase.
WriteTargetErased ==
  phase = "exec" /\ req.cmd \in {"WRITE", "WRITE_TMP"} => media[req.phy] = ErasedBlock

\* What is written from t_buf has been put there for this block.
TmpIsFilled ==
  phase = "exec" /\ req.cmd = "WRITE_TMP" => \A s \in Offsets : tmp[s] # JUNK

\* Blocks that are neither free nor mapped, nor bad, nor the card's own.
Mapped == {lut.block_table[l] : l \in Log} \ {INVALID}
Lost   == {p \in lut.data_map \ (Mapped \cup Reserved(CisBlock)) : ~ media[p].bad}

\* A block is lost to the translation layer only by a failed command: each
\* failure costs one block at most, success costs none.
LossNeedsFault == phase = "idle" => Cardinality(Lost) <= faults

\* When a card has been scanned, of the blocks that claim the same logical block
\* at most one is in use: xd_card_resolve_conflict() has freed the others.
Claims(p, l) == media[p].tag[0] = l /\ ~ media[p].bad
MountResolvesConflicts ==
  [][phase = "mount" /\ phase' = "idle" =>
       \A p, q \in lut.data_map \ Reserved(CisBlock), l \in LogBlocks :
         p[1] = q[1] /\ Claims(p, l) /\ Claims(q, l) => p = q]_vars

\* A request ends, and a card gets mounted, whatever commands fail.
RequestEnds == phase # "idle" ~> phase = "idle"

-----------------------------------------------------------------------------
(* The promise to the block layer: LogicalStore.                           *)

\* The block that holds logical block l: the mapped one, or during a scan the
\* one that the scan has not reached yet.
Holds(p, l) == /\ p[1] = l[1] /\ media[p].tag[0] = l[2] /\ ~ media[p].bad
               /\ scan[1] < p[1] \/ (scan[1] = p[1] /\ scan[2] <= p[2])
Home(l) == IF lut.block_table[l] # INVALID THEN lut.block_table[l]
           ELSE IF phase = "mount" /\ \E p \in Phy : Holds(p, l)
           THEN CHOOSE p \in Phy : Holds(p, l)
           ELSE INVALID

LogOfSector(s) == LET b == s \div BlockSize
                  IN  <<b \div LogBlockCnt, b % LogBlockCnt>>
Stored(s) == LET p == Home(LogOfSector(s))
             IN  IF p = INVALID THEN BLANK ELSE media[p].data[s % BlockSize]

SectorCnt == ZoneCnt * LogBlockCnt * BlockSize
Job == IF phase \in {"mount", "idle"}
       THEN [op |-> "none", at |-> 0, left |-> 0, val |-> BLANK]
       ELSE IF io.handler \in {"read", "read_tmp_r"}
       THEN [op |-> "read", at |-> io.byte_offset + Len(out),
             left |-> io.t_count + io.rem_count - Len(out), val |-> io.val]
       ELSE [op |-> "write", at |-> io.byte_offset + io.t_count,
             left |-> io.rem_count, val |-> io.val]

Store == INSTANCE LogicalStore
           WITH store <- [s \in 0 .. SectorCnt - 1 |-> Stored(s)], job <- Job

\* The device behaves as an array of sectors: a read delivers what was written
\* last, a write takes effect block by block, all or nothing, a failed one
\* leaves the rest as it was, a new mount finds what the last one left.
StoresData == Store!Spec

=============================================================================
