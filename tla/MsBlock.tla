------------------------------- MODULE MsBlock -------------------------------
(***************************************************************************)
(* mtdx_adv/ms_block.c, the driver of the old MemoryStick: how it reads    *)
(* and erases.  A request of the translation layer becomes a chain of      *)
(* commands (TPCs), each answered by the card before the next handler      *)
(* runs; which handler is next is state, as are the flags that say how     *)
(* pages are read: one command each, or one for all (PAGE_INC), with their *)
(* extra data in the registers (EXTRA), of a card whose registers cannot   *)
(* all be read at once (quirk).                                            *)
(*                                                                         *)
(* Writing and copying are left out: after the last page of a write        *)
(* h_ms_block_cmd_get_int() goes on with a request that has ended.         *)
(***************************************************************************)
EXTENDS Integers, Sequences

CONSTANTS PageCnt,      \* pages of a block
          BREQ_RETRIES,
          Requests,     \* what may be asked: [cmd, data, oob, first, pages]
          SlowPages,    \* a page may come after the driver has asked for the interrupt
          HalfDone,     \* a command that fails may have been done
          MaxRequests, MaxErrors, MaxWaits  \* bounds: requests, errors, waits

VARIABLES
  caps,  \* subset of {"quirk", "auto"}: MEMSTICK_CAP_REG_QUIRK, _AUTO_GET_INT
  drv,   \* struct ms_block_data, the handler and its request, see NewDrv
  req,   \* req_in
  chip,  \* the card: its window, parameters, command, page in its buffer, interrupts
  used   \* requests, errors, waits

vars == <<caps, drv, req, chip, used>>

\* next: the handler; tpc, arg: mrq; err: its error.  got, extras: the pages whose data,
\* whose extra data are where the request wants them.  tpcs counts the commands.
Idle == [next |-> "init", tpc |-> "none", arg |-> "none", err |-> "ok", win |-> "none",
         cmd |-> "none", flags |-> {}, cp |-> "none", page |-> 0, dst |-> 0, t_count |-> 0,
         trans_err |-> "ok", ced |-> FALSE, breq |-> 0, got |-> <<>>, extras |-> <<>>,
         tpcs |-> 0]

None == -1  \* no page, or one that is not what it should be

Init ==
  /\ caps \in SUBSET {"quirk", "auto"}
  /\ drv = Idle
  /\ req = [cmd |-> "none", data |-> FALSE, oob |-> FALSE, first |-> 0, pages |-> 0]
  /\ chip = [win |-> "none", cp |-> "none", page |-> 0, cmd |-> "none", at |-> None,
             int |-> {}, stat |-> "good"]
  /\ used = [requests |-> 0, errors |-> 0, waits |-> 0]

-----------------------------------------------------------------------------
(* The card.  What it may answer is a set of [c, err, spent]: what becomes *)
(* of it, the error of the host, and what is spent of errors and waits.    *)

Answer(c, err, e, w) == [c |-> c, err |-> err, errors |-> e, waits |-> w]

\* Page p is ready: the last one of the command ends it. A page with an error is one that
\* was corrected, or cannot be.
Ready(c, p) ==
  LET int == IF c.cp = "block" /\ p < PageCnt - 1 THEN {"BREQ"} ELSE {"BREQ", "CED"}
  IN  {Answer([c EXCEPT !.at = p, !.int = int, !.stat = "good"], "ok", 0, 0)} \cup
      {Answer([c EXCEPT !.at = p, !.int = int \cup {"ERR"}, !.stat = s], "ok", 1, 0) :
         s \in {"corrected", "uncorrectable", "other"}}
Busy(c, p) == {Answer([c EXCEPT !.at = p, !.int = {}, !.stat = "good"], "ok", 0, 1)}

\* The card does not take the command.
Refused(c) == Answer([c EXCEPT !.int = {"CED", "CMDNAK"}], "ok", 1, 0)

\* A command begins. The answer may come before the card is ready only where a whole block
\* is to be read, or erased.
SetCmd(c, cmd) ==
  CASE cmd = "BLOCK_READ"  -> {Refused([c EXCEPT !.cmd = cmd])}
                                \cup Ready([c EXCEPT !.cmd = cmd], c.page)
                                \cup (IF c.cp = "block" \/ SlowPages
                                      THEN Busy([c EXCEPT !.cmd = cmd], c.page) ELSE {})
    [] cmd = "BLOCK_ERASE" -> LET d == [c EXCEPT !.cmd = cmd, !.at = None]
                              IN  {Refused(d), Answer([d EXCEPT !.int = {"CED"}], "ok", 0, 0),
                                   Answer([d EXCEPT !.int = {"CED", "ERR"}], "ok", 1, 0),
                                   Answer([d EXCEPT !.int = {}], "ok", 0, 1)}
    [] OTHER               -> {Answer([c EXCEPT !.cmd = cmd, !.int = {"CED"}], "ok", 0, 0)}

GetInt(c) ==
  IF c.int # {} THEN {Answer(c, "ok", 0, 0)}
  ELSE IF c.cmd = "BLOCK_READ" THEN Ready(c, c.at) \cup Busy(c, c.at)
  ELSE {Answer([c EXCEPT !.int = {"CED"}], "ok", 0, 0), Answer(c, "ok", 0, 1)}

\* The page in the buffer goes to the host, the next one comes.
ReadLong(c) ==
  IF c.cp = "block" /\ c.at < PageCnt - 1
  THEN Ready(c, c.at + 1) \cup (IF SlowPages THEN Busy(c, c.at + 1) ELSE {})
  ELSE {Answer([c EXCEPT !.at = None, !.int = {"CED"}], "ok", 0, 0)}

Does(c) ==
  LET good == CASE drv.tpc = "SET_RW"    -> {Answer([c EXCEPT !.win = drv.arg], "ok", 0, 0)}
                [] drv.tpc = "WRITE_REG" -> {Answer([c EXCEPT !.cp = drv.cp, !.page = drv.page],
                                                    "ok", 0, 0)}
                [] drv.tpc = "SET_CMD"   -> SetCmd(c, drv.arg)
                [] drv.tpc = "GET_INT"   -> GetInt(c)
                [] drv.tpc = "READ_LONG" -> ReadLong(c)
                [] OTHER                 -> {Answer(c, "ok", 0, 0)}
  IN  good \cup {Answer(c, "ETIME", 1, 0)}
        \cup (IF HalfDone THEN {Answer(a.c, "ETIME", 1, 0) : a \in good} ELSE {})

-----------------------------------------------------------------------------
(* The handlers, as what they make of d, the driver after the TPC; a is    *)
(* the answer. Those that call another handler pass d on.                  *)

Tpc(d, tpc, arg, next) == [d EXCEPT !.tpc = tpc, !.arg = arg, !.next = next]

\* ms_block_complete_req() ends the request with the error of mrq, see EndRequest.
Complete(d, err) == [d EXCEPT !.next = "end", !.err = err]

\* ms_block_complete_multi(): a command for many pages is ended first, and the error kept;
\* else the error is not even looked at.
CompleteMulti(d, err) ==
  IF "PAGE_INC" \in d.flags
  THEN Tpc([d EXCEPT !.trans_err = err, !.cmd = "BLOCK_END"], "SET_CMD", "BLOCK_END", "set_cmd")
  ELSE Complete(d, d.err)

\* ms_block_set_req_data(), and its callers when it fails: the buffer may have no page in
\* one piece.
SetReqData(d, fits) ==
  IF fits THEN Tpc(d, "READ_LONG", "none", "read_data")
  ELSE CompleteMulti([d EXCEPT !.err = "ENOMEM", !.trans_err = "ENOMEM"], "ENOMEM")

\* SET_RW_REG_ADRS, unless the card's window is the one wanted, then handler goes(d).
Window(d, win, next, Goes(_)) ==
  LET e == Tpc(d, "SET_RW", win, next) IN IF d.win # win THEN e ELSE Goes(e)

\* ms_block_set_status_reg()
SetStatusReg(d) ==
  IF "quirk" \in caps THEN Tpc(d, "READ_REG", "stat", "read_status_reg")
  ELSE Tpc(d, "READ_REG", "all", "read_status")

\* h_ms_block_set_param_addr_init()
SetParamAddrInit(d) ==
  IF d.err # "ok" THEN Complete(d, d.err)
  ELSE Tpc([d EXCEPT !.win = d.arg], "WRITE_REG", "param", "write_param")

\* h_ms_block_set_param_addr(): on to the next page.
SetParamAddr(d) ==
  IF d.err # "ok" THEN CompleteMulti(d, d.err)
  ELSE Tpc([d EXCEPT !.win = d.arg, !.page = d.dst,
                     !.cp = IF "DATA" \in d.flags THEN "page" ELSE "extra"],
           "WRITE_REG", "param", "write_param")

\* h_ms_block_write_param()
WriteParam(d) ==
  IF d.err # "ok" THEN Complete(d, d.err) ELSE Tpc(d, "SET_CMD", d.cmd, "set_cmd")

NextPage(d) == [d EXCEPT !.dst = @ + 1, !.t_count = @ + 1]
PageWindow  == IF "quirk" \in caps THEN "stat_param" ELSE "all_param"

\* h_ms_block_read_status(): d.extras gets the page the registers tell of.
ReadStatus(d, a, extra) ==
  LET bad == "ERR" \in a.c.int
      e   == IF "EXTRA" \in d.flags THEN [d EXCEPT !.extras = Append(@, extra)] ELSE d
  IN  IF d.err # "ok" THEN CompleteMulti(d, d.err)
      ELSE IF bad /\ a.c.stat = "uncorrectable" THEN CompleteMulti(d, "EFAULT")
      ELSE IF bad /\ a.c.stat = "other" THEN CompleteMulti(d, "EIO")
      ELSE IF "DATA" \in d.flags THEN SetReqData(e, a.fits)
      ELSE IF NextPage(e).t_count = req.pages THEN CompleteMulti(NextPage(e), "ok")
      ELSE Window(NextPage(e), PageWindow, "set_param_addr", SetParamAddr)

\* h_ms_block_read_extra_reg()
ReadExtraReg(d, a) ==
  IF d.err # "ok" THEN CompleteMulti(d, d.err)
  ELSE ReadStatus(d, a, IF a.c.win = "extra_param" THEN a.c.at ELSE None)

\* h_ms_block_set_extra_addr_r()
SetExtraAddrR(d) ==
  IF d.err # "ok" THEN CompleteMulti(d, d.err)
  ELSE Tpc([d EXCEPT !.win = "extra_param"], "READ_REG", "extra", "read_extra_reg")

\* h_ms_block_read_status_reg()
ReadStatusReg(d) ==
  IF d.err # "ok" THEN CompleteMulti(d, d.err)
  ELSE Window(d, "extra_param", "set_extra_addr_r", SetExtraAddrR)

\* What a page that has been announced needs.
TakePage(d, a) ==
  IF "EXTRA" \in d.flags THEN SetStatusReg(d)
  ELSE IF "ERR" \in a.c.int THEN Tpc(d, "READ_REG", "stat", "read_status")
  ELSE SetReqData(d, a.fits)

\* h_ms_block_cmd_get_int()
CmdGetInt(f, a) ==
  LET int == a.c.int
      d   == [f EXCEPT !.ced = @ \/ "CED" \in int]
      asks == "PAGE_INC" \in d.flags /\ "BREQ" \notin int
      ends == IF "CMDNAK" \in int THEN "EIO" ELSE IF "ERR" \in int THEN "EFAULT" ELSE "ok"
  IN  IF f.err # "ok" THEN Complete(f, f.err)
      ELSE IF d.cmd = "BLOCK_END"
      THEN IF d.ced THEN Complete(d, d.trans_err) ELSE [d EXCEPT !.err = d.trans_err]
      ELSE IF d.cmd = "BLOCK_ERASE"
      THEN IF d.ced THEN Complete(d, ends) ELSE [d EXCEPT !.err = ends]
      ELSE IF "CMDNAK" \in int THEN Complete(d, "EIO")
      ELSE IF asks
      THEN IF d.breq + 1 > BREQ_RETRIES THEN Complete([d EXCEPT !.breq = @ + 1], "EIO")
           ELSE [d EXCEPT !.breq = @ + 1]
      ELSE TakePage([d EXCEPT !.breq = IF "PAGE_INC" \in d.flags THEN 0 ELSE @], a)

\* h_ms_block_set_cmd(): the host may have the interrupts with the answer.
SetCmdDone(d, a) ==
  LET e == Tpc(d, "GET_INT", "none", "cmd_get_int")
  IN  IF d.err # "ok" THEN Complete(d, d.err)
      ELSE IF "auto" \in caps THEN CmdGetInt(e, a) ELSE e

\* h_ms_block_data_get_int_r(): where no page is announced it counts, and counts from 0
\* again, and takes a page all the same.
DataGetIntR(d, a) ==
  LET e == [d EXCEPT !.ced = @ \/ "CED" \in a.c.int]
  IN  IF d.err # "ok" THEN CompleteMulti(d, d.err)
      ELSE IF "CMDNAK" \in a.c.int THEN CompleteMulti(d, "EIO")
      ELSE IF ~e.ced /\ "BREQ" \notin a.c.int
      THEN IF e.breq + 1 > BREQ_RETRIES THEN CompleteMulti([e EXCEPT !.breq = @ + 1], "EIO")
           ELSE TakePage([e EXCEPT !.breq = 0], a)
      ELSE TakePage(e, a)

\* h_ms_block_read_data()
ReadData(d, a) ==
  LET e == NextPage([d EXCEPT !.got = Append(@, a.page)])
      n == Tpc(e, "GET_INT", "none", "data_get_int_r")
      wanted == IF "EXTRA" \in d.flags THEN PageWindow ELSE "stat_param"
  IN  IF d.err # "ok" THEN CompleteMulti(d, d.err)
      ELSE IF e.t_count = req.pages \/ ("PAGE_INC" \in d.flags /\ e.ced)
      THEN CompleteMulti(e, "ok")
      ELSE IF "PAGE_INC" \notin d.flags THEN Window(e, wanted, "set_param_addr", SetParamAddr)
      ELSE IF "auto" \in caps THEN DataGetIntR(n, a) ELSE n

-----------------------------------------------------------------------------
(* Actions.                                                                *)

\* The card does what mrq says, then the handler next makes d of it.
Handles(next, Handler(_, _)) ==
  /\ drv.next = next
  /\ \E a \in Does(chip), fits \in BOOLEAN :
       LET errors == used.errors + a.errors + (IF fits THEN 0 ELSE 1)
           waits  == used.waits + a.waits
       IN  /\ errors <= MaxErrors /\ waits <= MaxWaits
           /\ chip' = a.c
           /\ used' = [used EXCEPT !.errors = errors, !.waits = waits]
           /\ drv' = Handler([drv EXCEPT !.err = a.err, !.tpcs = @ + 1],
                             [c |-> a.c, fits |-> fits,
                              page |-> IF chip.stat = "uncorrectable" \/ chip.int = {} THEN None
                                       ELSE chip.at])
  /\ UNCHANGED <<caps, req>>

HParamAddrInit == Handles("param_addr_init", LAMBDA d, a : SetParamAddrInit(d))
HParamAddr     == Handles("set_param_addr", LAMBDA d, a : SetParamAddr(d))
HWriteParam    == Handles("write_param", LAMBDA d, a : WriteParam(d))
HSetCmd        == Handles("set_cmd", SetCmdDone)
HCmdGetInt     == Handles("cmd_get_int", CmdGetInt)
HReadStatus    == Handles("read_status", LAMBDA d, a : ReadStatus(d, a,
                            IF a.c.win = "all_param" THEN a.c.at ELSE None))
HReadStatusReg == Handles("read_status_reg", LAMBDA d, a : ReadStatusReg(d))
HExtraAddrR    == Handles("set_extra_addr_r", LAMBDA d, a : SetExtraAddrR(d))
HReadExtraReg  == Handles("read_extra_reg", ReadExtraReg)
HReadData      == Handles("read_data", ReadData)
HDataGetIntR   == Handles("data_get_int_r", DataGetIntR)

Flags(r) ==
  IF r.cmd # "read" THEN {}
  ELSE (IF r.data THEN {"DATA"} ELSE {}) \cup (IF r.oob THEN {"EXTRA"} ELSE {})
         \cup (IF r.data /\ r.pages > 1 /\ ~(r.oob /\ "quirk" \in caps) THEN {"PAGE_INC"}
               ELSE {})

\* ms_block_trans_req()
TransReq(r) ==
  LET flags == Flags(r)
  IN  [Idle EXCEPT !.win = drv.win, !.breq = drv.breq, !.flags = flags, !.dst = r.first,
         !.page = IF r.cmd = "read" THEN r.first ELSE 0,
         !.cmd  = IF r.cmd = "read" THEN "BLOCK_READ" ELSE "BLOCK_ERASE",
         !.cp   = IF "PAGE_INC" \in flags THEN "block" ELSE IF "DATA" \in flags THEN "page"
                  ELSE IF "EXTRA" \in flags THEN "extra" ELSE "none"]

\* h_ms_block_req_init(), with a request of some device; a command that is not known ends
\* at once.
ReqInit ==
  /\ drv.next = "init" /\ used.requests < MaxRequests
  /\ \E r \in Requests :
       /\ req' = r
       /\ drv' = IF r.cmd = "other" THEN Complete([Idle EXCEPT !.win = drv.win, !.breq = drv.breq],
                                                  "EINVAL")
                 ELSE Window(TransReq(r),
                             IF "EXTRA" \in Flags(r) THEN PageWindow ELSE "stat_param",
                             "param_addr_init", SetParamAddrInit)
  /\ used' = [used EXCEPT !.requests = @ + 1, !.errors = 0, !.waits = 0]
  /\ UNCHANGED <<caps, chip>>

\* ms_block_complete_req(): the count is of pages, the error that of mrq; all is forgotten
\* but the window and breq_count.
EndRequest ==
  /\ drv.next = "end"
  /\ drv' = [Idle EXCEPT !.win = drv.win, !.breq = drv.breq]
  /\ UNCHANGED <<caps, req, chip, used>>

Next == \/ ReqInit \/ EndRequest \/ HParamAddrInit \/ HParamAddr \/ HWriteParam \/ HSetCmd
        \/ HCmdGetInt \/ HReadStatus \/ HReadStatusReg \/ HExtraAddrR \/ HReadExtraReg
        \/ HReadData \/ HDataGetIntR

-----------------------------------------------------------------------------
\* The driver knows which registers the card shows, so that what it takes for the status,
\* or for extra data, is that: while it does not set the window, it is the card's.
WindowKnown == drv.tpc # "SET_RW" /\ drv.next \notin {"init", "end"} => chip.win = drv.win

\* The pages it counts are those that were asked for, in their order, good, and with their
\* extra data, however they were read.
PagesRight ==
  drv.next = "end" /\ req.cmd = "read" =>
    \A i \in 1 .. drv.t_count :
      /\ req.data => i <= Len(drv.got) /\ drv.got[i] = req.first + i - 1
      /\ req.oob => i <= Len(drv.extras) /\ drv.extras[i] = req.first + i - 1

\* A request that has not been done ends with an error. (One that is read page by page
\* does not if a page could not be corrected: only the count tells.)
ErrorTold ==
  drv.next = "end" /\ drv.err = "ok" /\ req.cmd = "read" =>
    drv.t_count = req.pages \/ (drv.cp # "block" /\ chip.stat \in {"uncorrectable", "other"})

\* A request is a bounded number of commands, and the driver never lacks an answer.
Ends == /\ drv.tpcs <= 7 * req.pages + 7 + MaxWaits
        /\ drv.next # "init" => ENABLED Next

BlocksRead == WindowKnown /\ PagesRight /\ ErrorTold /\ Ends
=============================================================================
