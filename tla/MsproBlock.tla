----------------------------- MODULE MsproBlock -----------------------------
(***************************************************************************)
(* driver/mspro_block.c: block requests on a MemoryStick Pro.              *)
(*                                                                         *)
(* A block request is mapped to segments of pages and sent as one command: *)
(* WRITE_REG sets its address, SET_CMD starts it, and then the INT         *)
(* register, which the driver polls with GET_INT or which the host reports *)
(* with every TPC, says whether the card wants the next page (BREQ), has   *)
(* finished (CED) or has failed (ERR, CMDNAK).  The driver keeps its place *)
(* in current_seg and current_page.                                        *)
(*                                                                         *)
(* The host (Memstick) is reduced to what it does for a card: it executes  *)
(* current_mrq, with its retries, and calls the handler with the result.   *)
(* The card is external: it moves one page per LONG_DATA, in order.        *)
(***************************************************************************)
EXTENDS Integers, Sequences

CONSTANTS Shapes,       \* block requests: the lengths of their segments, in pages
          MaxRequests,  \* bound on the number of requests
          MaxBusy,      \* bound on the answers that say neither BREQ nor CED
          MaxFaults     \* bound on TPCs that fail, errors of the card and of memory

\* blk_rq_map_sg() maps a request to segments that are not empty.
ShapesAssumption == /\ MaxRequests \in Nat
                    /\ \A s \in Shapes : s \in Seq(Nat \ {0}) /\ s # <<>>

VARIABLES
  queue,        \* the queue: requests asked for, waiting; stopped; eject
  has_request,
  block_req,    \* what is left of the request in progress: segments, direction
  handler,      \* next_request and mrq_handler
  mrq,          \* current_mrq: the TPC, with STOP for a SET_CMD with that argument
  at,           \* who has the ball: nobody, the driver with the queue's lock held,
                \* the host's tasklet, the host
  pos,          \* current_seg (from 1), current_page
  auto_int,     \* MEMSTICK_CAP_AUTO_GET_INT
  card,         \* the command it executes: running, pages moved, failed
  false_ok,     \* pages ended as good that had not been moved: none, after STOP, other
  mrq_complete, \* the completion has been signalled
  used

vars == <<queue, has_request, block_req, handler, mrq, at, pos, auto_int, card,
          false_ok, mrq_complete, used>>

NoReq == [segs |-> <<>>, dir |-> "READ"]

Init ==
  /\ queue = [asked |-> 0, waiting |-> 0, stopped |-> FALSE, eject |-> FALSE]
  /\ has_request = FALSE /\ block_req = NoReq
  /\ handler = [next |-> "bad", mrq |-> "default"] /\ mrq = "GET_INT" /\ at = "idle"
  /\ pos = [seg |-> 1, page |-> 0] /\ auto_int \in BOOLEAN
  /\ card = [running |-> FALSE, moved |-> 0, failed |-> FALSE]
  /\ false_ok = "no" /\ mrq_complete = TRUE
  /\ used = [busy |-> 0, faults |-> 0]

Faulty == used.faults < MaxFaults
Fault  == used' = [used EXCEPT !.faults = @ + 1]

\* Pages of the segments before segment i.
Before(segs, i) ==
  LET sum[n \in Nat] == IF n = 0 THEN 0 ELSE sum[n - 1] + segs[n] IN sum[i - 1]
Pages(segs)     == Before(segs, Len(segs) + 1)

\* __blk_end_request(): the first n pages are ended.
Drop(segs, n) ==
  LET left(i) == Before(segs, i) + segs[i] - n
      kept    == {i \in DOMAIN segs : left(i) > 0}
      first   == CHOOSE i \in kept : \A j \in kept : i <= j
  IN  IF kept = {} THEN <<>>
      ELSE [SubSeq(segs, first, Len(segs)) EXCEPT ![1] = left(first)]

-----------------------------------------------------------------------------
(* mspro_block_issue_req(), with the queue's lock held                     *)

\* The next chunk of the request is mapped and its address sent.
IssueChunk(segs, to) ==
  /\ at' = to /\ mrq' = "WRITE_REG" /\ pos' = [seg |-> 1, page |-> 0]
  /\ handler' = [next |-> "req_init", mrq |-> "transfer"] /\ mrq_complete' = FALSE

\* submit: the host is idle, and its tasklet will ask; else it is waiting for us.
IssueReq ==
  /\ at \in {"issue", "submit"} /\ block_req.segs # <<>>
  /\ IssueChunk(block_req.segs, IF at = "submit" THEN "fetch" ELSE "exec")
  /\ UNCHANGED <<queue, has_request, block_req, auto_int, card, false_ok, used>>

\* blk_rq_map_sg() yields nothing: what is current is ended with an error.
MapFails ==
  /\ at \in {"issue", "submit"} /\ block_req.segs # <<>> /\ Faulty /\ Fault
  /\ block_req' = [block_req EXCEPT !.segs = Tail(@)]
  /\ UNCHANGED <<queue, has_request, handler, mrq, at, pos, auto_int, card, false_ok,
                 mrq_complete>>

\* Mutant: it is not tested whether there is another request.
NextRequestUntested ==
  /\ at \in {"issue", "submit"} /\ block_req.segs = <<>>
  /\ queue' = [queue EXCEPT !.waiting = @ - 1]
  /\ \E s \in Shapes, d \in {"READ", "WRITE"} : block_req' = [segs |-> s, dir |-> d]
  /\ UNCHANGED <<has_request, handler, mrq, at, pos, auto_int, card, false_ok,
                 mrq_complete, used>>

\* elv_next_request(): any request the block layer may have.
NextRequest ==
  /\ at \in {"issue", "submit"} /\ block_req.segs = <<>> /\ queue.waiting > 0
  /\ queue' = [queue EXCEPT !.waiting = @ - 1]
  /\ \E s \in Shapes, d \in {"READ", "WRITE"} : block_req' = [segs |-> s, dir |-> d]
  /\ UNCHANGED <<has_request, handler, mrq, at, pos, auto_int, card, false_ok,
                 mrq_complete, used>>

\* Nothing more to do: has_request is dropped.  mspro_block_complete_req() also wakes
\* the one who waits for it, mspro_block_submit_req() does not.
IssueEnds ==
  /\ at \in {"issue", "submit"} /\ block_req.segs = <<>> /\ queue.waiting = 0
  /\ has_request' = FALSE /\ at' = "idle"
  /\ IF at = "issue"
     THEN handler' = [handler EXCEPT !.next = "bad"] /\ mrq_complete' = TRUE
     ELSE UNCHANGED <<handler, mrq_complete>>
  /\ UNCHANGED <<queue, block_req, mrq, pos, auto_int, card, false_ok, used>>

-----------------------------------------------------------------------------
(* The queue.                                                              *)

Ask ==
  /\ queue.asked < MaxRequests
  /\ queue' = [queue EXCEPT !.asked = @ + 1, !.waiting = @ + 1]
  /\ UNCHANGED <<has_request, block_req, handler, mrq, at, pos, auto_int, card,
                 false_ok, mrq_complete, used>>

QueueLock == at \in {"idle", "fetch", "exec"}

\* mspro_block_submit_req()
Submit ==
  /\ QueueLock /\ ~queue.stopped /\ queue.waiting > 0 /\ ~has_request
  /\ IF queue.eject
     THEN /\ queue' = [queue EXCEPT !.waiting = 0]
          /\ UNCHANGED <<has_request, at>>
     ELSE has_request' = TRUE /\ at' = "submit" /\ UNCHANGED queue
  /\ UNCHANGED <<block_req, handler, mrq, pos, auto_int, card, false_ok, mrq_complete,
                 used>>

\* mspro_block_stop(); until then the checker sleeps on mrq_complete.
Stop == /\ QueueLock /\ ~has_request /\ queue' = [queue EXCEPT !.stopped = TRUE]
        /\ UNCHANGED <<has_request, block_req, handler, mrq, at, pos, auto_int, card,
                       false_ok, mrq_complete, used>>

\* mspro_block_suspend() asks for no such thing: a request may be on its way.
Suspend == /\ QueueLock /\ queue' = [queue EXCEPT !.stopped = TRUE]
           /\ UNCHANGED <<has_request, block_req, handler, mrq, at, pos, auto_int, card,
                          false_ok, mrq_complete, used>>

\* mspro_block_start(), mspro_block_resume()
Start == /\ QueueLock /\ queue.stopped /\ queue' = [queue EXCEPT !.stopped = FALSE]
         /\ UNCHANGED <<has_request, block_req, handler, mrq, at, pos, auto_int, card,
                        false_ok, mrq_complete, used>>

\* mspro_block_remove(), as far as blk_cleanup_queue(): also with a request on its way.
Remove == /\ QueueLock /\ queue' = [queue EXCEPT !.stopped = FALSE, !.eject = TRUE]
          /\ UNCHANGED <<has_request, block_req, handler, mrq, at, pos, auto_int, card,
                         false_ok, mrq_complete, used>>

-----------------------------------------------------------------------------
(* The end of a request: mspro_block_complete_req()                        *)

\* How many pages are ended.  tpc is compared with MSPRO_CMD_STOP, which is a command
\* and no TPC: the test never holds, and a request that was stopped counts as moved.
Counted(error) ==
  LET segs == block_req.segs
      sure == IF block_req.dir = "READ"
              THEN Before(segs, pos.seg) + (IF pos.page > 0 THEN pos.page - 1 ELSE 0)
              ELSE 0
  IN  IF ~error THEN Pages(segs) ELSE IF sure = 0 THEN segs[1] ELSE sure

CompleteReq(error) ==
  /\ block_req' = [block_req EXCEPT !.segs = Drop(@, Counted(error))]
  /\ at' = "issue"
  /\ false_ok' = IF error \/ card'.moved >= Pages(block_req.segs) THEN false_ok
                 ELSE IF mrq = "STOP" \/ false_ok = "stop" THEN "stop" ELSE "other"
  /\ UNCHANGED <<queue, has_request, handler, mrq, pos, auto_int, mrq_complete>>

-----------------------------------------------------------------------------
(* The handlers, called when the host has executed mrq.                    *)

Send(tpc) == mrq' = tpc
Goes      == UNCHANGED <<queue, has_request, block_req, at, auto_int, false_ok,
                         mrq_complete>>

\* h_mspro_block_req_init(), called by the idle host
Fetch ==
  /\ at = "fetch" /\ at' = "exec" /\ handler' = [handler EXCEPT !.next = handler.mrq]
  /\ UNCHANGED <<queue, has_request, block_req, mrq, pos, auto_int, card, false_ok,
                 mrq_complete, used>>

\* What the card does with the TPC, and the INT register after it.
Executed(c) ==
  CASE mrq = "SET_CMD" -> [running |-> TRUE, moved |-> 0, failed |-> FALSE]
    [] mrq = "STOP"    -> [c EXCEPT !.running = FALSE]
    [] mrq = "LONG"    -> [c EXCEPT !.moved = @ + 1]
    [] OTHER           -> c

\* The TPC fails for good.  Every handler ends the request then, but for req_init,
\* which sends it again.
TpcFails ==
  /\ at = "exec" /\ Faulty /\ Fault /\ UNCHANGED card
  /\ IF handler.next = "req_init"
     THEN /\ handler' = [handler EXCEPT !.next = handler.mrq]
          /\ Send(mrq) /\ UNCHANGED pos /\ Goes
     ELSE CompleteReq(TRUE)

\* The TPC succeeds and the handler needs nothing from the INT register.
TpcDone ==
  /\ at = "exec" /\ card' = Executed(card) /\ UNCHANGED used
  /\ \/ /\ handler.next = "req_init"
        /\ handler' = [handler EXCEPT !.next = handler.mrq]
        /\ Send(mrq) /\ UNCHANGED pos /\ Goes
     \/ /\ handler.next = "transfer" /\ mrq = "WRITE_REG"
        /\ Send("SET_CMD") /\ UNCHANGED <<handler, pos>> /\ Goes
     \/ /\ handler.next = "transfer" /\ mrq \in {"SET_CMD", "LONG"} /\ ~auto_int
        /\ pos' = [pos EXCEPT !.page = IF mrq = "LONG" THEN @ + 1 ELSE @]
        /\ Send("GET_INT") /\ UNCHANGED handler /\ Goes
     \/ handler.next = "default" /\ CompleteReq(FALSE)

\* The answers the INT register may give.  "none", which the driver answers with another
\* GET_INT whenever it comes, comes MaxBusy times.
Moving == card'.running /\ ~card'.failed
IntReg(bit) ==
  CASE bit = "BREQ" -> Moving /\ card'.moved < Pages(block_req.segs) /\ UNCHANGED used
    [] bit = "CED"  -> Moving /\ card'.moved = Pages(block_req.segs) /\ UNCHANGED used
    [] bit = "none" -> Moving /\ used.busy < MaxBusy
                              /\ used' = [used EXCEPT !.busy = @ + 1]

Reports == \/ mrq = "GET_INT"
           \/ auto_int /\ mrq \in {"SET_CMD", "LONG"}

\* has_int_reg: an error stops the command; h_mspro_block_wait_for_ced() gives up.
IntError ==
  /\ at = "exec" /\ Reports /\ handler.next \in {"transfer", "ced"} /\ Faulty /\ Fault
  /\ card' = [Executed(card) EXCEPT !.failed = TRUE]
  /\ IF handler.next = "ced"
     THEN CompleteReq(TRUE)
     ELSE /\ Send("STOP") /\ handler' = [handler EXCEPT !.next = "default"]
          /\ pos' = [pos EXCEPT !.page = IF mrq = "LONG" THEN @ + 1 ELSE @]
          /\ Goes

\* Mutant: the end of the command is not waited for, and the next segment is begun
\* with its second page.
IntTransferBlind ==
  /\ at = "exec" /\ Reports /\ handler.next = "transfer" /\ card' = Executed(card)
  /\ \E bit \in {"BREQ", "CED", "none"} :
       LET page == IF mrq = "LONG" THEN pos.page + 1 ELSE pos.page
           full == page = block_req.segs[pos.seg]
           last == full /\ pos.seg = Len(block_req.segs)
       IN /\ IntReg(bit)
          /\ \/ last /\ CompleteReq(FALSE)
             \/ /\ ~last
                /\ pos' = IF full THEN [seg |-> pos.seg + 1, page |-> 1]
                          ELSE [pos EXCEPT !.page = page]
                /\ handler' = handler
                /\ Send(IF ~last /\ bit = "BREQ" THEN "LONG" ELSE "GET_INT")
                /\ Goes

\* has_int_reg: on to the next page, segment, or to the end.
IntTransfer ==
  /\ at = "exec" /\ Reports /\ handler.next = "transfer" /\ card' = Executed(card)
  /\ \E bit \in {"BREQ", "CED", "none"} :
       LET page == IF mrq = "LONG" THEN pos.page + 1 ELSE pos.page
           full == page = block_req.segs[pos.seg]
           last == full /\ pos.seg = Len(block_req.segs)
       IN /\ IntReg(bit)
          /\ \/ last /\ bit = "CED" /\ CompleteReq(FALSE)
             \/ /\ ~last \/ bit # "CED"
                /\ pos' = IF full THEN [seg |-> pos.seg + 1, page |-> 0]
                          ELSE [pos EXCEPT !.page = page]
                /\ handler' = IF last THEN [handler EXCEPT !.next = "ced"] ELSE handler
                /\ Send(IF ~last /\ bit = "BREQ" THEN "LONG" ELSE "GET_INT")
                /\ Goes

\* h_mspro_block_wait_for_ced()
IntWait ==
  /\ at = "exec" /\ handler.next = "ced" /\ card' = Executed(card)
  /\ \/ IntReg("CED") /\ CompleteReq(FALSE)
     \/ /\ IntReg("BREQ") \/ IntReg("none")
        /\ Send(mrq) /\ UNCHANGED <<handler, pos>> /\ Goes

-----------------------------------------------------------------------------
Driver == IssueReq \/ MapFails \/ NextRequest \/ IssueEnds
Host   == Fetch \/ TpcFails \/ TpcDone \/ IntError \/ IntTransfer \/ IntWait

Next == Driver \/ Host \/ Ask \/ Submit \/ Stop \/ Suspend \/ Start \/ Remove

\* The driver goes on, the host executes what it has or its timer fails it, and the
\* queue is run when it is not stopped.  That the card is busy finitely often (MaxBusy) is
\* assumed of the card: the code asks without limit, and no timer counts the answers.
Fairness == WF_vars(Driver) /\ WF_vars(Host) /\ WF_vars(Submit)

Spec == Init /\ [][Next]_vars /\ Fairness

-----------------------------------------------------------------------------
(* Properties.                                                             *)

TypeOK ==
  /\ queue \in [asked : 0 .. MaxRequests, waiting : 0 .. MaxRequests,
                stopped : BOOLEAN, eject : BOOLEAN]
  /\ at \in {"idle", "issue", "submit", "fetch", "exec"}
  /\ mrq \in {"WRITE_REG", "SET_CMD", "GET_INT", "LONG", "STOP"}
  /\ handler.next \in {"bad", "req_init", "transfer", "ced", "default"}
  /\ pos.seg \in Nat \ {0} /\ pos.page \in Nat
  /\ has_request \in BOOLEAN /\ mrq_complete \in BOOLEAN

\* The page the driver transfers next is the page the card moves next.
InStep == (at = "exec" /\ mrq = "LONG") =>
            /\ pos.seg <= Len(block_req.segs) /\ pos.page < block_req.segs[pos.seg]
            /\ card.moved = Before(block_req.segs, pos.seg) + pos.page

\* A page is ended as good only when the card has moved it, unless the card had
\* reported an error and the command was stopped.
OkMeansMoved == false_ok # "other"

\* Nobody is woken while a request is on its way.
QuietWhenWoken == (at \in {"fetch", "exec"}) => has_request /\ ~mrq_complete

PagesInStep == TypeOK /\ InStep /\ OkMeansMoved /\ QuietWhenWoken

RequestEnds == has_request ~> ~has_request
=============================================================================
