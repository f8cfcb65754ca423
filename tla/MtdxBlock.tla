------------------------------ MODULE MtdxBlock ------------------------------
(***************************************************************************)
(* mtdx_block.c, block devices on top of one translation layer, and the    *)
(* queue of devices (mtdx_bus.c) by which the layer (ftl_simple.c) serves  *)
(* them one after another.  What the layer does with a request is in       *)
(* FtlSimple.                                                              *)
(*                                                                         *)
(* Four locks matter.  The block layer calls mtdx_block_submit_req() with  *)
(* the q_lock of the device; the device below (ms_block.c) holds msb->lock *)
(* while it calls the layer, and the layer fsd->lock while it calls the    *)
(* devices, which then take q_lock; the device queue has a lock of its     *)
(* own.  A removal takes them one after another, and none of them while it *)
(* puts the dummy in and empties the queue.                                *)
(***************************************************************************)
EXTENDS Integers, Sequences, SequencesExt

CONSTANTS Devs,
          MaxAsks, MaxSleeps,  \* bounds: requests, suspends
          CanRemove,           \* the card may be pulled out
          None

ASSUME NotADevice == None \notin Devs

VARIABLES
  dev,   \* each device, see NewDev
  ftl,   \* c_queue, req_dev, the length of req_in (0: none), whether a command went down
         \* for it; at: get_request() runs ("get"), has heard from req_dev that there is
         \* nothing ("next"), the device below works ("out"), has called end_request() and
         \* not asked again yet ("ended"), or will not before it is told ("idle"); woken:
         \* it has been; rm: the device below does not ask any more ("stop"), the queue has
         \* been emptied ("wait"), the children go ("drop"), all is freed ("gone")
  mb_used   \* requests and suspends so far

mbVars == <<dev, ftl, mb_used>>

\* bus: "none", "bound", "failed" probe, or "gone".  usage and eject as in the code, opens
\* the files open.  waiting: the lengths of the requests of the block layer; busy:
\* block_req, the first of them, is set; kick: the request function has to be called;
\* calling: it holds q_lock, and has fetched the layer's new_request() and not yet put the
\* device into its queue ("push") or not yet told the device below ("tell"); stopped: the
\* queue is.  refs: references taken for the layer and not given back.
NewDev == [bus |-> "none", usage |-> 0, opens |-> 0, eject |-> FALSE, waiting |-> <<>>,
           busy |-> FALSE, kick |-> FALSE, calling |-> "no", stopped |-> FALSE, refs |-> 0]

MbInit ==
  /\ dev = [d \in Devs |-> NewDev]
  /\ ftl = [c_queue |-> <<>>, req_dev |-> None, req_in |-> 0, sent |-> FALSE, at |-> "idle",
            woken |-> FALSE, rm |-> "no"]
  /\ mb_used = [asks |-> 0, sleeps |-> 0]

\* What struct mtdx_block_data is freed by: mtdx_block_disk_release().
Release(r) == [r EXCEPT !.usage = IF @ > 0 THEN @ - 1 ELSE 0]

-----------------------------------------------------------------------------
(* mtdx_bus.c: the queue of devices.                                       *)

\* Mutant: the device being served is taken for one in the queue.
PushUnlessServed(q, d) == IF Contains(q, d) \/ d = ftl.req_dev THEN q ELSE Append(q, d)

\* mtdx_dev_queue_push_back()
PushBack(q, d) == IF Contains(q, d) THEN q ELSE Append(q, d)

\* mtdx_dev_queue_pop_front()
PopFront(q) == IF q = <<>> THEN [dev |-> None, rest |-> <<>>]
               ELSE [dev |-> Head(q), rest |-> Tail(q)]

-----------------------------------------------------------------------------
(* Devices come (at once, or by way of the attribute `children'), are      *)
(* opened, closed and asked for data.                                      *)

\* mtdx_device_probe(), mtdx_block_probe(): a device whose probe fails stays on the bus.
Probe(d) ==
  /\ dev[d].bus = "none" /\ ftl.rm = "no"
  /\ \E ok \in BOOLEAN :
       dev' = [dev EXCEPT ![d] = IF ok THEN [@ EXCEPT !.bus = "bound", !.usage = 1]
                                 ELSE [@ EXCEPT !.bus = "failed"]]
  /\ UNCHANGED <<ftl, mb_used>>

\* mtdx_block_bd_open()
Open(d) ==
  /\ dev[d].bus = "bound" /\ dev[d].opens = 0
  /\ dev' = [dev EXCEPT ![d].opens = @ + 1, ![d].usage = @ + 1]
  /\ UNCHANGED <<ftl, mb_used>>

\* mtdx_block_bd_release()
Close(d) ==
  /\ dev[d].opens > 0 /\ dev[d].waiting = <<>>
  /\ dev' = [dev EXCEPT ![d] = [Release(dev[d]) EXCEPT !.opens = @ - 1]]
  /\ UNCHANGED <<ftl, mb_used>>

\* The block layer takes a request and runs the queue, which may be stopped.
MbAsk(d, len) ==
  /\ dev[d].bus = "bound" /\ dev[d].opens > 0 /\ dev[d].calling = "no"
  /\ mb_used.asks < MaxAsks
  /\ mb_used' = [mb_used EXCEPT !.asks = @ + 1]
  /\ dev' = [dev EXCEPT ![d].waiting = Append(@, len), ![d].kick = ~dev[d].stopped]
  /\ UNCHANGED ftl

\* mtdx_block_submit_req(): nothing while a request is on its way; when ejected, the
\* requests end with an error; else the layer's new_request(), which is a dummy once the
\* layer has got that far with its removal.
SubmitReq(d) ==
  LET asks == ~dev[d].busy /\ ~dev[d].eject /\ ftl.rm \in {"no", "stop"}
  IN /\ dev[d].kick /\ dev[d].bus = "bound" /\ dev[d].calling = "no"
     /\ dev' = [dev EXCEPT ![d].kick = FALSE, ![d].calling = IF asks THEN "push" ELSE "no",
                           ![d].waiting = IF dev[d].eject /\ ~dev[d].busy THEN <<>> ELSE @]
     /\ UNCHANGED <<ftl, mb_used>>

\* ftl_simple_new_request(), however far the removal is by now: a reference and a place in
\* the queue,
Push(d) ==
  /\ dev[d].calling = "push"
  /\ dev' = [dev EXCEPT ![d].calling = "tell", ![d].refs = @ + 1]
  /\ ftl' = [ftl EXCEPT !.c_queue = PushBack(@, d)]
  /\ UNCHANGED mb_used

\* Mutant: the device below is not told.
WakeNobody(d) ==
  /\ dev[d].calling = "tell"
  /\ dev' = [dev EXCEPT ![d].calling = "no"]
  /\ UNCHANGED <<ftl, mb_used>>

\* ... and the device below is told, by a new_request() of its own.
Wake(d) ==
  /\ dev[d].calling = "tell"
  /\ dev' = [dev EXCEPT ![d].calling = "no"]
  /\ ftl' = [ftl EXCEPT !.woken = TRUE]
  /\ UNCHANGED mb_used

-----------------------------------------------------------------------------
(* ftl_simple.c: one request at a time.                                    *)

\* The device below has nothing to do and has been told: h_ms_block_req_init().
MediaAsks ==
  /\ ftl.at = "idle" /\ ftl.woken /\ ftl.rm = "no"
  /\ ftl' = [ftl EXCEPT !.at = "get", !.woken = FALSE]
  /\ UNCHANGED <<dev, mb_used>>

\* mtdx_block_get_request() of req_dev: the request it has, or the first of the queue.
MbFetchReq ==
  /\ ftl.at = "get" /\ ftl.req_in = 0 /\ ftl.req_dev # None
  /\ dev[ftl.req_dev].calling = "no"
  /\ LET d == ftl.req_dev
         some == dev[d].waiting # <<>>
     IN /\ dev' = [dev EXCEPT ![d].busy = some]
        /\ ftl' = IF some THEN [ftl EXCEPT !.req_in = Head(dev[d].waiting)]
                  ELSE [ftl EXCEPT !.at = "next"]
  /\ UNCHANGED mb_used

\* ftl_simple_get_request(): on to the next device; without one it returns nothing.
NextDev ==
  /\ ftl.at = "next" \/ (ftl.at = "get" /\ ftl.req_dev = None)
  /\ LET next == PopFront(ftl.c_queue)
     IN ftl' = [ftl EXCEPT !.req_dev = next.dev, !.c_queue = next.rest,
                           !.at = IF next.dev = None THEN "idle" ELSE "get"]
  /\ dev' = [d \in Devs |-> IF d = ftl.req_dev THEN [dev[d] EXCEPT !.refs = @ - 1]
                            ELSE dev[d]]
  /\ UNCHANGED mb_used

\* It returns a command for the device below,
SendsOut ==
  /\ ftl.at = "get" /\ ftl.req_in > 0 /\ ~ftl.sent
  /\ ftl' = [ftl EXCEPT !.at = "out", !.sent = TRUE]
  /\ UNCHANGED <<dev, mb_used>>

\* What mtdx_block_end_request() leaves in the queue: nothing done is an error for the
\* whole request; else no error is told, and the rest is the first to be asked for.
StillWaiting(waiting, count) ==
  IF count = 0 \/ count = Head(waiting) THEN Tail(waiting)
  ELSE <<Head(waiting) - count>> \o Tail(waiting)

\* ftl_simple_complete_req(), mtdx_block_end_request(): the request ends, here or there.
CompleteReq(at) ==
  /\ ftl.req_in > 0 /\ dev[ftl.req_dev].calling = "no"
  /\ \E count \in 0 .. ftl.req_in :
       dev' = [dev EXCEPT ![ftl.req_dev].busy = FALSE,
                          ![ftl.req_dev].waiting = StillWaiting(@, count)]
  /\ ftl' = [ftl EXCEPT !.req_in = 0, !.sent = FALSE, !.at = at]
  /\ UNCHANGED mb_used

\* ftl_simple_get_request() finds that the request is done or cannot be,
EndRequest == ftl.at = "get" /\ CompleteReq("get")

\* as ftl_simple_end_request() may when the command has ended: an error is the end of the
\* request (ftl_simple_end_read_data(), ftl_simple_end_abort()), else it goes on.
OutEnds ==
  /\ ftl.at = "out"
  /\ \/ CompleteReq("ended")
     \/ ftl' = [ftl EXCEPT !.at = "ended"] /\ UNCHANGED <<dev, mb_used>>

\* The device below gives msb->lock up (ms_block_complete_req()) and asks again, unless it
\* is being removed.
AsksAgain ==
  /\ ftl.at = "ended"
  /\ ftl' = [ftl EXCEPT !.at = IF ftl.rm = "no" THEN "get" ELSE "idle"]
  /\ UNCHANGED <<dev, mb_used>>

-----------------------------------------------------------------------------
(* Sleep and removal.                                                      *)

Bound == {d \in Devs : dev[d].bus = "bound"}

\* mtdx_block_suspend() of every device: the layer still fetches what the stopped queues
\* hold.
Suspend ==
  /\ mb_used.sleeps < MaxSleeps /\ ftl.rm = "no" /\ Bound # {}
  /\ \A d \in Bound : dev[d].calling = "no" /\ ~dev[d].stopped
  /\ dev' = [d \in Devs |-> IF d \in Bound
                            THEN [dev[d] EXCEPT !.stopped = TRUE, !.kick = FALSE] ELSE dev[d]]
  /\ mb_used' = [mb_used EXCEPT !.sleeps = @ + 1]
  /\ UNCHANGED ftl

\* mtdx_block_resume(): blk_start_queue() calls the request function.
Resume ==
  /\ \E d \in Bound : dev[d].stopped
  /\ dev' = [d \in Devs |-> IF d \in Bound
                            THEN [dev[d] EXCEPT !.stopped = FALSE, !.kick = TRUE] ELSE dev[d]]
  /\ UNCHANGED <<ftl, mb_used>>

\* ms_block_remove(): with msb->lock held, which get_request() is called with, it says that
\* nothing is asked for any more; then its own queue is emptied.
RemoveBelow ==
  /\ CanRemove /\ ftl.rm = "no" /\ ftl.at \notin {"get", "next"}
  /\ ftl' = [ftl EXCEPT !.rm = "stop", !.woken = FALSE]
  /\ UNCHANGED <<dev, mb_used>>

\* ftl_simple_remove(): the dummy, then c_queue is emptied.  No lock keeps a request
\* function out that has fetched the pointer before.
RemoveDrain ==
  /\ ftl.rm = "stop"
  /\ ftl' = [ftl EXCEPT !.rm = "wait", !.c_queue = <<>>]
  /\ dev' = [d \in Devs |-> IF Contains(ftl.c_queue, d) THEN [dev[d] EXCEPT !.refs = @ - 1]
                            ELSE dev[d]]
  /\ UNCHANGED mb_used

\* With fsd->lock held: the last request has ended.
RemoveWait ==
  /\ ftl.rm = "wait" /\ ftl.at \notin {"get", "next"} /\ ftl.req_in = 0
  /\ ftl' = [ftl EXCEPT !.rm = "drop"]
  /\ UNCHANGED <<dev, mb_used>>

\* mtdx_drop_children(), mtdx_block_remove(): with q_lock held, eject, and the queue runs
\* once more.
Eject(d) ==
  /\ ftl.rm = "drop" /\ dev[d].bus = "bound" /\ ~dev[d].eject /\ dev[d].calling = "no"
  /\ dev' = [dev EXCEPT ![d].eject = TRUE, ![d].stopped = FALSE, ![d].kick = FALSE,
                        ![d].waiting = IF dev[d].busy THEN @ ELSE <<>>]
  /\ UNCHANGED <<ftl, mb_used>>

\* ... then the queue goes, and mtdx_device_remove() drops the reference of the bus.  The
\* block layer lets the request function finish.
CleanUp(d) ==
  /\ dev[d].bus = "bound" /\ dev[d].eject /\ ~dev[d].kick
  /\ dev' = [dev EXCEPT ![d] = [Release(@) EXCEPT !.bus = "gone"]]
  /\ UNCHANGED <<ftl, mb_used>>

\* ftl_simple_free()
RemoveEnds ==
  /\ ftl.rm = "drop" /\ Bound = {}
  /\ ftl' = [ftl EXCEPT !.rm = "gone"]
  /\ UNCHANGED <<dev, mb_used>>

Users   == \E d \in Devs : Probe(d) \/ Open(d) \/ Close(d) \/ \E len \in 1 .. 2 : MbAsk(d, len)
Submits == \E d \in Devs : SubmitReq(d) \/ Push(d) \/ Wake(d)
Serves  == MediaAsks \/ MbFetchReq \/ NextDev \/ SendsOut \/ OutEnds \/ AsksAgain \/ EndRequest
Removes == \/ RemoveBelow \/ RemoveDrain \/ RemoveWait \/ RemoveEnds
           \/ \E d \in Devs : Eject(d) \/ CleanUp(d)

MbNext == Users \/ Submits \/ Serves \/ Removes \/ Suspend \/ Resume

\* The device below asks when told, a queue that is to run does, the machine wakes up.
MbFairness == WF_mbVars(Serves) /\ WF_mbVars(Submits) /\ WF_mbVars(Resume)

MbSpec == MbInit /\ [][MbNext]_mbVars /\ MbFairness

-----------------------------------------------------------------------------
(* Properties.                                                             *)

\* Somebody will fetch the requests of this device.
Known(d) == dev[d].busy \/ Contains(ftl.c_queue, d) \/ (ftl.req_dev = d /\ ftl.at # "next")

\* mtdx_block.c, ftl_simple.c: until the card goes, no request waits in a queue that runs
\* without the layer knowing of the device, and no device is known without the device
\* below being told: neither a submit that finds block_req set, nor one that comes when
\* get_request() has just found the queue empty, is lost.
Served ==
  ftl.rm = "no" =>
    /\ \A d \in Bound : ~dev[d].stopped /\ dev[d].waiting # <<>>
                        => dev[d].kick \/ dev[d].calling = "push" \/ Known(d)
    /\ ftl.c_queue # <<>> \/ ftl.req_dev # None
         => ftl.at # "idle" \/ ftl.woken \/ \E d \in Devs : dev[d].calling = "tell"

\* A device in the queue of the layer, or served by it, has a reference for each;
\* block_req is set only while the layer works on it.
RefsHeld ==
  \A d \in Devs :
    /\ dev[d].refs >= (IF Contains(ftl.c_queue, d) THEN 1 ELSE 0)
                        + (IF ftl.req_dev = d THEN 1 ELSE 0)
    /\ dev[d].busy <=> ftl.req_dev = d /\ ftl.req_in > 0

\* ftl_simple_remove(), mtdx_block_remove(): at whatever point the card goes, a device
\* that has gone has no request left, in its queue or in the layer, its request function
\* does not run, the layer is not calling it and has no request to complete to it; its own
\* data are freed with the last open file.  When the layer is freed nobody is in a call of
\* it.  (It may be freed with the device in its queue or as its req_dev, and with the
\* reference: a submit that has fetched new_request() comes after the queue is emptied,
\* and nobody gives back what is held for req_dev.)
RemovedIdle ==
  /\ \A d \in Devs : dev[d].bus = "gone" =>
       /\ dev[d].waiting = <<>> /\ ~dev[d].busy /\ dev[d].calling = "no"
       /\ ~(ftl.req_dev = d /\ (ftl.at \in {"get", "next"} \/ ftl.req_in > 0))
       /\ dev[d].usage = dev[d].opens
  /\ ftl.rm = "gone" =>
       /\ ftl.at \in {"idle", "ended"} /\ ftl.req_in = 0
       /\ \A d \in Devs : dev[d].calling = "no"

\* No request is forgotten, no device used without a reference, none that has gone is
\* called.
DevicesServed == Served /\ RefsHeld /\ RemovedIdle

\* Every request ends, of every device, unless the card goes.
MbRequestEnds ==
  \A d \in Devs : dev[d].waiting # <<>> ~> dev[d].waiting = <<>> \/ ftl.rm # "no"
=============================================================================
