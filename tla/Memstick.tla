------------------------------ MODULE Memstick ------------------------------
(***************************************************************************)
(* driver/memstick.c: the core between the drivers of MemoryStick cards    *)
(* and the drivers of the hosts (TifmMs, Jmb38xMs), with what it relies on *)
(* in the driver of a card, taken from driver/mspro_block.c.               *)
(*                                                                         *)
(* A card has one request, current_mrq, at a time.  It is not queued: the  *)
(* one who wants something sets card->next_request, calls                  *)
(* memstick_new_req() and sleeps on mrq_complete.  The host fetches the    *)
(* request through memstick_next_req(), from its tasklet when it is idle   *)
(* and from its interrupt handler when the previous one has ended; the     *)
(* second kind of call first ends the previous one.                        *)
(*                                                                         *)
(* The parties are the work item memstick_check(), the driver of the       *)
(* registered card, and the host.  The host's spin lock is explicit        *)
(* (host.lock): its holder runs the loop                                   *)
(*     do rc = memstick_next_req(); while (!rc && issue_cmd())             *)
(* one call at a time, and the others may run between the calls.           *)
(***************************************************************************)
EXTENDS Naturals

CONSTANTS Cards,        \* places for a struct memstick_dev
          None,         \* NULL
          CmdRetries,   \* cmd_retries
          MaxIo,        \* bound on the block requests of the card's driver
          MaxChanges,   \* bound on media changes and sleeps together
          SlowTasklet,  \* a tasklet scheduled under the lock may be late
          CanRemove     \* the host may be removed

ASSUME MemstickAssumption == CmdRetries \in Nat \ {0} /\ None \notin Cards

VARIABLES
  alloc,          \* the cards that are allocated
  card,           \* host->card
  regd,           \* the card that is registered with the driver core
  next_request,   \* of each card: the handler
  mrq,            \* of each card: current_mrq, with error as a Boolean
  mrq_complete,   \* of each card: the completion has been signalled
  retries,        \* host->retries
  request,        \* host->request
  check,          \* media_checker: where it is, is it queued, its two cards
  drv,            \* the card's driver: its queue, has_request, active
  host,           \* the private part of the host driver
  hw,             \* the controller: events to come, events latched
  tries,          \* how often the present request was given to issue_cmd
  life,           \* which host it is, its removal and sleep
  used            \* how much of each bound is used up

core == <<alloc, card, regd, next_request, mrq, mrq_complete, retries>>
vars == <<alloc, card, regd, next_request, mrq, mrq_complete, retries, request,
          check, drv, host, hw, tries, life, used>>

\* memstick_alloc_host() and memstick_add_host() are done: the first check of the
\* media is queued.
Init ==
  /\ alloc = {} /\ card = None /\ regd = None
  /\ next_request = [c \in Cards |-> "none"]
  /\ mrq = [c \in Cards |-> [tpc |-> "none", error |-> FALSE]]
  /\ mrq_complete = [c \in Cards |-> FALSE]
  /\ retries = 0 /\ request = "submit"
  /\ check = [at |-> "idle", queued |-> TRUE, new |-> None, old |-> None]
  /\ drv = [queue |-> "off", has_request |-> FALSE, active |-> FALSE]
  /\ host = [req |-> None, lock |-> "free", eject |-> FALSE, tasklet |-> FALSE,
             armed |-> FALSE, expired |-> FALSE, flags |-> {}]
  /\ hw = [togo |-> {}, irq |-> {}]
  /\ tries = 0
  /\ life \in [chip : {"tifm_ms", "jmb38x_ms"}, rm : {"no"}, asleep : {FALSE}]
  /\ used = [io |-> 0, changes |-> 0]

\* Nothing is said about what follows once the host works on a card that is freed.
Exists   == life.rm # "gone" /\ host.req \in alloc \cup {None}
Awake    == Exists /\ ~life.asleep
LockFree == host.lock = "free"

-----------------------------------------------------------------------------
(* Requests.                                                               *)

\* memstick_new_req() with c as host->card: the effect on all it touches.
NewReq(c, handler) ==
  /\ next_request' = [next_request EXCEPT ![c] = handler]
  /\ mrq_complete' = [mrq_complete EXCEPT ![c] = FALSE]
  /\ retries' = CmdRetries
  /\ host' = [host EXCEPT !.tasklet = @ \/ request = "submit"]

FreshRetries == IF CmdRetries > 1 THEN CmdRetries - 1 ELSE 1

\* Mutant: the retry is not counted.
RetryReqUncounted ==
  /\ Exists /\ host.lock = "next" /\ host.req # None /\ mrq[host.req].error /\ retries > 0
  /\ host' = [host EXCEPT !.lock = "issue"]
  /\ UNCHANGED <<core, request, check, drv, hw, tries, life, used>>

\* A failed request that has retries left is handed out again.
RetryReq ==
  /\ Exists /\ host.lock = "next" /\ host.req # None /\ mrq[host.req].error /\ retries > 0
  /\ retries' = retries - 1 /\ host' = [host EXCEPT !.lock = "issue"]
  /\ UNCHANGED <<alloc, card, regd, next_request, mrq, mrq_complete, request, check,
                 drv, hw, tries, life, used>>

Asks == /\ Exists /\ host.lock = "next"
        /\ ~(host.req # None /\ mrq[host.req].error /\ retries > 0)
HasHandler == card # None /\ next_request[card] \in {"rw_addr", "dev_id", "io"}

\* The handler starts its request.
StartReq ==
  /\ Asks /\ host.req = None /\ HasHandler
  /\ mrq' = [mrq EXCEPT ![card] = [tpc |-> next_request[card], error |-> FALSE]]
  /\ host' = [host EXCEPT !.req = card, !.lock = "issue"]
  /\ retries' = FreshRetries /\ tries' = 0
  /\ UNCHANGED <<alloc, card, regd, next_request, mrq_complete, request, check, drv,
                 hw, life, used>>

\* Mutant: the host keeps the request that has ended.
EndReqKept ==
  /\ Asks /\ host.req # None /\ HasHandler
  /\ mrq_complete' = [mrq_complete EXCEPT ![card] = TRUE]
  /\ host' = [host EXCEPT !.lock = "free"]
  /\ IF next_request[card] = "io"
     THEN /\ drv' = [drv EXCEPT !.has_request = FALSE]
          /\ next_request' = [next_request EXCEPT ![card] = "bad"]
     ELSE UNCHANGED <<drv, next_request>>
  /\ tries' = 0
  /\ UNCHANGED <<alloc, card, regd, mrq, retries, request, check, hw, life, used>>

\* The handler ends its request and wakes the one who waits for it.  The driver of a
\* card (mspro_block_complete_req()) then refuses to be asked.
EndReq ==
  /\ Asks /\ host.req # None /\ HasHandler
  /\ mrq_complete' = [mrq_complete EXCEPT ![card] = TRUE]
  /\ host' = [host EXCEPT !.req = None, !.lock = "free"]
  /\ IF next_request[card] = "io"
     THEN /\ drv' = [drv EXCEPT !.has_request = FALSE]
          /\ next_request' = [next_request EXCEPT ![card] = "bad"]
     ELSE UNCHANGED <<drv, next_request>>
  /\ tries' = 0
  /\ UNCHANGED <<alloc, card, regd, mrq, retries, request, check, hw, life, used>>

\* mspro_block_complete_req() finds more to do: it submits the next request from
\* within the call that ends the previous one, and the host goes on with it.  The
\* tasklet this schedules finds the host busy, unless it is late.
ChainReq ==
  /\ Asks /\ host.req # None /\ HasHandler /\ next_request[card] = "io"
  /\ used.io < MaxIo /\ used' = [used EXCEPT !.io = @ + 1]
  /\ mrq' = [mrq EXCEPT ![card] = [tpc |-> "io", error |-> FALSE]]
  /\ mrq_complete' = [mrq_complete EXCEPT ![card] = FALSE]
  /\ retries' = FreshRetries /\ tries' = 0
  /\ host' = [host EXCEPT !.lock = "issue",
                          !.tasklet = @ \/ (SlowTasklet /\ request = "submit")]
  /\ UNCHANGED <<alloc, card, regd, next_request, request, check, drv, hw, life>>

\* Nobody to ask, or the handler has nothing.
NoReq ==
  /\ Asks /\ ~HasHandler
  /\ host' = [host EXCEPT !.req = None, !.lock = "free"]
  /\ UNCHANGED <<core, request, check, drv, hw, tries, life, used>>

NextReq == RetryReq \/ StartReq \/ EndReq \/ ChainReq \/ NoReq

-----------------------------------------------------------------------------
(* memstick_check(), under host->lock, the mutex.                          *)

Idle == [check EXCEPT !.at = "idle", !.new = None, !.old = None]

\* Without a card the host is powered up, which may fail; the driver of a card that
\* is there is asked to stop.
CheckStart ==
  /\ Awake /\ check.at = "idle" /\ check.queued /\ life.rm # "irq_off"
  /\ \E powered \in BOOLEAN :
       check' = [check EXCEPT !.queued = FALSE,
                              !.at = CASE card # None -> "stop"
                                       [] card = None /\ powered -> "alloc"
                                       [] OTHER -> "idle"]
  /\ UNCHANGED <<core, request, drv, host, hw, tries, life, used>>

\* Mutant: the driver's queue is stopped without waiting for its request.
CheckStopAtOnce ==
  /\ Awake /\ check.at = "stop"
  /\ drv' = [drv EXCEPT !.queue = IF @ = "off" THEN "off" ELSE "stopped"]
  /\ check' = [check EXCEPT !.at = "alloc"]
  /\ UNCHANGED <<core, request, host, hw, tries, life, used>>

\* mspro_block_stop(): the queue is stopped once it has no request.
CheckStop ==
  /\ Awake /\ check.at = "stop" /\ ~drv.has_request
  /\ drv' = [drv EXCEPT !.queue = IF @ = "off" THEN "off" ELSE "stopped"]
  /\ check' = [check EXCEPT !.at = "alloc"]
  /\ UNCHANGED <<core, request, host, hw, tries, life, used>>

\* memstick_alloc_card(): the new card takes the place of the old one.
AllocCard ==
  /\ Awake /\ check.at = "alloc"
  /\ \E c \in Cards \ alloc :
       /\ alloc' = alloc \cup {c} /\ card' = c
       /\ check' = [check EXCEPT !.at = "addr", !.new = c, !.old = card]
       /\ NewReq(c, "rw_addr")
  /\ UNCHANGED <<regd, mrq, request, drv, hw, tries, life, used>>

NoMemory ==
  /\ Awake /\ check.at = "alloc" /\ check' = [check EXCEPT !.at = "none"]
  /\ UNCHANGED <<core, request, drv, host, hw, tries, life, used>>

Answered(at) == Awake /\ check.at = at /\ mrq_complete[card]

\* err_out: the old card is back, the new one is freed.
DropNew ==
  /\ \E at \in {"addr", "id"} : Answered(at) /\ mrq[card].error
  /\ alloc' = alloc \ {card} /\ card' = check.old
  /\ check' = [check EXCEPT !.at = "none", !.new = None]
  /\ UNCHANGED <<regd, next_request, mrq, mrq_complete, retries, request, drv, host,
                 hw, tries, life, used>>

AddrSet ==
  /\ Answered("addr") /\ ~mrq[card].error
  /\ check' = [check EXCEPT !.at = "id"] /\ NewReq(card, "dev_id")
  /\ UNCHANGED <<alloc, card, regd, mrq, request, drv, hw, tries, life, used>>

\* The new card is identified.  If there was an old one, is it still the same?
IdRead ==
  /\ Answered("id") /\ ~mrq[card].error /\ card' = check.old
  /\ IF check.old = None
     THEN /\ check' = [check EXCEPT !.at = "register"]
          /\ UNCHANGED <<next_request, mrq_complete, retries, host>>
     ELSE /\ check' = [check EXCEPT !.at = "compare"]
          /\ NewReq(check.old, "rw_addr")
  /\ UNCHANGED <<alloc, regd, mrq, request, drv, hw, tries, life, used>>

\* device_unregister() of the registered card: its driver ends what is queued and
\* lets go of it (mspro_block_remove()), and the card is freed.
Unregister ==
  /\ alloc' = alloc \ {regd} /\ regd' = None /\ card' = None
  /\ drv' = [queue |-> "off", has_request |-> FALSE, active |-> FALSE]

SameCard ==
  /\ Answered("compare") /\ ~mrq[card].error /\ drv.active
  /\ drv' = [drv EXCEPT !.queue = "run"]
  /\ alloc' = alloc \ {check.new} /\ check' = Idle
  /\ UNCHANGED <<card, regd, next_request, mrq, mrq_complete, retries, request, host,
                 hw, tries, life, used>>

\* It does not answer, it is another card, or its driver has given it up.
OtherCard ==
  /\ Answered("compare") /\ Unregister /\ check' = [check EXCEPT !.at = "register"]
  /\ UNCHANGED <<next_request, mrq, mrq_complete, retries, request, host, hw, tries,
                 life, used>>

\* device_register(): it fails, there is no driver for the card, or the driver's
\* probe starts to talk to it (mspro_block_init_card()).
RegisterFails ==
  /\ Awake /\ check.at = "register"
  /\ alloc' = alloc \ {check.new} /\ check' = Idle
  /\ UNCHANGED <<card, regd, next_request, mrq, mrq_complete, retries, request, drv,
                 host, hw, tries, life, used>>

Register ==
  /\ Awake /\ check.at = "register" /\ card' = check.new /\ regd' = check.new
  /\ \/ /\ check' = Idle
        /\ UNCHANGED <<next_request, mrq_complete, retries, host>>
     \/ /\ check' = [check EXCEPT !.at = "probe"]
        /\ NewReq(check.new, "rw_addr")
  /\ UNCHANGED <<alloc, mrq, request, drv, hw, tries, life, used>>

Probed ==
  /\ Answered("probe") /\ check' = Idle
  /\ \/ UNCHANGED drv
     \/ /\ ~mrq[card].error
        /\ drv' = [drv EXCEPT !.queue = "run", !.active = TRUE]
  /\ UNCHANGED <<core, request, host, hw, tries, life, used>>

\* No card answered: the one that was there is gone, and the host is powered off.
CardGone ==
  /\ Awake /\ check.at = "none" /\ check' = Idle
  /\ IF card # None THEN Unregister ELSE UNCHANGED <<alloc, regd, card, drv>>
  /\ UNCHANGED <<next_request, mrq, mrq_complete, retries, request, host, hw, tries,
                 life, used>>

Check == \/ CheckStart \/ CheckStop \/ AllocCard \/ NoMemory \/ DropNew \/ AddrSet
         \/ IdRead \/ SameCard \/ OtherCard \/ RegisterFails \/ Register \/ Probed
         \/ CardGone

-----------------------------------------------------------------------------
(* The driver of the registered card, sleep, removal.                      *)

\* Mutant: the host is not told of the new request.
IoSubmitUntold ==
  /\ Awake /\ drv.queue = "run" /\ ~drv.has_request /\ used.io < MaxIo
  /\ used' = [used EXCEPT !.io = @ + 1]
  /\ drv' = [drv EXCEPT !.has_request = TRUE]
  /\ next_request' = [next_request EXCEPT ![regd] = "io"]
  /\ mrq_complete' = [mrq_complete EXCEPT ![card] = FALSE]
  /\ retries' = CmdRetries
  /\ UNCHANGED <<alloc, card, regd, mrq, request, check, host, hw, tries, life>>

\* mspro_block_submit_req()
IoSubmit ==
  /\ Awake /\ drv.queue = "run" /\ ~drv.has_request /\ used.io < MaxIo
  /\ used' = [used EXCEPT !.io = @ + 1]
  /\ drv' = [drv EXCEPT !.has_request = TRUE]
  /\ next_request' = [next_request EXCEPT ![regd] = "io"]
  /\ mrq_complete' = [mrq_complete EXCEPT ![card] = FALSE]
  /\ retries' = CmdRetries
  /\ host' = [host EXCEPT !.tasklet = @ \/ request = "submit"]
  /\ UNCHANGED <<alloc, card, regd, mrq, request, check, hw, tries, life>>

\* mspro_block_suspend(), memstick_suspend_host(): the controller loses what it was
\* doing.
Suspend ==
  /\ Awake /\ life.rm = "no" /\ check.at = "idle" /\ LockFree
  /\ used.changes < MaxChanges /\ used' = [used EXCEPT !.changes = @ + 1]
  /\ life' = [life EXCEPT !.asleep = TRUE]
  /\ drv' = [drv EXCEPT !.queue = IF @ = "off" THEN "off" ELSE "stopped",
                        !.active = FALSE]
  /\ hw' = [togo |-> {}, irq |-> {}]
  /\ UNCHANGED <<core, request, check, host, tries>>

\* memstick_resume_host(), which powers a card up and gives up if that fails;
\* mspro_block_resume() without CONFIG_MEMSTICK_UNSAFE_RESUME, which the repository's own
\* Makefile defines: with it the driver identifies the card here once more, under
\* host->lock, also if a request is on its way, whose handler it then replaces.  What that
\* identification does by itself is in MsproInit; the two together are not modelled.
Resume ==
  /\ life.asleep /\ life' = [life EXCEPT !.asleep = FALSE]
  /\ drv' = [drv EXCEPT !.queue = IF @ = "off" THEN "off" ELSE "run"]
  /\ \E powered \in BOOLEAN :
       check' = [check EXCEPT !.queued = @ \/ card = None \/ powered]
  /\ UNCHANGED <<core, request, host, hw, tries, used>>

\* memstick_remove_host(), once flush_workqueue() has returned.
RemoveHost(from, to) ==
  /\ life.rm = from /\ check.at = "idle" /\ ~check.queued
  /\ life' = [life EXCEPT !.rm = to]
  /\ IF card # None THEN Unregister ELSE UNCHANGED <<alloc, regd, card, drv>>
  /\ UNCHANGED <<next_request, mrq, mrq_complete, retries, request, check, host, hw,
                 tries, used>>
=============================================================================
