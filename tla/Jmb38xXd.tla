------------------------------- MODULE Jmb38xXd -------------------------------
(***************************************************************************)
(* driver/jmb38x_xd.c: the JMicron xD host, under XdCard.                  *)
(*                                                                         *)
(* The host has one request at a time.  Its spin lock is explicit: its     *)
(* holder runs the loop                                                    *)
(*     do rc = xd_card_next_req(); while (!rc && issue_cmd())              *)
(* one call at a time, and the others may run between the calls.  After a  *)
(* timeout (xd_host.last) nothing is issued: whatever the card's driver    *)
(* asks for next fails, until it asks for nothing.                         *)
(***************************************************************************)
EXTENDS XdCard

LockFree == xd_host.lock = "free"
Irq      == xd_life.rm \in {"no", "kill"}
SameRest == UNCHANGED <<xd_alloc, xd_card, mutex, xd_check, xd_del, fmt, store>>

\* jmb38x_xd_issue_cmd(): no media, or a mapping that fails.
IssueFails ==
  /\ Up /\ xd_host.lock = "issue" /\ Event
  /\ xd_media' = [xd_media EXCEPT ![xd_host.req].err = TRUE]
  /\ xd_host' = [xd_host EXCEPT !.lock = "next"]
  /\ UNCHANGED <<xd_hw, xd_life>> /\ SameRest

\* Mutant: the timer is not started.
IssueUntimed ==
  /\ Up /\ xd_host.lock = "issue"
  /\ xd_media' = [xd_media EXCEPT ![xd_host.req].err = FALSE]
  /\ xd_host' = [xd_host EXCEPT !.lock = "free", !.flags = {}]
  /\ xd_hw' = [xd_hw EXCEPT !.togo =
       {"EOCMD"} \cup (IF xd_media[xd_host.req].data THEN {"EOTRAN"} ELSE {})]
  /\ UNCHANGED <<xd_life, xd_used>> /\ SameRest

XdIssue ==
  /\ Up /\ xd_host.lock = "issue"
  /\ xd_media' = [xd_media EXCEPT ![xd_host.req].err = FALSE]
  /\ xd_host' = [xd_host EXCEPT !.lock = "free", !.flags = {}, !.armed = TRUE]
  /\ xd_hw' = [xd_hw EXCEPT !.togo =
       {"EOCMD"} \cup (IF xd_media[xd_host.req].data THEN {"EOTRAN"} ELSE {})]
  /\ UNCHANGED <<xd_life, xd_used>> /\ SameRest

-----------------------------------------------------------------------------
(* The controller, interrupt, timer, tasklet.                              *)

\* A command ends as a whole, in two parts, with an error, or not at all.
Raise ==
  /\ Up /\ xd_hw.togo # {} /\ UNCHANGED xd_used
  /\ \E e \in xd_hw.togo : xd_hw' = [togo |-> xd_hw.togo \ {e}, irq |-> xd_hw.irq \cup {e}]
  /\ UNCHANGED <<xd_media, xd_host, xd_life>> /\ SameRest

RaiseError ==
  /\ Up /\ xd_hw.togo # {} /\ Event
  /\ xd_hw' \in {[togo |-> {}, irq |-> xd_hw.irq \cup i] : i \in {{}, {"ERR"}}}
  /\ UNCHANGED <<xd_media, xd_host, xd_life>> /\ SameRest

\* A card is inserted or removed.
MediaChange ==
  /\ Up /\ Event
  /\ xd_hw' = [xd_hw EXCEPT !.irq = @ \cup {"MEDIA"}]
  /\ UNCHANGED <<xd_media, xd_host, xd_life>> /\ SameRest

\* jmb38x_xd_isr(): flags are those of the command, and are kept when it is over.
Isr ==
  /\ Up /\ Irq /\ LockFree /\ xd_hw.irq # {} /\ xd_hw' = [xd_hw EXCEPT !.irq = {}]
  /\ xd_check' = [xd_check EXCEPT !.queued = @ \/ "MEDIA" \in xd_hw.irq]
  /\ IF xd_host.req = NoCard THEN UNCHANGED <<xd_media, xd_host>>
     ELSE \E r \in {xd_media[xd_host.req]} :
          \E flags \in {xd_host.flags \cup (xd_hw.irq \cap {"EOCMD", "EOTRAN"})
                          \cup IF "EOCMD" \in xd_hw.irq /\ ~r.data THEN {"EOTRAN"} ELSE {}},
             err \in {r.err \/ "ERR" \in xd_hw.irq} :
          \E over \in {err \/ {"EOCMD", "EOTRAN"} \subseteq flags} :
            /\ xd_media' = [xd_media EXCEPT ![xd_host.req].err = err]
            /\ xd_host' = [xd_host EXCEPT !.flags = flags, !.armed = @ /\ ~over,
                                          !.lock = IF over THEN "next" ELSE @]
  /\ UNCHANGED <<xd_alloc, xd_card, mutex, xd_del, fmt, store, xd_life, xd_used>>

\* The timer, when the answer is lost or late.
Expire ==
  /\ Up /\ xd_host.armed
  /\ IF xd_hw.togo \cup xd_hw.irq \subseteq {"MEDIA"} THEN UNCHANGED xd_used ELSE Event
  /\ xd_host' = [xd_host EXCEPT !.armed = FALSE, !.expired = TRUE]
  /\ UNCHANGED <<xd_media, xd_hw, xd_life>> /\ SameRest

\* jmb38x_xd_abort(), when it has got the lock: for whatever request there is by now.
Abort ==
  /\ Up /\ xd_host.expired /\ LockFree
  /\ IF xd_host.req = NoCard
     THEN xd_host' = [xd_host EXCEPT !.expired = FALSE] /\ UNCHANGED xd_media
     ELSE /\ xd_host' = [xd_host EXCEPT !.expired = FALSE, !.last = TRUE, !.lock = "next"]
          /\ xd_media' = [xd_media EXCEPT ![xd_host.req].err = TRUE]
  /\ UNCHANGED <<xd_hw, xd_life, xd_used>> /\ SameRest

\* jmb38x_xd_req_tasklet()
Tasklet ==
  /\ Up /\ LockFree /\ xd_host.tasklet
  /\ xd_host' = [xd_host EXCEPT !.tasklet = FALSE,
                                !.lock = IF xd_host.req = NoCard THEN "next" ELSE "free"]
  /\ UNCHANGED <<xd_media, xd_hw, xd_life, xd_used>> /\ SameRest

-----------------------------------------------------------------------------
(* jmb38x_xd_remove(), xd_card_free_host()                                 *)

Removes(from, to) == xd_life.rm = from /\ xd_life' = [xd_life EXCEPT !.rm = to]

\* Nobody can tell the host of a new request any more.
RemoveDummy ==
  /\ Up /\ xd_life.sleep = "no" /\ Removes("no", "kill") /\ Event
  /\ xd_host' = [xd_host EXCEPT !.submit = FALSE]
  /\ UNCHANGED <<xd_media, xd_hw>> /\ SameRest

\* tasklet_kill() and free_irq() have waited.
RemoveIrq ==
  /\ Removes("kill", "irq") /\ ~xd_host.tasklet /\ LockFree
  /\ UNCHANGED <<xd_media, xd_host, xd_hw, xd_used>> /\ SameRest

\* del_timer_sync() has waited; what is left fails, with all that follows.
RemoveFail ==
  /\ Removes("irq", "flush") /\ ~xd_host.expired /\ LockFree
  /\ xd_host' = IF xd_host.req = NoCard THEN [xd_host EXCEPT !.armed = FALSE]
                ELSE [xd_host EXCEPT !.armed = FALSE, !.last = TRUE, !.lock = "next"]
  /\ xd_media' = IF xd_host.req = NoCard THEN xd_media
                 ELSE [xd_media EXCEPT ![xd_host.req].err = TRUE]
  /\ UNCHANGED <<xd_hw, xd_used>> /\ SameRest

\* flush_workqueue() has waited.
RemoveFlush ==
  /\ Removes("flush", "del") /\ LockFree /\ Free /\ xd_check.at = "idle" /\ ~xd_check.queued
  /\ mutex' = "rm"
  /\ xd_del' = IF xd_card = NoCard THEN NoDel
               ELSE [for |-> "rm", at |-> "del", card |-> xd_card, thread |-> FALSE]
  /\ UNCHANGED <<xd_alloc, xd_card, xd_media, xd_host, xd_hw, xd_check, fmt, store, xd_used>>

RemoveGone ==
  /\ Removes("del", "gone") /\ xd_del = NoDel /\ xd_card' = NoCard /\ mutex' = "free"
  /\ UNCHANGED <<xd_alloc, xd_media, xd_host, xd_hw, xd_check, xd_del, fmt, store, xd_used>>

-----------------------------------------------------------------------------
XdQueue == \E c \in XdCards : Open(c) \/ Submit(c) \/ Close(c)
Format  == StoreStart \/ StoreFormat \/ FmtStart \/ FmtAnswered \/ FmtStopped \/ FmtNext
Delete  == DelDisk \/ KStop \/ KStopped \/ Cleanup
Sleep   == Suspend \/ SuspendKStop \/ SuspendOff \/ Resume
Host    == \/ IssueFails \/ XdIssue \/ Raise \/ RaiseError \/ MediaChange \/ Isr \/ Expire
           \/ Abort \/ Tasklet
Remove  == RemoveDummy \/ RemoveIrq \/ RemoveFail \/ RemoveFlush \/ RemoveGone

XdNext == XdHandler \/ XdQueue \/ Check \/ Delete \/ Format \/ Sleep \/ Host \/ Remove

\* What the system does by itself: the holder of a spin lock goes on, a pending tasklet or
\* interrupt is served, an answer or the timer comes, the queue calls its driver, the work
\* queue, the format thread and whoever waits for it go on, a machine that sleeps is woken.
XdSystem ==
  \/ XdHandler \/ XdIssue \/ IssueFails \/ Tasklet \/ Isr \/ Raise \/ Expire \/ Abort
  \/ \E c \in XdCards : Submit(c)
  \/ Check \/ Delete \/ StoreFormat \/ FmtStart \/ FmtAnswered \/ FmtStopped \/ FmtNext
  \/ SuspendKStop \/ SuspendOff \/ Resume

XdSpec == XdInit /\ [][XdNext]_xdVars

-----------------------------------------------------------------------------
(* Properties.                                                             *)

\* Types of the core's and the host's state.
XdTypeOK ==
  /\ xd_alloc \subseteq XdCards
  /\ {xd_card, xd_host.req, xd_check.new, xd_check.old, xd_del.card, fmt.of}
       \subseteq XdCards \cup {NoCard}
  /\ xd_host.retries \in 0 .. (IF XdRetries > 1 THEN XdRetries ELSE 1)
  /\ xd_host.lock \in {"free", "next", "issue"}
  /\ mutex \in {"free", "check", "fmt", "store", "rm"}
  /\ \A c \in XdCards : /\ xd_media[c].q \in {"off", "run", "stopped"}
                        /\ xd_media[c].usage_count \in Nat /\ xd_media[c].left \in 0 .. MaxCmds

\* xd_card_check() has had the old card removed, and has not set host->card yet: it points
\* to a card that is freed, unless its disk has users (xd_card_blk.c:2781-2783, 2791-2792).
\* A tasklet that is still pending calls xd_card_next_req() all the same, which looks at
\* that card (jmb38x_xd.c:402-408).
Forgotten == xd_check.at = "settle" /\ xd_del = NoDel

\* Who uses a card uses one that is allocated: the host its request, xd_card_next_req()
\* host->card, but for what Forgotten says; the check and the removal their cards, the
\* format thread and its file theirs, which the thread also takes host->card to be.  While
\* a card is forgotten nothing is asked of it: the pending tasklet is all that is wrong.
XdUsersLive ==
  /\ xd_host.req \in xd_alloc \cup {NoCard}
  /\ xd_host.lock = "next" => xd_card \in xd_alloc \cup {NoCard} \/ Forgotten
  /\ Forgotten => xd_host.req = NoCard
  /\ {xd_check.new, xd_check.old, xd_del.card} \subseteq xd_alloc \cup {NoCard}
  /\ xd_check.at \notin {"idle", "settle"} => xd_card \in xd_alloc \cup {NoCard}
  /\ fmt.at # "none" => fmt.of \in xd_alloc
  /\ mutex = "fmt" => xd_card = fmt.of
  /\ Up /\ store = "stop" => xd_card \in xd_alloc

\* xd_card_blk.c: a card that is used is allocated, but for the one Forgotten.
XdAlive == XdTypeOK /\ XdUsersLive

\* While a block request is on its way, host->card is its card, and nobody else waits for
\* an answer of that card: the check and the format thread use the same request.
XdOneAsks ==
  Up => \A c \in xd_alloc : xd_media[c].has_request =>
    /\ xd_card = c /\ mutex # "fmt"
    /\ mutex = "check" => xd_check.at \in {"stop", "settle"}

\* While addresses are short, an erase is what the card is asked for.
XdAddrSize ==
  Up /\ xd_host.short => xd_card # NoCard /\ Card.next[1] \in {"init", "erase", "erase_fmt"}
                   /\ (Card.next[1] = "init" => Card.next[2] \in {"erase", "erase_fmt"})

\* xd_card_blk.c: one at a time asks something of the card, and an erase alone has the
\* short address.
XdOneAtATime == XdOneAsks /\ XdAddrSize

\* When nobody is at work, the power is on if there is a card, and its queue runs.
XdSettled ==
  Free /\ Up /\ xd_life.rm = "no" /\ xd_life.sleep = "no" /\ xd_check.at = "idle"
  /\ ~xd_check.queued /\ xd_del = NoDel /\ fmt.at = "none" =>
    /\ xd_host.power = (xd_card # NoCard)
    /\ xd_card # NoCard => Card.q = "run" /\ ~Card.format /\ ~Card.eject

\* Nothing waits for ever: while a check, a block request or a format has not ended, the
\* system has something to do that does not need anybody from outside, unless the host is
\* removed meanwhile.
XdAtRest == /\ xd_check.at = "idle" /\ fmt.at = "none" /\ store = "idle"
            /\ \A c \in XdCards : xd_media[c].waiting = 0 /\ ~xd_media[c].has_request
XdGoesOn == xd_life.rm = "no" /\ ~XdAtRest => ENABLED XdSystem

\* xd_card_blk.c: nothing waits for ever, and at rest the power is on if there is a card,
\* and its queue runs.
XdComesToRest == XdSettled /\ XdGoesOn
=============================================================================
