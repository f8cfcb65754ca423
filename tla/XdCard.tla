-------------------------------- MODULE XdCard --------------------------------
(***************************************************************************)
(* driver/xd_card_blk.c: everything around the translation layer FlashBd:  *)
(* the check of the media, the block queue, formatting, sleep and removal, *)
(* and the handlers that turn a command of flash_bd into commands of the   *)
(* card.  Its host is Jmb38xXd.                                            *)
(*                                                                         *)
(* Whoever wants something from the card sets card->next_request[0], calls *)
(* xd_card_new_req() and, unless it is the queue, sleeps on req_complete.  *)
(* The host asks xd_card_next_req() for a request, and for the next one    *)
(* when the last has ended; host->retries counts the retries.  host->lock, *)
(* the mutex, keeps the check, the format thread, its sysfs file, sleep    *)
(* and removal apart; it is let go of by the format thread between two     *)
(* blocks and by whoever waits for that thread to stop.                    *)
(*                                                                         *)
(* What flash_bd asks for is chosen freely: up to MaxCmds commands for one *)
(* block request, each over up to MaxPages pages.                          *)
(***************************************************************************)
EXTENDS Naturals, FiniteSets

CONSTANTS XdCards,      \* places for a struct xd_card_media, as many as kzalloc() finds
          NoCard,       \* NULL
          XdRetries,    \* cmd_retries
          XdCmds,       \* the commands of flash_bd that happen
          MaxCmds, MaxPages,
          MaxBlocks,    \* bound on the blocks that are formatted
          MaxXdIo,      \* bound on block requests
          MaxXdEvents,  \* bound on what else happens: commands, answers and memory that
                        \* fail, answers that come late, media changes, sleeps, formats
          ThreadFails   \* kthread_create() may fail

VARIABLES
  xd_alloc,   \* the cards that are allocated
  xd_card,    \* host->card
  xd_media,   \* the cards: see Blank
  xd_host,    \* the host: see XdInit
  xd_hw,      \* the controller: events to come, events latched
  mutex,      \* who holds host->lock
  xd_check,   \* media_checker
  xd_del,     \* xd_card_remove_media(): for whom, of which card, where it is
  fmt,        \* the format thread
  store,      \* xd_card_format_store(): where it is
  xd_life,    \* sleep; removal
  xd_used

xdVars == <<xd_alloc, xd_card, xd_media, xd_host, xd_hw, mutex, xd_check, xd_del, fmt,
            store, xd_life, xd_used>>

\* A card as kzalloc() leaves it.  next is next_request[]; err and pages (left to
\* transfer) are of the request, size and left (the commands to come) of the command.
Blank == [next |-> <<"none", "none">>, data |-> FALSE, err |-> FALSE, complete |-> FALSE,
          pages |-> 1, size |-> 1, left |-> 0, q |-> "off", waiting |-> 0,
          has_request |-> FALSE, format |-> FALSE, eject |-> FALSE, f_thread |-> FALSE,
          usage_count |-> 1]

Idle     == [at |-> "idle", queued |-> FALSE, new |-> NoCard, old |-> NoCard, polls |-> 0]
NoThread == [at |-> "none", of |-> NoCard, left |-> 0, rc |-> FALSE, stop |-> FALSE]
NoDel    == [for |-> "none", at |-> "none", card |-> NoCard, thread |-> FALSE]

\* jmb38x_xd_probe() is done, and has queued the check of the media.
XdInit ==
  /\ xd_alloc = {} /\ xd_card = NoCard /\ xd_media = [c \in XdCards |-> Blank]
  /\ xd_host = [req |-> NoCard, lock |-> "free", last |-> FALSE, tasklet |-> FALSE,
                armed |-> FALSE, expired |-> FALSE, flags |-> {}, retries |-> 0,
                power |-> FALSE, short |-> FALSE, submit |-> TRUE]
  /\ xd_hw = [togo |-> {}, irq |-> {}]
  /\ mutex = "free" /\ xd_check = [Idle EXCEPT !.queued = TRUE] /\ xd_del = NoDel
  /\ fmt = NoThread /\ store = "idle"
  /\ xd_life = [sleep |-> "no", rm |-> "no"]
  /\ xd_used = [io |-> 0, events |-> 0]

Up    == xd_life.rm # "gone" /\ xd_life.sleep # "asleep"
Free  == mutex = "free"
Event == xd_used.events < MaxXdEvents /\ xd_used' = [xd_used EXCEPT !.events = @ + 1]

\* What an operation of the core leaves alone, the host's and the system's.
Elsewhere == UNCHANGED <<xd_hw, xd_life>>

\* xd_card_new_req() for card c, with its next_request[0] = h.
Asked(r, h) == [r EXCEPT !.next = <<"init", h>>, !.complete = FALSE]
Tell(h) == [h EXCEPT !.retries = XdRetries, !.tasklet = @ \/ h.submit]

\* ... by someone who waits: a request of n pages, none of it by the queue.  The code sets
\* next_request[0] = h before xd_card_new_req() puts "init" in its place; a tasklet that is
\* pending from an earlier request and runs in between would call h with no request
\* (xd_card_blk.c:733-736, 1776-1777).  The two stores are one step here.
NewReq(c, h, data, n) ==
  /\ xd_media' = [xd_media EXCEPT ![c] =
       [Asked(xd_media[c], h) EXCEPT !.err = FALSE, !.data = data, !.pages = n, !.size = n]]
  /\ xd_host' = Tell(xd_host)

-----------------------------------------------------------------------------
(* Requests for the host: one call of xd_card_next_req()                   *)

Asks == Up /\ xd_host.lock = "next"
Retries == xd_host.req # NoCard /\ xd_media[xd_host.req].err /\ xd_host.retries > 0
Calls(h) == Asks /\ ~Retries /\ xd_card # NoCard /\ xd_media[xd_card].next[1] = h
Card  == xd_media[xd_card]
Then(h) == <<h, Card.next[2]>>   \* next_request[0] = h
SameCore == UNCHANGED <<xd_alloc, xd_card, mutex, xd_check, xd_del, fmt, store, xd_used>>

FreshRetries == IF XdRetries > 1 THEN XdRetries - 1 ELSE 1

\* The handler returns 0: the request of card r is to be issued.  After a timeout the
\* host fails it at once.
Go(r, h) ==
  /\ xd_media' = [xd_media EXCEPT ![xd_card] = [r EXCEPT !.err = r.err \/ h.last]]
  /\ xd_host' = [h EXCEPT !.lock = IF h.last THEN "next" ELSE "issue",
                          !.retries = FreshRetries]

\* It does not: nothing is left to do.  What is set again before it is read is forgotten.
Stop(r, h) ==
  /\ xd_media' = [xd_media EXCEPT ![xd_card] =
       [r EXCEPT !.next = <<"bad", "none">>, !.complete = TRUE, !.left = 0, !.data = FALSE,
                 !.pages = 1, !.size = 1]]
  /\ xd_host' = [h EXCEPT !.lock = "free", !.req = NoCard, !.last = FALSE, !.retries = 0,
                          !.flags = {}]

\* The first handler of each command that needs the card; the other commands of flash_bd
\* only move data between buffers.
First == [FBD_READ |-> "read", FBD_READ_TMP |-> "read_tmp", FBD_COPY |-> "read_copy",
          FBD_WRITE |-> "write", FBD_WRITE_TMP |-> "write_tmp", FBD_ERASE |-> "erase"]

ASSUME XdAssumption ==
  /\ NoCard \notin XdCards /\ XdCmds \subseteq DOMAIN First
  /\ XdRetries \in Nat /\ MaxCmds \in Nat /\ MaxPages \in Nat /\ MaxBlocks \in Nat

\* xd_card_trans_req()
TransReq(r, cmd, n) ==
  [r EXCEPT !.next = <<First[cmd], r.next[2]>>, !.data = cmd # "FBD_ERASE", !.err = FALSE,
            !.pages = n, !.size = n, !.left = @ - 1]
PagesOf(cmd) == IF cmd = "FBD_ERASE" THEN {1} ELSE 1 .. MaxPages
ShortFor(h, cmd) == [h EXCEPT !.short = @ \/ cmd = "FBD_ERASE"]

\* xd_card_issue_req(): what is left of a block request, or the first one on the queue that
\* can be started.  The others are ended.
Issued(r, h) ==
  {[r |-> [Asked(TransReq([r EXCEPT !.left = x.left, !.waiting = x.waiting], x.cmd, x.n),
                 First[x.cmd]) EXCEPT !.has_request = TRUE],
    h |-> Tell(ShortFor(h, x.cmd))] :
     x \in {y \in [left : 1 .. MaxCmds, waiting : 0 .. r.waiting, cmd : XdCmds,
                   n : 1 .. MaxPages] :
              /\ y.n \in PagesOf(y.cmd)
              /\ IF y.waiting < r.waiting THEN y.left = MaxCmds
                 ELSE r.has_request /\ y.left = r.left}}

\* xd_card_complete_req()
CompleteReq(r, h) ==
  \/ Stop([r EXCEPT !.has_request = FALSE, !.waiting = IF r.has_request THEN 0 ELSE @,
                    !.err = @ /\ ~r.has_request], h)
  \/ r.has_request /\ \E x \in Issued(r, h) : Go(x.r, x.h)

\* xd_card_try_next_req(): flash_bd has another command, or it is done.
TryNextReq(r, h) ==
  \/ /\ r.left > 0
     /\ \E cmd \in IF r.has_request THEN XdCmds ELSE {"FBD_READ"} :
        \E n \in PagesOf(cmd) :
          Go(TransReq(r, cmd, n), ShortFor(h, cmd))
  \/ CompleteReq(r, h)

\* A failed request that has retries left is handed out again.
RetryReq ==
  /\ Asks /\ Retries
  /\ xd_host' = [xd_host EXCEPT !.retries = @ - 1,
                                !.lock = IF xd_host.last THEN "next" ELSE "issue"]
  /\ UNCHANGED xd_media /\ Elsewhere /\ SameCore

\* There is no card, or none that wants anything.
XdNoReq ==
  /\ Asks /\ ~Retries
  /\ \A c \in {xd_card} \ {NoCard} : xd_media[c].next[1] \in {"none", "bad"}
  /\ xd_host' = [xd_host EXCEPT !.lock = "free", !.req = NoCard, !.last = FALSE]
  /\ UNCHANGED xd_media /\ Elsewhere /\ SameCore

HReqInit ==
  /\ Calls("init")
  /\ Go([Card EXCEPT !.next = Then(Card.next[2])], [xd_host EXCEPT !.req = xd_card])
  /\ Elsewhere /\ SameCore

HDefault == Calls("default") /\ CompleteReq(Card, xd_host) /\ Elsewhere /\ SameCore

\* The extra data of a page come in parts.
HReadExtra ==
  /\ Calls("read_extra") /\ Elsewhere /\ SameCore
  /\ IF Card.pages > 1 /\ ~Card.err THEN Go([Card EXCEPT !.pages = @ - 1], xd_host)
     ELSE CompleteReq(Card, xd_host)

\* h_xd_card_read(), h_xd_card_read_tmp(): a page that was read is not tested for an
\* error; what stopped the transfer shows in the number of pages.
HXdRead ==
  /\ \E h \in {"read", "read_tmp"} : Calls(h)
  /\ \/ /\ Card.pages > 1 /\ Go([Card EXCEPT !.pages = @ - 1, !.err = FALSE], xd_host)
     \/ \E short \in BOOLEAN :
          TryNextReq([Card EXCEPT !.err = @ \/ short], xd_host)
  /\ Elsewhere /\ SameCore

HReadCopy ==
  /\ Calls("read_copy") /\ Elsewhere /\ SameCore
  /\ IF Card.err THEN TryNextReq(Card, xd_host)
     ELSE IF Card.pages > 1 THEN Go([Card EXCEPT !.pages = @ - 1], xd_host)
     ELSE Go([Card EXCEPT !.next = Then("write_tmp"), !.pages = Card.size], xd_host)

\* h_xd_card_write_adv(), h_xd_card_write_tmp_adv(): the page is on the card.
WriteAdv(to) ==
  IF Card.err THEN TryNextReq(Card, xd_host)
  ELSE \/ TryNextReq([Card EXCEPT !.err = TRUE], xd_host)
       \/ IF Card.pages > 1
          THEN Go([Card EXCEPT !.pages = @ - 1, !.next = Then(to), !.data = TRUE], xd_host)
          ELSE TryNextReq(Card, xd_host)

\* What a host with XD_CARD_CAP_CMD_SHORTCUT does by itself, another is told to do.
HXdWrite ==
  /\ \E h \in {"write", "write_tmp"}, shortcut \in BOOLEAN :
       /\ Calls(h)
       /\ IF Card.err THEN TryNextReq(Card, xd_host)
          ELSE IF shortcut THEN WriteAdv(h)
          ELSE Go([Card EXCEPT !.next = <<"write_stat", IF h = "write" THEN "write_adv"
                                                         ELSE "write_tmp_adv">>,
                               !.data = FALSE], xd_host)
  /\ Elsewhere /\ SameCore

HWriteStat ==
  /\ Calls("write_stat") /\ Elsewhere /\ SameCore
  /\ IF Card.err THEN TryNextReq(Card, xd_host)
     ELSE Go([Card EXCEPT !.next = Then(Card.next[2])], xd_host)

HWriteAdv ==
  /\ \/ Calls("write_adv") /\ WriteAdv("write")
     \/ Calls("write_tmp_adv") /\ WriteAdv("write_tmp")
  /\ Elsewhere /\ SameCore

\* h_xd_card_erase(): the address has its full length again.
HErase ==
  /\ Calls("erase") /\ Elsewhere /\ SameCore
  /\ \E h \in {[xd_host EXCEPT !.short = FALSE]}, shortcut \in BOOLEAN :
       IF Card.err THEN TryNextReq(Card, h)
       ELSE IF shortcut
       THEN \E fails \in BOOLEAN : TryNextReq([Card EXCEPT !.err = fails], h)
       ELSE Go([Card EXCEPT !.next = Then("erase_stat")], h)

HEraseStat ==
  /\ Calls("erase_stat") /\ Elsewhere /\ SameCore
  /\ IF Card.err THEN TryNextReq(Card, xd_host)
     ELSE Go([Card EXCEPT !.next = Then("check_stat")], xd_host)

HCheckStat ==
  /\ Calls("check_stat") /\ Elsewhere /\ SameCore
  /\ \E fails \in BOOLEAN : TryNextReq([Card EXCEPT !.err = @ \/ fails], xd_host)

HEraseFmt ==
  /\ Calls("erase_fmt") /\ Elsewhere /\ SameCore
  /\ \E h \in {[xd_host EXCEPT !.short = FALSE]}, shortcut \in BOOLEAN :
       IF Card.err \/ shortcut THEN CompleteReq(Card, h)
       ELSE Go([Card EXCEPT !.next = Then("erase_stat_fmt")], h)

HEraseStatFmt ==
  /\ Calls("erase_stat_fmt") /\ Elsewhere /\ SameCore
  /\ IF Card.err THEN CompleteReq(Card, xd_host)
     ELSE Go([Card EXCEPT !.next = Then("default")], xd_host)

XdHandler ==
  \/ RetryReq \/ XdNoReq \/ HReqInit \/ HDefault \/ HReadExtra \/ HXdRead \/ HReadCopy
  \/ HXdWrite \/ HWriteStat \/ HWriteAdv \/ HErase \/ HEraseStat \/ HCheckStat
  \/ HEraseFmt \/ HEraseStatFmt

-----------------------------------------------------------------------------
(* The block queue.                                                        *)

Registered(c) == c \in xd_alloc /\ xd_media[c].q # "off"
SameQueue == UNCHANGED <<xd_card, mutex, xd_check, xd_del, fmt, store>> /\ Elsewhere

Opened(c) == c \in xd_alloc /\ c # xd_check.new
             /\ xd_media[c].usage_count > (IF xd_media[c].q = "off" THEN 0 ELSE 1)

\* xd_card_bd_open(): a user of the disk comes, and has a request put on its queue.  What
\* add_disk() reads is not told from that.  Without one it may be the user whose write is
\* refused (-EROFS), who goes and never gives the count back: no Close need follow.
Open(c) ==
  /\ Up /\ Registered(c) /\ ~xd_media[c].eject /\ xd_used.io < MaxXdIo
  /\ xd_used' = [xd_used EXCEPT !.io = @ + 1]
  /\ \E asks \in {0, 1} :
       xd_media' = [xd_media EXCEPT ![c].usage_count = @ + 1, ![c].waiting = @ + asks]
  /\ UNCHANGED <<xd_alloc, xd_host>> /\ SameQueue

\* xd_card_submit_req(): nothing can be started, or something is.  An ejected card fails
\* what is queued.
Submit(c) ==
  /\ Up /\ Registered(c) /\ xd_media[c].q = "run" /\ xd_media[c].waiting > 0
  /\ ~xd_media[c].has_request
  /\ \/ xd_media' = [xd_media EXCEPT ![c].waiting = 0] /\ UNCHANGED xd_host
     \/ /\ ~xd_media[c].eject
        /\ \E x \in Issued(xd_media[c], xd_host) :
             xd_media' = [xd_media EXCEPT ![c] = x.r] /\ xd_host' = x.h
  /\ UNCHANGED <<xd_alloc, xd_used>> /\ SameQueue

\* xd_card_disk_release(): the last user frees the card.
DiskRelease(c, q) ==
  IF xd_media[c].usage_count = 1
  THEN xd_alloc' = xd_alloc \ {c} /\ xd_media' = [xd_media EXCEPT ![c] = Blank]
  ELSE /\ xd_media' = [xd_media EXCEPT ![c].usage_count = @ - 1, ![c].q = q]
       /\ UNCHANGED xd_alloc

\* xd_card_bd_release(), when the requests have ended.
Close(c) ==
  /\ Up /\ Opened(c) /\ xd_media[c].waiting = 0 /\ ~xd_media[c].has_request
  /\ DiskRelease(c, xd_media[c].q)
  /\ UNCHANGED <<xd_host, xd_used>> /\ SameQueue

\* xd_card_stop_queue(), called until it succeeds
StopQueue(c) == ~xd_media[c].has_request /\ xd_media' = [xd_media EXCEPT ![c].q = "stopped"]

-----------------------------------------------------------------------------
(* xd_card_check()                                                         *)

Checks(at)   == Up /\ mutex = "check" /\ xd_check.at = at
Answered(at) == Checks(at) /\ Card.complete
To(at)       == xd_check' = [xd_check EXCEPT !.at = at]
SameCheck    == UNCHANGED <<fmt, store>> /\ Elsewhere
SameCards    == UNCHANGED <<xd_alloc, xd_card, xd_del, mutex, xd_used>> /\ SameCheck

CheckStart ==
  /\ Up /\ Free /\ xd_life.sleep = "no" /\ xd_check.queued /\ xd_check.at = "idle"
  /\ mutex' = "check"
  /\ xd_check' = [Idle EXCEPT !.at = IF xd_card = NoCard THEN "alloc" ELSE "stop"]
  /\ xd_host' = [xd_host EXCEPT !.power = @ \/ xd_card = NoCard]
  /\ UNCHANGED <<xd_alloc, xd_card, xd_media, xd_del, xd_used>> /\ SameCheck

\* Mutant: a request may be on its way.
CheckStopAtOnce ==
  /\ Checks("stop") /\ xd_media' = [xd_media EXCEPT ![xd_card].q = "stopped"] /\ To("alloc")
  /\ UNCHANGED xd_host /\ SameCards

CheckStop ==
  /\ Checks("stop") /\ StopQueue(xd_card) /\ To("alloc")
  /\ UNCHANGED xd_host /\ SameCards

\* A question to the card, the next step of the check being the one at which it is answered.
Question(to, h, n) == To(to) /\ NewReq(xd_card, h, h = "read", n) /\ SameCards

\* xd_card_alloc_media(): the new card is host->card until it is identified.
AllocMedia ==
  /\ Checks("alloc") /\ xd_alloc # XdCards
  /\ \E c \in {CHOOSE d \in XdCards : d \notin xd_alloc} :
       /\ xd_alloc' = xd_alloc \cup {c} /\ xd_card' = c
       /\ xd_check' = [xd_check EXCEPT !.at = "reset", !.new = c, !.old = xd_card]
       /\ NewReq(c, "default", FALSE, 1)
  /\ UNCHANGED <<xd_del, mutex, xd_used>> /\ SameCheck

AskStatus == Answered("reset") /\ ~Card.err /\ Question("status", "default", 1)

\* The card is not ready.
PollStatus ==
  /\ Answered("status") /\ ~Card.err /\ xd_check.polls < 1
  /\ xd_check' = [xd_check EXCEPT !.polls = @ + 1]
  /\ NewReq(xd_card, "default", FALSE, 1) /\ SameCards

AskId1 == Answered("status") /\ ~Card.err /\ Question("id1", "default", 1)
AskId2 == Answered("id1") /\ ~Card.err /\ Question("id2", "default", 1)
AskId3 == Answered("id2") /\ ~Card.err /\ Question("id3", "default", 1)

\* xd_card_find_cis(), one page of it.  SmartMedia has no ID2 and no ID3; nobody minds if
\* there is no ID3.
AskCis == /\ (Answered("id1") /\ ~Card.err) \/ Answered("id3")
          /\ Question("cis", "read", 1)

\* host->card is the old card again; if there is one, it goes.
Restore == /\ xd_card' = xd_check.old
           /\ xd_del' = IF xd_check.old = NoCard THEN NoDel
                        ELSE [for |-> "check", at |-> "del", card |-> xd_check.old,
                              thread |-> FALSE]

\* The new card does not answer, is not ready in time, or is not what it should be.
DropMedia ==
  /\ \/ \E at \in {"reset", "id2"} : Answered(at) /\ Card.err
     \/ \E at \in {"status", "id1", "cis"} : Answered(at)
  /\ Restore /\ xd_alloc' = xd_alloc \ {xd_check.new}
  /\ xd_media' = [xd_media EXCEPT ![xd_check.new] = Blank]
  /\ xd_check' = [xd_check EXCEPT !.at = "settle", !.new = NoCard, !.old = NoCard]
  /\ UNCHANGED <<xd_host, mutex, xd_used>> /\ SameCheck

Identified ==
  /\ Answered("cis") /\ ~Card.err /\ Restore
  /\ xd_check' = [xd_check EXCEPT !.at = "settle", !.old = NoCard]
  /\ UNCHANGED <<xd_alloc, xd_media, xd_host, mutex, xd_used>> /\ SameCheck

\* Nothing is left of the old card.
NoMedia ==
  /\ Checks("settle") /\ xd_del = NoDel /\ xd_check.new = NoCard
  /\ xd_card' = NoCard /\ xd_host' = [xd_host EXCEPT !.power = FALSE]
  /\ mutex' = "free" /\ xd_check' = [Idle EXCEPT !.queued = xd_check.queued]
  /\ UNCHANGED <<xd_alloc, xd_media, xd_del, xd_used>> /\ SameCheck

NewMedia ==
  /\ Checks("settle") /\ xd_del = NoDel /\ xd_check.new # NoCard
  /\ xd_card' = xd_check.new /\ To("media")
  /\ UNCHANGED <<xd_alloc, xd_media, xd_host, mutex, xd_del, xd_used>> /\ SameCheck

\* xd_card_fill_lut() asks for the extra data of the pages, one by one; fill_lut_rom()
\* need not.
FillLut == Checks("media") /\ Question("lut", "read_extra", MaxPages)
ReadPage == /\ Checks("media") \/ (Answered("lut") /\ ~Card.err)
            /\ Question("page", "default", 1)

\* xd_card_init_media() fails: the extra data, or what the system is asked for.
InitMediaFails ==
  /\ (Answered("lut") /\ Card.err /\ UNCHANGED xd_used) \/ (Answered("page") /\ Event)
  /\ xd_alloc' = xd_alloc \ {xd_card} /\ xd_media' = [xd_media EXCEPT ![xd_card] = Blank]
  /\ xd_card' = NoCard /\ xd_host' = [xd_host EXCEPT !.power = FALSE]
  /\ mutex' = "free" /\ xd_check' = [Idle EXCEPT !.queued = xd_check.queued]
  /\ UNCHANGED xd_del /\ SameCheck

\* The files in sysfs and the disk are there.
InitDisk ==
  /\ Answered("page") /\ xd_media' = [xd_media EXCEPT ![xd_card].q = "run"]
  /\ mutex' = "free" /\ xd_check' = [Idle EXCEPT !.queued = xd_check.queued]
  /\ UNCHANGED <<xd_alloc, xd_card, xd_host, xd_del, xd_used>> /\ SameCheck

Check == \/ CheckStart \/ CheckStop \/ AllocMedia \/ AskStatus \/ PollStatus \/ AskId1
         \/ AskId2 \/ AskId3 \/ AskCis \/ DropMedia \/ Identified \/ NoMedia \/ NewMedia
         \/ FillLut \/ ReadPage \/ InitMediaFails \/ InitDisk

-----------------------------------------------------------------------------
(* xd_card_remove_media(), by the check or by xd_card_free_host()          *)

SameDel == UNCHANGED <<xd_card, xd_host, xd_check, store, xd_used>> /\ Elsewhere

\* The card is ejected, and what waits in the queue, which runs again, fails.  A format
\* thread is stopped without the mutex.
DelDisk ==
  /\ Up /\ xd_del.at = "del"
  /\ \E thread \in {xd_media[xd_del.card].f_thread} :
       /\ xd_del' = [xd_del EXCEPT !.at = IF thread THEN "kstop" ELSE "cleanup"]
       /\ mutex' = IF thread THEN "free" ELSE mutex
  /\ \E c \in {xd_del.card} :
       xd_media' = [xd_media EXCEPT
         ![c].eject = TRUE, ![c].q = "run", ![c].f_thread = FALSE,
         ![c].waiting = IF xd_media[c].has_request THEN xd_media[c].waiting ELSE 0]
  /\ UNCHANGED <<xd_alloc, fmt>> /\ SameDel

\* kthread_stop() tells the thread ...  A thread that has left by itself after its pointer
\* was fetched (xd_card_blk.c:2738, 2143-2150) is freed, and telling it is a use of freed
\* memory in the code; here it does nothing.
KStop ==
  /\ Up /\ xd_del.at = "kstop" /\ xd_del' = [xd_del EXCEPT !.at = "wait"]
  /\ fmt' = [fmt EXCEPT !.stop = @ \/ fmt.at # "none"]
  /\ UNCHANGED <<xd_alloc, xd_media, mutex>> /\ SameDel

\* Mutant: nobody waits for the thread.
KStoppedAtOnce ==
  /\ Up /\ xd_del.at = "wait" /\ Free
  /\ mutex' = xd_del.for /\ xd_del' = [xd_del EXCEPT !.at = "cleanup"]
  /\ UNCHANGED <<xd_alloc, xd_media, fmt>> /\ SameDel

\* ... and returns when it has ended.
KStopped ==
  /\ Up /\ xd_del.at = "wait" /\ fmt.at = "none" /\ Free
  /\ mutex' = xd_del.for /\ xd_del' = [xd_del EXCEPT !.at = "cleanup"]
  /\ UNCHANGED <<xd_alloc, xd_media, fmt>> /\ SameDel

\* blk_cleanup_queue(), xd_card_disk_release()
Cleanup ==
  /\ Up /\ xd_del.at = "cleanup" /\ DiskRelease(xd_del.card, "off") /\ xd_del' = NoDel
  /\ UNCHANGED <<mutex, fmt>> /\ SameDel

-----------------------------------------------------------------------------
(* Formatting.                                                             *)

SameFmt == UNCHANGED <<xd_alloc, xd_card, xd_check, xd_del>> /\ Elsewhere

\* xd_card_format_store(): somebody writes to the file, and has the mutex.
StoreStart ==
  /\ Up /\ xd_life.sleep = "no" /\ Free /\ store = "idle" /\ Event
  /\ xd_card # NoCard /\ Registered(xd_card)
  /\ store' = "stop" /\ mutex' = "store"
  /\ UNCHANGED <<xd_media, xd_host, fmt>> /\ SameFmt

\* The queue is stopped.  A thread is started, unless there is one or the card is ejected.
StoreFormat ==
  /\ Up /\ store = "stop" /\ ~Card.has_request /\ store' = "idle" /\ mutex' = "free"
  /\ \/ /\ Card.format \/ Card.eject \/ ThreadFails
        /\ xd_media' = [xd_media EXCEPT ![xd_card].q = "stopped",
                                        ![xd_card].format = @ \/ ~Card.eject]
        /\ UNCHANGED fmt
     \/ /\ ~(Card.format \/ Card.eject)
        /\ xd_media' = [xd_media EXCEPT ![xd_card].q = "stopped", ![xd_card].format = TRUE,
                                        ![xd_card].f_thread = TRUE]
        /\ fmt' = [NoThread EXCEPT !.at = "start", !.of = xd_card, !.left = MaxBlocks]
  /\ UNCHANGED <<xd_host, xd_used>> /\ SameFmt

\* xd_card_format_thread(): the next block is erased, with a shorter address.
FmtErase ==
  /\ mutex' = "fmt" /\ fmt' = [fmt EXCEPT !.at = "erase", !.left = @ - 1]
  /\ xd_media' = [xd_media EXCEPT ![xd_card] =
       [Asked(Card, "erase_fmt") EXCEPT !.err = FALSE, !.data = FALSE, !.pages = 1,
                                        !.size = 1]]
  /\ xd_host' = [Tell(xd_host) EXCEPT !.short = TRUE]

\* ... and its end
FmtOut ==
  /\ fmt' = NoThread
  /\ xd_media' = [xd_media EXCEPT ![xd_card].format = FALSE, ![xd_card].f_thread = FALSE,
                                  ![xd_card].q = "run"]
  /\ UNCHANGED <<mutex, xd_host>>

FmtStart ==
  /\ Up /\ fmt.at = "start" /\ Free
  /\ \/ FmtErase /\ UNCHANGED xd_used
     \/ Event /\ FmtOut                       \* flash_bd_init() fails
  /\ UNCHANGED store /\ SameFmt

FmtAnswered ==
  /\ Up /\ mutex = "fmt" /\ Card.complete /\ mutex' = "free"
  /\ fmt' = [fmt EXCEPT !.at = "yield", !.rc = Card.err]
  /\ UNCHANGED <<xd_media, xd_host, store, xd_used>> /\ SameFmt

FmtStopped ==
  /\ Up /\ fmt.at = "yield" /\ Free /\ fmt.stop /\ fmt' = NoThread
  /\ xd_media' = [xd_media EXCEPT ![fmt.of].format = FALSE]
  /\ UNCHANGED <<mutex, xd_host, store, xd_used>> /\ SameFmt

FmtNext ==
  /\ Up /\ fmt.at = "yield" /\ Free /\ ~fmt.stop
  /\ IF fmt.rc \/ fmt.left = 0 THEN FmtOut ELSE FmtErase
  /\ UNCHANGED <<store, xd_used>> /\ SameFmt

-----------------------------------------------------------------------------
(* Sleep.                                                                  *)

SameSleep == UNCHANGED <<xd_alloc, xd_card, xd_del, store, mutex>>

\* xd_card_suspend_host(): users and the work queue are frozen.  The queue is stopped
\* whether or not a request is on its way.
Suspend ==
  /\ Up /\ Free /\ xd_life.sleep = "no" /\ xd_life.rm = "no"
  /\ xd_check.at = "idle" /\ store = "idle" /\ Event
  /\ xd_media' = IF xd_card = NoCard THEN xd_media
                 ELSE [xd_media EXCEPT ![xd_card].f_thread = FALSE, ![xd_card].q = "stopped"]
  /\ \E thread \in {xd_card # NoCard /\ xd_media[xd_card].f_thread} :
       /\ xd_life' = [xd_life EXCEPT !.sleep = IF thread THEN "kstop" ELSE "off"]
  /\ UNCHANGED <<xd_host, xd_hw, xd_check, fmt>> /\ SameSleep

SuspendKStop ==
  /\ xd_life.sleep = "kstop" /\ xd_life' = [xd_life EXCEPT !.sleep = "off"]
  /\ fmt' = [fmt EXCEPT !.stop = @ \/ fmt.at # "none"]
  /\ UNCHANGED <<xd_media, xd_host, xd_hw, xd_check, xd_used>> /\ SameSleep

\* The power is off: the controller forgets what it was doing.
SuspendOff ==
  /\ xd_life.sleep = "off" /\ fmt.at = "none" /\ Free
  /\ xd_life' = [xd_life EXCEPT !.sleep = "asleep"]
  /\ xd_host' = [xd_host EXCEPT !.power = FALSE] /\ xd_hw' = [togo |-> {}, irq |-> {}]
  /\ UNCHANGED <<xd_media, xd_check, fmt, xd_used>> /\ SameSleep

\* xd_card_resume_host() without CONFIG_XD_CARD_UNSAFE_RESUME, which the repository's own
\* Makefile defines: with it the card is identified here, under the mutex, and the check is
\* only queued if it is another one.  As in memstick.c this may replace the handler of a
\* request that is on its way; it is not modelled.
Resume ==
  /\ xd_life.sleep = "asleep" /\ xd_life' = [xd_life EXCEPT !.sleep = "no"]
  /\ xd_check' = [xd_check EXCEPT !.queued = TRUE]
  /\ xd_host' = [xd_host EXCEPT !.power = xd_card # NoCard]
  /\ xd_media' = IF xd_card = NoCard THEN xd_media
                 ELSE [xd_media EXCEPT ![xd_card].q = "run"]
  /\ UNCHANGED <<xd_hw, fmt, xd_used>> /\ SameSleep
=============================================================================
