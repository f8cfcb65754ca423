------------------------------ MODULE XdCardProofs ------------------------------
(***************************************************************************)
(* The safety of xd_card_blk under jmb38x_xd, for any number of cards,     *)
(* retries, commands, pages, blocks and requests, and of whatever else     *)
(* happens: who uses a card uses one that is allocated, and one at a time  *)
(* asks something of it.                                                   *)
(*                                                                         *)
(* IInv is the inductive invariant.  Its heart is AskedFor: a card that is *)
(* asked for something is host->card, and there is a block request, the    *)
(* format thread or the check behind it; Counted, Removing and Formatting  *)
(* say why nobody frees it meanwhile.                                      *)
(***************************************************************************)
EXTENDS Jmb38xXd, Integers, TLAPS

\* The values of next_request[], and those that are handlers.
Steps == {"none", "bad", "init", "default", "read_extra", "read", "read_tmp", "read_copy",
          "write", "write_tmp", "write_stat", "write_adv", "write_tmp_adv", "erase",
          "erase_stat", "check_stat", "erase_fmt", "erase_stat_fmt"}
Named == Steps \ {"none", "bad", "init"}

\* Where the check is: with the new card, waiting for an answer, past the identification.
Idents == {"reset", "status", "id1", "id2", "id3", "cis"}
Asking == Idents \cup {"lut", "page"}
Inits  == {"media", "lut", "page"}

\* host->retries
Tries == 0 .. (IF XdRetries > 1 THEN XdRetries ELSE 1)

Places == XdCards \cup {NoCard}

\* Types of the fields.
Medias ==
  [next : Steps \X Steps, data : BOOLEAN, err : BOOLEAN, complete : BOOLEAN, pages : Nat,
   size : Nat, left : 0 .. MaxCmds, q : {"off", "run", "stopped"}, waiting : Nat,
   has_request : BOOLEAN, format : BOOLEAN, eject : BOOLEAN, f_thread : BOOLEAN,
   usage_count : Nat]
Hosts ==
  [req : Places, lock : {"free", "next", "issue"}, last : BOOLEAN, tasklet : BOOLEAN,
   armed : BOOLEAN, expired : BOOLEAN, flags : SUBSET {"EOCMD", "EOTRAN"}, retries : Tries,
   power : BOOLEAN, short : BOOLEAN, submit : BOOLEAN]
Checkers ==
  [at : {"idle", "stop", "alloc", "settle"} \cup Asking \cup Inits, queued : BOOLEAN,
   new : Places, old : Places, polls : Nat]
Deletes ==
  {NoDel} \cup [for : {"check", "rm"}, at : {"del", "kstop", "wait", "cleanup"},
                card : XdCards, thread : {FALSE}]
Threads ==
  [at : {"none", "start", "erase", "yield"}, of : Places, left : Int, rc : BOOLEAN,
   stop : BOOLEAN]
Lives == [sleep : {"no", "kstop", "off", "asleep"},
          rm : {"no", "kill", "irq", "flush", "del", "gone"}]

Types ==
  /\ xd_alloc \subseteq XdCards /\ xd_card \in Places
  /\ xd_media \in [XdCards -> Medias] /\ xd_host \in Hosts
  /\ xd_check \in Checkers /\ xd_del \in Deletes /\ fmt \in Threads
  /\ mutex \in {"free", "check", "fmt", "store", "rm"} /\ store \in {"idle", "stop"}
  /\ xd_life \in Lives

\* The card is asked for something.
Busy(c) == xd_media[c].next[1] \notin {"none", "bad"}

\* Somebody waits for the format thread; a new card is host->card; so is a card without a
\* queue, because the old one is gone.
Stopping == xd_del.at \in {"kstop", "wait"}
Fresh == xd_check.at \in Idents \cup Inits
Gone  == xd_del = NoDel /\ (xd_check.at = "settle" \/ xd_life.rm \in {"del", "gone"})

\* Memory that is free is blank; a card that is allocated has somebody who counts.
Counted ==
  /\ \A c \in XdCards \ xd_alloc : xd_media[c] = Blank
  /\ \A c \in xd_alloc :
       /\ xd_media[c].usage_count >= 1
       /\ xd_media[c].q # "off" /\ (xd_media[c].has_request \/ xd_media[c].waiting > 0)
            => xd_media[c].usage_count >= 2

\* What host->card is.
CardKnown ==
  /\ xd_card # NoCard =>
       IF Fresh \/ Gone THEN xd_media[xd_card].q = "off" ELSE Registered(xd_card)
  /\ \A c \in xd_alloc :
       /\ xd_media[c].q # "off" => c \in {xd_card, xd_check.old}
       /\ xd_media[c].q = "run" =>
            c = xd_card /\ (xd_check.at \in {"idle", "stop"} \/ xd_media[c].eject)
       /\ xd_media[c].q # "off" /\ xd_media[c].eject => xd_del # NoDel /\ xd_del.card = c

\* Where the check is.
Checking ==
  /\ mutex = "check" <=> xd_check.at # "idle" /\ ~Stopping
  /\ xd_check.at \in {"idle", "stop", "alloc"} => xd_check.new = NoCard
  /\ xd_check.at \notin Idents => xd_check.old = NoCard
  /\ xd_check.at = "stop" => xd_card # NoCard
  /\ Fresh => xd_card = xd_check.new /\ xd_card # NoCard
  /\ xd_check.new # NoCard =>
       /\ xd_check.new \in xd_alloc /\ xd_media[xd_check.new].q = "off"
       /\ ~xd_media[xd_check.new].eject /\ xd_media[xd_check.new].waiting = 0
  /\ xd_check.old # NoCard => Registered(xd_check.old)

\* Where a removal is, and a sleep.
Removing ==
  /\ mutex = "rm" <=> xd_life.rm = "del" /\ ~Stopping
  /\ xd_life.rm \in {"del", "gone"} => xd_check.at = "idle" /\ ~xd_check.queued
  /\ xd_del # NoDel =>
       /\ xd_card = xd_del.card
       /\ IF xd_del.for = "check" THEN xd_check.at = "settle" ELSE xd_life.rm = "del"
       /\ xd_del.at # "del" => xd_media[xd_del.card].eject
       /\ xd_del.at = "cleanup" => fmt.at = "none"
Sleeping ==
  /\ xd_life.sleep # "no" =>
       xd_check.at = "idle" /\ xd_del = NoDel /\ store = "idle" /\ xd_life.rm = "no"
  /\ xd_life.sleep = "asleep" => fmt.at = "none" /\ mutex = "free"

\* Where the format thread is.
Formatting ==
  /\ mutex = "fmt" <=> fmt.at = "erase"
  /\ mutex = "store" <=> store = "stop"
  /\ store = "stop" => xd_card # NoCard
  /\ fmt.at # "none" =>
       /\ Registered(fmt.of) /\ ~xd_media[fmt.of].has_request
       /\ xd_media[fmt.of].q = "stopped" \/ xd_media[fmt.of].eject
       /\ xd_media[fmt.of].f_thread \/ Stopping \/ xd_life.sleep \in {"kstop", "off"}

\* Who asks something of a card.
AskedFor ==
  \A c \in XdCards :
    /\ xd_media[c].has_request => Busy(c) /\ xd_check.at \in {"idle", "stop"}
    /\ xd_media[c].complete => ~Busy(c)
    /\ Busy(c) =>
         /\ xd_media[c].next[2] \in Named
         /\ xd_life.rm # "gone" => c = xd_card
         /\ xd_media[c].next[1] # "init" => xd_host.req = c
         /\ \/ xd_media[c].has_request
            \/ mutex = "fmt" /\ fmt.of = c
            \/ mutex = "check" /\ xd_check.at \in Asking

\* What the host is at.
Serving ==
  /\ xd_host.req # NoCard => xd_host.req = xd_card /\ Busy(xd_card)
  /\ xd_host.lock = "issue" => xd_host.req # NoCard
  /\ xd_life.rm # "no" => ~xd_host.submit
  /\ xd_life.rm \in {"irq", "flush", "del", "gone"} => ~xd_host.tasklet
  /\ xd_life.rm \in {"flush", "del", "gone"} =>
       /\ ~xd_host.armed /\ ~xd_host.expired
       /\ IF xd_host.lock = "free" THEN xd_host.req = NoCard
          ELSE xd_host.lock = "next" /\ xd_host.last
  /\ xd_life.rm \in {"del", "gone"} => xd_host.lock = "free"

ShortAddr ==
  xd_host.short /\ xd_life.rm # "gone" =>
    xd_card # NoCard /\ Card.next[1] \in {"init", "erase", "erase_fmt"}
                     /\ (Card.next[1] = "init" => Card.next[2] \in {"erase", "erase_fmt"})

\* It is inductive.
IInv == /\ Types /\ Counted /\ CardKnown /\ Checking /\ Removing /\ Sleeping /\ Formatting
        /\ AskedFor /\ Serving /\ ShortAddr

-----------------------------------------------------------------------------
(* Fields and frames.                                                      *)

\* What the invariant sees of a card is as it was.
Untouched(c) ==
  /\ xd_media'[c].next = xd_media[c].next
  /\ xd_media'[c].complete = xd_media[c].complete
  /\ xd_media'[c].q = xd_media[c].q
  /\ xd_media'[c].waiting = xd_media[c].waiting
  /\ xd_media'[c].has_request = xd_media[c].has_request
  /\ xd_media'[c].format = xd_media[c].format
  /\ xd_media'[c].eject = xd_media[c].eject
  /\ xd_media'[c].f_thread = xd_media[c].f_thread
  /\ xd_media'[c].usage_count = xd_media[c].usage_count

\* A removal at work is not NoDel.
LEMMA NoDelFields ==
  /\ NoDel.for = "none" /\ NoDel.at = "none" /\ NoDel.card = NoCard
  /\ \A d \in Deletes : d # NoDel => /\ d.for \in {"check", "rm"}
                                     /\ d.at \in {"del", "kstop", "wait", "cleanup"}
                                     /\ d.card \in XdCards
BY DEF Deletes, NoDel

\* After jmb38x_xd_probe().
LEMMA InitInv == XdInit => IInv
<1> SUFFICES ASSUME XdInit PROVE IInv
  OBVIOUS
<1> USE XdAssumption
<1>1. \A c \in XdCards : xd_media[c] = Blank
  BY DEF XdInit
<1>2. Blank \in Medias
  BY DEF Blank, Medias, Steps
<1>3. xd_host \in Hosts
  BY DEF XdInit, Hosts, Tries, Places
<1>4. Types
  <2>1. xd_media \in [XdCards -> Medias]
    BY <1>2 DEF XdInit
  <2>2. xd_check \in Checkers
    BY DEF XdInit, Checkers, Idle, Places
  <2>3. fmt \in Threads /\ xd_life \in Lives /\ xd_del \in Deletes
    BY DEF XdInit, Threads, NoThread, Places, Lives, Deletes
  <2> QED BY <2>1, <2>2, <2>3, <1>3 DEF XdInit, Types, Places
<1>5. Counted
  BY <1>1 DEF XdInit, Counted
<1>6. CardKnown
  BY DEF XdInit, CardKnown
<1>7. Checking /\ Removing /\ Sleeping /\ Formatting
  BY DEF XdInit, Checking, Removing, Sleeping, Formatting, Stopping, Fresh, Idle, NoDel,
     NoThread, Idents, Inits
<1>8. AskedFor
  BY <1>1 DEF AskedFor, Busy, Blank
<1>9. Serving /\ ShortAddr
  BY DEF XdInit, Serving, ShortAddr
<1> QED BY <1>4, <1>5, <1>6, <1>7, <1>8, <1>9 DEF IInv

\* A step of the host that leaves the cards' requests as they are.
LEMMA HostStep ==
  ASSUME IInv, Types', Serving', \A c \in XdCards : Untouched(c),
         \A c \in XdCards \ xd_alloc : xd_media'[c] = xd_media[c],
         UNCHANGED <<xd_alloc, xd_card, mutex, xd_del, fmt, store>>,
         xd_check'.at = xd_check.at, xd_check'.new = xd_check.new,
         xd_check'.old = xd_check.old,
         xd_life.rm \in {"del", "gone"} => xd_check'.queued = xd_check.queued,
         xd_host'.req = xd_host.req, xd_host'.short = xd_host.short,
         xd_life'.sleep = xd_life.sleep, xd_life'.sleep # "no" => xd_life'.rm = "no",
         xd_life'.rm = xd_life.rm
           \/ {xd_life.rm, xd_life'.rm} \subseteq {"no", "kill", "irq", "flush"}
  PROVE  IInv'
<1> USE DEF Untouched
<1>1. Counted'
  BY DEF IInv, Types, Counted
<1>2. CardKnown'
  BY DEF IInv, Types, Places, CardKnown, Registered, Fresh, Gone
<1>3. Checking'
  BY DEF IInv, Types, Checkers, Places, Checking, Registered, Fresh, Stopping
<1>4. Removing'
  BY NoDelFields DEF IInv, Types, Removing, Stopping
<1>5. Sleeping'
  BY DEF IInv, Sleeping
<1>6. Formatting'
  BY DEF IInv, Types, Formatting, Registered, Stopping
<1>7. AskedFor'
  BY DEF IInv, Types, AskedFor, Busy
<1>8. ShortAddr'
  BY DEF IInv, Types, Places, ShortAddr, Card
<1> QED BY <1>1, <1>2, <1>3, <1>4, <1>5, <1>6, <1>7, <1>8 DEF IInv

\* Only the error of a request changes.
LEMMA ErrOnly ==
  ASSUME Types, NEW c \in Places, NEW b \in BOOLEAN,
         xd_media' = [xd_media EXCEPT ![c].err = b]
  PROVE  /\ xd_media' \in [XdCards -> Medias]
         /\ \A d \in XdCards : Untouched(d)
         /\ \A d \in XdCards : d # c => xd_media'[d] = xd_media[d]
<1> DEFINE r == [xd_media[c] EXCEPT !.err = b]
<1>1. CASE c \in XdCards
  <2>1. xd_media[c] \in Medias
    BY <1>1 DEF Types
  <2>2. /\ r \in Medias
        /\ r.next = xd_media[c].next /\ r.complete = xd_media[c].complete
        /\ r.q = xd_media[c].q /\ r.waiting = xd_media[c].waiting
        /\ r.has_request = xd_media[c].has_request /\ r.format = xd_media[c].format
        /\ r.eject = xd_media[c].eject /\ r.f_thread = xd_media[c].f_thread
        /\ r.usage_count = xd_media[c].usage_count
    BY <2>1 DEF Medias
  <2>3. xd_media' = [xd_media EXCEPT ![c] = r]
    OBVIOUS
  <2> HIDE DEF r
  <2> QED BY <1>1, <2>2, <2>3 DEF Types, Untouched
<1>2. CASE c = NoCard
  <2>1. xd_media' = xd_media
    BY <1>2, XdAssumption DEF Types
  <2> QED BY <2>1 DEF Types, Untouched
<1> QED BY <1>1, <1>2 DEF Places

\* The host's request is of a card that is not freed.
LEMMA ReqAllocated == ASSUME IInv PROVE xd_host.req \in xd_alloc \cup {NoCard}
BY DEF IInv, Types, Hosts, Places, Serving, Counted, Busy, Blank

\* The steps of the host that touch no card.
LEMMA QuietInv ==
  ASSUME IInv, Raise \/ RaiseError \/ MediaChange \/ Expire \/ Tasklet \/ RemoveDummy
                 \/ RemoveIrq
  PROVE  IInv'
<1> USE DEF SameRest, Untouched
<1>1. CASE Raise \/ RaiseError \/ MediaChange
  <2>1. UNCHANGED <<xd_media, xd_host, xd_life>> /\ SameRest
    BY <1>1 DEF Raise, RaiseError, MediaChange
  <2>2. Types' /\ Serving'
    BY <2>1 DEF IInv, Types, Serving, Busy
  <2> QED BY <2>1, <2>2, HostStep DEF IInv, Sleeping
<1>2. CASE Expire
  <2>1. /\ UNCHANGED <<xd_media, xd_life>> /\ SameRest /\ xd_host.armed
        /\ xd_host' = [xd_host EXCEPT !.armed = FALSE, !.expired = TRUE]
    BY <1>2 DEF Expire
  <2>2. Types'
    BY <2>1 DEF IInv, Types, Hosts
  <2>3. Serving'
    BY <2>1 DEF IInv, Types, Hosts, Serving, Busy
  <2>4. xd_host'.req = xd_host.req /\ xd_host'.short = xd_host.short
    BY <2>1 DEF IInv, Types, Hosts
  <2> QED BY <2>1, <2>2, <2>3, <2>4, HostStep DEF IInv, Sleeping
<1>3. CASE Tasklet
  <2>1. /\ UNCHANGED <<xd_media, xd_life>> /\ SameRest /\ LockFree /\ xd_host.tasklet
        /\ xd_host' = [xd_host EXCEPT !.tasklet = FALSE,
                         !.lock = IF xd_host.req = NoCard THEN "next" ELSE "free"]
    BY <1>3 DEF Tasklet
  <2>2. Types'
    BY <2>1 DEF IInv, Types, Hosts
  <2>3. Serving'
    BY <2>1 DEF IInv, Types, Hosts, Serving, Busy, Lives
  <2>4. xd_host'.req = xd_host.req /\ xd_host'.short = xd_host.short
    BY <2>1 DEF IInv, Types, Hosts
  <2> QED BY <2>1, <2>2, <2>3, <2>4, HostStep DEF IInv, Sleeping
<1>4. CASE RemoveDummy
  <2>1. /\ UNCHANGED xd_media /\ SameRest /\ xd_life.sleep = "no" /\ xd_life.rm = "no"
        /\ xd_host' = [xd_host EXCEPT !.submit = FALSE]
        /\ xd_life' = [xd_life EXCEPT !.rm = "kill"]
    BY <1>4 DEF RemoveDummy, Removes
  <2>2. Types'
    BY <2>1 DEF IInv, Types, Hosts, Lives
  <2>3. Serving'
    BY <2>1 DEF IInv, Types, Hosts, Lives, Serving, Busy
  <2>4. /\ xd_host'.req = xd_host.req /\ xd_host'.short = xd_host.short
        /\ xd_life'.rm = "kill" /\ xd_life'.sleep = "no"
    BY <2>1 DEF IInv, Types, Hosts, Lives
  <2> QED BY <2>1, <2>2, <2>3, <2>4, HostStep
<1>5. CASE RemoveIrq
  <2>1. /\ UNCHANGED <<xd_media, xd_host>> /\ SameRest /\ ~xd_host.tasklet
        /\ xd_life.rm = "kill" /\ xd_life' = [xd_life EXCEPT !.rm = "irq"]
    BY <1>5 DEF RemoveIrq, Removes
  <2>2. Types'
    BY <2>1 DEF IInv, Types, Lives
  <2>3. Serving'
    BY <2>1 DEF IInv, Types, Lives, Serving, Busy
  <2>4. xd_life'.rm = "irq" /\ xd_life'.sleep = "no" /\ xd_life.sleep = "no"
    BY <2>1 DEF IInv, Types, Lives, Sleeping
  <2> QED BY <2>1, <2>2, <2>3, <2>4, HostStep
<1> QED BY <1>1, <1>2, <1>3, <1>4, <1>5

\* The steps of the host that may fail a request.
LEMMA FailInv ==
  ASSUME IInv, IssueFails \/ XdIssue \/ Isr \/ Abort \/ RemoveFail
  PROVE  IInv'
<1> USE DEF SameRest
<1>0. xd_host.req \in Places /\ xd_host \in Hosts
  BY DEF IInv, Types, Hosts
<1>1. CASE IssueFails
  <2>1. /\ UNCHANGED xd_life /\ SameRest /\ xd_host.lock = "issue"
        /\ xd_media' = [xd_media EXCEPT ![xd_host.req].err = TRUE]
        /\ xd_host' = [xd_host EXCEPT !.lock = "next"]
    BY <1>1 DEF IssueFails
  <2>2. /\ xd_media' \in [XdCards -> Medias]
        /\ \A d \in XdCards : Untouched(d)
        /\ \A d \in XdCards : d # xd_host.req => xd_media'[d] = xd_media[d]
    BY <1>0, <2>1, ErrOnly DEF IInv
  <2>3. xd_host' \in Hosts
    BY <1>0, <2>1 DEF Hosts
  <2>4. Types'
    BY <2>1, <2>2, <2>3 DEF IInv, Types
  <2>5. Serving'
    BY <1>0, <2>1, <2>2 DEF IInv, Types, Hosts, Serving, Busy, Untouched
  <2>6. xd_host'.req = xd_host.req /\ xd_host'.short = xd_host.short
    BY <1>0, <2>1 DEF Hosts
  <2> QED BY <2>1, <2>2, <2>4, <2>5, <2>6, ReqAllocated, HostStep, XdAssumption
        DEF IInv, Sleeping, Types
<1>2. CASE XdIssue
  <2>1. /\ UNCHANGED xd_life /\ SameRest /\ xd_host.lock = "issue"
        /\ xd_media' = [xd_media EXCEPT ![xd_host.req].err = FALSE]
        /\ xd_host' = [xd_host EXCEPT !.lock = "free", !.flags = {}, !.armed = TRUE]
    BY <1>2 DEF XdIssue
  <2>2. /\ xd_media' \in [XdCards -> Medias]
        /\ \A d \in XdCards : Untouched(d)
        /\ \A d \in XdCards : d # xd_host.req => xd_media'[d] = xd_media[d]
    BY <1>0, <2>1, ErrOnly DEF IInv
  <2>3. xd_host' \in Hosts
    BY <1>0, <2>1 DEF Hosts
  <2>4. Types'
    BY <2>1, <2>2, <2>3 DEF IInv, Types
  <2>5. Serving'
    BY <1>0, <2>1, <2>2 DEF IInv, Types, Hosts, Serving, Busy, Untouched
  <2>6. xd_host'.req = xd_host.req /\ xd_host'.short = xd_host.short
    BY <1>0, <2>1 DEF Hosts
  <2> QED BY <2>1, <2>2, <2>4, <2>5, <2>6, ReqAllocated, HostStep, XdAssumption
        DEF IInv, Sleeping, Types
<1>3. CASE Isr
  <2>1. /\ UNCHANGED <<xd_alloc, xd_card, mutex, xd_del, fmt, store, xd_life>>
        /\ xd_life.rm \in {"no", "kill"} /\ LockFree
        /\ xd_check' = [xd_check EXCEPT !.queued = @ \/ "MEDIA" \in xd_hw.irq]
    BY <1>3 DEF Isr, Irq
  <2>2. /\ xd_check' \in Checkers /\ xd_check'.at = xd_check.at
        /\ xd_check'.new = xd_check.new /\ xd_check'.old = xd_check.old
    BY <2>1 DEF IInv, Types, Checkers
  <2>3. CASE xd_host.req = NoCard
    <3>1. UNCHANGED <<xd_media, xd_host>>
      BY <1>3, <2>3 DEF Isr
    <3>2. Types' /\ Serving'
      BY <2>1, <2>2, <3>1 DEF IInv, Types, Serving, Busy
    <3> QED BY <2>1, <2>2, <3>1, <3>2, HostStep DEF Untouched, IInv, Sleeping
  <2>4. CASE xd_host.req # NoCard
    <3>1. PICK flags \in SUBSET {"EOCMD", "EOTRAN"}, err \in BOOLEAN, over \in BOOLEAN :
            /\ xd_media' = [xd_media EXCEPT ![xd_host.req].err = err]
            /\ xd_host' = [xd_host EXCEPT !.flags = flags, !.armed = @ /\ ~over,
                                          !.lock = IF over THEN "next" ELSE @]
      <4>1. xd_host.flags \subseteq {"EOCMD", "EOTRAN"}
        BY <1>0 DEF Hosts
      <4>2. xd_media[xd_host.req].err \in BOOLEAN
        BY <1>0, <2>4 DEF IInv, Types, Medias, Places
      <4> QED BY <1>3, <2>4, <4>1, <4>2 DEF Isr
    <3>2. /\ xd_media' \in [XdCards -> Medias]
          /\ \A d \in XdCards : Untouched(d)
          /\ \A d \in XdCards : d # xd_host.req => xd_media'[d] = xd_media[d]
      BY <1>0, <3>1, ErrOnly DEF IInv
    <3>3. xd_host' \in Hosts
      BY <1>0, <3>1 DEF Hosts
    <3>4. Types'
      BY <2>1, <2>2, <3>2, <3>3 DEF IInv, Types
    <3>5. /\ xd_host'.req = xd_host.req /\ xd_host'.short = xd_host.short
          /\ xd_host'.lock # "issue" /\ xd_host'.submit = xd_host.submit
      BY <1>0, <2>1, <3>1 DEF Hosts, LockFree
    <3>6. Serving'
      BY <1>0, <2>1, <3>2, <3>5 DEF IInv, Types, Serving, Busy, Untouched
    <3> QED BY <2>1, <2>2, <3>2, <3>4, <3>5, <3>6, ReqAllocated, HostStep, XdAssumption
          DEF IInv, Sleeping, Types
  <2> QED BY <2>3, <2>4
<1>4. CASE Abort
  <2>1. /\ UNCHANGED xd_life /\ SameRest /\ LockFree /\ xd_host.expired
    BY <1>4 DEF Abort
  <2>2. CASE xd_host.req = NoCard
    <3>1. xd_host' = [xd_host EXCEPT !.expired = FALSE] /\ UNCHANGED xd_media
      BY <1>4, <2>2 DEF Abort
    <3>2. xd_host' \in Hosts
      BY <1>0, <3>1 DEF Hosts
    <3>3. Types'
      BY <2>1, <3>1, <3>2 DEF IInv, Types
    <3>4. Serving'
      BY <1>0, <2>1, <3>1 DEF IInv, Types, Hosts, Serving, Busy
    <3>5. xd_host'.req = xd_host.req /\ xd_host'.short = xd_host.short
      BY <1>0, <3>1 DEF Hosts
    <3> QED BY <2>1, <3>1, <3>3, <3>4, <3>5, HostStep DEF Untouched, IInv, Sleeping
  <2>3. CASE xd_host.req # NoCard
    <3>1. /\ xd_host' = [xd_host EXCEPT !.expired = FALSE, !.last = TRUE, !.lock = "next"]
          /\ xd_media' = [xd_media EXCEPT ![xd_host.req].err = TRUE]
      BY <1>4, <2>3 DEF Abort
    <3>2. /\ xd_media' \in [XdCards -> Medias]
          /\ \A d \in XdCards : Untouched(d)
          /\ \A d \in XdCards : d # xd_host.req => xd_media'[d] = xd_media[d]
      BY <1>0, <3>1, ErrOnly DEF IInv
    <3>3. xd_host' \in Hosts
      BY <1>0, <3>1 DEF Hosts
    <3>4. Types'
      BY <2>1, <3>2, <3>3 DEF IInv, Types
    <3>5. Serving'
      BY <1>0, <2>1, <3>1, <3>2 DEF IInv, Types, Hosts, Serving, Busy, Untouched
    <3>6. xd_host'.req = xd_host.req /\ xd_host'.short = xd_host.short
      BY <1>0, <3>1 DEF Hosts
    <3> QED BY <2>1, <3>2, <3>4, <3>5, <3>6, ReqAllocated, HostStep, XdAssumption
          DEF IInv, Sleeping, Types
  <2> QED BY <2>2, <2>3
<1>5. CASE RemoveFail
  <2>1. /\ SameRest /\ LockFree /\ ~xd_host.expired /\ xd_life.rm = "irq"
        /\ xd_life' = [xd_life EXCEPT !.rm = "flush"]
    BY <1>5 DEF RemoveFail, Removes
  <2>2. /\ xd_life' \in Lives /\ xd_life'.rm = "flush" /\ xd_life'.sleep = xd_life.sleep
        /\ xd_life.sleep = "no"
    BY <2>1 DEF IInv, Types, Lives, Sleeping
  <2>3. CASE xd_host.req = NoCard
    <3>1. xd_host' = [xd_host EXCEPT !.armed = FALSE] /\ UNCHANGED xd_media
      BY <1>5, <2>3 DEF RemoveFail
    <3>2. xd_host' \in Hosts
      BY <1>0, <3>1 DEF Hosts
    <3>3. Types'
      BY <2>1, <2>2, <3>1, <3>2 DEF IInv, Types
    <3>4. Serving'
      BY <1>0, <2>1, <2>2, <2>3, <3>1 DEF IInv, Types, Hosts, Serving, Busy, LockFree
    <3>5. xd_host'.req = xd_host.req /\ xd_host'.short = xd_host.short
      BY <1>0, <3>1 DEF Hosts
    <3> QED BY <2>1, <2>2, <3>1, <3>3, <3>4, <3>5, HostStep DEF Untouched
  <2>4. CASE xd_host.req # NoCard
    <3>1. /\ xd_host' = [xd_host EXCEPT !.armed = FALSE, !.last = TRUE, !.lock = "next"]
          /\ xd_media' = [xd_media EXCEPT ![xd_host.req].err = TRUE]
      BY <1>5, <2>4 DEF RemoveFail
    <3>2. /\ xd_media' \in [XdCards -> Medias]
          /\ \A d \in XdCards : Untouched(d)
          /\ \A d \in XdCards : d # xd_host.req => xd_media'[d] = xd_media[d]
      BY <1>0, <3>1, ErrOnly DEF IInv
    <3>3. xd_host' \in Hosts
      BY <1>0, <3>1 DEF Hosts
    <3>4. Types'
      BY <2>1, <2>2, <3>2, <3>3 DEF IInv, Types
    <3>5. Serving'
      BY <1>0, <2>1, <2>2, <3>1, <3>2 DEF IInv, Types, Hosts, Serving, Busy, Untouched
    <3>6. xd_host'.req = xd_host.req /\ xd_host'.short = xd_host.short
      BY <1>0, <3>1 DEF Hosts
    <3> QED BY <2>1, <2>2, <3>2, <3>4, <3>5, <3>6, ReqAllocated, HostStep, XdAssumption
          DEF IInv, Types
  <2> QED BY <2>3, <2>4
<1> QED BY <1>1, <1>2, <1>3, <1>4, <1>5

-----------------------------------------------------------------------------
(* The handlers: host->card is asked for something, and goes on or stops.  *)

Handles == /\ Asks /\ xd_card # NoCard /\ Busy(xd_card) /\ Elsewhere /\ SameCore

\* A record of host->card, and of the host, as the handlers give them to Go and Stop.
OfCard(r) ==
  /\ r \in Medias /\ r.q = Card.q /\ r.format = Card.format /\ r.eject = Card.eject
  /\ r.f_thread = Card.f_thread /\ r.usage_count = Card.usage_count
  /\ r.waiting > 0 => Card.waiting > 0
OfHost(h) ==
  /\ h \in Hosts /\ h.last = xd_host.last /\ h.submit = xd_host.submit
  /\ h.armed = xd_host.armed /\ h.expired = xd_host.expired
  /\ h.tasklet => xd_host.tasklet \/ xd_host.submit

\* A request that is short is one to erase.
ErasesIf(short, next) ==
  short => \/ next[1] \in {"erase", "erase_fmt"}
           \/ next[1] = "init" /\ next[2] \in {"erase", "erase_fmt"}

\* The card is asked for something more, or for nothing.
Goes(r, h) ==
  /\ r.next[1] \in Named \cup {"init"} /\ r.next[2] \in Named /\ ~r.complete
  /\ r.has_request = Card.has_request /\ ErasesIf(h.short, r.next)
  /\ h.req = xd_card /\ h.last = xd_host.last
  /\ h.lock = IF h.last THEN "next" ELSE "issue"
Stops(r, h) ==
  /\ r.next[1] = "bad" /\ ~r.has_request
  /\ h.req = NoCard /\ h.lock = "free" /\ ~h.short

Handled(r, h) ==
  /\ xd_media' = [xd_media EXCEPT ![xd_card] = r] /\ xd_host' = h
  /\ OfCard(r) /\ h \in Hosts /\ h.submit = xd_host.submit
  /\ h.armed = xd_host.armed /\ h.expired = xd_host.expired
  /\ h.tasklet => xd_host.tasklet \/ xd_host.submit
  /\ Goes(r, h) \/ Stops(r, h)

\* A handler keeps the invariant, whether it goes on or stops.
LEMMA HandlerStep ==
  ASSUME IInv, Handles, NEW r, NEW h, Handled(r, h)
  PROVE  IInv'
<1> USE DEF Elsewhere, SameCore, Handles, Handled, Goes, Stops
<1>1. /\ xd_card \in XdCards /\ xd_card \in xd_alloc /\ xd_life.rm # "gone"
      /\ \A c \in XdCards : c # xd_card => ~Busy(c)
  BY DEF IInv, Types, Places, Counted, Busy, Blank, AskedFor, Asks, Up
<1>2. /\ xd_media' \in [XdCards -> Medias] /\ xd_media'[xd_card] = r
      /\ \A c \in XdCards : c # xd_card => xd_media'[c] = xd_media[c]
  BY <1>1 DEF IInv, Types, OfCard
<1>3. r.has_request => Card.has_request
  OBVIOUS
<1>4. Types'
  BY <1>2 DEF IInv, Types
<1>5. Counted'
  BY <1>1, <1>2, <1>3 DEF IInv, Types, Counted, OfCard, Card
<1>6. CardKnown'
  BY <1>1, <1>2 DEF IInv, Types, CardKnown, Registered, Fresh, Gone, OfCard, Card
<1>7. Checking'
  <2>1. r.waiting \in Nat /\ (r.waiting > 0 => Card.waiting > 0)
    BY DEF OfCard, Medias
  <2>2. Card.waiting = 0 => r.waiting = 0
    BY <2>1
  <2>3. r.q = Card.q /\ r.eject = Card.eject
    BY DEF OfCard
  <2> QED BY <1>1, <1>2, <2>2, <2>3 DEF IInv, Types, Checkers, Places, Checking, Registered,
        Fresh, Stopping, Card
<1>8. Removing' /\ Sleeping'
  BY <1>1, <1>2, NoDelFields DEF IInv, Types, Removing, Sleeping, Stopping, OfCard, Card
<1>9. Formatting'
  BY <1>1, <1>2, <1>3 DEF IInv, Types, Formatting, Registered, Stopping, OfCard, Card
<1>10. AskedFor'
  <2> SUFFICES ASSUME NEW c \in XdCards
               PROVE  /\ xd_media'[c].has_request =>
                           Busy(c)' /\ xd_check.at \in {"idle", "stop"}
                      /\ xd_media'[c].complete => ~Busy(c)'
                      /\ Busy(c)' =>
                           /\ xd_media'[c].next[2] \in Named
                           /\ xd_life.rm # "gone" => c = xd_card
                           /\ xd_media'[c].next[1] # "init" => h.req = c
                           /\ \/ xd_media'[c].has_request
                              \/ mutex = "fmt" /\ fmt.of = c
                              \/ mutex = "check" /\ xd_check.at \in Asking
    BY DEF AskedFor
  <2>1. CASE c # xd_card
    BY <1>1, <1>2, <2>1 DEF IInv, AskedFor, Busy
  <2>2. CASE c = xd_card
    BY <1>1, <1>2, <1>3, <2>2 DEF IInv, AskedFor, Busy, Card, Named
  <2> QED BY <2>1, <2>2
<1>11. Serving'
  BY <1>1, <1>2 DEF IInv, Types, Serving, Busy, Asks, Named
<1>12. ShortAddr'
  BY <1>1, <1>2 DEF ShortAddr, ErasesIf, Card
<1> QED BY <1>4, <1>5, <1>6, <1>7, <1>8, <1>9, <1>10, <1>11, <1>12 DEF IInv

LEMMA GoInv ==
  ASSUME IInv, Handles, NEW r, OfCard(r), NEW h, OfHost(h), Go(r, h),
         r.next[1] \in Named \cup {"init"}, r.next[2] \in Named, ~r.complete,
         r.has_request = Card.has_request, ErasesIf(h.short, r.next), h.req = xd_card
  PROVE  IInv'
<1> DEFINE s == [r EXCEPT !.err = r.err \/ h.last]
           g == [h EXCEPT !.lock = IF h.last THEN "next" ELSE "issue",
                          !.retries = FreshRetries]
<1>1. xd_media' = [xd_media EXCEPT ![xd_card] = s] /\ xd_host' = g
  BY DEF Go
<1>2. FreshRetries \in Tries
  BY XdAssumption DEF FreshRetries, Tries
<1>3. /\ g \in Hosts /\ g.lock = (IF g.last THEN "next" ELSE "issue")
      /\ g.submit = h.submit /\ g.armed = h.armed /\ g.expired = h.expired
      /\ g.tasklet = h.tasklet /\ g.req = h.req /\ g.last = h.last /\ g.short = h.short
  BY <1>2 DEF OfHost, Hosts
<1>4. h.last \in BOOLEAN /\ r \in Medias
  BY DEF OfHost, OfCard, Hosts
<1>5. /\ s \in Medias /\ s.q = r.q /\ s.format = r.format /\ s.eject = r.eject
      /\ s.f_thread = r.f_thread /\ s.usage_count = r.usage_count /\ s.waiting = r.waiting
      /\ s.next = r.next /\ s.complete = r.complete /\ s.has_request = r.has_request
  BY <1>4 DEF Medias
<1> HIDE DEF s, g
<1>6. OfCard(s)
  BY <1>5 DEF OfCard
<1>7. Goes(s, g)
  BY <1>3, <1>5 DEF ErasesIf, Goes, OfHost
<1>8. Handled(s, g)
  BY <1>1, <1>3, <1>6, <1>7 DEF OfHost, Handled
<1> QED BY <1>8, HandlerStep

LEMMA StopInv ==
  ASSUME IInv, Handles, NEW r, OfCard(r), ~r.has_request, NEW h, OfHost(h), ~h.short,
         Stop(r, h)
  PROVE  IInv'
<1> DEFINE s == [r EXCEPT !.next = <<"bad", "none">>, !.complete = TRUE, !.left = 0,
                          !.data = FALSE, !.pages = 1, !.size = 1]
           g == [h EXCEPT !.lock = "free", !.req = NoCard, !.last = FALSE, !.retries = 0,
                          !.flags = {}]
<1>1. xd_media' = [xd_media EXCEPT ![xd_card] = s] /\ xd_host' = g
  BY DEF Stop
<1>2. /\ g \in Hosts /\ g.lock = "free" /\ g.submit = h.submit /\ g.armed = h.armed
      /\ g.expired = h.expired /\ g.tasklet = h.tasklet /\ g.req = NoCard
      /\ g.short = h.short
  <2>1. NoCard \in Places /\ h \in Hosts /\ {} \in SUBSET {"EOCMD", "EOTRAN"}
    BY DEF OfHost, Places
  <2>2. 0 \in Tries
    BY XdAssumption DEF Tries
  <2> QED BY <2>1, <2>2 DEF Hosts
<1>3. r \in Medias /\ <<"bad", "none">> \in Steps \X Steps /\ 0 \in 0 .. MaxCmds
  BY XdAssumption DEF OfCard, Steps
<1>4. /\ s \in Medias /\ s.q = r.q /\ s.format = r.format /\ s.eject = r.eject
      /\ s.f_thread = r.f_thread /\ s.usage_count = r.usage_count /\ s.waiting = r.waiting
      /\ s.next = <<"bad", "none">> /\ s.has_request = r.has_request
  BY <1>3 DEF Medias
<1> HIDE DEF s, g
<1>5. OfCard(s)
  BY <1>4 DEF OfCard
<1>6. Stops(s, g)
  BY <1>2, <1>4 DEF Stops
<1>7. Handled(s, g)
  BY <1>1, <1>2, <1>5, <1>6 DEF OfHost, Handled
<1> QED BY <1>7, HandlerStep

\* Each command begins with a handler.
LEMMA FirstNamed ==
  \A cmd \in XdCmds \cup {"FBD_READ"} :
    First[cmd] \in Named /\ (cmd = "FBD_ERASE" => First[cmd] = "erase")
BY XdAssumption DEF First, Named, Steps

\* xd_card_trans_req() keeps what belongs to the card.
LEMMA TransFacts ==
  ASSUME NEW r \in Medias, r.left > 0, NEW cmd \in XdCmds \cup {"FBD_READ"},
         NEW n \in 1 .. MaxPages \cup {1}
  PROVE  LET s == TransReq(r, cmd, n)
         IN  /\ s \in Medias /\ s.next = <<First[cmd], r.next[2]>> /\ s.q = r.q
             /\ s.format = r.format /\ s.eject = r.eject /\ s.f_thread = r.f_thread
             /\ s.usage_count = r.usage_count /\ s.waiting = r.waiting
             /\ s.complete = r.complete /\ s.has_request = r.has_request
<1>1. First[cmd] \in Steps /\ n \in Nat
  BY FirstNamed, XdAssumption DEF Named
<1>2. r.next[2] \in Steps
  BY DEF Medias
<1>3. (cmd # "FBD_ERASE") \in BOOLEAN /\ r.left - 1 \in 0 .. MaxCmds
  BY XdAssumption DEF Medias
<1> QED BY <1>1, <1>2, <1>3 DEF TransReq, Medias

\* xd_card_new_req() keeps what belongs to the host.
LEMMA ToldFacts ==
  ASSUME NEW h \in Hosts, NEW cmd
  PROVE  LET g == Tell(ShortFor(h, cmd))
             f == ShortFor(h, cmd)
         IN  /\ g \in Hosts /\ g.req = h.req /\ g.last = h.last /\ g.submit = h.submit
             /\ g.lock = h.lock /\ g.armed = h.armed /\ g.expired = h.expired
             /\ g.tasklet => h.tasklet \/ h.submit
             /\ g.short => h.short \/ cmd = "FBD_ERASE"
             /\ f \in Hosts /\ f.req = h.req /\ f.last = h.last /\ f.submit = h.submit
             /\ f.lock = h.lock /\ f.armed = h.armed /\ f.expired = h.expired
             /\ f.tasklet = h.tasklet
             /\ f.short => h.short \/ cmd = "FBD_ERASE"
<1>1. XdRetries \in Tries
  BY XdAssumption DEF Tries
<1> DEFINE f == ShortFor(h, cmd)
           b == h.short \/ cmd = "FBD_ERASE"
           t == f.tasklet \/ f.submit
<1>2. b \in BOOLEAN /\ f = [h EXCEPT !.short = b]
  BY DEF Hosts, ShortFor
<1>3. b => h.short \/ cmd = "FBD_ERASE"
  OBVIOUS
<1> HIDE DEF b
<1>4. /\ f \in Hosts /\ f.req = h.req /\ f.last = h.last /\ f.submit = h.submit
      /\ f.lock = h.lock /\ f.armed = h.armed /\ f.expired = h.expired
      /\ f.tasklet = h.tasklet /\ f.short = b
  BY <1>2 DEF Hosts
<1> HIDE DEF f
<1>5. t \in BOOLEAN /\ Tell(f) = [f EXCEPT !.retries = XdRetries, !.tasklet = t]
  BY <1>4 DEF Hosts, Tell
<1>6. t => h.tasklet \/ h.submit
  BY <1>4
<1> HIDE DEF t
<1> DEFINE g == [f EXCEPT !.retries = XdRetries, !.tasklet = t]
<1>7. /\ g \in Hosts /\ g.req = f.req /\ g.last = f.last /\ g.submit = f.submit
      /\ g.lock = f.lock /\ g.armed = f.armed /\ g.expired = f.expired /\ g.tasklet = t
      /\ g.short = f.short
  BY <1>1, <1>4, <1>5 DEF Hosts
<1> QED BY <1>3, <1>4, <1>5, <1>6, <1>7 DEF f

\* What xd_card_issue_req() finds to do.
LEMMA IssuedFacts ==
  ASSUME NEW r \in Medias, NEW h \in Hosts, NEW x \in Issued(r, h)
  PROVE  /\ x.r \in Medias /\ x.r.q = r.q /\ x.r.format = r.format /\ x.r.eject = r.eject
         /\ x.r.f_thread = r.f_thread /\ x.r.usage_count = r.usage_count
         /\ x.r.waiting > 0 => r.waiting > 0
         /\ x.r.next[1] = "init" /\ x.r.next[2] \in Named /\ ~x.r.complete /\ x.r.has_request
         /\ x.h \in Hosts /\ x.h.req = h.req /\ x.h.last = h.last /\ x.h.submit = h.submit
         /\ x.h.lock = h.lock /\ x.h.armed = h.armed /\ x.h.expired = h.expired
         /\ x.h.tasklet => h.tasklet \/ h.submit
         /\ ~h.short => ErasesIf(x.h.short, x.r.next)
<1>1. PICK y \in [left : 1 .. MaxCmds, waiting : 0 .. r.waiting, cmd : XdCmds,
                  n : 1 .. MaxPages] :
        x = [r |-> [Asked(TransReq([r EXCEPT !.left = y.left, !.waiting = y.waiting],
                                   y.cmd, y.n), First[y.cmd]) EXCEPT !.has_request = TRUE],
             h |-> Tell(ShortFor(h, y.cmd))]
  BY DEF Issued
<1> DEFINE a == [r EXCEPT !.left = y.left, !.waiting = y.waiting]
           b == TransReq(a, y.cmd, y.n)
           c == Asked(b, First[y.cmd])
           d == [c EXCEPT !.has_request = TRUE]
<1>2. /\ y.left \in 0 .. MaxCmds /\ y.left > 0 /\ y.waiting \in Nat
      /\ y.cmd \in XdCmds /\ y.n \in 1 .. MaxPages
      /\ y.waiting > 0 => r.waiting > 0
  BY XdAssumption DEF Medias
<1>3. /\ a \in Medias /\ a.left > 0 /\ a.q = r.q /\ a.format = r.format
      /\ a.eject = r.eject /\ a.f_thread = r.f_thread /\ a.usage_count = r.usage_count
      /\ a.waiting = y.waiting
  BY <1>2 DEF Medias
<1> HIDE DEF a
<1>4. /\ b \in Medias /\ b.q = a.q /\ b.format = a.format
      /\ b.eject = a.eject /\ b.f_thread = a.f_thread /\ b.usage_count = a.usage_count
      /\ b.waiting = a.waiting
  BY <1>2, <1>3, TransFacts
<1> HIDE DEF b
<1>5. First[y.cmd] \in Named /\ (y.cmd = "FBD_ERASE" => First[y.cmd] = "erase")
  BY <1>2, FirstNamed
<1> DEFINE k == <<"init", First[y.cmd]>>
<1>6. k \in Steps \X Steps /\ k[1] = "init" /\ k[2] = First[y.cmd]
  BY <1>5 DEF Named, Steps
<1>7. d = [b EXCEPT !.next = k, !.complete = FALSE, !.has_request = TRUE]
  BY <1>4 DEF Asked, Medias
<1> HIDE DEF k
<1> DEFINE e == [b EXCEPT !.next = k, !.complete = FALSE, !.has_request = TRUE]
<1>8. /\ e \in Medias /\ e.q = b.q /\ e.format = b.format /\ e.eject = b.eject
      /\ e.f_thread = b.f_thread /\ e.usage_count = b.usage_count /\ e.waiting = b.waiting
      /\ e.next = k /\ e.complete = FALSE /\ e.has_request = TRUE
  BY <1>4, <1>6 DEF Medias
<1> HIDE DEF e
<1>9. x.r = e /\ x.h = Tell(ShortFor(h, y.cmd))
  BY <1>1, <1>7 DEF d, c, b, a, e
<1>10. /\ x.h \in Hosts /\ x.h.req = h.req /\ x.h.last = h.last /\ x.h.submit = h.submit
       /\ x.h.lock = h.lock /\ x.h.armed = h.armed /\ x.h.expired = h.expired
       /\ x.h.tasklet => h.tasklet \/ h.submit
       /\ x.h.short => h.short \/ y.cmd = "FBD_ERASE"
  BY <1>9, ToldFacts
<1> QED BY <1>2, <1>3, <1>4, <1>5, <1>6, <1>8, <1>9, <1>10 DEF ErasesIf

\* A card's record while a handler decides: its request is still there.
Deciding(r, h) ==
  /\ OfCard(r) /\ r.next[2] \in Named /\ ~r.complete /\ r.has_request = Card.has_request
  /\ OfHost(h) /\ h.req = xd_card /\ ~h.short

\* xd_card_complete_req(): the next block request, or none.
LEMMA CompleteInv ==
  ASSUME IInv, Handles, NEW r, NEW h, Deciding(r, h), CompleteReq(r, h)
  PROVE  IInv'
<1>0. r \in Medias /\ h \in Hosts
  BY DEF Deciding, OfCard, OfHost
<1> DEFINE w == IF r.has_request THEN 0 ELSE r.waiting
           e == r.err /\ ~r.has_request
           s == [r EXCEPT !.has_request = FALSE, !.waiting = w, !.err = e]
<1>1. CASE Stop([r EXCEPT !.has_request = FALSE,
                          !.waiting = IF r.has_request THEN 0 ELSE @,
                          !.err = @ /\ ~r.has_request], h)
  <2>1. Stop(s, h)
    BY <1>1
  <2>2. w \in Nat /\ e \in BOOLEAN /\ (w > 0 => r.waiting > 0)
    BY <1>0 DEF Medias
  <2> HIDE DEF w, e
  <2>3. /\ s \in Medias /\ s.q = r.q /\ s.format = r.format /\ s.eject = r.eject
        /\ s.f_thread = r.f_thread /\ s.usage_count = r.usage_count /\ s.waiting = w
        /\ ~s.has_request
    BY <1>0, <2>2 DEF Medias
  <2> HIDE DEF s
  <2>4. OfCard(s) /\ OfHost(h) /\ ~h.short
    BY <2>2, <2>3 DEF Deciding, OfCard
  <2> QED BY <2>1, <2>3, <2>4, StopInv
<1>2. CASE r.has_request /\ \E x \in Issued(r, h) : Go(x.r, x.h)
  <2>1. PICK x \in Issued(r, h) : Go(x.r, x.h)
    BY <1>2
  <2>2. /\ OfCard(x.r) /\ x.r.next[1] = "init" /\ x.r.next[2] \in Named /\ ~x.r.complete
        /\ x.r.has_request = Card.has_request
    <3>1. r.has_request = TRUE
      BY <1>0, <1>2 DEF Medias
    <3>2. /\ x.r \in Medias /\ x.r.q = r.q /\ x.r.format = r.format /\ x.r.eject = r.eject
          /\ x.r.f_thread = r.f_thread /\ x.r.usage_count = r.usage_count
          /\ x.r.waiting > 0 => r.waiting > 0
          /\ x.r.next[1] = "init" /\ x.r.next[2] \in Named /\ ~x.r.complete
      BY <1>0, IssuedFacts
    <3>3. x.r.has_request = TRUE
      BY <1>0, IssuedFacts DEF Medias
    <3>4. OfCard(x.r)
      BY <3>2 DEF Deciding, OfCard
    <3> QED BY <3>1, <3>2, <3>3, <3>4 DEF Deciding
  <2>3. OfHost(x.h) /\ ErasesIf(x.h.short, x.r.next) /\ x.h.req = xd_card
    BY <1>0, IssuedFacts DEF Deciding, OfHost
  <2> QED BY <2>1, <2>2, <2>3, GoInv
<1> QED BY <1>1, <1>2 DEF CompleteReq

\* xd_card_try_next_req(): the next command, or the end of the request.
LEMMA TryNextInv ==
  ASSUME IInv, Handles, NEW r, NEW h, Deciding(r, h), TryNextReq(r, h)
  PROVE  IInv'
<1>0. r \in Medias /\ h \in Hosts
  BY DEF Deciding, OfCard, OfHost
<1>1. CASE CompleteReq(r, h)
  BY <1>1, CompleteInv
<1>2. CASE ~CompleteReq(r, h)
  <2>1. PICK cmd \in XdCmds \cup {"FBD_READ"}, n \in 1 .. MaxPages \cup {1} :
          r.left > 0 /\ Go(TransReq(r, cmd, n), ShortFor(h, cmd))
    BY <1>2 DEF TryNextReq, PagesOf
  <2> DEFINE s == TransReq(r, cmd, n)
             g == ShortFor(h, cmd)
  <2>2. /\ s \in Medias /\ s.next = <<First[cmd], r.next[2]>> /\ s.q = r.q
        /\ s.format = r.format /\ s.eject = r.eject /\ s.f_thread = r.f_thread
        /\ s.usage_count = r.usage_count /\ s.waiting = r.waiting
        /\ s.complete = r.complete /\ s.has_request = r.has_request
    BY <1>0, <2>1, TransFacts
  <2>3. /\ g \in Hosts /\ g.req = h.req /\ g.last = h.last /\ g.submit = h.submit
        /\ g.lock = h.lock /\ g.armed = h.armed /\ g.expired = h.expired
        /\ g.tasklet = h.tasklet
        /\ g.short => h.short \/ cmd = "FBD_ERASE"
    BY <1>0, ToldFacts
  <2>4. Go(s, g)
    BY <2>1
  <2> HIDE DEF s, g
  <2>5. First[cmd] \in Named /\ (cmd = "FBD_ERASE" => First[cmd] = "erase")
    BY FirstNamed
  <2>6. OfCard(s) /\ OfHost(g)
    BY <2>2, <2>3 DEF Deciding, OfCard, OfHost
  <2>7. /\ s.next[1] \in Named \cup {"init"} /\ s.next[2] \in Named /\ ~s.complete
        /\ s.has_request = Card.has_request /\ g.req = xd_card
        /\ ErasesIf(g.short, s.next)
    BY <2>2, <2>3, <2>5 DEF Deciding, ErasesIf
  <2> QED BY <2>4, <2>6, <2>7, GoInv
<1> QED BY <1>1, <1>2

\* What a handler finds when xd_card_next_req() calls it.
LEMMA CalledFacts ==
  ASSUME IInv, NEW s \in Steps, Calls(s), s \notin {"none", "bad"}, Elsewhere, SameCore
  PROVE  /\ Handles /\ Card \in Medias /\ xd_host \in Hosts /\ Card.next[1] = s
         /\ Card.next[2] \in Named /\ ~Card.complete /\ OfHost(xd_host)
         /\ s # "init" => xd_host.req = xd_card
         /\ xd_host.short => s \in {"init", "erase", "erase_fmt"}
<1>1. xd_card \in XdCards /\ xd_card # NoCard /\ xd_media[xd_card].next[1] = s
  BY DEF IInv, Types, Places, Calls
<1>2. Handles /\ Card \in Medias /\ xd_host \in Hosts /\ xd_life.rm # "gone"
  BY <1>1 DEF Handles, Calls, Asks, Up, Busy, IInv, Types, Card
<1>3. OfHost(xd_host)
  BY <1>2 DEF OfHost
<1> QED BY <1>1, <1>2, <1>3 DEF IInv, AskedFor, Busy, ShortAddr, Card

\* What handlers make of a card's record.
Forms(n, p, e, d) ==
  {Card, [Card EXCEPT !.next = n], [Card EXCEPT !.pages = p], [Card EXCEPT !.err = e],
   [Card EXCEPT !.pages = p, !.err = e], [Card EXCEPT !.next = n, !.pages = p],
   [Card EXCEPT !.next = n, !.data = d], [Card EXCEPT !.pages = p, !.next = n, !.data = d]}

\* Those changes keep what is the card's.
LEMMA TurnedFacts ==
  ASSUME Card \in Medias, NEW n \in Steps \X Steps, NEW p \in Nat, NEW e \in BOOLEAN,
         NEW d \in BOOLEAN,
         NEW r \in Forms(n, p, e, d)
  PROVE  /\ OfCard(r) /\ r.next \in {n, Card.next} /\ r.complete = Card.complete
         /\ r.has_request = Card.has_request
<1>1. CASE r = Card
  BY <1>1 DEF OfCard, Medias
<1>2. CASE r = [Card EXCEPT !.next = n]
  BY <1>2 DEF OfCard, Medias
<1>3. CASE r = [Card EXCEPT !.pages = p]
  BY <1>3 DEF OfCard, Medias
<1>4. CASE r = [Card EXCEPT !.err = e]
  BY <1>4 DEF OfCard, Medias
<1>5. CASE r = [Card EXCEPT !.pages = p, !.err = e]
  BY <1>5 DEF OfCard, Medias
<1>6. CASE r = [Card EXCEPT !.next = n, !.pages = p]
  BY <1>6 DEF OfCard, Medias
<1>7. CASE r = [Card EXCEPT !.next = n, !.data = d]
  BY <1>7 DEF OfCard, Medias
<1>8. CASE r = [Card EXCEPT !.pages = p, !.next = n, !.data = d]
  BY <1>8 DEF OfCard, Medias
<1> QED BY <1>1, <1>2, <1>3, <1>4, <1>5, <1>6, <1>7, <1>8 DEF Forms

\* ... and of the host.
NotShort == [xd_host EXCEPT !.short = FALSE]

LEMMA NotShortFacts ==
  ASSUME xd_host \in Hosts
  PROVE  OfHost(NotShort) /\ NotShort.req = xd_host.req /\ ~NotShort.short
<1>1. /\ NotShort \in Hosts /\ NotShort.req = xd_host.req /\ NotShort.short = FALSE
      /\ NotShort.last = xd_host.last /\ NotShort.submit = xd_host.submit
      /\ NotShort.armed = xd_host.armed /\ NotShort.expired = xd_host.expired
      /\ NotShort.tasklet = xd_host.tasklet
  BY DEF NotShort, Hosts
<1> QED BY <1>1 DEF OfHost

\* A handler that looks for more to do, and one that goes on.
LEMMA DecideInv ==
  ASSUME IInv, NEW s \in Named, Calls(s), Elsewhere, SameCore, NEW p \in Nat,
         NEW e \in BOOLEAN, NEW d \in BOOLEAN, NEW r \in Forms(Card.next, p, e, d),
         NEW h \in {xd_host, NotShort}, h.short => s \notin {"erase", "erase_fmt"},
         TryNextReq(r, h) \/ CompleteReq(r, h)
  PROVE  IInv'
<1>1. /\ Handles /\ Card \in Medias /\ xd_host \in Hosts /\ Card.next[2] \in Named
      /\ ~Card.complete /\ OfHost(xd_host) /\ xd_host.req = xd_card
      /\ xd_host.short => s \in {"erase", "erase_fmt"}
  BY CalledFacts DEF Named
<1>2. Card.next \in Steps \X Steps
  BY <1>1 DEF Medias
<1>3. /\ OfCard(r) /\ r.next = Card.next /\ r.complete = Card.complete
      /\ r.has_request = Card.has_request
  BY <1>1, <1>2, TurnedFacts
<1>4. OfHost(h) /\ h.req = xd_card /\ ~h.short
  BY <1>1, NotShortFacts
<1>5. Deciding(r, h)
  BY <1>1, <1>3, <1>4 DEF Deciding
<1> QED BY <1>1, <1>5, CompleteInv, TryNextInv

LEMMA GoOnInv ==
  ASSUME IInv, NEW s \in Named, Calls(s), Elsewhere, SameCore, NEW p \in Nat,
         NEW e \in BOOLEAN, NEW d \in BOOLEAN, NEW n \in Named \X Named,
         NEW r \in Forms(n, p, e, d),
         NEW h \in {xd_host, NotShort}, h.short => s \notin {"erase", "erase_fmt"},
         Go(r, h)
  PROVE  IInv'
<1>1. /\ Handles /\ Card \in Medias /\ xd_host \in Hosts /\ Card.next[2] \in Named
      /\ ~Card.complete /\ OfHost(xd_host) /\ xd_host.req = xd_card /\ Card.next[1] = s
      /\ xd_host.short => s \in {"erase", "erase_fmt"}
  BY CalledFacts DEF Named
<1>2. n \in Steps \X Steps /\ n[1] \in Named /\ n[2] \in Named
  BY DEF Named
<1>3. /\ OfCard(r) /\ r.next \in {n, Card.next} /\ r.complete = Card.complete
      /\ r.has_request = Card.has_request
  BY <1>1, <1>2, TurnedFacts
<1>4. OfHost(h) /\ h.req = xd_card /\ ~h.short
  BY <1>1, NotShortFacts
<1>5. ErasesIf(h.short, r.next)
  BY <1>4 DEF ErasesIf
<1>6. r.next[1] \in Named \cup {"init"} /\ r.next[2] \in Named
  BY <1>1, <1>2, <1>3
<1> QED BY <1>1, <1>3, <1>4, <1>5, <1>6, GoInv

\* The names of the handlers.
LEMMA NamedSteps ==
  /\ Named \subseteq Steps
  /\ {"default", "read_extra", "read", "read_tmp", "read_copy", "write", "write_tmp",
      "write_stat", "write_adv", "write_tmp_adv", "erase", "erase_stat", "check_stat",
      "erase_fmt", "erase_stat_fmt"} \subseteq Named
BY DEF Named, Steps

\* What is there when a handler is called.
LEMMA Called ==
  ASSUME IInv, NEW s \in Named, Calls(s), Elsewhere, SameCore
  PROVE  /\ Card.next \in Steps \X Steps /\ Card.next[1] = s /\ Card.next[2] \in Named
         /\ Card.pages \in Nat /\ Card.size \in Nat /\ Card.err \in BOOLEAN
         /\ \A h \in Named : Then(h) \in Named \X Named
BY CalledFacts DEF Medias, Named, Then

\* The handlers one by one.
LEMMA HReqInitInv == ASSUME IInv, HReqInit PROVE IInv'
<1> DEFINE n == <<Card.next[2], Card.next[2]>>
           r == [Card EXCEPT !.next = n]
           h == [xd_host EXCEPT !.req = xd_card]
<1>1. Calls("init") /\ Go(r, h) /\ Elsewhere /\ SameCore
  BY DEF HReqInit, Then
<1>2. /\ Handles /\ Card \in Medias /\ xd_host \in Hosts /\ Card.next[1] = "init"
      /\ Card.next[2] \in Named /\ ~Card.complete /\ OfHost(xd_host)
  BY <1>1, CalledFacts DEF Steps
<1>3. n \in Steps \X Steps /\ n[1] = Card.next[2] /\ n[2] = Card.next[2]
  BY <1>2 DEF Named
<1>4. /\ r \in Medias /\ r.next = n
  BY <1>2, <1>3 DEF Medias
<1> HIDE DEF n
<1>5. r \in Forms(n, 0, TRUE, TRUE)
  BY DEF Forms
<1>6. OfCard(r) /\ r.complete = Card.complete /\ r.has_request = Card.has_request
  BY <1>2, <1>3, <1>5, TurnedFacts
<1> HIDE DEF r
<1>7. xd_card \in Places
  BY DEF IInv, Types
<1>8. /\ h \in Hosts /\ h.req = xd_card /\ h.short = xd_host.short
      /\ h.last = xd_host.last /\ h.submit = xd_host.submit
      /\ h.armed = xd_host.armed /\ h.expired = xd_host.expired
      /\ h.tasklet = xd_host.tasklet
  BY <1>2, <1>7 DEF Hosts
<1> HIDE DEF h
<1>9. OfHost(h)
  BY <1>8 DEF OfHost
<1>10. ErasesIf(h.short, r.next)
  BY <1>2, <1>3, <1>4, <1>8 DEF ErasesIf, IInv, ShortAddr, Handles, Asks, Up
<1>11. r.next[1] \in Named \cup {"init"} /\ r.next[2] \in Named /\ ~r.complete
  BY <1>2, <1>3, <1>4, <1>6
<1> QED BY <1>1, <1>2, <1>6, <1>8, <1>9, <1>10, <1>11, GoInv

LEMMA HDefaultInv == ASSUME IInv, HDefault PROVE IInv'
<1>1. Calls("default") /\ CompleteReq(Card, xd_host) /\ Elsewhere /\ SameCore
  BY DEF HDefault
<1>2. Card \in Forms(Card.next, 0, TRUE, TRUE)
  BY DEF Forms
<1> QED BY <1>1, <1>2, NamedSteps, DecideInv

LEMMA HReadExtraInv == ASSUME IInv, HReadExtra PROVE IInv'
<1>1. Calls("read_extra") /\ Elsewhere /\ SameCore
  BY DEF HReadExtra
<1>2. /\ Card.pages \in Nat /\ Card.next[2] \in Named
      /\ \A h \in Named : Then(h) \in Named \X Named
  BY <1>1, NamedSteps, Called
<1>3. CASE Card.pages > 1 /\ ~Card.err
  <2> DEFINE p == Card.pages - 1
             r == [Card EXCEPT !.pages = p]
  <2>1. Go(r, xd_host)
    BY <1>3 DEF HReadExtra
  <2>2. p \in Nat /\ r \in Forms(Then("default"), p, TRUE, TRUE)
    BY <1>2, <1>3 DEF Forms
  <2> HIDE DEF p, r
  <2> QED BY <1>1, <1>2, <2>1, <2>2, NamedSteps, GoOnInv
<1>4. CASE ~(Card.pages > 1 /\ ~Card.err)
  <2>1. CompleteReq(Card, xd_host)
    BY <1>4 DEF HReadExtra
  <2>2. Card \in Forms(Card.next, 0, TRUE, TRUE)
    BY DEF Forms
  <2> QED BY <1>1, <2>1, <2>2, NamedSteps, DecideInv
<1> QED BY <1>3, <1>4

LEMMA HXdReadInv == ASSUME IInv, HXdRead PROVE IInv'
<1>1. PICK s \in {"read", "read_tmp"} : Calls(s)
  BY DEF HXdRead
<1>2. Elsewhere /\ SameCore /\ s \in Named
  BY NamedSteps DEF HXdRead
<1>3. /\ Card.pages \in Nat /\ Card.next[2] \in Named /\ Card.err \in BOOLEAN
      /\ \A h \in Named : Then(h) \in Named \X Named
  BY <1>1, <1>2, Called
<1>4. CASE Card.pages > 1 /\ Go([Card EXCEPT !.pages = @ - 1, !.err = FALSE], xd_host)
  <2> DEFINE p == Card.pages - 1
             r == [Card EXCEPT !.pages = p, !.err = FALSE]
  <2>1. Go(r, xd_host)
    BY <1>4
  <2>2. p \in Nat /\ r \in Forms(Then("default"), p, FALSE, TRUE)
    BY <1>3, <1>4 DEF Forms
  <2> HIDE DEF p, r
  <2> QED BY <1>1, <1>2, <1>3, <2>1, <2>2, NamedSteps, GoOnInv
<1>5. CASE \E short \in BOOLEAN : TryNextReq([Card EXCEPT !.err = @ \/ short], xd_host)
  <2>1. PICK short \in BOOLEAN : TryNextReq([Card EXCEPT !.err = Card.err \/ short], xd_host)
    BY <1>5
  <2> DEFINE e == Card.err \/ short
             r == [Card EXCEPT !.err = e]
  <2>2. TryNextReq(r, xd_host)
    BY <2>1
  <2>3. e \in BOOLEAN /\ r \in Forms(Card.next, 0, e, TRUE)
    BY DEF Forms
  <2> HIDE DEF e, r
  <2> QED BY <1>1, <1>2, <2>2, <2>3, DecideInv
<1> QED BY <1>4, <1>5 DEF HXdRead

LEMMA HReadCopyInv == ASSUME IInv, HReadCopy PROVE IInv'
<1>1. Calls("read_copy") /\ Elsewhere /\ SameCore
  BY DEF HReadCopy
<1>2. /\ Card.pages \in Nat /\ Card.size \in Nat /\ Card.next[2] \in Named
      /\ \A h \in Named : Then(h) \in Named \X Named
  BY <1>1, NamedSteps, Called
<1>3. CASE Card.err
  <2>1. TryNextReq(Card, xd_host)
    BY <1>3 DEF HReadCopy
  <2>2. Card \in Forms(Card.next, 0, TRUE, TRUE)
    BY DEF Forms
  <2> QED BY <1>1, <2>1, <2>2, NamedSteps, DecideInv
<1>4. CASE ~Card.err /\ Card.pages > 1
  <2> DEFINE p == Card.pages - 1
             r == [Card EXCEPT !.pages = p]
  <2>1. Go(r, xd_host)
    BY <1>4 DEF HReadCopy
  <2>2. p \in Nat /\ r \in Forms(Then("default"), p, TRUE, TRUE)
    BY <1>2, <1>4 DEF Forms
  <2> HIDE DEF p, r
  <2> QED BY <1>1, <1>2, <2>1, <2>2, NamedSteps, GoOnInv
<1>5. CASE ~Card.err /\ ~(Card.pages > 1)
  <2> DEFINE r == [Card EXCEPT !.next = Then("write_tmp"), !.pages = Card.size]
  <2>1. Go(r, xd_host)
    BY <1>5 DEF HReadCopy
  <2>2. r \in Forms(Then("write_tmp"), Card.size, TRUE, TRUE)
    BY DEF Forms
  <2> HIDE DEF r
  <2> QED BY <1>1, <1>2, <2>1, <2>2, NamedSteps, GoOnInv
<1> QED BY <1>3, <1>4, <1>5

LEMMA WriteAdvInv ==
  ASSUME IInv, NEW s \in Named \ {"erase", "erase_fmt"}, Calls(s), NEW to \in Named,
         WriteAdv(to), Elsewhere, SameCore
  PROVE  IInv'
<1>1. /\ Card.pages \in Nat /\ Card.next[2] \in Named
      /\ \A h \in Named : Then(h) \in Named \X Named
  BY Called
<1>2. CASE TryNextReq(Card, xd_host)
  <2>1. Card \in Forms(Card.next, 0, TRUE, TRUE)
    BY DEF Forms
  <2> QED BY <1>2, <2>1, DecideInv
<1>3. CASE TryNextReq([Card EXCEPT !.err = TRUE], xd_host)
  <2> DEFINE r == [Card EXCEPT !.err = TRUE]
  <2>1. TryNextReq(r, xd_host) /\ r \in Forms(Card.next, 0, TRUE, TRUE)
    BY <1>3 DEF Forms
  <2> HIDE DEF r
  <2> QED BY <2>1, DecideInv
<1>4. CASE /\ Card.pages > 1
           /\ Go([Card EXCEPT !.pages = @ - 1, !.next = Then(to), !.data = TRUE], xd_host)
  <2> DEFINE p == Card.pages - 1
             n == Then(to)
             r == [Card EXCEPT !.pages = p, !.next = n, !.data = TRUE]
  <2>1. Go(r, xd_host)
    BY <1>4
  <2>2. p \in Nat /\ n \in Named \X Named /\ r \in Forms(n, p, TRUE, TRUE)
    BY <1>1, <1>4 DEF Forms
  <2> HIDE DEF p, n, r
  <2> QED BY <2>1, <2>2, GoOnInv
<1> QED BY <1>2, <1>3, <1>4 DEF WriteAdv

LEMMA HXdWriteInv == ASSUME IInv, HXdWrite PROVE IInv'
<1>1. PICK s \in {"write", "write_tmp"}, shortcut \in BOOLEAN :
        /\ Calls(s)
        /\ IF Card.err THEN TryNextReq(Card, xd_host)
           ELSE IF shortcut THEN WriteAdv(s)
           ELSE Go([Card EXCEPT !.next = <<"write_stat", IF s = "write" THEN "write_adv"
                                                         ELSE "write_tmp_adv">>,
                                !.data = FALSE], xd_host)
  BY DEF HXdWrite
<1>2. Elsewhere /\ SameCore /\ s \in Named \ {"erase", "erase_fmt"}
  BY NamedSteps DEF HXdWrite
<1>3. CASE Card.err
  <2>1. TryNextReq(Card, xd_host) /\ Card \in Forms(Card.next, 0, TRUE, TRUE)
    BY <1>1, <1>3 DEF Forms
  <2> QED BY <1>1, <1>2, <2>1, DecideInv
<1>4. CASE ~Card.err /\ shortcut
  BY <1>1, <1>2, <1>4, WriteAdvInv
<1>5. CASE ~Card.err /\ ~shortcut
  <2> DEFINE n == <<"write_stat", IF s = "write" THEN "write_adv" ELSE "write_tmp_adv">>
             r == [Card EXCEPT !.next = n, !.data = FALSE]
  <2>1. Go(r, xd_host)
    BY <1>1, <1>5
  <2>2. n \in Named \X Named /\ r \in Forms(n, 0, TRUE, FALSE)
    BY NamedSteps DEF Forms
  <2> HIDE DEF n, r
  <2> QED BY <1>1, <1>2, <2>1, <2>2, GoOnInv
<1> QED BY <1>3, <1>4, <1>5

LEMMA HWriteStatInv == ASSUME IInv, HWriteStat PROVE IInv'
<1>1. Calls("write_stat") /\ Elsewhere /\ SameCore
  BY DEF HWriteStat
<1>2. Card.next[2] \in Named /\ \A h \in Named : Then(h) \in Named \X Named
  BY <1>1, NamedSteps, Called
<1>3. CASE Card.err
  <2>1. TryNextReq(Card, xd_host) /\ Card \in Forms(Card.next, 0, TRUE, TRUE)
    BY <1>3 DEF HWriteStat, Forms
  <2> QED BY <1>1, <2>1, NamedSteps, DecideInv
<1>4. CASE ~Card.err
  <2> DEFINE n == Then(Card.next[2])
             r == [Card EXCEPT !.next = n]
  <2>1. Go(r, xd_host) /\ n \in Named \X Named /\ r \in Forms(n, 0, TRUE, TRUE)
    BY <1>2, <1>4 DEF HWriteStat, Forms
  <2> HIDE DEF n, r
  <2> QED BY <1>1, <2>1, NamedSteps, GoOnInv
<1> QED BY <1>3, <1>4

LEMMA HWriteAdvInv == ASSUME IInv, HWriteAdv PROVE IInv'
BY NamedSteps, WriteAdvInv DEF HWriteAdv

LEMMA HEraseInv == ASSUME IInv, HErase PROVE IInv'
<1>1. PICK shortcut \in BOOLEAN :
        IF Card.err THEN TryNextReq(Card, NotShort)
        ELSE IF shortcut
        THEN \E fails \in BOOLEAN : TryNextReq([Card EXCEPT !.err = fails], NotShort)
        ELSE Go([Card EXCEPT !.next = Then("erase_stat")], NotShort)
  BY DEF HErase, NotShort
<1>2. Calls("erase") /\ Elsewhere /\ SameCore
  BY DEF HErase
<1>3. \A h \in Named : Then(h) \in Named \X Named
  BY <1>2, NamedSteps, Called
<1>4. ~NotShort.short
  BY NotShortFacts DEF IInv, Types
<1>5. CASE Card.err
  <2>1. TryNextReq(Card, NotShort) /\ Card \in Forms(Card.next, 0, TRUE, TRUE)
    BY <1>1, <1>5 DEF Forms
  <2> QED BY <1>2, <1>4, <2>1, NamedSteps, DecideInv
<1>6. CASE ~Card.err /\ shortcut
  <2>1. PICK fails \in BOOLEAN : TryNextReq([Card EXCEPT !.err = fails], NotShort)
    BY <1>1, <1>6
  <2> DEFINE r == [Card EXCEPT !.err = fails]
  <2>2. TryNextReq(r, NotShort) /\ r \in Forms(Card.next, 0, fails, TRUE)
    BY <2>1 DEF Forms
  <2> HIDE DEF r
  <2> QED BY <1>2, <1>4, <2>2, NamedSteps, DecideInv
<1>7. CASE ~Card.err /\ ~shortcut
  <2> DEFINE n == Then("erase_stat")
             r == [Card EXCEPT !.next = n]
  <2>1. Go(r, NotShort) /\ n \in Named \X Named /\ r \in Forms(n, 0, TRUE, TRUE)
    BY <1>1, <1>3, <1>7, NamedSteps DEF Forms
  <2> HIDE DEF n, r
  <2> QED BY <1>2, <1>4, <2>1, NamedSteps, GoOnInv
<1> QED BY <1>5, <1>6, <1>7

LEMMA HEraseStatInv == ASSUME IInv, HEraseStat PROVE IInv'
<1>1. Calls("erase_stat") /\ Elsewhere /\ SameCore
  BY DEF HEraseStat
<1>2. \A h \in Named : Then(h) \in Named \X Named
  BY <1>1, NamedSteps, Called
<1>3. CASE Card.err
  <2>1. TryNextReq(Card, xd_host) /\ Card \in Forms(Card.next, 0, TRUE, TRUE)
    BY <1>3 DEF HEraseStat, Forms
  <2> QED BY <1>1, <2>1, NamedSteps, DecideInv
<1>4. CASE ~Card.err
  <2> DEFINE n == Then("check_stat")
             r == [Card EXCEPT !.next = n]
  <2>1. Go(r, xd_host) /\ n \in Named \X Named /\ r \in Forms(n, 0, TRUE, TRUE)
    BY <1>2, <1>4, NamedSteps DEF HEraseStat, Forms
  <2> HIDE DEF n, r
  <2> QED BY <1>1, <2>1, NamedSteps, GoOnInv
<1> QED BY <1>3, <1>4

LEMMA HCheckStatInv == ASSUME IInv, HCheckStat PROVE IInv'
<1>1. Calls("check_stat") /\ Elsewhere /\ SameCore
  BY DEF HCheckStat
<1>2. PICK fails \in BOOLEAN : TryNextReq([Card EXCEPT !.err = Card.err \/ fails], xd_host)
  BY DEF HCheckStat
<1> DEFINE e == Card.err \/ fails
           r == [Card EXCEPT !.err = e]
<1>3. TryNextReq(r, xd_host) /\ e \in BOOLEAN /\ r \in Forms(Card.next, 0, e, TRUE)
  BY <1>2 DEF Forms
<1> HIDE DEF e, r
<1> QED BY <1>1, <1>3, NamedSteps, DecideInv

LEMMA HEraseFmtInv == ASSUME IInv, HEraseFmt PROVE IInv'
<1>1. PICK shortcut \in BOOLEAN :
        IF Card.err \/ shortcut THEN CompleteReq(Card, NotShort)
        ELSE Go([Card EXCEPT !.next = Then("erase_stat_fmt")], NotShort)
  BY DEF HEraseFmt, NotShort
<1>2. Calls("erase_fmt") /\ Elsewhere /\ SameCore
  BY DEF HEraseFmt
<1>3. \A h \in Named : Then(h) \in Named \X Named
  BY <1>2, NamedSteps, Called
<1>4. ~NotShort.short
  BY NotShortFacts DEF IInv, Types
<1>5. CASE Card.err \/ shortcut
  <2>1. CompleteReq(Card, NotShort) /\ Card \in Forms(Card.next, 0, TRUE, TRUE)
    BY <1>1, <1>5 DEF Forms
  <2> QED BY <1>2, <1>4, <2>1, NamedSteps, DecideInv
<1>6. CASE ~(Card.err \/ shortcut)
  <2> DEFINE n == Then("erase_stat_fmt")
             r == [Card EXCEPT !.next = n]
  <2>1. Go(r, NotShort) /\ n \in Named \X Named /\ r \in Forms(n, 0, TRUE, TRUE)
    BY <1>1, <1>3, <1>6, NamedSteps DEF Forms
  <2> HIDE DEF n, r
  <2> QED BY <1>2, <1>4, <2>1, NamedSteps, GoOnInv
<1> QED BY <1>5, <1>6

LEMMA HEraseStatFmtInv == ASSUME IInv, HEraseStatFmt PROVE IInv'
<1>1. Calls("erase_stat_fmt") /\ Elsewhere /\ SameCore
  BY DEF HEraseStatFmt
<1>2. \A h \in Named : Then(h) \in Named \X Named
  BY <1>1, NamedSteps, Called
<1>3. CASE Card.err
  <2>1. CompleteReq(Card, xd_host) /\ Card \in Forms(Card.next, 0, TRUE, TRUE)
    BY <1>3 DEF HEraseStatFmt, Forms
  <2> QED BY <1>1, <2>1, NamedSteps, DecideInv
<1>4. CASE ~Card.err
  <2> DEFINE n == Then("default")
             r == [Card EXCEPT !.next = n]
  <2>1. Go(r, xd_host) /\ n \in Named \X Named /\ r \in Forms(n, 0, TRUE, TRUE)
    BY <1>2, <1>4, NamedSteps DEF HEraseStatFmt, Forms
  <2> HIDE DEF n, r
  <2> QED BY <1>1, <2>1, NamedSteps, GoOnInv
<1> QED BY <1>3, <1>4

LEMMA RetryReqInv == ASSUME IInv, RetryReq PROVE IInv'
<1>1. /\ UNCHANGED xd_media /\ Elsewhere /\ SameCore /\ xd_host.lock = "next"
      /\ xd_host.req # NoCard /\ xd_host.retries > 0
      /\ xd_host' = [xd_host EXCEPT !.retries = @ - 1,
                                    !.lock = IF xd_host.last THEN "next" ELSE "issue"]
  BY DEF RetryReq, Asks, Retries
<1> USE DEF Elsewhere, SameCore
<1>2. xd_host \in Hosts /\ xd_host.retries - 1 \in Tries
  BY <1>1, XdAssumption DEF IInv, Types, Hosts, Tries
<1>3. /\ xd_host' \in Hosts /\ xd_host'.req = xd_host.req /\ xd_host'.short = xd_host.short
      /\ xd_host'.lock = (IF xd_host.last THEN "next" ELSE "issue")
      /\ xd_host'.last = xd_host.last /\ xd_host'.submit = xd_host.submit
      /\ xd_host'.tasklet = xd_host.tasklet /\ xd_host'.armed = xd_host.armed
      /\ xd_host'.expired = xd_host.expired
  BY <1>1, <1>2 DEF Hosts
<1>4. Types' /\ Serving'
  BY <1>1, <1>3 DEF IInv, Types, Serving, Busy
<1> QED BY <1>1, <1>3, <1>4, HostStep DEF Untouched, IInv, Sleeping

LEMMA XdNoReqInv == ASSUME IInv, XdNoReq PROVE IInv'
<1>1. /\ UNCHANGED xd_media /\ Elsewhere /\ SameCore /\ xd_host.lock = "next"
      /\ xd_host' = [xd_host EXCEPT !.lock = "free", !.req = NoCard, !.last = FALSE]
      /\ \A c \in {xd_card} \ {NoCard} : ~Busy(c)
  BY DEF XdNoReq, Asks, Busy
<1> USE DEF Elsewhere, SameCore
<1>2. xd_host.req = NoCard
  BY <1>1 DEF IInv, Serving
<1>3. xd_host \in Hosts /\ NoCard \in Places
  BY DEF IInv, Types, Places
<1>4. /\ xd_host' \in Hosts /\ xd_host'.req = xd_host.req /\ xd_host'.short = xd_host.short
      /\ xd_host'.lock = "free" /\ xd_host'.submit = xd_host.submit
      /\ xd_host'.tasklet = xd_host.tasklet /\ xd_host'.armed = xd_host.armed
      /\ xd_host'.expired = xd_host.expired
  BY <1>1, <1>2, <1>3 DEF Hosts
<1>5. Types' /\ Serving'
  BY <1>1, <1>2, <1>4 DEF IInv, Types, Serving, Busy
<1> QED BY <1>1, <1>4, <1>5, HostStep DEF Untouched, IInv, Sleeping

LEMMA HandlerInv == ASSUME IInv, XdHandler PROVE IInv'
BY RetryReqInv, XdNoReqInv, HReqInitInv, HDefaultInv, HReadExtraInv, HXdReadInv,
   HReadCopyInv, HXdWriteInv, HWriteStatInv, HWriteAdvInv, HEraseInv, HEraseStatInv,
   HCheckStatInv, HEraseFmtInv, HEraseStatFmtInv
   DEF XdHandler

-----------------------------------------------------------------------------
(* The queue.                                                              *)

LEMMA OpenInv == ASSUME IInv, NEW c \in XdCards, Open(c) PROVE IInv'
<1> DEFINE u == xd_media[c].usage_count + 1
<1>0. PICK a \in {0, 1} : xd_media' = [xd_media EXCEPT ![c].usage_count = @ + 1,
                                                       ![c].waiting = @ + a]
  BY DEF Open
<1> DEFINE w == xd_media[c].waiting + a
           r == [xd_media[c] EXCEPT !.usage_count = u, !.waiting = w]
<1>1. /\ xd_media' = [xd_media EXCEPT ![c] = r] /\ Registered(c)
      /\ UNCHANGED <<xd_alloc, xd_card, xd_host, mutex, xd_check, xd_del, fmt, store, xd_life>>
  BY <1>0 DEF Open, SameQueue, Elsewhere
<1>2. xd_media \in [XdCards -> Medias] /\ xd_media[c] \in Medias
  BY DEF IInv, Types
<1>u. u \in Nat /\ w \in Nat /\ xd_media[c].usage_count \in Nat
  BY <1>2 DEF Medias
<1>w. u = xd_media[c].usage_count + 1
  OBVIOUS
<1> HIDE DEF u, w
<1>3. /\ r \in Medias /\ r.q = xd_media[c].q /\ r.format = xd_media[c].format
      /\ r.eject = xd_media[c].eject /\ r.f_thread = xd_media[c].f_thread
      /\ r.usage_count = u /\ r.next = xd_media[c].next
      /\ r.complete = xd_media[c].complete /\ r.has_request = xd_media[c].has_request
  BY <1>2, <1>u DEF Medias
<1> HIDE DEF r
<1>4. /\ xd_media' \in [XdCards -> Medias] /\ xd_media'[c] = r
      /\ \A d \in XdCards : d # c => xd_media'[d] = xd_media[d]
  BY <1>1, <1>2, <1>3
<1>5. c \in xd_alloc /\ xd_media[c].usage_count \in Nat
  BY <1>1, <1>2 DEF Registered, Medias
<1> USE <1>1, <1>3, <1>4, <1>5, <1>u, <1>w
<1>6. Types'
  BY DEF IInv, Types
<1>7. Counted'
  BY DEF IInv, Types, Counted
<1>8. CardKnown'
  BY DEF IInv, Types, Places, CardKnown, Registered, Fresh, Gone
<1>9. Checking'
  BY DEF IInv, Types, Checkers, Places, Checking, Registered, Fresh, Stopping
<1>10. Removing' /\ Sleeping'
  BY NoDelFields DEF IInv, Types, Removing, Sleeping, Stopping
<1>11. Formatting'
  BY DEF IInv, Types, Formatting, Registered, Stopping
<1>12. AskedFor'
  BY DEF IInv, Types, AskedFor, Busy
<1>13. Serving' /\ ShortAddr'
  BY DEF IInv, Types, Places, Serving, ShortAddr, Busy, Card
<1> QED BY <1>6, <1>7, <1>8, <1>9, <1>10, <1>11, <1>12, <1>13 DEF IInv

\* A card whose queue runs and that is not ejected is asked nothing else.
LEMMA Running ==
  ASSUME IInv, NEW c \in XdCards, Up, Registered(c), xd_media[c].q = "run",
         ~xd_media[c].eject
  PROVE  /\ c \in xd_alloc /\ c = xd_card /\ xd_check.at \in {"idle", "stop"}
         /\ ~xd_media[c].has_request => ~Busy(c)
         /\ fmt.at # "none" => fmt.of # c
<1>1. c \in xd_alloc /\ c = xd_card /\ xd_check.at \in {"idle", "stop"}
  BY DEF IInv, CardKnown, Registered
<1>2. fmt.at # "none" => fmt.of # c
  BY DEF IInv, Formatting
<1>3. ~xd_media[c].has_request => ~Busy(c)
  BY <1>1, <1>2 DEF IInv, AskedFor, Formatting, Asking, Idents
<1> QED BY <1>1, <1>2, <1>3

LEMMA SubmitInv == ASSUME IInv, NEW c \in XdCards, Submit(c) PROVE IInv'
<1>1. /\ UNCHANGED <<xd_alloc, xd_card, mutex, xd_check, xd_del, fmt, store, xd_life>>
      /\ Up /\ Registered(c) /\ xd_media[c].q = "run" /\ xd_media[c].waiting > 0
      /\ ~xd_media[c].has_request
  BY DEF Submit, SameQueue, Elsewhere
<1>2. xd_media \in [XdCards -> Medias] /\ xd_media[c] \in Medias /\ xd_host \in Hosts
  BY DEF IInv, Types
<1>3. CASE xd_media' = [xd_media EXCEPT ![c].waiting = 0] /\ UNCHANGED xd_host
  <2> DEFINE r == [xd_media[c] EXCEPT !.waiting = 0]
  <2>1. xd_media' = [xd_media EXCEPT ![c] = r]
    BY <1>3
  <2>2. /\ r \in Medias /\ r.q = xd_media[c].q /\ r.format = xd_media[c].format
        /\ r.eject = xd_media[c].eject /\ r.f_thread = xd_media[c].f_thread
        /\ r.usage_count = xd_media[c].usage_count /\ r.next = xd_media[c].next
        /\ r.complete = xd_media[c].complete /\ r.has_request = xd_media[c].has_request
        /\ r.waiting = 0
    BY <1>2 DEF Medias
  <2> HIDE DEF r
  <2>3. /\ xd_media' \in [XdCards -> Medias] /\ xd_media'[c] = r
        /\ \A d \in XdCards : d # c => xd_media'[d] = xd_media[d]
    BY <1>2, <2>1, <2>2
  <2> USE <1>1, <1>3, <2>2, <2>3
  <2>6. Types'
    BY DEF IInv, Types
  <2>7. Counted'
    <3>1. \A d \in XdCards \ xd_alloc : d # c
      BY DEF Registered
    <3>2. /\ xd_media[c].usage_count >= 1
          /\ xd_media[c].q # "off" => xd_media[c].usage_count >= 2
      BY DEF IInv, Counted, Registered
    <3> QED BY <3>1, <3>2 DEF IInv, Types, Counted
  <2>8. CardKnown'
    BY DEF IInv, Types, Places, CardKnown, Registered, Fresh, Gone
  <2>9. Checking'
    BY DEF IInv, Types, Checkers, Places, Checking, Registered, Fresh, Stopping
  <2>10. Removing' /\ Sleeping'
    BY NoDelFields DEF IInv, Types, Removing, Sleeping, Stopping
  <2>11. Formatting'
    BY DEF IInv, Types, Formatting, Registered, Stopping
  <2>12. AskedFor'
    BY DEF IInv, Types, AskedFor, Busy
  <2>13. Serving' /\ ShortAddr'
    BY DEF IInv, Types, Places, Serving, ShortAddr, Busy, Card
  <2> QED BY <2>6, <2>7, <2>8, <2>9, <2>10, <2>11, <2>12, <2>13 DEF IInv
<1>4. CASE /\ ~xd_media[c].eject
           /\ \E x \in Issued(xd_media[c], xd_host) :
                xd_media' = [xd_media EXCEPT ![c] = x.r] /\ xd_host' = x.h
  <2>1. PICK x \in Issued(xd_media[c], xd_host) :
          xd_media' = [xd_media EXCEPT ![c] = x.r] /\ xd_host' = x.h
    BY <1>4
  <2> DEFINE r == x.r
             h == x.h
             s == xd_media[c]
  <2>2. /\ r \in Medias /\ r.q = s.q /\ r.format = s.format /\ r.eject = s.eject
        /\ r.f_thread = s.f_thread /\ r.usage_count = s.usage_count
        /\ r.next[1] = "init" /\ r.next[2] \in Named /\ ~r.complete /\ r.has_request
        /\ h \in Hosts /\ h.req = xd_host.req /\ h.last = xd_host.last
        /\ h.submit = xd_host.submit /\ h.lock = xd_host.lock
        /\ h.armed = xd_host.armed /\ h.expired = xd_host.expired
        /\ h.tasklet => xd_host.tasklet \/ xd_host.submit
        /\ ~xd_host.short => ErasesIf(h.short, r.next)
    BY <1>2, IssuedFacts
  <2>3. xd_media' = [xd_media EXCEPT ![c] = r] /\ xd_host' = h
    BY <2>1
  <2> HIDE DEF r, h
  <2>4. /\ xd_media' \in [XdCards -> Medias] /\ xd_media'[c] = r
        /\ \A d \in XdCards : d # c => xd_media'[d] = xd_media[d]
    BY <1>2, <2>2, <2>3
  <2>5. /\ c \in xd_alloc /\ c = xd_card /\ xd_check.at \in {"idle", "stop"} /\ ~Busy(c)
        /\ fmt.at # "none" => fmt.of # c
    BY <1>1, <1>4, Running
  <2> USE <1>1, <2>2, <2>3, <2>4, <2>5
  <2>6. Types'
    BY DEF IInv, Types
  <2>7. Counted'
    BY DEF IInv, Types, Counted
  <2>8. CardKnown'
    BY DEF IInv, Types, Places, CardKnown, Registered, Fresh, Gone
  <2>9. Checking'
    BY DEF IInv, Types, Checkers, Places, Checking, Registered, Fresh, Stopping
  <2>10. Removing' /\ Sleeping'
    BY NoDelFields DEF IInv, Types, Removing, Sleeping, Stopping
  <2>11. Formatting'
    BY DEF IInv, Types, Formatting, Registered, Stopping
  <2>12. AskedFor'
    BY DEF IInv, Types, AskedFor, Busy
  <2>13. Serving'
    BY DEF IInv, Types, Places, Serving, Busy
  <2>14. ~xd_host.short
    BY DEF IInv, ShortAddr, Up, Busy, Card
  <2>15. ShortAddr'
    BY <2>14, XdAssumption DEF ShortAddr, ErasesIf, Card, IInv, Types
  <2> QED BY <2>6, <2>7, <2>8, <2>9, <2>10, <2>11, <2>12, <2>13, <2>15 DEF IInv
<1> QED BY <1>3, <1>4 DEF Submit

\* A card as kzalloc() leaves it.
LEMMA BlankFields ==
  /\ Blank \in Medias /\ Blank.q = "off" /\ ~Blank.format /\ ~Blank.eject /\ ~Blank.f_thread
  /\ Blank.usage_count = 1 /\ Blank.next = <<"none", "none">> /\ ~Blank.complete
  /\ ~Blank.has_request /\ Blank.waiting = 0
BY XdAssumption DEF Blank, Medias, Steps

LEMMA CloseInv == ASSUME IInv, NEW c \in XdCards, Close(c) PROVE IInv'
<1>1. /\ UNCHANGED <<xd_card, xd_host, mutex, xd_check, xd_del, fmt, store, xd_life>>
      /\ Up /\ Opened(c) /\ xd_media[c].waiting = 0 /\ ~xd_media[c].has_request
  BY DEF Close, SameQueue, Elsewhere
<1>2. /\ xd_media \in [XdCards -> Medias] /\ xd_media[c] \in Medias
      /\ c \in xd_alloc /\ c # xd_check.new
  BY <1>1 DEF IInv, Types, Opened
<1>3. CASE xd_media[c].usage_count = 1
  <2>1. xd_alloc' = xd_alloc \ {c} /\ xd_media' = [xd_media EXCEPT ![c] = Blank]
    BY <1>3 DEF Close, DiskRelease
  <2>2. /\ xd_media' \in [XdCards -> Medias] /\ xd_media'[c] = Blank
        /\ \A d \in XdCards : d # c => xd_media'[d] = xd_media[d]
    BY <1>2, <2>1, BlankFields
  <2>3. xd_media[c].q = "off"
    BY <1>1, <1>3 DEF Opened
  <2>4. ~Registered(c) /\ (fmt.at # "none" => fmt.of # c) /\ c # xd_check.old
    BY <1>2, <2>3, XdAssumption DEF Registered, IInv, Formatting, Checking
  <2>5. c = xd_card => Gone /\ ~Fresh
    BY <1>2, <2>4, XdAssumption DEF IInv, CardKnown, Checking
  <2>6. ~Busy(c)
    BY <1>1, <2>4, <2>5 DEF IInv, AskedFor, Formatting, Fresh, Gone, Asking, Inits, Up
  <2> USE <1>1, <1>2, <2>1, <2>2, <2>3, <2>4, <2>5, <2>6, BlankFields
  <2>7. Types'
    BY DEF IInv, Types
  <2>8. Counted'
    BY DEF IInv, Types, Counted
  <2>9. CardKnown'
    BY DEF IInv, Types, Places, CardKnown, Registered, Fresh, Gone
  <2>10. Checking'
    BY DEF IInv, Types, Checkers, Places, Checking, Registered, Fresh, Stopping
  <2>11. Removing' /\ Sleeping'
    <3>1. xd_del # NoDel => xd_del.card # c
      BY DEF IInv, Removing, CardKnown, Gone
    <3> QED BY <3>1, NoDelFields DEF IInv, Types, Removing, Sleeping, Stopping
  <2>12. Formatting'
    BY DEF IInv, Types, Places, Formatting, Registered, Stopping
  <2>13. AskedFor'
    BY DEF IInv, Types, AskedFor, Busy
  <2>14. Serving'
    BY DEF IInv, Types, Places, Serving, Busy
  <2>15. ShortAddr'
    <3>1. xd_host.short => xd_card # c
      BY DEF IInv, ShortAddr, Up, Busy, Card
    <3> QED BY <3>1 DEF IInv, Types, Places, ShortAddr, Card
  <2> QED BY <2>7, <2>8, <2>9, <2>10, <2>11, <2>12, <2>13, <2>14, <2>15 DEF IInv
<1>4. CASE xd_media[c].usage_count # 1
  <2> DEFINE r == [xd_media[c] EXCEPT !.usage_count = xd_media[c].usage_count - 1,
                                      !.q = xd_media[c].q]
  <2>1. xd_alloc' = xd_alloc /\ xd_media' = [xd_media EXCEPT ![c] = r]
    BY <1>4 DEF Close, DiskRelease
  <2>2. xd_media[c].usage_count - 1 \in Nat /\ xd_media[c].usage_count - 1 >= 1
    BY <1>2, <1>4 DEF IInv, Counted, Medias
  <2>3. /\ r \in Medias /\ r.q = xd_media[c].q /\ r.format = xd_media[c].format
        /\ r.eject = xd_media[c].eject /\ r.f_thread = xd_media[c].f_thread
        /\ r.usage_count >= 1 /\ r.next = xd_media[c].next
        /\ r.complete = xd_media[c].complete /\ r.has_request = xd_media[c].has_request
        /\ r.waiting = xd_media[c].waiting
    BY <1>2, <2>2 DEF Medias
  <2> HIDE DEF r
  <2>4. /\ xd_media' \in [XdCards -> Medias] /\ xd_media'[c] = r
        /\ \A d \in XdCards : d # c => xd_media'[d] = xd_media[d]
    BY <1>2, <2>1, <2>3
  <2> USE <1>1, <1>2, <2>1, <2>3, <2>4
  <2>6. Types'
    BY DEF IInv, Types
  <2>7. Counted'
    BY DEF IInv, Types, Counted
  <2>8. CardKnown'
    BY DEF IInv, Types, Places, CardKnown, Registered, Fresh, Gone
  <2>9. Checking'
    BY DEF IInv, Types, Checkers, Places, Checking, Registered, Fresh, Stopping
  <2>10. Removing' /\ Sleeping'
    BY NoDelFields DEF IInv, Types, Removing, Sleeping, Stopping
  <2>11. Formatting'
    BY DEF IInv, Types, Formatting, Registered, Stopping
  <2>12. AskedFor'
    BY DEF IInv, Types, AskedFor, Busy
  <2>13. Serving' /\ ShortAddr'
    BY DEF IInv, Types, Places, Serving, ShortAddr, Busy, Card
  <2> QED BY <2>6, <2>7, <2>8, <2>9, <2>10, <2>11, <2>12, <2>13 DEF IInv
<1> QED BY <1>3, <1>4

LEMMA QueueInv == ASSUME IInv, XdQueue PROVE IInv'
BY OpenInv, SubmitInv, CloseInv DEF XdQueue

-----------------------------------------------------------------------------
(* The check of the media.                                                 *)

\* A request by someone who waits for it.
LEMMA NewReqFacts ==
  ASSUME Types, NEW c \in XdCards, NEW h \in Named, NEW data \in BOOLEAN, NEW n \in Nat,
         NewReq(c, h, data, n)
  PROVE  /\ xd_media' \in [XdCards -> Medias]
         /\ \A d \in XdCards : d # c => xd_media'[d] = xd_media[d]
         /\ xd_media'[c].next[1] = "init" /\ xd_media'[c].next[2] = h
         /\ ~xd_media'[c].complete /\ xd_media'[c].q = xd_media[c].q
         /\ xd_media'[c].format = xd_media[c].format
         /\ xd_media'[c].eject = xd_media[c].eject
         /\ xd_media'[c].f_thread = xd_media[c].f_thread
         /\ xd_media'[c].usage_count = xd_media[c].usage_count
         /\ xd_media'[c].waiting = xd_media[c].waiting
         /\ xd_media'[c].has_request = xd_media[c].has_request
         /\ xd_host' \in Hosts /\ xd_host'.req = xd_host.req /\ xd_host'.last = xd_host.last
         /\ xd_host'.submit = xd_host.submit /\ xd_host'.lock = xd_host.lock
         /\ xd_host'.armed = xd_host.armed /\ xd_host'.expired = xd_host.expired
         /\ xd_host'.tasklet => xd_host.tasklet \/ xd_host.submit
         /\ xd_host'.short = xd_host.short
<1>1. xd_media[c] \in Medias /\ xd_host \in Hosts
  BY DEF Types
<1> DEFINE k == <<"init", h>>
           r == [xd_media[c] EXCEPT !.next = k, !.complete = FALSE, !.err = FALSE,
                                    !.data = data, !.pages = n, !.size = n]
<1>2. k \in Steps \X Steps /\ k[1] = "init" /\ k[2] = h
  BY DEF Named, Steps
<1>3. xd_media' = [xd_media EXCEPT ![c] = r]
  BY <1>1 DEF NewReq, Asked, Medias
<1> HIDE DEF k
<1>4. /\ r \in Medias /\ r.next = k /\ r.complete = FALSE /\ r.q = xd_media[c].q
      /\ r.format = xd_media[c].format /\ r.eject = xd_media[c].eject
      /\ r.f_thread = xd_media[c].f_thread /\ r.usage_count = xd_media[c].usage_count
      /\ r.waiting = xd_media[c].waiting /\ r.has_request = xd_media[c].has_request
  BY <1>1, <1>2 DEF Medias
<1> HIDE DEF r
<1>5. /\ xd_media' \in [XdCards -> Medias] /\ xd_media'[c] = r
      /\ \A d \in XdCards : d # c => xd_media'[d] = xd_media[d]
  BY <1>3, <1>4 DEF Types
<1> DEFINE t == xd_host.tasklet \/ xd_host.submit
<1>6. t \in BOOLEAN /\ XdRetries \in Tries
  BY <1>1, XdAssumption DEF Hosts, Tries
<1>7. xd_host' = [xd_host EXCEPT !.retries = XdRetries, !.tasklet = t]
  BY DEF NewReq, Tell
<1>8. t => xd_host.tasklet \/ xd_host.submit
  OBVIOUS
<1> HIDE DEF t
<1>9. /\ xd_host' \in Hosts /\ xd_host'.req = xd_host.req /\ xd_host'.last = xd_host.last
      /\ xd_host'.submit = xd_host.submit /\ xd_host'.lock = xd_host.lock
      /\ xd_host'.armed = xd_host.armed /\ xd_host'.expired = xd_host.expired
      /\ xd_host'.tasklet = t /\ xd_host'.short = xd_host.short
  BY <1>1, <1>6, <1>7 DEF Hosts
<1> QED BY <1>2, <1>4, <1>5, <1>8, <1>9

\* While the check is at work, and asks nothing, nobody asks anything.
LEMMA CheckAlone ==
  ASSUME IInv, Up, mutex = "check", xd_check.at \in Asking => Card.complete,
         xd_check.at \in {"idle", "stop"} => xd_card # NoCard /\ ~Card.has_request
  PROVE  /\ xd_check.at # "idle" /\ ~Stopping /\ fmt.at # "erase" /\ store # "stop"
         /\ xd_life.rm \notin {"del", "gone"} /\ xd_life.sleep = "no"
         /\ xd_del # NoDel => xd_check.at = "settle"
         /\ \A c \in XdCards : ~Busy(c) /\ ~xd_media[c].has_request
         /\ xd_host.req = NoCard /\ ~xd_host.short
<1>1. /\ xd_check.at # "idle" /\ ~Stopping /\ fmt.at # "erase" /\ store # "stop"
      /\ xd_life.rm \notin {"del", "gone"} /\ xd_life.sleep = "no"
      /\ xd_del # NoDel => xd_check.at = "settle"
  BY DEF IInv, Checking, Removing, Sleeping, Formatting
<1>2. \A c \in XdCards : ~Busy(c) /\ ~xd_media[c].has_request
  BY <1>1 DEF IInv, AskedFor, Card, Asking, Up
<1>3. xd_host.req = NoCard /\ ~xd_host.short
  BY <1>1, <1>2 DEF IInv, Types, Places, Serving, ShortAddr, Busy, Card
<1> QED BY <1>1, <1>2, <1>3

\* The steps of the check one by one.
LEMMA CheckStartInv == ASSUME IInv, CheckStart PROVE IInv'
<1> DEFINE at == IF xd_card = NoCard THEN "alloc" ELSE "stop"
           p == xd_host.power \/ xd_card = NoCard
<1>1. /\ UNCHANGED <<xd_alloc, xd_card, xd_media, xd_del, fmt, store, xd_life>>
      /\ Up /\ mutex = "free" /\ xd_life.sleep = "no" /\ xd_check.queued
      /\ xd_check.at = "idle" /\ mutex' = "check"
      /\ xd_check' = [Idle EXCEPT !.at = at] /\ xd_host' = [xd_host EXCEPT !.power = p]
  BY DEF CheckStart, SameCheck, Elsewhere, Free
<1>2. /\ at \in {"alloc", "stop"} /\ (at = "alloc" => xd_card = NoCard) /\ p \in BOOLEAN
      /\ at = "stop" => xd_card # NoCard
  BY DEF IInv, Types, Hosts
<1> HIDE DEF at, p
<1>3. /\ xd_check' \in Checkers /\ xd_check'.at = at /\ xd_check'.new = NoCard
      /\ xd_check'.old = NoCard
  BY <1>1, <1>2 DEF Checkers, Idle, Places
<1>4. xd_host \in Hosts
  BY DEF IInv, Types
<1>5. /\ xd_host' \in Hosts /\ xd_host'.req = xd_host.req /\ xd_host'.short = xd_host.short
      /\ xd_host'.last = xd_host.last /\ xd_host'.lock = xd_host.lock
      /\ xd_host'.submit = xd_host.submit /\ xd_host'.tasklet = xd_host.tasklet
      /\ xd_host'.armed = xd_host.armed /\ xd_host'.expired = xd_host.expired
  BY <1>1, <1>2, <1>4 DEF Hosts
<1>6. /\ xd_life.rm \notin {"del", "gone"} /\ xd_del = NoDel
      /\ ~Stopping /\ xd_check.new = NoCard /\ xd_check.old = NoCard
  BY <1>1, NoDelFields DEF IInv, Removing, Stopping, Checking, Idents
<1>7. xd_card # NoCard => Registered(xd_card)
  BY <1>1, <1>6 DEF IInv, CardKnown, Fresh, Gone, Idents, Inits
<1> USE <1>1, <1>2, <1>3, <1>5, <1>6, <1>7
<1>8. Types'
  BY DEF IInv, Types
<1>9. Counted'
  BY DEF IInv, Counted
<1>10. CardKnown'
  BY XdAssumption DEF IInv, Types, CardKnown, Registered, Fresh, Gone, Idents, Inits
<1>11. Checking'
  BY DEF Checking, Stopping, Fresh, Idents, Inits
<1>12. Removing' /\ Sleeping'
  BY DEF IInv, Removing, Sleeping, Stopping
<1>13. Formatting'
  BY DEF IInv, Formatting, Registered, Stopping
<1>14. AskedFor'
  BY XdAssumption DEF IInv, AskedFor, Busy, Asking, Up, Idents
<1>15. Serving' /\ ShortAddr'
  BY DEF IInv, Serving, ShortAddr, Busy, Card
<1> QED BY <1>8, <1>9, <1>10, <1>11, <1>12, <1>13, <1>14, <1>15 DEF IInv

LEMMA CheckStopInv == ASSUME IInv, CheckStop PROVE IInv'
<1> DEFINE r == [xd_media[xd_card] EXCEPT !.q = "stopped"]
<1>1. /\ UNCHANGED <<xd_alloc, xd_card, xd_host, xd_del, mutex, fmt, store, xd_life>>
      /\ Up /\ mutex = "check" /\ xd_check.at = "stop" /\ ~xd_media[xd_card].has_request
      /\ xd_media' = [xd_media EXCEPT ![xd_card] = r]
      /\ xd_check' = [xd_check EXCEPT !.at = "alloc"]
  BY DEF CheckStop, Checks, StopQueue, To, SameCards, SameCheck, Elsewhere
<1>2. xd_card \in XdCards /\ xd_card # NoCard /\ xd_media[xd_card] \in Medias
  BY <1>1 DEF IInv, Types, Places, Checking
<1>3. /\ xd_life.rm \notin {"del", "gone"} /\ xd_del = NoDel /\ ~Stopping
      /\ xd_host.req = NoCard /\ ~xd_host.short /\ xd_life.sleep = "no"
      /\ fmt.at # "erase" /\ store # "stop"
      /\ \A c \in XdCards : ~Busy(c) /\ ~xd_media[c].has_request
  BY <1>1, <1>2, CheckAlone DEF Card, Asking, Idents
<1>4. /\ xd_check' \in Checkers /\ xd_check'.at = "alloc" /\ xd_check'.new = xd_check.new
      /\ xd_check'.old = xd_check.old
  BY <1>1 DEF IInv, Types, Checkers
<1>5. /\ r \in Medias /\ r.q = "stopped" /\ r.format = xd_media[xd_card].format
      /\ r.eject = xd_media[xd_card].eject /\ r.f_thread = xd_media[xd_card].f_thread
      /\ r.usage_count = xd_media[xd_card].usage_count /\ r.next = xd_media[xd_card].next
      /\ r.complete = xd_media[xd_card].complete
      /\ r.has_request = xd_media[xd_card].has_request
      /\ r.waiting = xd_media[xd_card].waiting
  BY <1>2 DEF Medias
<1> HIDE DEF r
<1>6. /\ xd_media' \in [XdCards -> Medias] /\ xd_media'[xd_card] = r
      /\ \A d \in XdCards : d # xd_card => xd_media'[d] = xd_media[d]
  BY <1>1, <1>2, <1>5 DEF IInv, Types
<1>7. Registered(xd_card)
  BY <1>1, <1>2, <1>3 DEF IInv, CardKnown, Fresh, Gone, Idents, Inits
<1> USE <1>1, <1>2, <1>3, <1>4, <1>5, <1>6, <1>7
<1>8. Types'
  BY DEF IInv, Types
<1>9. Counted'
  BY DEF IInv, Types, Counted, Registered
<1>10. CardKnown'
  BY DEF IInv, Types, CardKnown, Registered, Fresh, Gone, Idents, Inits
<1>11. Checking'
  BY DEF IInv, Checking, Registered, Stopping, Fresh, Idents, Inits
<1>12. Removing' /\ Sleeping'
  BY DEF IInv, Removing, Sleeping, Stopping
<1>13. Formatting'
  BY DEF IInv, Types, Formatting, Registered, Stopping
<1>14. AskedFor'
  BY DEF IInv, AskedFor, Busy
<1>15. Serving' /\ ShortAddr'
  BY DEF IInv, Serving, ShortAddr
<1> QED BY <1>8, <1>9, <1>10, <1>11, <1>12, <1>13, <1>14, <1>15 DEF IInv

\* The questions, once the last one is answered.
LEMMA QuestionInv ==
  ASSUME IInv, Up, mutex = "check", xd_check.at \in Asking \cup {"media"},
         xd_check.at \in Asking => Card.complete, NEW to \in Asking,
         xd_check.at \in Idents <=> to \in Idents,
         xd_check' \in Checkers, xd_check'.at = to, xd_check'.new = xd_check.new,
         xd_check'.old = xd_check.old, NEW h \in Named, NEW data \in BOOLEAN, NEW n \in Nat,
         NewReq(xd_card, h, data, n), SameCards
  PROVE  IInv'
<1>1. UNCHANGED <<xd_alloc, xd_card, xd_del, mutex, fmt, store, xd_life>>
  BY DEF SameCards, SameCheck, Elsewhere
<1>2. xd_check.at \notin {"idle", "stop", "alloc", "settle"}
  BY DEF Asking, Idents
<1>3. /\ Fresh /\ xd_card \in XdCards /\ xd_card # NoCard /\ xd_card = xd_check.new
      /\ xd_card \in xd_alloc
  BY DEF IInv, Types, Places, Checking, Fresh, Asking, Idents, Inits
<1>4. /\ xd_life.rm \notin {"del", "gone"} /\ xd_del = NoDel /\ ~Stopping
      /\ xd_host.req = NoCard /\ ~xd_host.short /\ xd_life.sleep = "no"
      /\ fmt.at # "erase" /\ store # "stop"
      /\ \A c \in XdCards : ~Busy(c) /\ ~xd_media[c].has_request
  BY <1>2, CheckAlone
<1> DEFINE c == xd_card
<1>5. /\ xd_media' \in [XdCards -> Medias]
      /\ \A d \in XdCards : d # c => xd_media'[d] = xd_media[d]
      /\ xd_media'[c].next[1] = "init" /\ xd_media'[c].next[2] = h
      /\ ~xd_media'[c].complete /\ xd_media'[c].q = xd_media[c].q
      /\ xd_media'[c].eject = xd_media[c].eject
      /\ xd_media'[c].f_thread = xd_media[c].f_thread
      /\ xd_media'[c].usage_count = xd_media[c].usage_count
      /\ xd_media'[c].waiting = xd_media[c].waiting
      /\ xd_media'[c].has_request = xd_media[c].has_request
      /\ xd_host' \in Hosts /\ xd_host'.req = xd_host.req /\ xd_host'.last = xd_host.last
      /\ xd_host'.submit = xd_host.submit /\ xd_host'.lock = xd_host.lock
      /\ xd_host'.armed = xd_host.armed /\ xd_host'.expired = xd_host.expired
      /\ xd_host'.tasklet => xd_host.tasklet \/ xd_host.submit
      /\ xd_host'.short = xd_host.short
  BY <1>3, NewReqFacts DEF IInv
<1>6. Fresh'
  BY DEF Fresh, Asking, Inits
<1>7. to \notin {"idle", "stop", "alloc", "settle"}
  BY DEF Asking, Idents
<1> USE <1>1, <1>2, <1>3, <1>4, <1>5, <1>6, <1>7
<1>8. Types'
  BY DEF IInv, Types
<1>9. Counted'
  BY DEF IInv, Types, Counted
<1>10. CardKnown'
  BY DEF IInv, Types, CardKnown, Registered
<1>11. Checking'
  BY DEF IInv, Types, Checkers, Places, Checking, Registered, Stopping
<1>12. Removing' /\ Sleeping'
  BY DEF IInv, Removing, Sleeping, Stopping
<1>13. Formatting'
  BY DEF IInv, Types, Formatting, Registered, Stopping
<1>14. AskedFor'
  BY DEF IInv, AskedFor, Busy
<1>15. Serving' /\ ShortAddr'
  BY DEF IInv, Serving, ShortAddr, Busy, Named
<1> QED BY <1>8, <1>9, <1>10, <1>11, <1>12, <1>13, <1>14, <1>15 DEF IInv

LEMMA AllocMediaInv == ASSUME IInv, AllocMedia PROVE IInv'
<1>1. /\ UNCHANGED <<xd_del, mutex, fmt, store, xd_life>>
      /\ Up /\ mutex = "check" /\ xd_check.at = "alloc" /\ xd_alloc # XdCards
  BY DEF AllocMedia, Checks, SameCheck, Elsewhere
<1>2. PICK c \in XdCards :
        /\ c \notin xd_alloc /\ xd_alloc' = xd_alloc \cup {c} /\ xd_card' = c
        /\ xd_check' = [xd_check EXCEPT !.at = "reset", !.new = c, !.old = xd_card]
        /\ NewReq(c, "default", FALSE, 1)
  BY <1>1 DEF AllocMedia, IInv, Types
<1>3. /\ xd_life.rm \notin {"del", "gone"} /\ xd_del = NoDel /\ ~Stopping
      /\ xd_host.req = NoCard /\ ~xd_host.short /\ xd_life.sleep = "no"
      /\ fmt.at # "erase" /\ store # "stop"
      /\ \A d \in XdCards : ~Busy(d) /\ ~xd_media[d].has_request
  BY <1>1, CheckAlone DEF Asking, Idents
<1>4. /\ xd_check' \in Checkers /\ xd_check'.at = "reset" /\ xd_check'.new = c
      /\ xd_check'.old = xd_card
  BY <1>2 DEF IInv, Types, Checkers, Places, Asking, Idents
<1>5. /\ xd_media' \in [XdCards -> Medias]
      /\ \A d \in XdCards : d # c => xd_media'[d] = xd_media[d]
      /\ xd_media'[c].next[1] = "init" /\ xd_media'[c].next[2] = "default"
      /\ ~xd_media'[c].complete /\ xd_media'[c].q = xd_media[c].q
      /\ xd_media'[c].eject = xd_media[c].eject
      /\ xd_media'[c].usage_count = xd_media[c].usage_count
      /\ xd_media'[c].waiting = xd_media[c].waiting
      /\ xd_media'[c].has_request = xd_media[c].has_request
      /\ xd_host' \in Hosts /\ xd_host'.req = xd_host.req /\ xd_host'.last = xd_host.last
      /\ xd_host'.submit = xd_host.submit /\ xd_host'.lock = xd_host.lock
      /\ xd_host'.armed = xd_host.armed /\ xd_host'.expired = xd_host.expired
      /\ xd_host'.tasklet => xd_host.tasklet \/ xd_host.submit
      /\ xd_host'.short = xd_host.short
  BY <1>2, NewReqFacts, NamedSteps DEF IInv
<1>6. /\ xd_media[c] = Blank /\ c # NoCard /\ c # xd_card
      /\ xd_card # NoCard => Registered(xd_card)
      /\ xd_check.new = NoCard /\ xd_check.old = NoCard
  <2>1. xd_media[c] = Blank /\ c # NoCard
    BY <1>2, XdAssumption DEF IInv, Counted
  <2>2. xd_card # NoCard => Registered(xd_card)
    BY <1>1, <1>3 DEF IInv, CardKnown, Fresh, Gone, Idents, Inits
  <2>3. xd_check.new = NoCard /\ xd_check.old = NoCard
    BY <1>1 DEF IInv, Checking, Idents
  <2> QED BY <1>2, <2>1, <2>2, <2>3 DEF Registered
<1>7. Fresh'
  BY <1>4 DEF Fresh, Idents
<1> USE <1>1, <1>2, <1>3, <1>4, <1>5, <1>6, <1>7, BlankFields
<1>8. Types'
  BY DEF IInv, Types, Places
<1>9. Counted'
  BY DEF IInv, Types, Counted
<1>10. CardKnown'
  <2>1. \A d \in xd_alloc :
          /\ xd_media[d].q # "off" => d = xd_card /\ ~xd_media[d].eject
          /\ xd_media[d].q # "run" /\ xd_media'[d] = xd_media[d]
    BY XdAssumption DEF IInv, Types, CardKnown
  <2>2. xd_alloc \subseteq XdCards /\ ~Gone'
    BY DEF IInv, Types, Gone
  <2> QED BY <2>1, <2>2 DEF CardKnown, Registered
<1>11. Checking'
  BY DEF IInv, Types, Checking, Registered, Stopping, Idents
<1>12. Removing' /\ Sleeping'
  BY DEF IInv, Removing, Sleeping, Stopping
<1>13. Formatting'
  BY DEF IInv, Types, Places, Formatting, Registered, Stopping
<1>14. AskedFor'
  BY NamedSteps DEF IInv, AskedFor, Busy, Asking, Idents
<1>15. Serving' /\ ShortAddr'
  BY DEF IInv, Serving, ShortAddr, Busy
<1> QED BY <1>8, <1>9, <1>10, <1>11, <1>12, <1>13, <1>14, <1>15 DEF IInv

\* The new card is given up, or is identified: the old one is host->card again.
LEMMA RestoreInv ==
  ASSUME IInv, Up, mutex = "check", xd_check.at \in Idents, Card.complete, Restore,
         UNCHANGED <<xd_host, mutex, fmt, store, xd_life>>,
         xd_check' \in Checkers, xd_check'.at = "settle", xd_check'.old = NoCard,
         \/ xd_check'.new = xd_check.new /\ UNCHANGED <<xd_alloc, xd_media>>
         \/ /\ xd_check'.new = NoCard /\ xd_alloc' = xd_alloc \ {xd_check.new}
            /\ xd_media' = [xd_media EXCEPT ![xd_check.new] = Blank]
  PROVE  IInv'
<1>1. /\ Fresh /\ xd_card \in XdCards /\ xd_card # NoCard /\ xd_card = xd_check.new
      /\ xd_card \in xd_alloc /\ xd_media[xd_card].q = "off"
  BY DEF IInv, Types, Places, Checking, Fresh
<1>2. /\ xd_life.rm \notin {"del", "gone"} /\ xd_del = NoDel /\ ~Stopping
      /\ xd_host.req = NoCard /\ ~xd_host.short /\ xd_life.sleep = "no"
      /\ fmt.at # "erase" /\ store # "stop"
      /\ \A d \in XdCards : ~Busy(d) /\ ~xd_media[d].has_request
  BY CheckAlone DEF Idents
<1>3. \A d \in xd_alloc : /\ xd_media[d].q # "off" => d = xd_check.old /\ ~xd_media[d].eject
                          /\ xd_media[d].q # "run"
  BY <1>1, <1>2 DEF IInv, Types, CardKnown, Idents
<1>4. xd_check.old # NoCard => Registered(xd_check.old) /\ xd_check.old # xd_card
  BY <1>1 DEF IInv, Checking, Registered
<1>5. /\ xd_card' = xd_check.old /\ xd_del' \in Deletes /\ xd_del'.at \notin {"kstop", "wait"}
      /\ xd_check.old = NoCard => xd_del' = NoDel
      /\ xd_check.old # NoCard =>
           /\ xd_del' # NoDel /\ xd_del'.for = "check" /\ xd_del'.at = "del"
           /\ xd_del'.card = xd_check.old
  BY <1>4 DEF Restore, Deletes, NoDel, IInv, Types, Registered
<1>6. \A d \in XdCards :
        /\ xd_media'[d] = xd_media[d] \/ (xd_media'[d] = Blank /\ d = xd_card)
        /\ d \in xd_alloc' => d \in xd_alloc /\ xd_media'[d] = xd_media[d]
        /\ d \notin xd_alloc' => xd_media'[d] = Blank
        /\ d \in xd_alloc /\ d # xd_card => d \in xd_alloc'
  BY <1>1 DEF IInv, Types, Counted
<1>7. xd_media' \in [XdCards -> Medias] /\ xd_alloc' \subseteq XdCards
  BY BlankFields DEF IInv, Types
<1>8. ~Fresh' /\ (xd_check'.new # NoCard => xd_check'.new = xd_card /\ xd_card \in xd_alloc')
  BY <1>1 DEF Fresh, Idents, Inits
<1> USE <1>1, <1>2, <1>3, <1>4, <1>5, <1>6, <1>7, <1>8, BlankFields
<1>9. Types'
  BY DEF IInv, Types, Checkers
<1>10. Counted'
  BY DEF IInv, Counted
<1>11. CardKnown'
  <2>1. xd_card' # NoCard => ~Gone' /\ Registered(xd_card)'
    BY DEF Gone, Registered
  <2> QED BY <2>1 DEF CardKnown
<1>12. Checking'
  BY DEF IInv, Checking, Registered, Stopping, Idents, Fresh
<1>13. Removing' /\ Sleeping'
  BY DEF IInv, Removing, Sleeping, Stopping
<1>14. Formatting'
  BY DEF IInv, Types, Places, Formatting, Registered, Stopping
<1>15. AskedFor'
  BY DEF IInv, AskedFor, Busy
<1>16. Serving' /\ ShortAddr'
  BY DEF IInv, Serving, ShortAddr
<1> QED BY <1>9, <1>10, <1>11, <1>12, <1>13, <1>14, <1>15, <1>16 DEF IInv

LEMMA DropMediaInv == ASSUME IInv, DropMedia PROVE IInv'
<1>1. /\ Up /\ mutex = "check" /\ xd_check.at \in Idents /\ Card.complete /\ Restore
      /\ UNCHANGED <<xd_host, mutex, fmt, store, xd_life>>
      /\ xd_alloc' = xd_alloc \ {xd_check.new}
      /\ xd_media' = [xd_media EXCEPT ![xd_check.new] = Blank]
      /\ xd_check' = [xd_check EXCEPT !.at = "settle", !.new = NoCard, !.old = NoCard]
  BY DEF DropMedia, Answered, Checks, SameCheck, Elsewhere, Idents
<1>2. /\ xd_check' \in Checkers /\ xd_check'.at = "settle" /\ xd_check'.new = NoCard
      /\ xd_check'.old = NoCard
  BY <1>1 DEF IInv, Types, Checkers, Places
<1> QED BY <1>1, <1>2, RestoreInv

LEMMA IdentifiedInv == ASSUME IInv, Identified PROVE IInv'
<1>1. /\ Up /\ mutex = "check" /\ xd_check.at \in Idents /\ Card.complete /\ Restore
      /\ UNCHANGED <<xd_host, mutex, fmt, store, xd_life, xd_alloc, xd_media>>
      /\ xd_check' = [xd_check EXCEPT !.at = "settle", !.old = NoCard]
  BY DEF Identified, Answered, Checks, SameCheck, Elsewhere, Idents
<1>2. /\ xd_check' \in Checkers /\ xd_check'.at = "settle" /\ xd_check'.new = xd_check.new
      /\ xd_check'.old = NoCard
  BY <1>1 DEF IInv, Types, Checkers, Places
<1> QED BY <1>1, <1>2, RestoreInv

\* With no old card left, no queue exists, and no thread.
LEMMA NothingOld ==
  ASSUME IInv, Up, mutex = "check", xd_check.at \in {"settle", "media", "lut", "page"},
         xd_check.at \in Asking => Card.complete, xd_del = NoDel
  PROVE  /\ xd_life.rm \notin {"del", "gone"} /\ ~Stopping /\ xd_check.old = NoCard
         /\ xd_host.req = NoCard /\ ~xd_host.short /\ xd_life.sleep = "no"
         /\ fmt.at = "none" /\ store # "stop"
         /\ \A d \in XdCards : ~Busy(d) /\ ~xd_media[d].has_request
         /\ \A d \in xd_alloc : xd_media[d].q = "off"
<1>1. /\ xd_life.rm \notin {"del", "gone"} /\ ~Stopping
      /\ xd_host.req = NoCard /\ ~xd_host.short /\ xd_life.sleep = "no"
      /\ store # "stop"
      /\ \A d \in XdCards : ~Busy(d) /\ ~xd_media[d].has_request
  BY CheckAlone
<1>2. xd_check.old = NoCard
  BY DEF IInv, Checking, Idents
<1>3. xd_card # NoCard => xd_media[xd_card].q = "off"
  BY DEF IInv, CardKnown, Gone, Fresh, Inits
<1>4. \A d \in xd_alloc : xd_media[d].q = "off"
  BY <1>2, <1>3, XdAssumption DEF IInv, Types, CardKnown
<1>5. fmt.at = "none"
  BY <1>4 DEF IInv, Formatting, Registered
<1> QED BY <1>1, <1>2, <1>4, <1>5

\* The check ends with no card.
LEMMA CheckEndInv ==
  ASSUME IInv, Up, mutex = "check", xd_check.at \in {"settle", "lut", "page"},
         xd_check.at \in Asking => Card.complete, xd_del = NoDel,
         xd_card' = NoCard, xd_host' = [xd_host EXCEPT !.power = FALSE], mutex' = "free",
         xd_check' = [Idle EXCEPT !.queued = xd_check.queued],
         UNCHANGED <<xd_del, fmt, store, xd_life>>,
         \/ UNCHANGED <<xd_alloc, xd_media>>
         \/ /\ xd_check.at # "settle" /\ xd_alloc' = xd_alloc \ {xd_card}
            /\ xd_media' = [xd_media EXCEPT ![xd_card] = Blank]
  PROVE  IInv'
<1>1. /\ xd_life.rm \notin {"del", "gone"} /\ ~Stopping /\ xd_check.old = NoCard
      /\ xd_host.req = NoCard /\ ~xd_host.short /\ xd_life.sleep = "no"
      /\ fmt.at = "none" /\ store # "stop"
      /\ \A d \in XdCards : ~Busy(d) /\ ~xd_media[d].has_request
      /\ \A d \in xd_alloc : xd_media[d].q = "off"
  BY NothingOld
<1>2. xd_host \in Hosts /\ xd_check.queued \in BOOLEAN
  BY DEF IInv, Types, Checkers
<1>3. /\ xd_host' \in Hosts /\ xd_host'.req = xd_host.req /\ xd_host'.short = xd_host.short
      /\ xd_host'.last = xd_host.last /\ xd_host'.lock = xd_host.lock
      /\ xd_host'.submit = xd_host.submit /\ xd_host'.tasklet = xd_host.tasklet
      /\ xd_host'.armed = xd_host.armed /\ xd_host'.expired = xd_host.expired
  BY <1>2 DEF Hosts
<1>4. /\ xd_check' \in Checkers /\ xd_check'.at = "idle" /\ xd_check'.new = NoCard
      /\ xd_check'.old = NoCard
  BY <1>2 DEF Checkers, Idle, Places
<1>5. xd_check.at # "settle" => xd_card \in XdCards
  BY DEF IInv, Types, Places, Checking, Fresh, Inits
<1>6. \A d \in XdCards :
        /\ xd_media'[d] = xd_media[d] \/ xd_media'[d] = Blank
        /\ d \in xd_alloc' => d \in xd_alloc /\ xd_media'[d] = xd_media[d]
        /\ d \notin xd_alloc' => xd_media'[d] = Blank
  BY <1>5 DEF IInv, Types, Counted
<1>7. xd_media' \in [XdCards -> Medias] /\ xd_alloc' \subseteq XdCards
  BY BlankFields DEF IInv, Types
<1>8. ~Fresh'
  BY <1>4 DEF Fresh, Idents, Inits
<1> USE <1>1, <1>3, <1>4, <1>6, <1>7, <1>8, BlankFields
<1>9. Types'
  BY DEF IInv, Types, Places
<1>10. Counted'
  BY DEF IInv, Counted
<1>11. CardKnown'
  BY DEF CardKnown
<1>12. Checking'
  BY NoDelFields DEF Checking, Idents
<1>13. Removing' /\ Sleeping'
  BY NoDelFields DEF IInv, Removing, Sleeping, Stopping
<1>14. Formatting'
  BY DEF IInv, Formatting
<1>15. AskedFor'
  BY DEF AskedFor, Busy
<1>16. Serving' /\ ShortAddr'
  BY DEF IInv, Serving, ShortAddr
<1> QED BY <1>9, <1>10, <1>11, <1>12, <1>13, <1>14, <1>15, <1>16 DEF IInv

LEMMA NoMediaInv == ASSUME IInv, NoMedia PROVE IInv'
<1>1. "settle" \notin Asking
  BY DEF Asking, Idents
<1> QED BY <1>1, CheckEndInv DEF NoMedia, Checks, SameCheck, Elsewhere

LEMMA InitMediaFailsInv == ASSUME IInv, InitMediaFails PROVE IInv'
<1>1. /\ Up /\ mutex = "check" /\ xd_check.at \in {"lut", "page"} /\ Card.complete
      /\ xd_alloc' = xd_alloc \ {xd_card} /\ xd_media' = [xd_media EXCEPT ![xd_card] = Blank]
      /\ xd_card' = NoCard /\ xd_host' = [xd_host EXCEPT !.power = FALSE]
      /\ mutex' = "free" /\ xd_check' = [Idle EXCEPT !.queued = xd_check.queued]
      /\ UNCHANGED <<xd_del, fmt, store, xd_life>>
  BY DEF InitMediaFails, Answered, Checks, SameCheck, Elsewhere
<1>2. xd_del = NoDel
  BY <1>1, CheckAlone
<1> QED BY <1>1, <1>2, CheckEndInv

LEMMA NewMediaInv == ASSUME IInv, NewMedia PROVE IInv'
<1>1. /\ Up /\ mutex = "check" /\ xd_check.at = "settle" /\ xd_del = NoDel
      /\ xd_check.new # NoCard /\ xd_card' = xd_check.new
      /\ xd_check' = [xd_check EXCEPT !.at = "media"]
      /\ UNCHANGED <<xd_alloc, xd_media, xd_host, mutex, xd_del, fmt, store, xd_life>>
  BY DEF NewMedia, Checks, To, SameCheck, Elsewhere
<1>2. /\ xd_life.rm \notin {"del", "gone"} /\ ~Stopping /\ xd_check.old = NoCard
      /\ xd_host.req = NoCard /\ ~xd_host.short /\ xd_life.sleep = "no"
      /\ fmt.at = "none" /\ store # "stop"
      /\ \A d \in XdCards : ~Busy(d) /\ ~xd_media[d].has_request
      /\ \A d \in xd_alloc : xd_media[d].q = "off"
  BY <1>1, NothingOld DEF Asking, Idents
<1>3. /\ xd_check' \in Checkers /\ xd_check'.at = "media" /\ xd_check'.new = xd_check.new
      /\ xd_check'.old = NoCard
  BY <1>1, <1>2 DEF IInv, Types, Checkers, Inits
<1>4. Fresh' /\ xd_check.new \in xd_alloc
  BY <1>1, <1>3 DEF Fresh, Inits, IInv, Checking
<1> USE <1>1, <1>2, <1>3, <1>4
<1>5. Types'
  BY DEF IInv, Types, Places
<1>6. Counted'
  BY DEF IInv, Counted
<1>7. CardKnown'
  BY DEF CardKnown
<1>8. Checking'
  BY DEF IInv, Checking, Stopping, Idents
<1>9. Removing' /\ Sleeping'
  BY DEF IInv, Removing, Sleeping, Stopping
<1>10. Formatting'
  BY DEF IInv, Formatting
<1>11. AskedFor' /\ Serving' /\ ShortAddr'
  BY DEF IInv, AskedFor, Busy, Serving, ShortAddr
<1> QED BY <1>5, <1>6, <1>7, <1>8, <1>9, <1>10, <1>11 DEF IInv

LEMMA InitDiskInv == ASSUME IInv, InitDisk PROVE IInv'
<1> DEFINE r == [xd_media[xd_card] EXCEPT !.q = "run"]
<1>1. /\ Up /\ mutex = "check" /\ xd_check.at = "page" /\ Card.complete
      /\ xd_media' = [xd_media EXCEPT ![xd_card] = r]
      /\ mutex' = "free" /\ xd_check' = [Idle EXCEPT !.queued = xd_check.queued]
      /\ UNCHANGED <<xd_alloc, xd_card, xd_host, xd_del, fmt, store, xd_life>>
  BY DEF InitDisk, Answered, Checks, SameCheck, Elsewhere
<1>2. xd_del = NoDel
  BY <1>1, CheckAlone
<1>3. /\ xd_life.rm \notin {"del", "gone"} /\ ~Stopping /\ xd_check.old = NoCard
      /\ xd_host.req = NoCard /\ ~xd_host.short /\ xd_life.sleep = "no"
      /\ fmt.at = "none" /\ store # "stop"
      /\ \A d \in XdCards : ~Busy(d) /\ ~xd_media[d].has_request
      /\ \A d \in xd_alloc : xd_media[d].q = "off"
  BY <1>1, <1>2, NothingOld
<1>4. /\ xd_card \in XdCards /\ xd_card # NoCard /\ xd_card \in xd_alloc
      /\ ~xd_media[xd_card].eject /\ xd_media[xd_card].waiting = 0
      /\ xd_media[xd_card] \in Medias /\ xd_check.queued \in BOOLEAN
  BY <1>1 DEF IInv, Types, Places, Checking, Fresh, Inits, Checkers
<1>5. /\ r \in Medias /\ r.q = "run" /\ r.next = xd_media[xd_card].next
      /\ r.eject = xd_media[xd_card].eject
      /\ r.usage_count = xd_media[xd_card].usage_count
      /\ r.complete = xd_media[xd_card].complete
      /\ r.has_request = xd_media[xd_card].has_request
      /\ r.waiting = xd_media[xd_card].waiting
  BY <1>4 DEF Medias
<1> HIDE DEF r
<1>6. /\ xd_media' \in [XdCards -> Medias] /\ xd_media'[xd_card] = r
      /\ \A d \in XdCards : d # xd_card => xd_media'[d] = xd_media[d]
  BY <1>1, <1>4, <1>5 DEF IInv, Types
<1>7. /\ xd_check' \in Checkers /\ xd_check'.at = "idle" /\ xd_check'.new = NoCard
      /\ xd_check'.old = NoCard
  BY <1>1, <1>4 DEF Checkers, Idle, Places
<1>8. ~Fresh' /\ ~Gone'
  BY <1>1, <1>3, <1>7 DEF Fresh, Gone, Idents, Inits
<1> USE <1>1, <1>2, <1>3, <1>4, <1>5, <1>6, <1>7, <1>8
<1>9. Types'
  BY DEF IInv, Types
<1>10. Counted'
  BY DEF IInv, Types, Counted
<1>11. CardKnown'
  BY DEF IInv, Types, CardKnown, Registered
<1>12. Checking'
  BY NoDelFields DEF Checking, Idents
<1>13. Removing' /\ Sleeping'
  BY NoDelFields DEF IInv, Removing, Sleeping, Stopping
<1>14. Formatting'
  BY DEF IInv, Formatting
<1>15. AskedFor'
  BY DEF IInv, AskedFor, Busy
<1>16. Serving' /\ ShortAddr'
  BY DEF IInv, Serving, ShortAddr
<1> QED BY <1>9, <1>10, <1>11, <1>12, <1>13, <1>14, <1>15, <1>16 DEF IInv

\* The questions the check asks.
LEMMA QuestionsInv ==
  ASSUME IInv, AskStatus \/ PollStatus \/ AskId1 \/ AskId2 \/ AskId3 \/ AskCis \/ FillLut
                 \/ ReadPage
  PROVE  IInv'
<1>1. PICK to \in Asking, h \in {"default", "read", "read_extra"}, data \in BOOLEAN,
           n \in Nat :
        /\ Up /\ mutex = "check" /\ xd_check.at \in Asking \cup {"media"}
        /\ xd_check.at \in Asking => Card.complete
        /\ xd_check.at \in Idents <=> to \in Idents
        /\ \/ xd_check' = [xd_check EXCEPT !.at = to]
           \/ to = xd_check.at /\ xd_check' = [xd_check EXCEPT !.polls = @ + 1]
        /\ NewReq(xd_card, h, data, n) /\ SameCards
  <2> USE DEF Answered, Checks, Question, To, Asking, Idents
  <2>1. CASE AskStatus \/ AskId1 \/ AskId2 \/ AskId3
    BY <2>1 DEF AskStatus, AskId1, AskId2, AskId3
  <2>2. CASE PollStatus
    BY <2>2 DEF PollStatus
  <2>3. CASE AskCis
    BY <2>3 DEF AskCis
  <2>4. CASE FillLut
    BY <2>4, XdAssumption DEF FillLut
  <2>5. CASE ReadPage
    BY <2>5 DEF ReadPage
  <2> QED BY <2>1, <2>2, <2>3, <2>4, <2>5
<1>2. /\ xd_check' \in Checkers /\ xd_check'.at = to /\ xd_check'.new = xd_check.new
      /\ xd_check'.old = xd_check.old
  BY <1>1 DEF IInv, Types, Checkers
<1> QED BY <1>1, <1>2, NamedSteps, QuestionInv

LEMMA CheckInv == ASSUME IInv, Check PROVE IInv'
BY CheckStartInv, CheckStopInv, AllocMediaInv, QuestionsInv, DropMediaInv, IdentifiedInv,
   NoMediaInv, NewMediaInv, InitMediaFailsInv, InitDiskInv
   DEF Check

-----------------------------------------------------------------------------
(* The old card goes.                                                      *)

\* While a card is removed.
LEMMA RemovedCard ==
  ASSUME IInv, xd_life.rm # "gone", xd_del # NoDel
  PROVE  /\ xd_del.card = xd_card /\ xd_card \in XdCards /\ xd_card # NoCard
         /\ Registered(xd_card) /\ ~Fresh /\ ~Gone
         /\ xd_del.for \in {"check", "rm"} /\ xd_check.old = NoCard
         /\ xd_check.at = (IF xd_del.for = "check" THEN "settle" ELSE "idle")
         /\ xd_del.for = "rm" <=> xd_life.rm = "del"
         /\ xd_life.sleep = "no" /\ xd_check.new # xd_card
         /\ \A c \in xd_alloc : xd_media[c].q # "off" => c = xd_card
         /\ fmt.at # "none" => fmt.of = xd_card
<1>1. /\ xd_del.for \in {"check", "rm"} /\ xd_del.card \in XdCards
      /\ xd_del.card = xd_card
      /\ IF xd_del.for = "check" THEN xd_check.at = "settle" ELSE xd_life.rm = "del"
  BY NoDelFields DEF IInv, Types, Removing
<1>2. /\ xd_check.at = (IF xd_del.for = "check" THEN "settle" ELSE "idle")
      /\ xd_del.for = "rm" <=> xd_life.rm = "del"
      /\ xd_life.sleep = "no"
  BY <1>1 DEF IInv, Removing, Sleeping
<1>3. xd_check.old = NoCard /\ ~Fresh /\ ~Gone /\ xd_card # NoCard
  BY <1>1, <1>2, XdAssumption DEF IInv, Checking, Fresh, Gone, Idents, Inits
<1>4. Registered(xd_card) /\ xd_check.new # xd_card
  BY <1>1, <1>3 DEF IInv, CardKnown, Checking, Registered
<1>5. \A c \in xd_alloc : xd_media[c].q # "off" => c = xd_card
  BY <1>3, XdAssumption DEF IInv, Types, CardKnown
<1>6. fmt.at # "none" => fmt.of = xd_card
  BY <1>5 DEF IInv, Formatting, Registered
<1> QED BY <1>1, <1>2, <1>3, <1>4, <1>5, <1>6

LEMMA DelDiskInv == ASSUME IInv, DelDisk PROVE IInv'
<1> DEFINE c == xd_del.card
           w == IF xd_media[c].has_request THEN xd_media[c].waiting ELSE 0
           r == [xd_media[c] EXCEPT !.eject = TRUE, !.q = "run", !.f_thread = FALSE,
                                    !.waiting = w]
           at == IF xd_media[c].f_thread THEN "kstop" ELSE "cleanup"
<1>1. /\ Up /\ xd_del.at = "del" /\ xd_media' = [xd_media EXCEPT ![c] = r]
      /\ xd_del' = [xd_del EXCEPT !.at = at]
      /\ mutex' = IF xd_media[c].f_thread THEN "free" ELSE mutex
      /\ UNCHANGED <<xd_alloc, fmt, xd_card, xd_host, xd_check, store, xd_life>>
  <2>1. /\ Up /\ xd_del.at = "del" /\ xd_del' = [xd_del EXCEPT !.at = at]
        /\ mutex' = IF xd_media[c].f_thread THEN "free" ELSE mutex
        /\ UNCHANGED <<xd_alloc, fmt, xd_card, xd_host, xd_check, store, xd_life>>
    BY DEF DelDisk, SameDel, Elsewhere
  <2>2. xd_media' = [xd_media EXCEPT ![c].eject = TRUE, ![c].q = "run",
                                     ![c].f_thread = FALSE, ![c].waiting = w]
    BY DEF DelDisk
  <2>3. xd_media' = [xd_media EXCEPT ![c] = r]
    <3> HIDE DEF w, c
    <3> QED BY <2>2
  <2> QED BY <2>1, <2>3
<1>2. xd_del # NoDel /\ ~Stopping
  BY <1>1, NoDelFields DEF Stopping
<1>3. /\ c = xd_card /\ xd_card \in XdCards /\ xd_card # NoCard
      /\ Registered(xd_card) /\ ~Fresh /\ ~Gone
      /\ xd_del.for \in {"check", "rm"} /\ xd_check.old = NoCard
      /\ xd_check.at = (IF xd_del.for = "check" THEN "settle" ELSE "idle")
      /\ xd_del.for = "rm" <=> xd_life.rm = "del"
      /\ xd_life.sleep = "no" /\ xd_check.new # xd_card
      /\ \A d \in xd_alloc : xd_media[d].q # "off" => d = xd_card
      /\ fmt.at # "none" => fmt.of = xd_card
  BY <1>1, <1>2, RemovedCard DEF Up
<1>4. mutex = xd_del.for /\ fmt.at # "erase" /\ store # "stop"
  BY <1>2, <1>3 DEF IInv, Checking, Removing, Formatting
<1>5. /\ xd_media[c] \in Medias /\ w \in Nat
      /\ w > 0 => xd_media[c].has_request
  BY <1>3 DEF IInv, Types, Medias
<1>6. xd_del' \in Deletes /\ xd_del' # NoDel /\ xd_del'.at = at /\ xd_del'.card = c
      /\ xd_del'.for = xd_del.for
  BY <1>1, <1>2 DEF IInv, Types, Deletes, NoDel
<1> HIDE DEF w, c
<1>7. /\ r \in Medias /\ r.q = "run" /\ r.eject = TRUE /\ r.f_thread = FALSE
      /\ r.next = xd_media[c].next /\ r.usage_count = xd_media[c].usage_count
      /\ r.complete = xd_media[c].complete
      /\ r.has_request = xd_media[c].has_request /\ r.waiting = w
  BY <1>5 DEF Medias
<1> HIDE DEF r
<1>8. /\ xd_media' \in [XdCards -> Medias] /\ xd_media'[c] = r
      /\ \A d \in XdCards : d # c => xd_media'[d] = xd_media[d]
  BY <1>1, <1>3, <1>7 DEF IInv, Types
<1>9. xd_media[c].f_thread \in BOOLEAN /\ (xd_media[c].f_thread <=> Stopping')
  BY <1>5, <1>6 DEF Medias, Stopping
<1>10. ~xd_media[c].f_thread => fmt.at = "none"
  BY <1>2, <1>3 DEF IInv, Formatting
<1>11. ~Fresh' /\ ~Gone'
  BY <1>1, <1>3, <1>6 DEF Fresh, Gone
<1> USE <1>1, <1>2, <1>3, <1>4, <1>5, <1>6, <1>7, <1>8, <1>9, <1>10, <1>11
<1>12. Types'
  BY DEF IInv, Types
<1>13. Counted'
  BY DEF IInv, Types, Counted, Registered
<1>14. CardKnown'
  BY DEF IInv, Types, CardKnown, Registered
<1>15. Checking'
  BY DEF IInv, Types, Checkers, Places, Checking, Registered
<1>16. Removing' /\ Sleeping'
  BY DEF IInv, Removing, Sleeping
<1>17. Formatting'
  BY DEF IInv, Types, Formatting, Registered
<1>18. AskedFor'
  BY DEF IInv, AskedFor, Busy, Asking, Idents
<1>19. Serving' /\ ShortAddr'
  BY DEF IInv, Types, Serving, ShortAddr, Busy, Card
<1> QED BY <1>12, <1>13, <1>14, <1>15, <1>16, <1>17, <1>18, <1>19 DEF IInv

\* The thread is told to stop.
LEMMA ToldToStop ==
  ASSUME Types, NEW b \in BOOLEAN, fmt' = [fmt EXCEPT !.stop = b]
  PROVE  fmt' \in Threads /\ fmt'.at = fmt.at /\ fmt'.of = fmt.of
BY DEF Types, Threads

LEMMA KStopInv == ASSUME IInv, KStop PROVE IInv'
<1> DEFINE b == fmt.stop \/ fmt.at # "none"
<1>1. /\ xd_del.at = "kstop" /\ xd_del' = [xd_del EXCEPT !.at = "wait"] /\ Up
      /\ fmt' = [fmt EXCEPT !.stop = b]
      /\ UNCHANGED <<xd_alloc, xd_media, mutex, xd_card, xd_host, xd_check, store, xd_life>>
  BY DEF KStop, SameDel, Elsewhere
<1>2. b \in BOOLEAN
  BY DEF IInv, Types, Threads
<1> HIDE DEF b
<1>3. fmt' \in Threads /\ fmt'.at = fmt.at /\ fmt'.of = fmt.of
  BY <1>1, <1>2, ToldToStop DEF IInv
<1>4. /\ xd_del # NoDel /\ Stopping /\ xd_del' \in Deletes /\ xd_del' # NoDel
      /\ xd_del'.at = "wait" /\ xd_del'.card = xd_del.card /\ xd_del'.for = xd_del.for
  BY <1>1, NoDelFields DEF IInv, Types, Deletes, NoDel, Stopping
<1>5. Stopping' /\ (Gone' <=> Gone) /\ (Fresh' <=> Fresh)
  BY <1>1, <1>4 DEF Stopping, Gone, Fresh
<1> USE <1>1, <1>3, <1>4, <1>5
<1>6. Types' /\ Counted'
  BY DEF IInv, Types, Counted
<1>7. CardKnown'
  BY DEF IInv, CardKnown, Registered
<1>8. Checking'
  BY DEF IInv, Checking, Registered
<1>9. Removing' /\ Sleeping'
  BY DEF IInv, Removing, Sleeping
<1>10. Formatting'
  BY DEF IInv, Formatting, Registered
<1>11. AskedFor' /\ Serving' /\ ShortAddr'
  BY DEF IInv, AskedFor, Serving, ShortAddr, Busy, Card
<1> QED BY <1>6, <1>7, <1>8, <1>9, <1>10, <1>11 DEF IInv

LEMMA KStoppedInv == ASSUME IInv, KStopped PROVE IInv'
<1>1. /\ xd_del.at = "wait" /\ xd_del' = [xd_del EXCEPT !.at = "cleanup"]
      /\ Up /\ mutex = "free" /\ mutex' = xd_del.for /\ fmt.at = "none"
      /\ UNCHANGED <<xd_alloc, xd_media, fmt, xd_card, xd_host, xd_check, store, xd_life>>
  BY DEF KStopped, SameDel, Elsewhere, Free
<1>2. /\ xd_del # NoDel /\ Stopping /\ xd_del' \in Deletes /\ xd_del' # NoDel
      /\ xd_del'.at = "cleanup" /\ xd_del'.card = xd_del.card /\ xd_del'.for = xd_del.for
  BY <1>1, NoDelFields DEF IInv, Types, Deletes, NoDel, Stopping
<1>3. /\ xd_del.for \in {"check", "rm"}
      /\ xd_check.at = (IF xd_del.for = "check" THEN "settle" ELSE "idle")
      /\ xd_del.for = "rm" <=> xd_life.rm = "del"
      /\ xd_life.sleep = "no"
  BY <1>1, <1>2, RemovedCard DEF Up
<1>4. ~Stopping' /\ (Gone' <=> Gone) /\ (Fresh' <=> Fresh)
  BY <1>1, <1>2 DEF Stopping, Gone, Fresh
<1> USE <1>1, <1>2, <1>3, <1>4
<1>5. Types' /\ Counted'
  BY DEF IInv, Types, Counted
<1>6. CardKnown'
  BY DEF IInv, CardKnown, Registered
<1>7. Checking'
  BY DEF IInv, Checking, Registered
<1>8. Removing' /\ Sleeping'
  BY DEF IInv, Removing, Sleeping
<1>9. Formatting'
  BY DEF IInv, Formatting
<1>10. AskedFor'
  BY DEF IInv, AskedFor, Busy
<1>11. Serving' /\ ShortAddr'
  BY DEF IInv, Serving, ShortAddr, Busy, Card
<1> QED BY <1>5, <1>6, <1>7, <1>8, <1>9, <1>10, <1>11 DEF IInv

LEMMA CleanupInv == ASSUME IInv, Cleanup PROVE IInv'
<1> DEFINE c == xd_card
<1>1. /\ xd_del.at = "cleanup" /\ xd_del' = NoDel /\ Up /\ DiskRelease(xd_del.card, "off")
      /\ UNCHANGED <<mutex, fmt, xd_card, xd_host, xd_check, store, xd_life>>
  BY DEF Cleanup, SameDel, Elsewhere
<1>2. xd_del # NoDel /\ ~Stopping /\ ~Stopping'
  BY <1>1, NoDelFields DEF Stopping
<1>3. /\ xd_del.card = c /\ c \in XdCards /\ c # NoCard
      /\ Registered(c) /\ ~Fresh /\ ~Gone
      /\ xd_del.for \in {"check", "rm"} /\ xd_check.old = NoCard
      /\ xd_check.at = (IF xd_del.for = "check" THEN "settle" ELSE "idle")
      /\ xd_del.for = "rm" <=> xd_life.rm = "del"
      /\ xd_life.sleep = "no" /\ xd_check.new # c
      /\ \A d \in xd_alloc : xd_media[d].q # "off" => d = c
  BY <1>1, <1>2, RemovedCard DEF Up
<1>4. mutex = xd_del.for /\ fmt.at = "none" /\ store # "stop"
  BY <1>1, <1>2, <1>3 DEF IInv, Checking, Removing, Formatting
<1>5. /\ xd_media[c] \in Medias /\ c \in xd_alloc /\ xd_media[c].usage_count >= 1
      /\ (xd_media[c].has_request \/ xd_media[c].waiting > 0)
           => xd_media[c].usage_count >= 2
  BY <1>3 DEF IInv, Types, Counted, Registered
<1>6. Gone' /\ ~Fresh' /\ xd_del' \in Deletes
  BY <1>1, <1>3 DEF Gone, Fresh, Deletes
<1>7. CASE xd_media[c].usage_count = 1
  <2>1. xd_alloc' = xd_alloc \ {c} /\ xd_media' = [xd_media EXCEPT ![c] = Blank]
    BY <1>1, <1>3, <1>7 DEF DiskRelease
  <2>2. /\ xd_media' \in [XdCards -> Medias] /\ xd_media'[c] = Blank
        /\ \A d \in XdCards : d # c => xd_media'[d] = xd_media[d]
    BY <1>3, <2>1, BlankFields DEF IInv, Types
  <2>3. ~xd_media[c].has_request
    BY <1>5, <1>7
  <2>4. \A d \in XdCards : ~Busy(d)
    BY <1>1, <1>3, <1>4, <2>3 DEF IInv, AskedFor, Asking, Idents, Up
  <2>5. xd_host.req = NoCard /\ ~xd_host.short
    BY <1>1, <1>3, <2>4 DEF IInv, Types, Places, Serving, ShortAddr, Busy, Card, Up
  <2> USE <1>1, <1>2, <1>3, <1>4, <1>5, <1>6, <2>1, <2>2, <2>3, <2>4, <2>5, BlankFields
  <2>6. Types'
    BY DEF IInv, Types
  <2>7. Counted'
    BY DEF IInv, Types, Counted
  <2>8. CardKnown'
    BY DEF IInv, Types, CardKnown, Registered
  <2>9. Checking'
    BY DEF IInv, Types, Checkers, Places, Checking
  <2>10. Removing' /\ Sleeping'
    BY DEF IInv, Removing, Sleeping
  <2>11. Formatting'
    BY DEF IInv, Formatting
  <2>12. AskedFor'
    BY DEF IInv, AskedFor, Busy
  <2>13. Serving' /\ ShortAddr'
    BY DEF IInv, Serving, ShortAddr
  <2> QED BY <2>6, <2>7, <2>8, <2>9, <2>10, <2>11, <2>12, <2>13 DEF IInv
<1>8. CASE xd_media[c].usage_count # 1
  <2> DEFINE u == xd_media[c].usage_count - 1
             r == [xd_media[c] EXCEPT !.usage_count = u, !.q = "off"]
  <2>1. xd_alloc' = xd_alloc /\ xd_media' = [xd_media EXCEPT ![c] = r]
    BY <1>1, <1>3, <1>8 DEF DiskRelease
  <2>2. u \in Nat /\ u >= 1
    BY <1>5, <1>8 DEF Medias
  <2> HIDE DEF u
  <2>3. /\ r \in Medias /\ r.q = "off" /\ r.usage_count = u
        /\ r.next = xd_media[c].next /\ r.complete = xd_media[c].complete
        /\ r.has_request = xd_media[c].has_request
    BY <1>5, <2>2 DEF Medias
  <2> HIDE DEF r
  <2>4. /\ xd_media' \in [XdCards -> Medias] /\ xd_media'[c] = r
        /\ \A d \in XdCards : d # c => xd_media'[d] = xd_media[d]
    BY <1>3, <2>1, <2>3 DEF IInv, Types
  <2> USE <1>1, <1>2, <1>3, <1>4, <1>5, <1>6, <2>1, <2>2, <2>3, <2>4
  <2>6. Types'
    BY DEF IInv, Types
  <2>7. Counted'
    BY DEF IInv, Types, Counted
  <2>8. CardKnown'
    BY DEF IInv, Types, CardKnown, Registered
  <2>9. Checking'
    BY DEF IInv, Types, Checkers, Places, Checking
  <2>10. Removing' /\ Sleeping'
    BY DEF IInv, Removing, Sleeping
  <2>11. Formatting'
    BY DEF IInv, Formatting
  <2>12. AskedFor'
    BY DEF IInv, AskedFor, Busy
  <2>13. Serving' /\ ShortAddr'
    BY DEF IInv, Types, Serving, ShortAddr, Busy, Card
  <2> QED BY <2>6, <2>7, <2>8, <2>9, <2>10, <2>11, <2>12, <2>13 DEF IInv
<1> QED BY <1>7, <1>8

LEMMA DeleteInv == ASSUME IInv, Delete PROVE IInv'
BY DelDiskInv, KStopInv, KStoppedInv, CleanupInv DEF Delete

-----------------------------------------------------------------------------
(* Formatting.                                                             *)

\* While nobody has the mutex, the card of a format thread is host->card.
LEMMA ThreadsCard ==
  ASSUME IInv, Up, fmt.at # "none", mutex \in {"free", "fmt"}
  PROVE  /\ fmt.of = xd_card /\ xd_card \in XdCards /\ xd_card # NoCard
         /\ Registered(xd_card) /\ ~xd_media[xd_card].has_request
         /\ xd_check.at \in {"idle", "settle"} /\ (xd_check.at = "settle" => Stopping)
         /\ xd_del.at # "cleanup" /\ xd_life.sleep # "asleep"
         /\ Stopping => xd_media[xd_card].eject
         /\ xd_check.new # xd_card
<1>1. /\ xd_check.at # "idle" => Stopping
      /\ Stopping => xd_del # NoDel
  BY NoDelFields DEF IInv, Checking, Stopping
<1>2. /\ xd_check.at \in {"idle", "settle"} /\ (xd_check.at = "settle" => Stopping)
      /\ Stopping => xd_media[xd_card].eject
  BY <1>1 DEF IInv, Removing, Stopping
<1>3. xd_check.old = NoCard
  BY <1>2 DEF IInv, Checking, Idents
<1>4. /\ fmt.of = xd_card /\ Registered(xd_card) /\ ~xd_media[xd_card].has_request
  BY <1>3, XdAssumption DEF IInv, Types, Formatting, CardKnown, Registered
<1>5. /\ xd_card \in XdCards /\ xd_card # NoCard /\ xd_check.new # xd_card
  BY <1>4, XdAssumption DEF IInv, Types, Registered, Checking
<1>6. xd_del.at # "cleanup" /\ xd_life.sleep # "asleep"
  BY NoDelFields DEF IInv, Removing, Sleeping
<1> QED BY <1>2, <1>4, <1>5, <1>6

LEMMA StoreStartInv == ASSUME IInv, StoreStart PROVE IInv'
<1>1. /\ Up /\ xd_life.sleep = "no" /\ mutex = "free" /\ store = "idle"
      /\ xd_card # NoCard /\ store' = "stop" /\ mutex' = "store"
      /\ UNCHANGED <<xd_media, xd_host, fmt, xd_alloc, xd_card, xd_check, xd_del, xd_life>>
  BY DEF StoreStart, SameFmt, Elsewhere, Free
<1> USE <1>1 DEF Stopping, Fresh, Gone, Registered
<1>2. Types' /\ Counted' /\ CardKnown'
  BY DEF IInv, Types, Counted, CardKnown
<1>3. Checking' /\ Removing' /\ Sleeping'
  BY DEF IInv, Checking, Removing, Sleeping
<1>4. Formatting'
  BY DEF IInv, Formatting
<1>5. AskedFor' /\ Serving' /\ ShortAddr'
  BY DEF IInv, AskedFor, Serving, ShortAddr, Busy, Card
<1> QED BY <1>2, <1>3, <1>4, <1>5 DEF IInv

\* What StoreFormat makes of the card.
LEMMA FormatFields ==
  ASSUME NEW m \in Medias, NEW f \in BOOLEAN, NEW t \in BOOLEAN, NEW q \in {"run", "stopped"}
  PROVE  LET r == [m EXCEPT !.q = q, !.format = f, !.f_thread = t]
         IN  /\ r \in Medias /\ r.q = q /\ r.f_thread = t
             /\ r.eject = m.eject /\ r.next = m.next /\ r.complete = m.complete
             /\ r.usage_count = m.usage_count /\ r.has_request = m.has_request
             /\ r.waiting = m.waiting
BY DEF Medias

LEMMA StoreFormatInv == ASSUME IInv, StoreFormat PROVE IInv'
<1> DEFINE c == xd_card
           s == xd_media[c]
<1>1. /\ Up /\ store = "stop" /\ ~s.has_request /\ store' = "idle" /\ mutex' = "free"
      /\ UNCHANGED <<xd_host, xd_alloc, xd_card, xd_check, xd_del, xd_life>>
  BY DEF StoreFormat, SameFmt, Elsewhere, Card
<1>2. /\ c \in XdCards /\ c # NoCard /\ mutex = "store" /\ xd_life.sleep = "no"
      /\ xd_check.at \in {"idle", "settle"} /\ xd_life.rm # "gone"
  BY <1>1, NoDelFields DEF IInv, Types, Places, Formatting, Sleeping, Checking, Removing,
     Stopping, Up
<1>3. /\ xd_del.at \notin {"del", "cleanup"} /\ ~Fresh /\ ~Gone
      /\ (xd_check.at = "idle" \/ Stopping)
  BY <1>1, <1>2, NoDelFields DEF IInv, Checking, Removing, Stopping, Fresh, Gone, Idents,
     Inits
<1>4. Registered(c) /\ xd_check.new # c /\ s \in Medias
  BY <1>2, <1>3 DEF IInv, Types, CardKnown, Checking, Registered
<1>5. PICK f \in BOOLEAN, t \in BOOLEAN :
        /\ xd_media' = [xd_media EXCEPT ![c] =
                          [s EXCEPT !.q = "stopped", !.format = f, !.f_thread = t]]
        /\ \/ t = s.f_thread /\ UNCHANGED fmt
           \/ t = TRUE /\ fmt' = [NoThread EXCEPT !.at = "start", !.of = c, !.left = MaxBlocks]
  <2>1. CASE /\ xd_media' = [xd_media EXCEPT ![c].q = "stopped",
                                             ![c].format = s.format \/ ~s.eject]
             /\ UNCHANGED fmt
    <3> DEFINE f == s.format \/ ~s.eject
               r == [s EXCEPT !.q = "stopped", !.format = f, !.f_thread = s.f_thread]
    <3>1. f \in BOOLEAN /\ s.f_thread \in BOOLEAN
      BY <1>4 DEF Medias
    <3>2. xd_media' = [xd_media EXCEPT ![c].q = "stopped", ![c].format = f]
      BY <2>1
    <3>3. xd_media' = [xd_media EXCEPT ![c] = [s EXCEPT !.q = "stopped", !.format = f]]
      <4> HIDE DEF f
      <4> QED BY <3>2
    <3>4. [s EXCEPT !.q = "stopped", !.format = f] = r
      <4> HIDE DEF f, s
      <4> QED BY <1>4 DEF Medias
    <3> QED BY <2>1, <3>1, <3>3, <3>4
  <2>2. CASE /\ xd_media' = [xd_media EXCEPT ![c].q = "stopped", ![c].format = TRUE,
                                             ![c].f_thread = TRUE]
             /\ fmt' = [NoThread EXCEPT !.at = "start", !.of = c, !.left = MaxBlocks]
    <3>1. xd_media' = [xd_media EXCEPT ![c] =
                         [s EXCEPT !.q = "stopped", !.format = TRUE, !.f_thread = TRUE]]
      BY <2>2
    <3> QED BY <2>2, <3>1
  <2> QED BY <2>1, <2>2 DEF StoreFormat, Card
<1> DEFINE r == [s EXCEPT !.q = "stopped", !.format = f, !.f_thread = t]
<1>6. /\ r \in Medias /\ r.q = "stopped" /\ r.f_thread = t
      /\ r.eject = s.eject /\ r.next = s.next /\ r.complete = s.complete
      /\ r.usage_count = s.usage_count /\ r.has_request = s.has_request
      /\ r.waiting = s.waiting
  <2>1. f \in BOOLEAN /\ t \in BOOLEAN
    BY <1>5
  <2> HIDE DEF s
  <2> QED BY <1>4, <2>1 DEF Medias
<1> HIDE DEF r
<1>7. /\ xd_media' \in [XdCards -> Medias] /\ xd_media'[c] = r
      /\ \A d \in XdCards : d # c => xd_media'[d] = xd_media[d]
  BY <1>2, <1>5, <1>6 DEF IInv, Types, r
<1>8. /\ fmt' \in Threads /\ fmt'.at # "erase"
      /\ \/ t = s.f_thread /\ fmt' = fmt
         \/ t = TRUE /\ fmt'.of = c
  <2>1. CASE t = s.f_thread /\ UNCHANGED fmt
    BY <1>2, <2>1 DEF IInv, Types, Formatting
  <2>2. CASE /\ t = TRUE
             /\ fmt' = [NoThread EXCEPT !.at = "start", !.of = c, !.left = MaxBlocks]
    <3>1. c \in Places /\ MaxBlocks \in Int
      BY <1>2, XdAssumption DEF Places
    <3> HIDE DEF c
    <3>2. fmt' = [at |-> "start", of |-> c, left |-> MaxBlocks, rc |-> FALSE, stop |-> FALSE]
      BY <2>2 DEF NoThread
    <3>3. fmt' \in Threads /\ fmt'.at = "start" /\ fmt'.of = c
      BY <3>1, <3>2 DEF Threads
    <3> QED BY <2>2, <3>3
  <2> QED BY <1>5, <2>1, <2>2
<1> USE <1>1, <1>2, <1>3, <1>4, <1>6, <1>7, <1>8
<1>9. Types'
  BY DEF IInv, Types
<1>10. Counted'
  BY DEF IInv, Types, Counted, Registered
<1>11. CardKnown'
  BY DEF IInv, Types, CardKnown, Registered, Fresh, Gone
<1>12. Checking'
  BY DEF IInv, Types, Checkers, Places, Checking, Registered, Fresh, Stopping
<1>13. Removing' /\ Sleeping'
  BY DEF IInv, Removing, Sleeping, Stopping
<1>14. Formatting'
  BY DEF IInv, Types, Formatting, Registered, Stopping
<1>15. AskedFor'
  BY DEF IInv, AskedFor, Busy
<1>16. Serving' /\ ShortAddr'
  BY DEF IInv, Types, Serving, ShortAddr, Busy, Card
<1> QED BY <1>9, <1>10, <1>11, <1>12, <1>13, <1>14, <1>15, <1>16 DEF IInv

\* The thread has the mutex and asks.
LEMMA FmtEraseInv ==
  ASSUME IInv, Up, mutex = "free", fmt.at \in {"start", "yield"}, FmtErase,
         UNCHANGED <<xd_alloc, xd_card, xd_check, xd_del, xd_life, store>>
  PROVE  IInv'
<1> DEFINE c == xd_card
<1>1. /\ fmt.of = c /\ c \in XdCards /\ c # NoCard
      /\ Registered(c) /\ ~xd_media[c].has_request
      /\ xd_check.at \in {"idle", "settle"} /\ (xd_check.at = "settle" => Stopping)
      /\ xd_del.at # "cleanup" /\ xd_life.sleep # "asleep"
      /\ xd_check.new # c
  BY ThreadsCard
<1>2. \A d \in XdCards : d # c => ~Busy(d)
  BY DEF IInv, AskedFor, Up
<1>3. mutex' = "fmt" /\ fmt' = [fmt EXCEPT !.at = "erase", !.left = fmt.left - 1]
  BY DEF FmtErase
<1>4. fmt' \in Threads /\ fmt'.at = "erase" /\ fmt'.of = c
  <2>1. fmt.left - 1 \in Int /\ fmt \in Threads
    BY DEF IInv, Types, Threads
  <2> QED BY <1>1, <1>3, <2>1 DEF Threads
<1> DEFINE k == <<"init", "erase_fmt">>
           s == xd_media[c]
           r == [s EXCEPT !.next = k, !.complete = FALSE, !.err = FALSE, !.data = FALSE,
                          !.pages = 1, !.size = 1]
           t == xd_host.tasklet \/ xd_host.submit
           h == [xd_host EXCEPT !.retries = XdRetries, !.tasklet = t, !.short = TRUE]
<1>5. k \in Steps \X Steps /\ k[1] = "init" /\ k[2] = "erase_fmt" /\ s \in Medias
      /\ xd_host \in Hosts
  BY <1>1 DEF Steps, IInv, Types
<1>6. xd_media' = [xd_media EXCEPT ![c] = r] /\ xd_host' = h
  BY <1>5 DEF FmtErase, Asked, Card, Medias, Tell, Hosts
<1> HIDE DEF k
<1>7. /\ r \in Medias /\ r.next = k /\ r.complete = FALSE /\ r.q = s.q
      /\ r.eject = s.eject /\ r.f_thread = s.f_thread /\ r.usage_count = s.usage_count
      /\ r.waiting = s.waiting /\ r.has_request = s.has_request
  BY <1>5 DEF Medias
<1> HIDE DEF r
<1>8. t \in BOOLEAN /\ XdRetries \in Tries /\ (t => xd_host.tasklet \/ xd_host.submit)
  BY <1>5, XdAssumption DEF Hosts, Tries
<1> HIDE DEF t
<1>9. /\ h \in Hosts /\ h.req = xd_host.req /\ h.last = xd_host.last
      /\ h.submit = xd_host.submit /\ h.lock = xd_host.lock
      /\ h.armed = xd_host.armed /\ h.expired = xd_host.expired
      /\ h.tasklet = t
  BY <1>5, <1>8 DEF Hosts
<1> HIDE DEF h
<1>10. /\ xd_media' \in [XdCards -> Medias] /\ xd_media'[c] = r
       /\ \A d \in XdCards : d # c => xd_media'[d] = xd_media[d]
  BY <1>1, <1>6, <1>7 DEF IInv, Types
<1>11. "erase_fmt" \in Named /\ ~Busy(c)
  <2>1. xd_check.at \notin Asking
    BY <1>1 DEF Asking, Idents
  <2> QED BY <1>1, <2>1, NamedSteps DEF IInv, AskedFor
<1>12. xd_host.req = NoCard
  BY <1>11 DEF IInv, Serving
<1> USE <1>1, <1>2, <1>3, <1>4, <1>5, <1>6, <1>7, <1>8, <1>9, <1>10, <1>11, <1>12
<1>13. Types'
  BY DEF IInv, Types
<1>14. Counted'
  BY DEF IInv, Types, Counted, Registered
<1>15. CardKnown'
  BY DEF IInv, Types, CardKnown, Registered, Fresh, Gone
<1>16. Checking'
  BY DEF IInv, Types, Checkers, Places, Checking, Registered, Fresh, Stopping
<1>17. Removing' /\ Sleeping'
  BY NoDelFields DEF IInv, Types, Removing, Sleeping, Stopping
<1>18. Formatting'
  BY DEF IInv, Types, Formatting, Registered, Stopping
<1>19. AskedFor'
  BY DEF IInv, AskedFor, Busy
<1>20. Serving' /\ ShortAddr'
  BY DEF IInv, Serving, ShortAddr, Busy, Card
<1> QED BY <1>13, <1>14, <1>15, <1>16, <1>17, <1>18, <1>19, <1>20 DEF IInv

\* The thread ends.
LEMMA FmtOutInv ==
  ASSUME IInv, Up, mutex = "free", fmt.at \in {"start", "yield"}, FmtOut,
         UNCHANGED <<xd_alloc, xd_card, xd_check, xd_del, xd_life, store>>
  PROVE  IInv'
<1> DEFINE c == xd_card
           s == xd_media[c]
           r == [s EXCEPT !.q = "run", !.format = FALSE, !.f_thread = FALSE]
<1>1. /\ fmt.of = c /\ c \in XdCards /\ c # NoCard
      /\ Registered(c) /\ ~xd_media[c].has_request
      /\ xd_check.at \in {"idle", "settle"} /\ (xd_check.at = "settle" => Stopping)
      /\ Stopping => xd_media[c].eject
      /\ xd_check.new # c
  BY ThreadsCard
<1>2. fmt' = NoThread /\ UNCHANGED <<mutex, xd_host>> /\ s \in Medias
  BY <1>1 DEF FmtOut, IInv, Types
<1>3. fmt' \in Threads /\ fmt'.at = "none"
  BY <1>2 DEF NoThread, Threads, Places
<1>4. xd_media' = [xd_media EXCEPT ![c] = r]
  <2>1. xd_media' = [xd_media EXCEPT ![c] =
                       [s EXCEPT !.format = FALSE, !.f_thread = FALSE, !.q = "run"]]
    BY DEF FmtOut
  <2>2. [s EXCEPT !.format = FALSE, !.f_thread = FALSE, !.q = "run"] = r
    <3> HIDE DEF s
    <3> QED BY <1>2 DEF Medias
  <2> QED BY <2>1, <2>2
<1>5. /\ r \in Medias /\ r.q = "run"
      /\ r.eject = s.eject /\ r.next = s.next /\ r.complete = s.complete
      /\ r.usage_count = s.usage_count /\ r.has_request = s.has_request
      /\ r.waiting = s.waiting
  <2> HIDE DEF s
  <2> QED BY <1>2, FormatFields
<1> HIDE DEF r
<1>6. /\ xd_media' \in [XdCards -> Medias] /\ xd_media'[c] = r
      /\ \A d \in XdCards : d # c => xd_media'[d] = xd_media[d]
  BY <1>1, <1>4, <1>5 DEF IInv, Types
<1> USE <1>1, <1>2, <1>3, <1>5, <1>6
<1>7. Types'
  BY DEF IInv, Types
<1>8. Counted'
  BY DEF IInv, Types, Counted, Registered
<1>9. CardKnown'
  BY DEF IInv, Types, CardKnown, Registered, Fresh, Gone
<1>10. Checking'
  BY DEF IInv, Types, Checkers, Places, Checking, Registered, Fresh, Stopping
<1>11. Removing' /\ Sleeping'
  BY NoDelFields DEF IInv, Types, Removing, Sleeping, Stopping
<1>12. Formatting'
  BY DEF IInv, Formatting
<1>13. AskedFor'
  BY DEF IInv, AskedFor, Busy
<1>14. Serving' /\ ShortAddr'
  BY DEF IInv, Types, Serving, ShortAddr, Busy, Card
<1> QED BY <1>7, <1>8, <1>9, <1>10, <1>11, <1>12, <1>13, <1>14 DEF IInv

LEMMA FmtStartInv == ASSUME IInv, FmtStart PROVE IInv'
BY FmtEraseInv, FmtOutInv DEF FmtStart, SameFmt, Elsewhere, Free

LEMMA FmtNextInv == ASSUME IInv, FmtNext PROVE IInv'
BY FmtEraseInv, FmtOutInv DEF FmtNext, SameFmt, Elsewhere, Free

LEMMA FmtAnsweredInv == ASSUME IInv, FmtAnswered PROVE IInv'
<1>1. /\ Up /\ mutex = "fmt" /\ xd_media[xd_card].complete /\ mutex' = "free"
      /\ fmt' = [fmt EXCEPT !.at = "yield", !.rc = xd_media[xd_card].err]
      /\ UNCHANGED <<xd_media, xd_host, store, xd_alloc, xd_card, xd_check, xd_del, xd_life>>
  BY DEF FmtAnswered, SameFmt, Elsewhere, Card
<1>2. fmt.at = "erase"
  BY <1>1 DEF IInv, Formatting
<1>3. fmt.of = xd_card /\ xd_card \in XdCards
  BY <1>1, <1>2, ThreadsCard
<1>4. xd_media[xd_card].err \in BOOLEAN /\ fmt \in Threads
  BY <1>3 DEF IInv, Types, Medias
<1>5. fmt' \in Threads /\ fmt'.at = "yield" /\ fmt'.of = fmt.of
  BY <1>1, <1>4 DEF Threads
<1>6. \A c \in XdCards : ~Busy(c)
  BY <1>1, <1>3 DEF IInv, AskedFor, Up
<1> USE <1>1, <1>2, <1>3, <1>5, <1>6 DEF Stopping, Fresh, Gone, Registered
<1>7. Types' /\ Counted' /\ CardKnown'
  BY DEF IInv, Types, Counted, CardKnown
<1>8. Checking' /\ Removing' /\ Sleeping'
  BY DEF IInv, Checking, Removing, Sleeping
<1>9. Formatting'
  BY DEF IInv, Formatting
<1>10. AskedFor'
  BY DEF IInv, AskedFor, Busy
<1>11. Serving' /\ ShortAddr'
  BY DEF IInv, Serving, ShortAddr, Busy, Card
<1> QED BY <1>7, <1>8, <1>9, <1>10, <1>11 DEF IInv

LEMMA FmtStoppedInv == ASSUME IInv, FmtStopped PROVE IInv'
<1> DEFINE c == fmt.of
           s == xd_media[c]
           r == [s EXCEPT !.format = FALSE]
<1>1. /\ Up /\ fmt.at = "yield" /\ mutex = "free" /\ fmt' = NoThread
      /\ xd_media' = [xd_media EXCEPT ![c] = r]
      /\ UNCHANGED <<mutex, xd_host, store, xd_alloc, xd_card, xd_check, xd_del, xd_life>>
  BY DEF FmtStopped, SameFmt, Elsewhere, Free
<1>2. c = xd_card /\ c \in XdCards /\ s \in Medias
  BY <1>1, ThreadsCard DEF IInv, Types
<1>3. fmt' \in Threads /\ fmt'.at = "none"
  BY <1>1 DEF NoThread, Threads, Places
<1>4. /\ r \in Medias /\ r.q = s.q /\ r.f_thread = s.f_thread
      /\ r.eject = s.eject /\ r.next = s.next /\ r.complete = s.complete
      /\ r.usage_count = s.usage_count /\ r.has_request = s.has_request
      /\ r.waiting = s.waiting
  <2> HIDE DEF s
  <2> QED BY <1>2 DEF Medias
<1> HIDE DEF r, c
<1>5. /\ xd_media' \in [XdCards -> Medias] /\ xd_media'[c] = r
      /\ \A d \in XdCards : d # c => xd_media'[d] = xd_media[d]
  BY <1>1, <1>2, <1>4 DEF IInv, Types
<1> USE <1>1, <1>2, <1>3, <1>4, <1>5
<1>6. Types'
  BY DEF IInv, Types
<1>7. Counted'
  <2>1. c \in xd_alloc
    BY ThreadsCard DEF Registered
  <2> QED BY <2>1 DEF IInv, Types, Counted
<1>8. CardKnown'
  BY DEF IInv, Types, CardKnown, Registered, Fresh, Gone
<1>9. Checking'
  BY DEF IInv, Types, Checkers, Places, Checking, Registered, Fresh, Stopping
<1>10. Removing' /\ Sleeping'
  BY NoDelFields DEF IInv, Types, Removing, Sleeping, Stopping
<1>11. Formatting'
  BY DEF IInv, Formatting
<1>12. AskedFor'
  BY DEF IInv, AskedFor, Busy
<1>13. Serving' /\ ShortAddr'
  BY DEF IInv, Types, Serving, ShortAddr, Busy, Card
<1> QED BY <1>6, <1>7, <1>8, <1>9, <1>10, <1>11, <1>12, <1>13 DEF IInv

LEMMA FormatInv == ASSUME IInv, Format PROVE IInv'
BY StoreStartInv, StoreFormatInv, FmtStartInv, FmtAnsweredInv, FmtStoppedInv, FmtNextInv
   DEF Format

-----------------------------------------------------------------------------
(* Sleep and removal.                                                      *)

\* The power of the host, and nothing else of it, changes.
LEMMA PowerFields ==
  ASSUME NEW h \in Hosts, NEW b \in BOOLEAN
  PROVE  LET g == [h EXCEPT !.power = b]
         IN  /\ g \in Hosts /\ g.req = h.req /\ g.short = h.short /\ g.last = h.last
             /\ g.lock = h.lock /\ g.submit = h.submit /\ g.tasklet = h.tasklet
             /\ g.armed = h.armed /\ g.expired = h.expired
BY DEF Hosts

\* The queue of host->card is stopped or runs again; its thread is forgotten.
LEMMA QueueTurned ==
  ASSUME Types, NEW q \in {"run", "stopped"}, NEW t \in BOOLEAN,
         xd_card # NoCard,
         \/ xd_media' = [xd_media EXCEPT ![xd_card].f_thread = t, ![xd_card].q = q]
         \/ /\ t = xd_media[xd_card].f_thread
            /\ xd_media' = [xd_media EXCEPT ![xd_card].q = q]
  PROVE  LET r == xd_media'[xd_card]
             m == xd_media[xd_card]
         IN  /\ xd_media' \in [XdCards -> Medias]
             /\ \A d \in XdCards : d # xd_card => xd_media'[d] = xd_media[d]
             /\ r.q = q /\ r.f_thread = t
             /\ r.eject = m.eject /\ r.next = m.next /\ r.complete = m.complete
             /\ r.usage_count = m.usage_count /\ r.has_request = m.has_request
             /\ r.waiting = m.waiting
<1> DEFINE m == xd_media[xd_card]
           r == [m EXCEPT !.q = q, !.f_thread = t]
<1>1. xd_card \in XdCards /\ m \in Medias
  BY DEF Types, Places
<1>2. xd_media' = [xd_media EXCEPT ![xd_card] = r]
  <2>1. CASE xd_media' = [xd_media EXCEPT ![xd_card].f_thread = t, ![xd_card].q = q]
    <3>1. xd_media' = [xd_media EXCEPT ![xd_card] = [m EXCEPT !.f_thread = t, !.q = q]]
      BY <2>1
    <3>2. [m EXCEPT !.f_thread = t, !.q = q] = r
      <4> HIDE DEF m
      <4> QED BY <1>1 DEF Medias
    <3> QED BY <3>1, <3>2
  <2>2. CASE t = m.f_thread /\ xd_media' = [xd_media EXCEPT ![xd_card].q = q]
    <3>1. xd_media' = [xd_media EXCEPT ![xd_card] = [m EXCEPT !.q = q]]
      BY <2>2
    <3>2. [m EXCEPT !.q = q] = r
      <4> HIDE DEF m
      <4> QED BY <1>1, <2>2 DEF Medias
    <3> QED BY <3>1, <3>2
  <2> QED BY <2>1, <2>2
<1>3. /\ r \in Medias /\ r.q = q /\ r.f_thread = t
      /\ r.eject = m.eject /\ r.next = m.next /\ r.complete = m.complete
      /\ r.usage_count = m.usage_count /\ r.has_request = m.has_request
      /\ r.waiting = m.waiting
  <2> HIDE DEF m
  <2> QED BY <1>1 DEF Medias
<1> HIDE DEF r
<1> QED BY <1>1, <1>2, <1>3 DEF Types

LEMMA SuspendInv == ASSUME IInv, Suspend PROVE IInv'
<1> DEFINE c == xd_card
           to == IF xd_card # NoCard /\ xd_media[xd_card].f_thread THEN "kstop" ELSE "off"
<1>1. /\ Up /\ mutex = "free" /\ xd_life.sleep = "no" /\ xd_life.rm = "no"
      /\ xd_check.at = "idle" /\ store = "idle"
      /\ xd_media' = IF xd_card = NoCard THEN xd_media
                     ELSE [xd_media EXCEPT ![xd_card].f_thread = FALSE,
                                           ![xd_card].q = "stopped"]
      /\ xd_life' = [xd_life EXCEPT !.sleep = to]
      /\ UNCHANGED <<xd_alloc, xd_card, xd_host, xd_check, xd_del, fmt, store, mutex>>
  BY DEF Suspend, SameSleep, Free
<1>2. /\ xd_del = NoDel /\ ~Stopping /\ xd_check.new = NoCard /\ xd_check.old = NoCard
      /\ ~Fresh /\ ~Gone
  BY <1>1, NoDelFields DEF IInv, Checking, Removing, Stopping, Fresh, Gone, Idents, Inits
<1>3. /\ xd_life' \in Lives /\ xd_life'.rm = "no" /\ xd_life'.sleep \in {"kstop", "off"}
  BY <1>1 DEF IInv, Types, Lives
<1>4. CASE c = NoCard
  <2> USE <1>1, <1>2, <1>3, <1>4 DEF Stopping, Fresh, Gone, Registered
  <2>1. Types' /\ Counted' /\ CardKnown'
    BY DEF IInv, Types, Counted, CardKnown
  <2>2. Checking' /\ Removing' /\ Sleeping'
    BY DEF IInv, Checking, Removing, Sleeping
  <2>3. Formatting'
    BY DEF IInv, Formatting
  <2>4. AskedFor' /\ Serving' /\ ShortAddr'
    BY DEF IInv, AskedFor, Serving, ShortAddr, Busy, Card
  <2> QED BY <2>1, <2>2, <2>3, <2>4 DEF IInv
<1>5. CASE c # NoCard
  <2> DEFINE r == xd_media'[c]
             m == xd_media[c]
  <2>1. /\ xd_media' \in [XdCards -> Medias]
        /\ \A d \in XdCards : d # c => xd_media'[d] = xd_media[d]
        /\ r.q = "stopped"
        /\ r.eject = m.eject /\ r.next = m.next /\ r.complete = m.complete
        /\ r.usage_count = m.usage_count /\ r.has_request = m.has_request
        /\ r.waiting = m.waiting
    <3>1. /\ xd_card # NoCard /\ Types
          /\ xd_media' = [xd_media EXCEPT ![xd_card].f_thread = FALSE,
                                          ![xd_card].q = "stopped"]
      BY <1>1, <1>5 DEF IInv
    <3> QED BY <3>1, QueueTurned
  <2>2. Registered(c) /\ c \in XdCards
    BY <1>2, <1>5 DEF IInv, Types, Places, CardKnown
  <2> USE <1>1, <1>2, <1>3, <1>5, <2>1, <2>2
  <2>3. Types'
    BY DEF IInv, Types
  <2>4. Counted'
    BY DEF IInv, Types, Counted, Registered
  <2>5. CardKnown'
    BY DEF IInv, Types, CardKnown, Registered, Fresh, Gone
  <2>6. Checking'
    BY DEF IInv, Checking, Stopping, Fresh
  <2>7. Removing' /\ Sleeping'
    BY DEF IInv, Removing, Sleeping, Stopping
  <2>8. Formatting'
    BY DEF IInv, Types, Formatting, Registered, Stopping
  <2>9. AskedFor'
    BY DEF IInv, AskedFor, Busy
  <2>10. Serving' /\ ShortAddr'
    BY DEF IInv, Types, Serving, ShortAddr, Busy, Card
  <2> QED BY <2>3, <2>4, <2>5, <2>6, <2>7, <2>8, <2>9, <2>10 DEF IInv
<1> QED BY <1>4, <1>5

LEMMA SuspendKStopInv == ASSUME IInv, SuspendKStop PROVE IInv'
<1> DEFINE b == fmt.stop \/ fmt.at # "none"
<1>1. /\ xd_life.sleep = "kstop" /\ xd_life' = [xd_life EXCEPT !.sleep = "off"]
      /\ fmt' = [fmt EXCEPT !.stop = b]
      /\ UNCHANGED <<xd_alloc, xd_media, mutex, xd_card, xd_host, xd_check, xd_del, store>>
  BY DEF SuspendKStop, SameSleep
<1>2. b \in BOOLEAN
  BY DEF IInv, Types, Threads
<1> HIDE DEF b
<1>3. fmt' \in Threads /\ fmt'.at = fmt.at /\ fmt'.of = fmt.of
  BY <1>1, <1>2, ToldToStop DEF IInv
<1>4. xd_life' \in Lives /\ xd_life'.sleep = "off" /\ xd_life'.rm = xd_life.rm
  BY <1>1 DEF IInv, Types, Lives
<1> USE <1>1, <1>3, <1>4 DEF Stopping, Fresh, Gone, Registered
<1>5. Types' /\ Counted' /\ CardKnown'
  BY DEF IInv, Types, Counted, CardKnown
<1>6. Checking' /\ Removing' /\ Sleeping'
  BY DEF IInv, Checking, Removing, Sleeping
<1>7. Formatting'
  BY DEF IInv, Formatting
<1>8. AskedFor' /\ Serving' /\ ShortAddr'
  BY DEF IInv, AskedFor, Serving, ShortAddr, Busy, Card
<1> QED BY <1>5, <1>6, <1>7, <1>8 DEF IInv

LEMMA SuspendOffInv == ASSUME IInv, SuspendOff PROVE IInv'
<1>1. /\ xd_life.sleep = "off" /\ fmt.at = "none" /\ mutex = "free"
      /\ xd_life' = [xd_life EXCEPT !.sleep = "asleep"]
      /\ xd_host' = [xd_host EXCEPT !.power = FALSE]
      /\ UNCHANGED <<xd_alloc, xd_media, mutex, xd_card, xd_check, xd_del, fmt, store>>
  BY DEF SuspendOff, SameSleep, Free
<1>2. /\ xd_host' \in Hosts /\ xd_host'.req = xd_host.req /\ xd_host'.short = xd_host.short
      /\ xd_host'.last = xd_host.last /\ xd_host'.lock = xd_host.lock
      /\ xd_host'.submit = xd_host.submit /\ xd_host'.tasklet = xd_host.tasklet
      /\ xd_host'.armed = xd_host.armed /\ xd_host'.expired = xd_host.expired
  BY <1>1, PowerFields DEF IInv, Types
<1>3. xd_life' \in Lives /\ xd_life'.sleep = "asleep" /\ xd_life'.rm = xd_life.rm
  BY <1>1 DEF IInv, Types, Lives
<1> USE <1>1, <1>2, <1>3 DEF Stopping, Fresh, Gone, Registered
<1>4. Types' /\ Counted' /\ CardKnown'
  BY DEF IInv, Types, Counted, CardKnown
<1>5. Checking' /\ Removing' /\ Sleeping'
  BY DEF IInv, Checking, Removing, Sleeping
<1>6. Formatting'
  BY DEF IInv, Formatting
<1>7. AskedFor' /\ Serving' /\ ShortAddr'
  BY DEF IInv, AskedFor, Serving, ShortAddr, Busy, Card
<1> QED BY <1>4, <1>5, <1>6, <1>7 DEF IInv

LEMMA ResumeInv == ASSUME IInv, Resume PROVE IInv'
<1> DEFINE c == xd_card
<1>1. /\ xd_life.sleep = "asleep" /\ xd_life' = [xd_life EXCEPT !.sleep = "no"]
      /\ xd_check' = [xd_check EXCEPT !.queued = TRUE]
      /\ xd_host' = [xd_host EXCEPT !.power = xd_card # NoCard]
      /\ xd_media' = IF xd_card = NoCard THEN xd_media
                     ELSE [xd_media EXCEPT ![xd_card].q = "run"]
      /\ UNCHANGED <<xd_alloc, xd_card, mutex, xd_del, fmt, store>>
  BY DEF Resume, SameSleep
<1>2. /\ xd_check.at = "idle" /\ xd_del = NoDel /\ store = "idle" /\ xd_life.rm = "no"
      /\ fmt.at = "none" /\ mutex = "free"
  BY <1>1 DEF IInv, Sleeping
<1>3. /\ ~Stopping /\ xd_check.new = NoCard /\ xd_check.old = NoCard /\ ~Fresh /\ ~Gone
  BY <1>2, NoDelFields DEF IInv, Checking, Stopping, Fresh, Gone, Idents, Inits
<1>4. /\ xd_check' \in Checkers /\ xd_check'.at = "idle" /\ xd_check'.new = NoCard
      /\ xd_check'.old = NoCard
  BY <1>1, <1>2, <1>3 DEF IInv, Types, Checkers
<1>5. /\ xd_host' \in Hosts /\ xd_host'.req = xd_host.req /\ xd_host'.short = xd_host.short
      /\ xd_host'.last = xd_host.last /\ xd_host'.lock = xd_host.lock
      /\ xd_host'.submit = xd_host.submit /\ xd_host'.tasklet = xd_host.tasklet
      /\ xd_host'.armed = xd_host.armed /\ xd_host'.expired = xd_host.expired
  BY <1>1, PowerFields DEF IInv, Types
<1>6. xd_life' \in Lives /\ xd_life'.sleep = "no" /\ xd_life'.rm = "no"
  BY <1>1, <1>2 DEF IInv, Types, Lives
<1>7. CASE c = NoCard
  <2> USE <1>1, <1>2, <1>3, <1>4, <1>5, <1>6, <1>7 DEF Stopping, Fresh, Gone, Registered
  <2>1. Types' /\ Counted' /\ CardKnown'
    BY DEF IInv, Types, Counted, CardKnown
  <2>2. Checking' /\ Removing' /\ Sleeping'
    BY DEF IInv, Checking, Removing, Sleeping
  <2>3. Formatting'
    BY DEF IInv, Formatting
  <2>4. AskedFor' /\ Serving' /\ ShortAddr'
    BY DEF IInv, AskedFor, Serving, ShortAddr, Busy, Card
  <2> QED BY <2>1, <2>2, <2>3, <2>4 DEF IInv
<1>8. CASE c # NoCard
  <2> DEFINE r == xd_media'[c]
             m == xd_media[c]
  <2>1. c \in XdCards /\ Registered(c) /\ m.f_thread \in BOOLEAN
    BY <1>3, <1>8 DEF IInv, Types, Places, Medias, CardKnown
  <2>2. /\ xd_media' \in [XdCards -> Medias]
        /\ \A d \in XdCards : d # c => xd_media'[d] = xd_media[d]
        /\ r.q = "run"
        /\ r.eject = m.eject /\ r.next = m.next /\ r.complete = m.complete
        /\ r.usage_count = m.usage_count /\ r.has_request = m.has_request
        /\ r.waiting = m.waiting
    BY <1>1, <1>8, <2>1, QueueTurned DEF IInv
  <2> USE <1>1, <1>2, <1>3, <1>4, <1>5, <1>6, <1>8, <2>1, <2>2
  <2>3. Types'
    BY DEF IInv, Types
  <2>4. Counted'
    BY DEF IInv, Types, Counted, Registered
  <2>5. CardKnown'
    BY DEF IInv, Types, CardKnown, Registered, Fresh, Gone
  <2>6. Checking'
    BY DEF IInv, Checking, Stopping, Fresh
  <2>7. Removing' /\ Sleeping'
    BY DEF IInv, Removing, Sleeping, Stopping
  <2>8. Formatting'
    BY DEF IInv, Formatting
  <2>9. AskedFor'
    BY DEF IInv, AskedFor, Busy
  <2>10. Serving' /\ ShortAddr'
    BY DEF IInv, Types, Serving, ShortAddr, Busy, Card
  <2> QED BY <2>3, <2>4, <2>5, <2>6, <2>7, <2>8, <2>9, <2>10 DEF IInv
<1> QED BY <1>7, <1>8

LEMMA RemoveFlushInv == ASSUME IInv, RemoveFlush PROVE IInv'
<1>1. /\ xd_life.rm = "flush" /\ xd_life' = [xd_life EXCEPT !.rm = "del"]
      /\ xd_host.lock = "free" /\ mutex = "free" /\ xd_check.at = "idle"
      /\ ~xd_check.queued /\ mutex' = "rm"
      /\ xd_del' = IF xd_card = NoCard THEN NoDel
                   ELSE [for |-> "rm", at |-> "del", card |-> xd_card, thread |-> FALSE]
      /\ UNCHANGED <<xd_alloc, xd_card, xd_media, xd_host, xd_check, fmt, store>>
  BY DEF RemoveFlush, Removes, LockFree, Free
<1>2. xd_life' \in Lives /\ xd_life'.rm = "del" /\ xd_life'.sleep = "no"
  BY <1>1 DEF IInv, Types, Lives, Sleeping
<1>3. /\ xd_del = NoDel /\ ~Stopping /\ xd_check.new = NoCard /\ xd_check.old = NoCard
      /\ ~Fresh /\ ~Gone /\ xd_life.sleep = "no"
  BY <1>1, NoDelFields DEF IInv, Checking, Removing, Sleeping, Stopping, Fresh, Gone, Idents,
     Inits
<1>4. /\ xd_del' \in Deletes /\ xd_del'.at \notin {"kstop", "wait"}
      /\ xd_card = NoCard => xd_del' = NoDel
      /\ xd_card # NoCard => /\ xd_del' # NoDel /\ xd_del'.for = "rm" /\ xd_del'.at = "del"
                             /\ xd_del'.card = xd_card
  BY <1>1 DEF IInv, Types, Places, Deletes, NoDel
<1>5. ~Stopping' /\ ~Fresh' /\ (xd_card # NoCard => ~Gone')
  BY <1>1, <1>3, <1>4 DEF Stopping, Fresh, Gone
<1> USE <1>1, <1>2, <1>3, <1>4, <1>5
<1>6. Types' /\ Counted'
  BY DEF IInv, Types, Counted
<1>7. CardKnown'
  BY DEF IInv, CardKnown, Registered
<1>8. Checking' /\ Removing' /\ Sleeping'
  BY DEF IInv, Checking, Removing, Sleeping
<1>9. Formatting'
  BY DEF IInv, Formatting, Registered
<1>10. AskedFor'
  BY DEF IInv, AskedFor, Busy
<1>11. Serving' /\ ShortAddr'
  BY DEF IInv, Serving, ShortAddr, Busy, Card
<1> QED BY <1>6, <1>7, <1>8, <1>9, <1>10, <1>11 DEF IInv

LEMMA RemoveGoneInv == ASSUME IInv, RemoveGone PROVE IInv'
<1>1. /\ xd_life.rm = "del" /\ xd_life' = [xd_life EXCEPT !.rm = "gone"]
      /\ xd_del = NoDel /\ xd_card' = NoCard /\ mutex' = "free"
      /\ UNCHANGED <<xd_alloc, xd_media, xd_host, xd_check, xd_del, fmt, store>>
  BY DEF RemoveGone, Removes
<1>2. xd_life' \in Lives /\ xd_life'.rm = "gone" /\ xd_life'.sleep = "no"
  BY <1>1 DEF IInv, Types, Lives, Sleeping
<1>3. /\ ~Stopping /\ ~Stopping' /\ mutex = "rm" /\ xd_check.at = "idle" /\ ~xd_check.queued
      /\ xd_check.new = NoCard /\ xd_check.old = NoCard /\ Gone
      /\ ~Fresh' /\ store # "stop"
  BY <1>1, NoDelFields DEF IInv, Checking, Removing, Formatting, Stopping, Fresh, Gone,
     Idents, Inits
<1>4. xd_host.req = NoCard /\ xd_host.lock = "free"
  BY <1>1 DEF IInv, Serving
<1>5. \A c \in xd_alloc : xd_media[c].q = "off"
  BY <1>3, XdAssumption DEF IInv, Types, CardKnown
<1>6. fmt.at = "none"
  BY <1>5 DEF IInv, Formatting, Registered
<1>7. \A c \in XdCards : Busy(c) => xd_media[c].has_request /\ xd_media[c].next[1] = "init"
                                    /\ xd_media[c].next[2] \in Named
  BY <1>1, <1>3, <1>4, XdAssumption DEF IInv, AskedFor
<1> USE <1>1, <1>2, <1>3, <1>4, <1>5, <1>6, <1>7
<1>8. Types' /\ Counted'
  BY DEF IInv, Types, Places, Counted
<1>9. CardKnown'
  BY DEF CardKnown
<1>10. Checking' /\ Removing' /\ Sleeping'
  BY DEF IInv, Checking, Removing, Sleeping, Idents
<1>11. Formatting'
  BY DEF IInv, Formatting
<1>12. AskedFor'
  BY DEF IInv, AskedFor, Busy
<1>13. Serving' /\ ShortAddr'
  BY DEF IInv, Serving, ShortAddr
<1> QED BY <1>8, <1>9, <1>10, <1>11, <1>12, <1>13 DEF IInv

-----------------------------------------------------------------------------
(* The whole.                                                              *)

\* Every step keeps the invariant.
LEMMA StepInv == ASSUME IInv, XdNext \/ UNCHANGED xdVars PROVE IInv'
<1>1. CASE UNCHANGED xdVars
  <2> USE <1>1 DEF xdVars, Stopping, Fresh, Gone, Registered, Busy, Card
  <2>1. Types' /\ Counted' /\ CardKnown'
    BY DEF IInv, Types, Counted, CardKnown
  <2>2. Checking' /\ Removing' /\ Sleeping'
    BY DEF IInv, Checking, Removing, Sleeping
  <2>3. Formatting' /\ AskedFor' /\ Serving' /\ ShortAddr'
    BY DEF IInv, Formatting, AskedFor, Serving, ShortAddr
  <2> QED BY <2>1, <2>2, <2>3 DEF IInv
<1>2. CASE Sleep
  BY <1>2, SuspendInv, SuspendKStopInv, SuspendOffInv, ResumeInv DEF Sleep
<1>3. CASE Host
  BY <1>3, FailInv, QuietInv DEF Host
<1>4. CASE Remove
  BY <1>4, FailInv, QuietInv, RemoveFlushInv, RemoveGoneInv DEF Remove
<1> QED BY <1>1, <1>2, <1>3, <1>4, HandlerInv, QueueInv, CheckInv, DeleteInv, FormatInv
        DEF XdNext

\* The invariant holds always.
LEMMA XdInductive == XdSpec => []IInv
BY InitInv, StepInv, PTL DEF XdSpec

\* What the runs check follows from it.
LEMMA AliveFacts == ASSUME IInv PROVE XdAlive
<1>1. /\ xd_host \in Hosts /\ xd_check \in Checkers /\ xd_del \in Deletes /\ fmt \in Threads
      /\ xd_card \in Places /\ xd_alloc \subseteq XdCards
      /\ mutex \in {"free", "check", "fmt", "store", "rm"}
      /\ \A c \in XdCards : xd_media[c] \in Medias
  BY DEF IInv, Types
<1>2. {xd_card, xd_host.req, xd_check.new, xd_check.old, xd_del.card, fmt.of}
        \subseteq XdCards \cup {NoCard}
  BY <1>1, NoDelFields DEF Hosts, Checkers, Threads, Places
<1>3. /\ xd_host.retries \in 0 .. (IF XdRetries > 1 THEN XdRetries ELSE 1)
      /\ xd_host.lock \in {"free", "next", "issue"}
  BY <1>1 DEF Hosts, Tries
<1>4. \A c \in XdCards : /\ xd_media[c].q \in {"off", "run", "stopped"}
                         /\ xd_media[c].usage_count \in Nat
                         /\ xd_media[c].left \in 0 .. MaxCmds
  BY <1>1 DEF Medias
<1>5. XdTypeOK
  BY <1>1, <1>2, <1>3, <1>4 DEF XdTypeOK
<1>6. xd_host.req \in xd_alloc \cup {NoCard}
  BY ReqAllocated
<1>7. ASSUME xd_host.lock = "next" PROVE xd_card \in xd_alloc \cup {NoCard} \/ Forgotten
  <2>1. Gone => Forgotten
    BY <1>7 DEF Gone, Forgotten, IInv, Serving
  <2> QED BY <2>1 DEF IInv, CardKnown, Checking, Registered
<1>10. Forgotten => xd_host.req = NoCard
  <2> SUFFICES ASSUME Forgotten, xd_host.req # NoCard PROVE FALSE
    OBVIOUS
  <2>1. xd_card # NoCard /\ xd_card \in XdCards /\ Busy(xd_card) /\ xd_check.at = "settle"
    BY <1>1 DEF Forgotten, IInv, Serving, Places, Hosts
  <2>2. ~Stopping /\ xd_media[xd_card].q = "off"
    BY <2>1, NoDelFields DEF Forgotten, Stopping, Gone, IInv, CardKnown
  <2>3. ~xd_media[xd_card].has_request
    BY <2>1 DEF IInv, AskedFor
  <2>4. mutex = "check"
    BY <2>1, <2>2 DEF IInv, Checking
  <2> QED BY <2>1, <2>3, <2>4 DEF IInv, AskedFor, Asking, Idents
<1>11. {xd_check.new, xd_check.old, xd_del.card} \subseteq xd_alloc \cup {NoCard}
  <2>1. xd_check.new \in xd_alloc \cup {NoCard} /\ xd_check.old \in xd_alloc \cup {NoCard}
    BY DEF IInv, Checking, Registered
  <2>2. CASE xd_del # NoDel
    <3>1. ~Gone /\ ~Fresh /\ xd_card = xd_del.card
      BY <2>2 DEF Gone, Fresh, Idents, Inits, IInv, Removing
    <3> QED BY <2>1, <3>1 DEF IInv, CardKnown, Registered
  <2>3. CASE xd_del = NoDel
    BY <2>1, <2>3, NoDelFields
  <2> QED BY <2>2, <2>3
<1>12. xd_check.at \notin {"idle", "settle"} => xd_card \in xd_alloc \cup {NoCard}
  <2> SUFFICES ASSUME xd_check.at \notin {"idle", "settle"}
               PROVE  xd_card \in xd_alloc \cup {NoCard}
    OBVIOUS
  <2>1. ~Gone
    BY DEF Gone, IInv, Removing
  <2> QED BY <2>1 DEF IInv, CardKnown, Checking, Registered
<1>13. Up /\ store = "stop" => xd_card \in xd_alloc
  <2> SUFFICES ASSUME Up, store = "stop" PROVE xd_card \in xd_alloc
    OBVIOUS
  <2>1. mutex = "store" /\ xd_card # NoCard
    BY DEF IInv, Formatting
  <2>2. ~Gone
    BY <2>1, NoDelFields DEF Up, Gone, IInv, Checking, Removing, Stopping
  <2> QED BY <2>1, <2>2 DEF IInv, CardKnown, Checking, Registered
<1>8. fmt.at # "none" => fmt.of \in xd_alloc
  BY DEF IInv, Formatting, Registered
<1>9. mutex = "fmt" => xd_card = fmt.of
  <2>1. ASSUME mutex = "fmt" PROVE xd_card = fmt.of
    <3>1. fmt.at # "none" /\ xd_life.sleep # "asleep"
      BY <2>1 DEF IInv, Formatting, Sleeping
    <3>2. CASE xd_life.rm = "gone"
      <4>1. xd_del = NoDel /\ xd_check.at = "idle" /\ xd_card \in {NoCard} \cup XdCards
        BY <3>2, NoDelFields DEF IInv, Types, Places, Removing
      <4>2. Gone /\ xd_check.old = NoCard
        BY <3>2, <4>1 DEF IInv, Gone, Checking, Idents
      <4>3. fmt.of \in xd_alloc /\ fmt.of = xd_card /\ xd_media[fmt.of].q # "off"
        BY <3>1, <4>2, XdAssumption DEF IInv, Types, Formatting, Registered, CardKnown
      <4> QED BY <4>3
    <3>3. CASE xd_life.rm # "gone"
      BY <2>1, <3>1, <3>3, ThreadsCard DEF Up
    <3> QED BY <3>2, <3>3
  <2> QED BY <2>1
<1> QED BY <1>5, <1>6, <1>7, <1>8, <1>9, <1>10, <1>11, <1>12, <1>13 DEF XdAlive, XdUsersLive

LEMMA OneAtATimeFacts == ASSUME IInv PROVE XdOneAtATime
<1>1. XdOneAsks
  <2> SUFFICES ASSUME Up, NEW c \in xd_alloc, xd_media[c].has_request
               PROVE  /\ xd_card = c /\ mutex # "fmt"
                      /\ mutex = "check" => xd_check.at \in {"stop", "settle"}
    BY DEF XdOneAsks
  <2>1. c \in XdCards /\ xd_life.rm # "gone"
    BY DEF IInv, Types, Up
  <2>2. Busy(c) /\ xd_check.at \in {"idle", "stop"} /\ xd_card = c
    BY <2>1 DEF IInv, AskedFor
  <2>3. mutex # "fmt"
    <3>1. mutex = "fmt" => fmt.at # "none"
      BY DEF IInv, Formatting
    <3> QED BY <2>2, <3>1, ThreadsCard
  <2>4. mutex = "check" => xd_check.at = "stop"
    BY <2>2 DEF IInv, Checking
  <2> QED BY <2>2, <2>3, <2>4
<1>2. XdAddrSize
  BY DEF IInv, ShortAddr, XdAddrSize, Up
<1> QED BY <1>1, <1>2 DEF XdOneAtATime

\* jmb38x_xd.c, xd_card_blk.c: whoever uses a card uses one that is allocated.  The host's
\* request, the cards of the check, of the removal, of the format thread and its file have
\* not been freed, whatever is inserted, removed, put to sleep and given up meanwhile, and
\* neither has host->card when xd_card_next_req() looks at it, but for the moment Forgotten
\* between the end of xd_card_remove_media() and the assignment after it, when a tasklet
\* that is still pending may; and the state is of its type.
THEOREM XdUsersAlive == XdSpec => []XdAlive
BY XdInductive, AliveFacts, PTL

\* xd_card_blk.c: while a block request is on its way, neither the check nor the format
\* thread asks the same card, and the short address is the address of an erase.
THEOREM XdOneAsker == XdSpec => []XdOneAtATime
BY XdInductive, OneAtATimeFacts, PTL
=============================================================================
