------------------------------- MODULE MCCards -------------------------------
(* Components that share no state, on small instances: each run is one of them, *)
(* chosen in the initial state, while the others stay where they began.         *)
EXTENDS RandPebAlloc, CardsParts, TLC

CONSTANTS SdRequests, BlkSz, DmaTSize, FifoSize, MaxSdRequests, MaxSdFaults,
          LateTasklet

VARIABLES
  part,
  sd_req, sd_err, cmd_flags, place, dma, words, no_dma, clk, soft, chip, hidden, sd_used,
  in_socket, pend, ev, ev_mask, irq_on, powering, reg, sockets, change_set, finish_me, eject,
  isr, queued, work, pm, done, rm, ejecting, ti_used,
  chip_ms, dir, asked, pieces, mem, io_word, fifo, line, phase, regs,
  bk_caps, drv, bk_req, bk_chip, bk_used

Clocks == {0, 400000, 6666666, 7000000, 24000000, 25000000}

Sd == INSTANCE TifmSd

\* Two sockets on a shared line, and what happens when the machine sleeps twice.
Ti == INSTANCE Tifm7xx1
        WITH card <- in_socket, used <- ti_used, Sockets <- {0, 1}, Types <- {"ms"},
             NONE <- INVALID, MaxChanges <- 0, MaxEjects <- 0, MaxSleeps <- 2, MaxEvents <- 1,
             SharedLine <- TRUE, RegisterFails <- TRUE, CanRemove <- FALSE,
             ChangeOnResume <- TRUE, SlowPowerUp <- TRUE, EjectOnRemove <- FALSE

\* Pages of three bytes; the identified cards are read-only or not, empty or odd.
Entries(list) == [i \in DOMAIN list |-> [id |-> list[i][1], addr |-> list[i][2], size |-> list[i][3]]]
SomeMedia ==
  {[sys |-> "a", signed |-> TRUE, ro |-> FALSE,
    attrs |-> Entries(<<<<"sysinfo", 2, 3>>, <<"devinfo", 5, 4>>>>)],
   [sys |-> "b", signed |-> TRUE, ro |-> TRUE,
    attrs |-> Entries(<<<<"devinfo", 5, 2>>, <<"sysinfo", 4, 2>>, <<"other", 0, 3>>>>)],
   [sys |-> "a", signed |-> TRUE, ro |-> FALSE,
    attrs |-> Entries(<<<<"sysinfo", 2, 3>>, <<"devinfo", 0, 0>>>>)],
   [sys |-> "a", signed |-> FALSE, ro |-> FALSE, attrs |-> <<>>]}

\* Pieces of whole words or not, a FIFO of two words.
Ff == INSTANCE MsFifo
        WITH chip <- chip_ms, Depth <- 2, WordInBetween <- FALSE,
             Requests <- {<<8>>, <<4, 5>>, <<2, 6>>, <<9>>, <<3>>, <<12>>, <<2, 2, 8>>, <<4, 6>>}

\* Blocks of three pages; one, two or all of them are read, each way there is, or erased.
Erases == {[cmd |-> c, data |-> FALSE, oob |-> FALSE, first |-> 0, pages |-> 1] :
             c \in {"erase", "other"}}
Reads  == {[cmd |-> "read", data |-> w[1], oob |-> w[2], first |-> p[1], pages |-> p[2]] :
             w \in (BOOLEAN \X BOOLEAN) \ {<<FALSE, FALSE>>},
             p \in {<<2, 1>>, <<1, 2>>, <<0, 2>>, <<0, 3>>}}
Bk == INSTANCE MsBlock
        WITH caps <- bk_caps, req <- bk_req, chip <- bk_chip, used <- bk_used,
             PageCnt <- 3, BREQ_RETRIES <- 1, Requests <- Erases \cup Reads,
             SlowPages <- FALSE, HalfDone <- FALSE,
             MaxRequests <- 2, MaxErrors <- 1, MaxWaits <- 2

TwoZones   == {0, 1}
SomeShapes == {<<1>>, <<2, 1>>, <<1, 2>>}
SdAsks ==
  {[dir |-> "none", sg |-> <<>>, stop |-> FALSE]} \cup
  {[dir |-> d, sg |-> IF s = (d = "read") THEN <<3, 3>> ELSE <<1, 7>>, stop |-> s] :
     d \in {"read", "write"}, s \in BOOLEAN}

\* The divided clock, as the driver calculates it, is no faster than asked for.
ASSUME ClockNotFaster ==
  \A freq \in {20000000, 24000000}, want \in Clocks \ {0} :
    freq \div Sd!Divider(freq, want) <= want

\* What the proofs assume of the requests and of the cards.
ASSUME ShapesAreSegments == Pro!ShapesAssumption
ASSUME MediaAreCards     == Ini!MediaAssumption

proVars == <<queue, has_request, block_req, handler, mrq, at, pos, auto_int, card, false_ok,
             mrq_complete, used>>
sdVars  == <<sd_req, sd_err, cmd_flags, place, dma, words, no_dma, clk, soft, chip, hidden,
             sd_used>>
tiVars  == <<in_socket, pend, ev, ev_mask, irq_on, powering, reg, sockets, change_set,
             finish_me, eject, isr, queued, work, pm, done, rm, ejecting, ti_used>>
iniVars == <<stage, caller, medium, state, system, host_if, card_if, caps, attrs, buffer, disk,
             read_only, active, usage_count, openers, refused, freed, transfers, errors, opens,
             sleeps>>
fifoVars == <<chip_ms, dir, asked, pieces, mem, io_word, fifo, line, phase, regs>>
jmbVars  == <<jm_at, why, host_cnt, cnt, jm_held, pins, mode, delay, seen, asleep, sets>>
bkVars   == <<bk_caps, drv, bk_req, bk_chip, bk_used>>
hostVars == <<fifoVars, jmbVars, bkVars>>
allVars == <<part, vars, proVars, sdVars, tiVars, iniVars, hostVars>>

CardsInit ==
  /\ part \in {"alloc", "mspro", "sd", "sleep", "ident", "fifo", "slots", "blocks"}
  /\ Init /\ Pro!Init /\ Sd!Init /\ Ti!Init /\ Ini!Init /\ Ff!Init /\ Jm!Init
  /\ Bk!Init
  /\ part # "alloc" => dirty = {}
  /\ part # "mspro" => ~auto_int
  /\ part # "sd" => ~no_dma
  /\ part # "sleep" => pend = {}
  /\ part # "ident" => ~medium.signed
  /\ part # "blocks" => bk_caps = {}
  /\ part # "fifo" => chip_ms = "tifm_ms" /\ dir = "read" /\ asked = <<8>>

AllocStep ==
  part = "alloc" /\ Next /\ UNCHANGED <<part, proVars, sdVars, tiVars, iniVars, hostVars>>
ProStep ==
  part = "mspro" /\ Pro!Next /\ UNCHANGED <<part, vars, sdVars, tiVars, iniVars, hostVars>>
SdStep ==
  part = "sd" /\ Sd!Next /\ UNCHANGED <<part, vars, proVars, tiVars, iniVars, hostVars>>
\* Each good socket has been heard of when the wait of resume ends.
TiStep ==
  /\ part = "sleep" /\ Ti!Next /\ Ti!PowerUpsSeen'
  /\ UNCHANGED <<part, vars, proVars, sdVars, iniVars, hostVars>>
IniStep ==
  part = "ident" /\ Ini!Next /\ UNCHANGED <<part, vars, proVars, sdVars, tiVars, hostVars>>
FifoStep ==
  /\ part = "fifo" /\ Ff!Next
  /\ UNCHANGED <<part, vars, proVars, sdVars, tiVars, iniVars, jmbVars, bkVars>>
JmbStep ==
  /\ part = "slots" /\ Jm!Next
  /\ UNCHANGED <<part, vars, proVars, sdVars, tiVars, iniVars, fifoVars, bkVars>>
BlockStep ==
  /\ part = "blocks" /\ Bk!Next
  /\ UNCHANGED <<part, vars, proVars, sdVars, tiVars, iniVars, fifoVars, jmbVars>>

CardsNext == AllocStep \/ ProStep \/ SdStep \/ TiStep \/ IniStep \/ FifoStep \/ JmbStep
             \/ BlockStep

\* What is fair of a component is not enabled where it begins.
CardsSpec == CardsInit /\ [][CardsNext]_allVars /\ Pro!Fairness /\ Sd!Fairness

\* What each of the smaller parts promises. tifm_sd.c: the DMA or the FIFO is where the
\* segments say, up to the end, what is ended as good has been answered and moved, and the
\* timer, which ejects the card, is not needed if the card answers. tifm_ms.c,
\* jmb38x_ms.c: what the processor moves arrives in its order; the slots of jmb38x_ms hold
\* what they need and give it back, and their clock delays do not mix. ms_block.c: the
\* pages read are those asked for, by a bounded number of commands, and an error is told.
\* mspro_block.c: the identification of a card does not stop halfway.
PartsRight == /\ Sd!TypeOK /\ Sd!DataInPlace /\ Sd!GoodIsMoved /\ Sd!TimerNotNeeded
              /\ Ff!BytesInOrder /\ Jm!AdapterRight /\ Bk!BlocksRead /\ Ini!GoesOn

\* tifm_7xx1_resume(): a card that stays in its socket keeps its device, if the wait ends
\* after the power-ups of all cards that are waited for.
KeepsDevice == Ti!KeepsDevice

\* Every request ends, of mspro_block and of tifm_sd, whether or not its commands fail and
\* the card reports errors: if a card of mspro_block is not busy for ever.  That is assumed
\* of the card (MaxBusy): its driver asks again without limit as long as neither BREQ nor
\* CED is set (mspro_block.c:564-565, 623-626), and no timer of the host sees it, for each
\* of the questions is answered.
EveryRequestEnds == Pro!RequestEnds /\ Sd!RequestEnds
=============================================================================
