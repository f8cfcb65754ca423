------------------------------- MODULE TifmSd -------------------------------
(***************************************************************************)
(* driver/tifm_sd.c: the SD host of the TI adapter.                        *)
(*                                                                         *)
(* A request is a command, with or without data, and for some data a stop  *)
(* command after them.  The controller latches what happens in a status    *)
(* register; the interrupt handler reads it, acknowledges all it has read, *)
(* and after each event tifm_sd_check_status() decides what is due: wait,  *)
(* send the stop command, or let the tasklet end the request.  Data go by  *)
(* DMA, a run of whole blocks at a time, with a bounce buffer for a block  *)
(* that lies in two segments; or through a FIFO of 16-bit words, with one  *)
(* byte carried over when a segment has an odd length.                     *)
(*                                                                         *)
(* The controller and the card are external: they answer or fall silent,   *)
(* and may report in one status what the handler takes for two events.     *)
(***************************************************************************)
EXTENDS Integers, SequencesExt

CONSTANTS SdRequests,   \* requests: data direction, segment lengths in bytes, stop
          BlkSz,        \* r_data->blksz
          DmaTSize,     \* TIFM_DMA_TSIZE: blocks of one DMA
          FifoSize,     \* bytes of the FIFO, twice TIFM_MMCSD_FIFO_SIZE
          Clocks,       \* clock rates the MMC core asks for
          MaxSdRequests,\* bound on the number of requests
          MaxSdFaults,  \* bound on errors, silences and failed mappings
          LateTasklet   \* the tasklet may be scheduled again before it has the lock

VARIABLES
  sd_req,     \* host->req
  sd_err,     \* error of the command, of its data, of the stop command
  cmd_flags,
  place,      \* sg_pos (from 1), block_pos
  dma,        \* what DMA is set to: first byte of the data and blocks, <<>> if nothing
  words,      \* FIFO words read or written by the host
  no_dma,
  clk,        \* clk_freq, clk_div, and the clock they were set for
  soft,       \* finish_tasklet, timer, eject, and how far the host's removal is
  chip,       \* the controller and the card
  hidden,     \* an answer was acknowledged without being looked at
  sd_used

sd_vars == <<sd_req, sd_err, cmd_flags, place, dma, words, no_dma, clk, soft, chip,
             hidden, sd_used>>

None    == [dir |-> "gone", sg |-> <<>>, stop |-> FALSE]
NoError == [cmd |-> FALSE, data |-> FALSE, stop |-> FALSE]
Quiet   == [cmd |-> "none", phase |-> "no", wire |-> 0, fifo |-> 0, busy |-> "no",
            silent |-> FALSE, status |-> {}, fifo_ready |-> FALSE, eofb |-> FALSE]

\* tifm_sd_probe() has succeeded.
Init ==
  /\ sd_req = None /\ sd_err = NoError /\ cmd_flags = {}
  /\ place = [seg |-> 1, pos |-> 0] /\ dma = <<>> /\ words = 0 /\ no_dma \in BOOLEAN
  /\ clk = [freq |-> 20000000, div |-> 61, want |-> 0]
  /\ soft = [tasklet |-> FALSE, runs |-> FALSE, armed |-> FALSE, expired |-> FALSE,
             eject |-> FALSE, life |-> "on"]
  /\ chip = Quiet /\ hidden = FALSE /\ sd_used = [requests |-> 0, faults |-> 0]

HasData(r) == r.dir \in {"read", "write"}
Total(sg)   == FoldSeq(+, 0, sg)
Lin(sg, p)  == Total(SubSeq(sg, 1, p.seg - 1)) + p.pos     \* bytes before a place
AtEnd(sg, p) == p.seg > Len(sg)
End(sg)     == [seg |-> Len(sg) + 1, pos |-> 0]

-----------------------------------------------------------------------------
(* Data.                                                                   *)

\* Where the loops of tifm_sd_bounce_block() and tifm_sd_transfer_data() stop after n
\* bytes: a segment that is used up is left only when more is wanted.
Forward(sg, p, n) ==
  IF n = 0 THEN p
  ELSE IF Lin(sg, p) + n > Total(sg) THEN End(sg)
  ELSE CHOOSE q \in {[seg |-> i, pos |-> k] : i \in DOMAIN sg, k \in 1 .. Total(sg)} :
         q.pos <= sg[q.seg] /\ Lin(sg, q) = Lin(sg, p) + n

\* A segment that is used up is left for the next one.
SkipSegment(sg, p) == IF p.pos = sg[p.seg] THEN [seg |-> p.seg + 1, pos |-> 0] ELSE p

\* Mutant: the block in the bounce buffer is not copied to its place.
UnbounceNot(sg, p, carry) == p

\* The block carried over in the bounce buffer is copied to its place.
Unbounce(sg, p, carry) == IF carry /\ ~AtEnd(sg, p) THEN Forward(sg, p, BlkSz) ELSE p

\* tifm_sd_set_dma_data() begins: the place it goes on from, which may be the end.
DmaPlace(sg, place0, carry) ==
  CHOOSE s \in {IF AtEnd(sg, q) THEN q ELSE SkipSegment(sg, q) :
                  q \in {Unbounce(sg, place0, carry)}} : TRUE

\* ... and goes on from there: where it leaves off, what it sets the DMA to, whether a
\* block is read into the bounce buffer, and whether there was nothing left.
SetDmaData(r, s) ==
  LET len   == r.sg[s.seg] - s.pos
      blks  == IF len < DmaTSize * BlkSz THEN len \div BlkSz ELSE DmaTSize
      to(n) == <<[from |-> Lin(r.sg, s), bytes |-> n * BlkSz]>>
  IN  IF AtEnd(r.sg, s)
      THEN [place |-> s, dma |-> <<>>, carry |-> FALSE, done |-> TRUE]
      ELSE IF blks > 0
      THEN [place |-> [s EXCEPT !.pos = @ + blks * BlkSz], dma |-> to(blks),
            carry |-> FALSE, done |-> FALSE]
      ELSE [place |-> IF r.dir = "write" THEN Forward(r.sg, s, BlkSz) ELSE s,
            dma |-> to(1), carry |-> r.dir = "read", done |-> FALSE]

\* tifm_sd_transfer_data(), _read_fifo(), _write_fifo(): at most FifoSize bytes move.
\* A word has two bytes; the odd one is carried, and at the end of what is written it
\* is sent alone.
TransferData(p, carry) ==
  LET sg    == sd_req.sg
      read  == sd_req.dir = "read"
      left  == Total(sg) - Lin(sg, p)
      bytes == IF left < FifoSize THEN left ELSE FifoSize
      c     == IF carry THEN 1 ELSE 0
      rest  == IF read THEN (bytes - c) % 2 ELSE (bytes + c) % 2
      full  == IF read THEN (bytes - c + rest) \div 2 ELSE (bytes + c - rest) \div 2
      last  == left < FifoSize
  IN  IF AtEnd(sg, p) THEN [place |-> p, words |-> 0, carry |-> carry]
      ELSE [place |-> Forward(sg, p, IF last THEN left + 1 ELSE FifoSize),
            words |-> IF ~read /\ last THEN full + rest ELSE full, carry |-> rest = 1]

-----------------------------------------------------------------------------
(* tifm_sd_request()                                                       *)

Start == [seg |-> 1, pos |-> 0]
CanAsk == soft.life # "gone" /\ sd_req = None /\ sd_used.requests < MaxSdRequests

\* The host is ejected, or the data cannot be mapped for DMA.
RequestFails ==
  /\ CanAsk /\ sd_used' = [sd_used EXCEPT !.requests = @ + 1]
  /\ \/ soft.eject /\ UNCHANGED <<cmd_flags, place>>
     \/ ~soft.eject /\ ~no_dma /\ cmd_flags' = {} /\ place' = Start
  /\ UNCHANGED <<sd_req, sd_err, dma, words, no_dma, clk, soft, chip, hidden>>

Request ==
  /\ CanAsk /\ ~soft.eject
  /\ sd_used' = [sd_used EXCEPT !.requests = @ + 1]
  /\ \E r \in SdRequests :
       \E first \in {IF HasData(r) /\ ~no_dma THEN SetDmaData(r, DmaPlace(r.sg, Start, FALSE))
                    ELSE [place |-> Start, dma |-> <<>>, carry |-> FALSE, done |-> FALSE]} :
          /\ sd_req' = r /\ place' = first.place /\ dma' = first.dma
          /\ cmd_flags' = IF first.carry THEN {"DATA_CARRY"} ELSE {}
          /\ chip' = [chip EXCEPT !.cmd = "cmd", !.phase = "no", !.wire = 0, !.fifo = 0,
                                  !.silent = FALSE,
                                  !.eofb = @ \/ (r.dir = "write" /\ ~r.stop)]
  /\ sd_err' = NoError /\ words' = 0 /\ hidden' = FALSE
  /\ soft' = [soft EXCEPT !.armed = TRUE]
  /\ UNCHANGED <<no_dma, clk>>

-----------------------------------------------------------------------------
(* Events.                                                                 *)

Has(flag, f) == flag \in f
Add(flag, when, f) == IF when THEN f \cup {flag} ELSE f \ {flag}

\* Are the data over, as far as the host can tell?
DataOver(f) == Has("BRS_READY", f) /\ (no_dma \/ Has("FIFO_READY", f))

\* Mutant: the end of the DMA is not waited for.
DueWithoutFifo(f, e) ==
  IF e.cmd \/ (Has("CMD_READY", f) /\ ~HasData(sd_req)) THEN "finish"
  ELSE IF Has("CMD_READY", f) /\ e.data /\ ~(Has("SCMD_ACTIVE", f) /\ ~Has("SCMD_READY", f))
       THEN "finish"
  ELSE IF ~Has("CMD_READY", f) \/ e.data \/ ~Has("BRS_READY", f) THEN "wait"
  ELSE IF sd_req.stop /\ ~Has("SCMD_ACTIVE", f) THEN "stop"
  ELSE IF sd_req.stop /\ ~Has("SCMD_READY", f) THEN "wait"
  ELSE IF sd_req.dir = "write" /\ Has("CARD_BUSY", f) THEN "wait"
  ELSE "finish"

\* tifm_sd_check_status(): what is due.
Due(f, e) ==
  IF e.cmd \/ (Has("CMD_READY", f) /\ ~HasData(sd_req)) THEN "finish"
  ELSE IF Has("CMD_READY", f) /\ e.data /\ ~(Has("SCMD_ACTIVE", f) /\ ~Has("SCMD_READY", f))
       THEN "finish"
  ELSE IF ~Has("CMD_READY", f) \/ e.data \/ ~DataOver(f) THEN "wait"
  ELSE IF sd_req.stop /\ ~Has("SCMD_ACTIVE", f) THEN "stop"
  ELSE IF sd_req.stop /\ ~Has("SCMD_READY", f) THEN "wait"
  ELSE IF sd_req.dir = "write" /\ Has("CARD_BUSY", f) THEN "wait"
  ELSE "finish"

\* ... and what it does.  c is the controller after the event, ack the status that is
\* acknowledged when the handler ends: a card that has answered the stop command by
\* then may lose that answer.  A write waits for EOFB, the end of the card's busy time.
CheckStatus(f, e, c, ack, missed) ==
  \E due \in {Due(f, e)}, lost \in {FALSE, TRUE} :
    /\ lost => due = "stop" /\ "EOC" \in ack
    /\ cmd_flags' = IF due = "stop" THEN f \cup {"SCMD_ACTIVE"} ELSE f
    /\ soft' = [soft EXCEPT !.tasklet = @ \/ due = "finish"]
    /\ hidden' = (hidden \/ lost \/ missed)
    /\ chip' = [c EXCEPT
         !.eofb = IF sd_req.dir = "write" /\ due = "stop" THEN TRUE
                  ELSE @ /\ (sd_req.dir = "write" /\ due = "finish" => e.cmd \/ e.data),
         !.cmd = IF lost THEN "none" ELSE IF due = "stop" THEN "stop" ELSE @]

\* The tasklet keeps the lock, but not from the moment it is started.
IrqOn == soft.life \in {"on", "eject"} /\ (soft.runs => LateTasklet)

\* tifm_sd_data_event()
DataEvent ==
  /\ IrqOn /\ chip.fifo_ready
  /\ \E c \in {[chip EXCEPT !.fifo_ready = FALSE]} :
       \/ ~HasData(sd_req) /\ chip' = c /\ UNCHANGED <<place, dma, cmd_flags, soft, hidden>>
       \/ /\ HasData(sd_req)
          /\ \E s \in {DmaPlace(sd_req.sg, place, Has("DATA_CARRY", cmd_flags))} :
             \E r \in {SetDmaData(sd_req, s)} : \E f \in {Add("DATA_CARRY", r.carry, cmd_flags)} :
               /\ place' = r.place /\ dma' = r.dma
               /\ \/ /\ r.done
                     /\ \E g \in {f \cup {"FIFO_READY"}} : CheckStatus(g, sd_err, c, {}, FALSE)
                  \/ ~r.done /\ cmd_flags' = f /\ chip' = c /\ UNCHANGED <<soft, hidden>>
  /\ UNCHANGED <<sd_req, sd_err, words, no_dma, clk, sd_used>>

Enabled == {"EOC", "BRS", "CTO", "DTO", "AE", "AF"} \cup IF chip.eofb THEN {"EOFB"} ELSE {}
Raised  == IrqOn /\ chip.status \cap Enabled # {}

\* tifm_sd_card_event() when there is no request
StrayEvent ==
  /\ Raised /\ sd_req = None /\ chip' = [chip EXCEPT !.status = {}]
  /\ UNCHANGED <<sd_req, sd_err, cmd_flags, place, dma, words, no_dma, clk, soft, hidden,
                 sd_used>>

\* tifm_sd_card_event(), the data that go through the FIFO, the busy bits, the end.
EventRest(f, e, error, skip, missed) ==
  \E pio \in {~skip /\ no_dma /\ HasData(sd_req) /\ {"AE", "AF", "BRS"} \cap chip.status # {}} :
  \E r \in {IF pio THEN TransferData(place, Has("DATA_CARRY", f))
            ELSE [place |-> place, words |-> 0, carry |-> Has("DATA_CARRY", f)]} :
  \E g \in {Add("DATA_CARRY", r.carry, f)} :
  \E busy \in {IF skip THEN Has("CARD_BUSY", g)
               ELSE "EOFB" \notin chip.status /\ ("CB" \in chip.status \/ Has("CARD_BUSY", g))} :
  \E h \in {Add("CARD_BUSY", busy, g)},
     c \in {[chip EXCEPT !.status = {}, !.fifo_ready = @ /\ ~error,
               !.fifo = IF sd_req.dir = "read" THEN @ - 2 * r.words ELSE @ + 2 * r.words]} :
      /\ place' = r.place /\ words' = words + r.words
      /\ dma' = IF error THEN <<>> ELSE dma
      /\ CheckStatus(h, e, c, chip.status, missed)

\* tifm_sd_card_event() without an error
CardEvent ==
  /\ Raised /\ sd_req # None /\ {"CTO", "DTO"} \cap chip.status = {}
  /\ \E f \in {cmd_flags
       \cup (IF "EOC" \in chip.status THEN {"CMD_READY"} ELSE {})
       \cup (IF "EOC" \in chip.status /\ {"CMD_READY", "SCMD_ACTIVE"} \subseteq cmd_flags
             THEN {"SCMD_READY"} ELSE {})
       \cup (IF "BRS" \in chip.status THEN {"BRS_READY"} ELSE {})} :
       EventRest(f, sd_err, FALSE, FALSE, FALSE)
  /\ UNCHANGED <<sd_req, sd_err, no_dma, clk, sd_used>>

\* tifm_sd_card_event() with an error.  What else the status says of the command is
\* acknowledged and never looked at.  If there is a stop command that has not been
\* sent, the rest of the handler is skipped.
ErrorEvent ==
  /\ Raised /\ sd_req # None /\ {"CTO", "DTO"} \cap chip.status # {}
  /\ \E active \in {sd_req.stop /\ Has("SCMD_ACTIVE", cmd_flags)} :
     \E e \in {[cmd  |-> IF active THEN sd_err.cmd ELSE "CTO" \in chip.status,
                data |-> sd_err.data \/ (HasData(sd_req) /\ "DTO" \in chip.status),
                stop |-> IF active THEN "CTO" \in chip.status ELSE sd_err.stop]},
        f \in {IF active THEN cmd_flags \cup {"SCMD_READY"} ELSE cmd_flags} :
       /\ sd_err' = e
       /\ EventRest(f, e, TRUE, sd_req.stop /\ ~active,
                    "EOC" \in chip.status /\ ~Has("CMD_READY", cmd_flags))
  /\ UNCHANGED <<sd_req, no_dma, clk, sd_used>>

-----------------------------------------------------------------------------
(* The end of a request, the timer, the clock, sleep and removal.          *)

\* Mutant: the request stays with the host.
EndCmdKept ==
  /\ soft.runs /\ soft' = [soft EXCEPT !.runs = FALSE, !.armed = FALSE] /\ dma' = <<>>
  /\ UNCHANGED <<sd_req, sd_err, cmd_flags, place, words, no_dma, clk, chip, hidden, sd_used>>

Rest == <<sd_err, cmd_flags, place, words, no_dma, hidden, sd_used>>

\* The tasklet starts: from here on it can be scheduled again.
TaskletRuns ==
  /\ soft.tasklet /\ ~soft.runs /\ soft' = [soft EXCEPT !.tasklet = FALSE, !.runs = TRUE]
  /\ UNCHANGED <<sd_req, dma, clk, chip, Rest>>

\* tifm_sd_end_cmd()
EndCmd ==
  /\ soft.runs /\ soft' = [soft EXCEPT !.runs = FALSE, !.armed = FALSE]
  /\ sd_req' = None /\ dma' = <<>>
  /\ UNCHANGED <<clk, chip, Rest>>

TimerExpires ==
  /\ soft.armed /\ soft' = [soft EXCEPT !.armed = FALSE, !.expired = TRUE]
  /\ UNCHANGED <<sd_req, dma, clk, chip, Rest>>

\* tifm_sd_abort(), for whatever request there is by now: the adapter will remove the
\* card.  A timer that expired while its request ended may find none: its message then reads
\* through NULL (tifm_sd.c:783).  That run ends there, and is not followed.
Abort ==
  /\ soft.expired /\ sd_req # None
  /\ soft' = [soft EXCEPT !.expired = FALSE, !.life = IF @ = "on" THEN "eject" ELSE @]
  /\ UNCHANGED <<sd_req, dma, clk, chip, Rest>>

\* A divider of tifm_sd_ios()
Divider(freq, clock) ==
  LET d == IF freq \div clock = 0 THEN 1 ELSE freq \div clock
  IN  IF freq \div d > clock THEN d + 1 ELSE d

\* tifm_sd_ios(): the faster of the two clocks; CLKMASK has ten bits.  No request
\* depends on it, so that it is enough to call it when there are no more requests.
Ios ==
  /\ soft.life = "on" /\ sd_req = None /\ sd_used.requests = MaxSdRequests
  /\ \E clock \in Clocks \ {clk.want} :
       LET d1 == Divider(20000000, clock)
           d2 == Divider(24000000, clock)
       IN clk' = IF clock = 0 THEN [clk EXCEPT !.div = 0, !.want = 0]
                 ELSE IF 20000000 \div d1 > 24000000 \div d2
                 THEN [freq |-> 20000000, div |-> d1 % 1024, want |-> clock]
                 ELSE [freq |-> 24000000, div |-> d2 % 1024, want |-> clock]
  /\ UNCHANGED <<sd_req, dma, soft, chip, Rest>>

\* mmc_suspend_host(), tifm_sd_resume(): the controller is set up again, or it fails to.
Sleep ==
  /\ soft.life = "on" /\ sd_req = None /\ ~soft.eject /\ sd_used.faults < MaxSdFaults
  /\ sd_used' = [sd_used EXCEPT !.faults = @ + 1]
  /\ chip' = Quiet /\ clk' = [freq |-> 20000000, div |-> 61, want |-> 0]
  /\ soft' \in {soft, [soft EXCEPT !.eject = TRUE]}
  /\ UNCHANGED <<sd_req, sd_err, cmd_flags, place, dma, words, no_dma, hidden>>

\* tifm_sd_remove(): no events from here on.
RemoveCard ==
  /\ soft.life \in {"on", "eject"} /\ (soft.life = "on" => sd_used.faults < MaxSdFaults)
  /\ soft' = [soft EXCEPT !.life = "kill", !.eject = TRUE]
  /\ UNCHANGED <<sd_req, dma, clk, chip, Rest>>

\* tasklet_kill() has waited for the tasklet; what is left is ended with an error.
RemoveKill ==
  /\ soft.life = "kill" /\ ~soft.tasklet /\ ~soft.runs
  /\ soft' = [soft EXCEPT !.life = "end", !.tasklet = sd_req # None]
  /\ sd_err' = IF sd_req = None THEN sd_err
               ELSE [sd_err EXCEPT !.cmd = TRUE, !.stop = sd_req.stop]
  /\ UNCHANGED <<sd_req, cmd_flags, place, dma, words, no_dma, clk, chip, hidden, sd_used>>

\* mmc_remove_host() has waited for the request.
RemoveFree ==
  /\ soft.life = "end" /\ sd_req = None /\ soft' = [soft EXCEPT !.life = "gone"]
  /\ UNCHANGED <<sd_req, dma, clk, chip, Rest>>

-----------------------------------------------------------------------------
(* The controller and the card.                                            *)

Latch(c, bits) == [c EXCEPT !.status = @ \cup bits]
Fault == sd_used.faults < MaxSdFaults /\ sd_used' = [sd_used EXCEPT !.faults = @ + 1]
Works == soft.life \in {"on", "eject"} /\ sd_req # None
Wire  == Total(sd_req.sg)
Same  == UNCHANGED <<sd_req, sd_err, cmd_flags, place, words, no_dma, clk, soft, hidden>>

\* It answers the command, or the stop command; after a write the card is busy.
Answer ==
  /\ Works /\ chip.cmd # "none" /\ UNCHANGED <<dma, sd_used>> /\ Same
  /\ chip' = [Latch(chip, {"EOC"}) EXCEPT
                !.cmd = "none",
                !.phase = IF chip.cmd = "cmd" /\ HasData(sd_req) THEN "on" ELSE @,
                !.busy = IF chip.cmd = "stop" /\ sd_req.dir = "write" /\ @ = "no"
                         THEN "soon" ELSE @]

Refuse ==
  /\ Works /\ chip.cmd # "none" /\ Fault /\ UNCHANGED dma /\ Same
  /\ chip' = [Latch(chip, {"CTO"}) EXCEPT !.cmd = "none"]

DmaRuns ==
  /\ Works /\ dma # <<>> /\ chip.phase \in {"on", "over"} /\ dma' = <<>>
  /\ chip' = [chip EXCEPT !.wire = @ + dma[1].bytes, !.fifo_ready = TRUE]
  /\ UNCHANGED sd_used /\ Same

CanFill  == no_dma /\ sd_req.dir = "read" /\ chip.phase = "on" /\ chip.wire < Wire
            /\ chip.fifo < FifoSize
CanDrain == no_dma /\ sd_req.dir = "write" /\ chip.phase = "on" /\ chip.wire < Wire
            /\ (chip.fifo > 0 \/ "AE" \notin chip.status)
Fill ==
  /\ Works /\ CanFill /\ UNCHANGED <<dma, sd_used>> /\ Same
  /\ LET n == IF Wire - chip.wire < FifoSize - chip.fifo THEN Wire - chip.wire
              ELSE FifoSize - chip.fifo
     IN chip' = [Latch(chip, IF chip.fifo + n = FifoSize THEN {"AF"} ELSE {})
                   EXCEPT !.wire = @ + n, !.fifo = @ + n]

Drain ==
  /\ Works /\ CanDrain /\ UNCHANGED <<dma, sd_used>> /\ Same
  /\ chip' = [Latch(chip, {"AE"}) EXCEPT !.wire = @ + chip.fifo, !.fifo = 0]

\* All blocks have gone through the controller; what was read may still be on its way.
CanEnd == /\ chip.phase = "on"
          /\ Wire = chip.wire + IF dma # <<>> /\ sd_req.dir = "read" THEN dma[1].bytes ELSE 0
BlocksDone ==
  /\ Works /\ CanEnd /\ UNCHANGED <<dma, sd_used>> /\ Same
  /\ chip' = [Latch(chip, {"BRS"}) EXCEPT
                !.phase = "over", !.busy = IF sd_req.dir = "write" THEN "soon" ELSE @]

\* A write may time out because the card is busy for too long.
DataFails ==
  /\ Works /\ chip.phase = "on" /\ Fault /\ UNCHANGED dma /\ Same
  /\ chip' \in {[Latch(chip, {"DTO"}) EXCEPT !.phase = "dead", !.busy = b] :
                 b \in {chip.busy, IF sd_req.dir = "write" THEN "soon" ELSE "no"}}

Silence ==
  /\ Works /\ (chip.cmd # "none" \/ chip.phase = "on") /\ Fault /\ UNCHANGED dma /\ Same
  /\ chip' = [chip EXCEPT !.cmd = "none", !.phase = "dead", !.silent = TRUE]

Busy ==
  /\ soft.life # "gone" /\ chip.busy # "no" /\ UNCHANGED <<dma, sd_used>> /\ Same
  /\ chip' = [Latch(chip, IF chip.busy = "soon" THEN {"CB"} ELSE {"EOFB"})
                EXCEPT !.busy = IF @ = "soon" THEN "yes" ELSE "no"]

Chip == \/ Answer \/ Refuse \/ DmaRuns \/ Fill \/ Drain \/ BlocksDone \/ DataFails
        \/ Silence \/ Busy

Next == \/ RequestFails \/ Request \/ DataEvent \/ StrayEvent \/ CardEvent \/ ErrorEvent
        \/ TaskletRuns \/ EndCmd \/ TimerExpires \/ Abort \/ Ios \/ Sleep
        \/ RemoveCard \/ RemoveKill \/ RemoveFree \/ Chip

\* The timer and the tasklet run, the adapter removes the card it was asked to eject,
\* and the thread that removes it goes on.  Nothing is asked of the card.
Fairness ==
  /\ WF_sd_vars(TaskletRuns) /\ WF_sd_vars(EndCmd)
  /\ WF_sd_vars(TimerExpires) /\ WF_sd_vars(Abort)
  /\ WF_sd_vars(RemoveCard /\ soft.life = "eject") /\ WF_sd_vars(RemoveKill)

Spec == Init /\ [][Next]_sd_vars /\ Fairness

-----------------------------------------------------------------------------
(* Properties.                                                             *)

TypeOK ==
  /\ sd_req \in SdRequests \cup {None} /\ sd_err \in [{"cmd", "data", "stop"} -> BOOLEAN]
  /\ cmd_flags \subseteq {"CMD_READY", "FIFO_READY", "BRS_READY", "SCMD_ACTIVE", "SCMD_READY",
                          "CARD_BUSY", "DATA_CARRY"}
  /\ place.seg \in Nat \ {0} /\ place.pos \in Nat /\ Len(dma) <= 1
  /\ chip.fifo \in 0 .. FifoSize /\ clk.div \in 0 .. 1023
  /\ soft.life \in {"on", "eject", "kill", "end", "gone"}

\* What the DMA moves next, or the place a carried block belongs to, is where the
\* transfer is; and what went through the FIFO is what was taken from the segments.
DataInPlace ==
  sd_req # None /\ chip.phase \in {"on", "over"} =>
    LET at == IF AtEnd(sd_req.sg, place) THEN Wire ELSE Lin(sd_req.sg, place)
        carried == IF Has("DATA_CARRY", cmd_flags) THEN 1 ELSE 0
    IN IF no_dma
       THEN 2 * words = (IF sd_req.dir = "read" THEN at + carried ELSE at - carried)
       ELSE /\ dma # <<>> => /\ dma[1].from = chip.wire
                             /\ dma[1].from + dma[1].bytes <= Wire
            /\ dma = <<>> => chip.wire = at + carried * BlkSz

\* A request is ended as good only when the card has answered it and all its data have
\* been moved.
GoodIsMoved ==
  (soft.tasklet \/ soft.runs) /\ sd_req # None /\ ~sd_err.cmd /\ ~sd_err.data =>
    /\ "CMD_READY" \in cmd_flags
    /\ chip.wire = Wire
    /\ AtEnd(sd_req.sg, place) \/ Lin(sd_req.sg, place) = Wire

\* If the card answers all it is asked, the timer, which ejects the card, is not needed:
\* unless an answer was acknowledged unseen, somebody always has something to do.
TimerNotNeeded ==
  sd_req # None /\ soft.life = "on" =>
    \/ soft.tasklet \/ soft.runs \/ chip.silent \/ hidden
    \/ chip.cmd # "none" \/ chip.busy # "no" \/ chip.fifo_ready
    \/ chip.status \cap Enabled # {}
    \/ dma # <<>> /\ chip.phase \in {"on", "over"}
    \/ CanFill \/ CanDrain \/ CanEnd

\* The divided clock, as the driver calculates it, is no faster than asked for.
ClockNotFaster == clk.want # 0 => clk.freq \div clk.div <= clk.want

\* Every request ends, also when the card is silent, ejected or removed.
RequestEnds == sd_req # None ~> sd_req = None
=============================================================================
