------------------------------- MODULE TifmMs -------------------------------
(***************************************************************************)
(* driver/tifm_ms.c: the MemoryStick host of the TI adapter, under the     *)
(* core of Memstick.                                                       *)
(*                                                                         *)
(* The adapter's interrupt handler reports card events (the TPC has been   *)
(* executed, the card raises its interrupt, or an error) and FIFO events.  *)
(* A request is over when the events it needs have come, in any order.     *)
(* Nothing that is late is waited for: the timer asks the adapter to eject *)
(* the card, and the adapter (Tifm7xx1) then calls tifm_ms_remove().       *)
(***************************************************************************)
EXTENDS Memstick

IsTifm == life.chip = "tifm_ms"

NeedInt(c) == mrq[c].tpc = "io"            \* need_card_int

Events(c) == {"RDY", "FIFO"} \cup (IF NeedInt(c) THEN {"MSINT"} ELSE {})

\* tifm_ms_issue_cmd(); when the host is ejected, the loops of tifm_ms_remove() and
\* of the tasklet set the error themselves.  A transfer by DMA may fail to be mapped.
TifmIssueFails ==
  /\ IsTifm /\ host.lock = "issue" /\ (host.eject \/ mrq[host.req].tpc = "io")
  /\ mrq' = [mrq EXCEPT ![host.req].error = TRUE]
  /\ host' = [host EXCEPT !.lock = "next"] /\ tries' = tries + 1
  /\ UNCHANGED <<alloc, card, regd, next_request, mrq_complete, retries, request,
                 check, drv, hw, life, used>>

TifmIssue ==
  /\ IsTifm /\ host.lock = "issue" /\ ~host.eject
  /\ mrq' = [mrq EXCEPT ![host.req].error = FALSE]
  /\ host' = [host EXCEPT !.lock = "free", !.armed = TRUE, !.flags = {}]
  /\ hw' = [hw EXCEPT !.togo = Events(host.req)] /\ tries' = tries + 1
  /\ UNCHANGED <<alloc, card, regd, next_request, mrq_complete, retries, request,
                 check, drv, life, used>>

\* tifm_ms_check_status(), and tifm_ms_complete_cmd() up to its loop
Finish(flags, error) ==
  LET over == error \/ Events(host.req) \subseteq flags
  IN  host' = [host EXCEPT !.flags = IF over THEN {} ELSE flags,
                           !.armed = @ /\ ~over,
                           !.lock  = IF over THEN "next" ELSE @]

TifmReady == IsTifm /\ Awake /\ LockFree /\ ~host.tasklet

\* tifm_ms_card_event()
TifmCardEvent ==
  /\ TifmReady /\ host.req # None
  /\ \E came \in SUBSET (hw.togo \cap {"RDY", "MSINT"}), error \in BOOLEAN :
       /\ hw.togo # {} /\ (came # {} \/ error)
       /\ hw' = [hw EXCEPT !.togo = IF error THEN {} ELSE @ \ came]
       /\ mrq' = [mrq EXCEPT ![host.req].error = @ \/ error]
       /\ Finish(host.flags \cup came, error)
  /\ UNCHANGED <<alloc, card, regd, next_request, mrq_complete, retries, request,
                 check, drv, tries, life, used>>

\* tifm_ms_data_event(), the one after which nothing is left to transfer
TifmDataEvent ==
  /\ TifmReady /\ host.req # None /\ "FIFO" \in hw.togo
  /\ hw' = [hw EXCEPT !.togo = @ \ {"FIFO"}]
  /\ Finish(host.flags \cup {"FIFO"}, FALSE)
  /\ UNCHANGED <<core, request, check, drv, tries, life, used>>

\* The card stops answering.
TifmSilence ==
  /\ IsTifm /\ hw.togo # {} /\ hw' = [hw EXCEPT !.togo = {}]
  /\ UNCHANGED <<core, request, check, drv, host, tries, life, used>>

\* tifm_ms_abort()
TifmAbort ==
  /\ TifmReady /\ host.armed
  /\ host' = [host EXCEPT !.armed = FALSE, !.expired = TRUE]
  /\ UNCHANGED <<core, request, check, drv, hw, tries, life, used>>

\* tifm_ms_req_tasklet()
TifmTasklet ==
  /\ IsTifm /\ Awake /\ LockFree /\ host.tasklet
  /\ host' = [host EXCEPT !.tasklet = FALSE,
                          !.lock = IF host.req = None THEN "next" ELSE "free"]
  /\ UNCHANGED <<core, request, check, drv, hw, tries, life, used>>

-----------------------------------------------------------------------------
(* tifm_ms_remove()                                                        *)

TifmRemove ==
  /\ IsTifm /\ Awake /\ life.rm = "no" /\ (CanRemove \/ host.expired)
  /\ request' = "dummy" /\ life' = [life EXCEPT !.rm = "kill"]
  /\ UNCHANGED <<core, check, drv, host, hw, tries, used>>

\* tasklet_kill() waits until the tasklet has run.
TifmDrain ==
  /\ IsTifm /\ life.rm = "kill" /\ LockFree /\ ~host.tasklet
  /\ life' = [life EXCEPT !.rm = "flush"]
  /\ IF host.req = None
     THEN /\ host' = [host EXCEPT !.eject = TRUE]
          /\ UNCHANGED mrq
     ELSE /\ host' = [host EXCEPT !.eject = TRUE, !.armed = FALSE, !.lock = "next"]
          /\ mrq' = [mrq EXCEPT ![host.req].error = TRUE]
  /\ UNCHANGED <<alloc, card, regd, next_request, mrq_complete, retries, request,
                 check, drv, hw, tries, used>>

TifmGone == IsTifm /\ LockFree /\ RemoveHost("flush", "gone")
=============================================================================
