------------------------------ MODULE Jmb38xMs ------------------------------
(***************************************************************************)
(* driver/jmb38x_ms.c: the JMicron MemoryStick host, under the core of     *)
(* Memstick.                                                               *)
(*                                                                         *)
(* Here the timer ends the request itself.  Its handler waits for the      *)
(* host's lock, and del_timer() does not wait for the handler: by the time *)
(* it has the lock, the request it was started for may be over.  The       *)
(* controller latches its events; what is latched when a TPC is given up   *)
(* is still there when the next one is issued.                             *)
(***************************************************************************)
EXTENDS Memstick

IsJmb == life.chip = "jmb38x_ms"

Dma(c) == mrq[c].tpc = "io"                \* short data go through registers

\* jmb38x_ms_issue_cmd(): no media, host ejected, or a mapping that fails.
JmbIssueFails ==
  /\ IsJmb /\ host.lock = "issue"
  /\ mrq' = [mrq EXCEPT ![host.req].error = TRUE]
  /\ host' = [host EXCEPT !.lock = "next"] /\ tries' = tries + 1
  /\ UNCHANGED <<alloc, card, regd, next_request, mrq_complete, retries, request,
                 check, drv, hw, life, used>>

\* Mutant: the timer is not started.
JmbIssueUntimed ==
  /\ IsJmb /\ host.lock = "issue" /\ ~host.eject
  /\ mrq' = [mrq EXCEPT ![host.req].error = FALSE]
  /\ host' = [host EXCEPT !.lock = "free", !.flags = {}]
  /\ hw' = [hw EXCEPT !.togo = {"EOTPC"} \cup IF Dma(host.req) THEN {"EOTRAN"} ELSE {}]
  /\ tries' = tries + 1
  /\ UNCHANGED <<alloc, card, regd, next_request, mrq_complete, retries, request,
                 check, drv, life, used>>

JmbIssue ==
  /\ IsJmb /\ host.lock = "issue" /\ ~host.eject
  /\ mrq' = [mrq EXCEPT ![host.req].error = FALSE]
  /\ host' = [host EXCEPT !.lock = "free", !.armed = TRUE, !.flags = {}]
  /\ hw' = [hw EXCEPT !.togo = {"EOTPC"} \cup IF Dma(host.req) THEN {"EOTRAN"} ELSE {}]
  /\ tries' = tries + 1
  /\ UNCHANGED <<alloc, card, regd, next_request, mrq_complete, retries, request,
                 check, drv, life, used>>

-----------------------------------------------------------------------------
(* The controller.                                                         *)

JmbRaise ==
  /\ IsJmb /\ Awake /\ ~host.tasklet
  /\ \E e \in hw.togo : \/ hw' = [togo |-> hw.togo \ {e}, irq |-> hw.irq \cup {e}]
                        \/ hw' = [togo |-> {}, irq |-> hw.irq \cup {"ERR"}]
                        \/ hw' = [togo |-> {}, irq |-> hw.irq]
  /\ UNCHANGED <<core, request, check, drv, host, tries, life, used>>

JmbMediaChange ==
  /\ IsJmb /\ Awake /\ used.changes < MaxChanges
  /\ used' = [used EXCEPT !.changes = @ + 1]
  /\ hw' = [hw EXCEPT !.irq = @ \cup {"MEDIA"}]
  /\ UNCHANGED <<core, request, check, drv, host, tries, life>>

-----------------------------------------------------------------------------
(* Interrupt, timer, tasklet.                                              *)

\* What EOTPC and EOTRAN say depends on how the data travel.
Flags(irq) ==
  IF "ERR" \in irq THEN {}
  ELSE (IF "EOTRAN" \in irq THEN {"FIFO"} ELSE {}) \cup
       (IF "EOTPC" \notin irq THEN {}
        ELSE IF Dma(host.req) THEN {"CMD"} ELSE {"CMD", "FIFO"})

\* jmb38x_ms_isr()
JmbIsr ==
  /\ IsJmb /\ Awake /\ LockFree /\ hw.irq # {}
  /\ hw' = [hw EXCEPT !.irq = {}]
  /\ check' = [check EXCEPT !.queued = @ \/ "MEDIA" \in hw.irq]
  /\ IF host.req = None
     THEN UNCHANGED <<mrq, host>>
     ELSE LET error == "ERR" \in hw.irq
              flags == host.flags \cup Flags(hw.irq)
              over  == error \/ {"CMD", "FIFO"} \subseteq flags
          IN /\ mrq' = [mrq EXCEPT ![host.req].error = error]
             /\ host' = [host EXCEPT !.flags = IF over THEN {} ELSE flags, !.armed = @ /\ ~over,
                                     !.lock = IF over THEN "next" ELSE @]
  /\ UNCHANGED <<alloc, card, regd, next_request, mrq_complete, retries, request,
                 drv, tries, life, used>>

JmbExpire ==
  /\ IsJmb /\ Awake /\ host.armed /\ ~host.tasklet
  /\ host' = [host EXCEPT !.armed = FALSE, !.expired = TRUE]
  /\ UNCHANGED <<core, request, check, drv, hw, tries, life, used>>

\* jmb38x_ms_abort(), when it has got the lock
JmbAbort ==
  /\ IsJmb /\ Awake /\ host.expired /\ LockFree
  /\ IF host.req = None
     THEN /\ host' = [host EXCEPT !.expired = FALSE]
          /\ UNCHANGED mrq
     ELSE /\ host' = [host EXCEPT !.expired = FALSE, !.armed = FALSE, !.lock = "next"]
          /\ mrq' = [mrq EXCEPT ![host.req].error = TRUE]
  /\ UNCHANGED <<alloc, card, regd, next_request, mrq_complete, retries, request,
                 check, drv, hw, tries, life, used>>

\* jmb38x_ms_req_tasklet()
JmbTasklet ==
  /\ IsJmb /\ Awake /\ LockFree /\ host.tasklet
  /\ host' = [host EXCEPT !.tasklet = FALSE,
                          !.lock = IF host.req = None THEN "next" ELSE "free"]
  /\ UNCHANGED <<core, request, check, drv, hw, tries, life, used>>

-----------------------------------------------------------------------------
(* jmb38x_ms_remove()                                                      *)

JmbRemove ==
  /\ IsJmb /\ CanRemove /\ Awake /\ life.rm = "no"
  /\ life' = [life EXCEPT !.rm = "flush"]
  /\ host' = [host EXCEPT !.eject = TRUE]
  /\ UNCHANGED <<core, request, check, drv, hw, tries, used>>

JmbRemoved == IsJmb /\ RemoveHost("flush", "irq_off")

JmbGone ==
  /\ IsJmb /\ life.rm = "irq_off" /\ life' = [life EXCEPT !.rm = "gone"]
  /\ UNCHANGED <<core, request, check, drv, host, hw, tries, used>>
=============================================================================
