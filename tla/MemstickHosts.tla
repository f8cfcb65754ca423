---------------------------- MODULE MemstickHosts ----------------------------
(***************************************************************************)
(* The MemoryStick core with one of its two hosts, and the properties of   *)
(* the whole.                                                              *)
(***************************************************************************)
EXTENDS TifmMs, Jmb38xMs

Next ==
  \/ NextReq \/ Check \/ IoSubmit \/ Suspend \/ Resume
  \/ TifmIssueFails \/ TifmIssue \/ TifmCardEvent \/ TifmDataEvent \/ TifmSilence
  \/ TifmAbort \/ TifmTasklet \/ TifmRemove \/ TifmDrain \/ TifmGone
  \/ JmbIssueFails \/ JmbIssue \/ JmbRaise \/ JmbMediaChange \/ JmbIsr \/ JmbExpire
  \/ JmbAbort \/ JmbTasklet \/ JmbRemove \/ JmbRemoved \/ JmbGone

\* What the system does by itself: the holder of a spin lock goes on, a pending tasklet or
\* interrupt is served, a timer expires, the work queue runs its work, a system that sleeps
\* is woken, and the thread that removes a host goes on.
System ==
  \/ NextReq \/ TifmIssue \/ TifmIssueFails \/ JmbIssue \/ JmbIssueFails
  \/ TifmTasklet \/ JmbTasklet \/ JmbIsr \/ JmbExpire \/ JmbAbort \/ TifmAbort
  \/ Check \/ Resume \/ TifmDrain \/ TifmGone \/ JmbRemoved \/ JmbGone
  \/ (TifmRemove /\ host.expired)

\* Something of it happens as long as anything can.
Fairness == WF_vars(System)

Spec == Init /\ [][Next]_vars /\ Fairness

-----------------------------------------------------------------------------
\* jmb38x_ms_remove() may free the host's card under its request and under a check of
\* the media; what is left after that is not looked at.
Intact == IsTifm \/ life.rm \in {"no", "flush"}

\* Types of the core's and the hosts' state.
TypeOK ==
  /\ alloc \subseteq Cards
  /\ {card, regd, host.req, check.new, check.old} \subseteq Cards \cup {None}
  /\ next_request \in [Cards -> {"none", "rw_addr", "dev_id", "io", "bad"}]
  /\ mrq \in [Cards -> [tpc : {"none", "rw_addr", "dev_id", "io"}, error : BOOLEAN]]
  /\ mrq_complete \in [Cards -> BOOLEAN] /\ retries \in 0 .. CmdRetries
  /\ request \in {"submit", "dummy"} /\ host.lock \in {"free", "next", "issue"}
  /\ check.at \in {"idle", "stop", "alloc", "addr", "id", "none", "compare",
                   "register", "probe"}
  /\ drv.queue \in {"off", "run", "stopped"}
  /\ life.rm \in {"no", "kill", "flush", "irq_off", "gone"}

\* The request a host works on belongs to a card that is allocated: memstick_check()
\* frees a card only when the interrupt, the timer and the tasklet are done with it.
ReqAlive == Intact => host.req \in alloc \cup {None}

\* While the card's driver has a request on its way, host->card is its card, and not
\* the one memstick_alloc_card() puts there to identify it.
OwnCard == drv.has_request => card = regd /\ card \in alloc

\* A request is given to the hardware once and then as often as there are retries,
\* whoever ends it: memstick_next_req() counts them for one request, not for two.
TriesBounded == TypeOK /\ (Intact => tries <= 1 + FreshRetries)

\* Every check of the media by the work item ends, whatever the card, the timer and
\* the events still latched from an earlier request do.
CheckEnds == (IsJmb /\ Intact /\ check.at # "idle") ~> (check.at = "idle" \/ ~Intact)

\* Every request of the card's driver ends.
RequestEnds == (IsJmb /\ Intact /\ drv.has_request) ~> (~drv.has_request \/ ~Intact)

\* Both.
MemstickAnswers == CheckEnds /\ RequestEnds
=============================================================================
