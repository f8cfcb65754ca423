------------------------------ MODULE CardsParts ------------------------------
(* Three components that share no state: block requests on a MemoryStick Pro (Pro),  *)
(* how such a card is identified (Ini), and the slots of the JMicron adapter (Jm).   *)

CONSTANTS Shapes, MaxRequests, MaxBusy, MaxFaults,
          Media, HostCaps, PageSize, MaxAttributes, MaxErrors, MaxOpens, MaxSleeps, Unknown,
          MaxSlots, OneThread, MaxSets

VARIABLES
  queue, has_request, block_req, handler, mrq, at, pos, auto_int, card, false_ok,
  mrq_complete, used,
  stage, caller, medium, state, system, host_if, card_if, caps, attrs, buffer, disk, read_only,
  active, usage_count, openers, refused, freed, transfers, errors, opens, sleeps,
  jm_at, why, host_cnt, cnt, jm_held, pins, mode, delay, seen, asleep, sets

Pro == INSTANCE MsproBlock
Ini == INSTANCE MsproInit
Jm  == INSTANCE JmbAdapter WITH at <- jm_at, held <- jm_held

\* mspro_block.c: the driver's place is the card's, what it ends as good has been moved,
\* and nobody is woken while a request is on its way.
PagesInStep == Pro!PagesInStep

\* mspro_block.c: what a card is identified by is what it holds, in the mode the host is
\* in, and is kept until the last user of the disk is gone.
IdentityKept == Ini!IdentityKept
=============================================================================
