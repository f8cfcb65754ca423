------------------------------- MODULE Tifm7xx1 -------------------------------
(***************************************************************************)
(* driver/tifm_7xx1.c, with the parts of driver/tifm_core.c it relies on:  *)
(* the adapter that follows the cards in its sockets.                      *)
(*                                                                         *)
(* Five parties share struct tifm_adapter and the chip: the interrupt      *)
(* handler, the work item media_switcher, a card driver that gives up on   *)
(* its card (tifm_eject), suspend and resume, and the removal of the       *)
(* adapter.  fm->lock is a spin lock with interrupts off; what runs under  *)
(* it is one step, except for the interrupt handler, which reads the       *)
(* chip's status in one step and acknowledges it in the next, so that      *)
(* the chip may latch new bits in between.                                 *)
(*                                                                         *)
(* The chip is external.  It latches a bit of FM_INTERRUPT_STATUS when a   *)
(* card is inserted or removed, when a card or its FIFO raises an event,   *)
(* and when an occupied socket is powered up after a sleep (what finish_me *)
(* waits for).  Bit 31 of the status says that the chip asserts its line.  *)
(***************************************************************************)
EXTENDS Naturals, FiniteSetsExt

CONSTANTS Sockets,          \* 0 .. fm->num_sockets - 1
          Types,            \* media types with a driver
          NONE,             \* no card, no device
          MaxChanges,       \* bound on insertions and removals
          MaxEjects,        \* bound on the calls of tifm_eject()
          MaxSleeps,        \* bound on the number of sleeps
          MaxEvents,        \* bound on card and FIFO events
          SharedLine,       \* another device may share the interrupt line
          RegisterFails,    \* device_register() may fail
          CanRemove,        \* the adapter may be removed
          ChangeOnResume,   \* cards may change while resume runs
          SlowPowerUp,      \* a power-up event may be later than resume waits
          EjectOnRemove     \* tifm_eject() may run while the adapter is removed

ASSUME SocketAssumption == /\ Sockets \subseteq Nat /\ IsFiniteSet(Sockets)
                           /\ NONE \notin Types

VARIABLES
  card,         \* what is in each socket
  pend, ev,     \* latched: socket changed; card or FIFO event
  ev_mask,      \* sockets whose card and FIFO events may interrupt
  irq_on,       \* TIFM_IRQ_ENABLE
  powering,     \* sockets whose power-up event is still to come
  reg,          \* the device registered for each socket
  sockets, change_set, finish_me, eject,       \* struct tifm_adapter
  isr,          \* the status the interrupt handler has read
  queued,       \* media_switcher is on the work queue
  work,         \* media_switcher: where it is, what it has left, the type read
  pm,           \* suspend and resume: where it is, good_sockets, bad_sockets
  done,         \* the completion finish_me points to
  rm,           \* tifm_7xx1_remove(): where it is
  ejecting,     \* a call of fm->eject that has fetched the pointer, its socket
  used          \* how much of each bound is used up

hw   == <<pend, ev, ev_mask, irq_on, powering>>
fm   == <<sockets, change_set, finish_me, eject>>
vars == <<card, pend, ev, ev_mask, irq_on, powering, reg, sockets, change_set,
          finish_me, eject, isr, queued, work, pm, done, rm, ejecting, used>>

IdleIsr  == [at |-> "idle", sock |-> {}, ev |-> {}, line |-> FALSE]
IdleWork == [at |-> "idle", set |-> {}, todo |-> {}, media |-> NONE]
Awake    == [at |-> "awake", good |-> {}, bad |-> {}]

\* tifm_7xx1_probe() has finished: all sockets are empty as far as it knows, and
\* the chip reports each card that is already there.
Init == /\ card \in [Sockets -> Types \cup {NONE}]
        /\ pend = {s \in Sockets : card[s] # NONE} /\ ev = {} /\ ev_mask = {}
        /\ irq_on = TRUE /\ powering = {}
        /\ reg = [s \in Sockets |-> NONE] /\ sockets = reg
        /\ change_set = {} /\ finish_me = FALSE /\ eject = "tifm_7xx1_eject"
        /\ isr = IdleIsr /\ queued = FALSE /\ work = IdleWork
        /\ pm = Awake /\ done = FALSE /\ rm = "no" /\ ejecting = NONE
        /\ used = [changes |-> 0, ejects |-> 0, sleeps |-> 0, events |-> 0]

LockFree == isr.at = "idle"
Frozen   == pm.at # "awake"            \* create_freezeable_workqueue()
Handled  == rm \in {"no", "mask", "free_irq"}     \* the handler is installed
Exists   == rm # "freed"

-----------------------------------------------------------------------------
(* The chip.                                                               *)

Asserted == irq_on /\ (pend # {} \/ ev \cap ev_mask # {})

CardChange ==
  /\ used.changes < MaxChanges /\ Exists
  /\ pm.at \in {"awake", "asleep"} \/ ChangeOnResume
  /\ \E s \in Sockets, c \in Types \cup {NONE} :
       /\ (c = NONE) # (card[s] = NONE)
       /\ card' = [card EXCEPT ![s] = c]
       /\ pend' = IF pm.at = "asleep" THEN pend ELSE pend \cup {s}
  /\ used' = [used EXCEPT !.changes = @ + 1]
  /\ UNCHANGED <<ev, ev_mask, irq_on, powering, reg, fm, isr, queued, work, pm,
                 done, rm, ejecting>>

\* A card answers a command of its driver.
CardEvent ==
  /\ used.events < MaxEvents /\ pm.at # "asleep" /\ Exists
  /\ \E s \in Sockets : reg[s] # NONE /\ ev' = ev \cup {s}
  /\ used' = [used EXCEPT !.events = @ + 1]
  /\ UNCHANGED <<card, pend, ev_mask, irq_on, powering, reg, fm, isr, queued, work,
                 pm, done, rm, ejecting>>

PowerUp == /\ \E s \in powering : /\ powering' = powering \ {s}
                                  /\ pend' = pend \cup {s}
           /\ UNCHANGED <<card, ev, ev_mask, irq_on, reg, fm, isr, queued, work, pm,
                          done, rm, ejecting, used>>

-----------------------------------------------------------------------------
(* tifm_7xx1_isr()                                                         *)

IsrRead == /\ isr.at = "idle" /\ Handled /\ pm.at # "asleep"
           /\ Asserted \/ SharedLine
           /\ pend # {} \/ ev # {}           \* irq_status # 0
           /\ isr' = [at |-> "read", sock |-> pend, ev |-> ev, line |-> Asserted]
           /\ UNCHANGED <<card, hw, reg, fm, queued, work, pm, done, rm, ejecting, used>>

IsrRunMasked ==
  /\ isr.at = "read" /\ isr' = IdleIsr
  /\ pend' = pend \ isr.sock /\ ev' = ev \ isr.ev
  /\ change_set' = change_set \cup isr.sock
  /\ irq_on' = FALSE
  /\ IF finish_me THEN done' = TRUE /\ queued' = queued
     ELSE done' = done /\ queued' = (queued \/ change_set' # {})
  /\ UNCHANGED <<card, ev_mask, powering, reg, sockets, finish_me, eject, work, pm,
                 rm, ejecting, used>>

IsrRun ==
  /\ isr.at = "read" /\ isr' = IdleIsr
  /\ pend' = pend \ isr.sock /\ ev' = ev \ isr.ev
  /\ change_set' = IF isr.line THEN change_set \cup isr.sock ELSE change_set
  /\ \/ /\ finish_me
        /\ done' = TRUE
        /\ irq_on' = (irq_on /\ ~ isr.line)
        /\ queued' = queued
     \/ /\ ~ finish_me /\ change_set' = {}
        /\ irq_on' = TRUE
        /\ UNCHANGED <<done, queued>>
     \/ /\ ~ finish_me /\ change_set' # {}
        /\ irq_on' = (irq_on /\ ~ isr.line)
        /\ queued' = TRUE
        /\ done' = done
  /\ UNCHANGED <<card, ev_mask, powering, reg, sockets, finish_me, eject, work, pm,
                 rm, ejecting, used>>

-----------------------------------------------------------------------------
(* tifm_7xx1_switch_media()                                                *)

WorkFrame == UNCHANGED <<card, pend, ev, powering, finish_me, eject, isr, pm, done,
                         rm, ejecting, used>>
AtWork(a) == work.at = a /\ ~ Frozen
Cnt == Min(work.todo)     \* the loop's cnt

SwitchTakeAgain ==
  /\ AtWork("idle") /\ queued /\ LockFree
  /\ queued' = queued /\ change_set' = {}
  /\ work' = IF change_set = {} THEN IdleWork
             ELSE [at |-> "slot", set |-> change_set, todo |-> change_set, media |-> NONE]
  /\ WorkFrame /\ UNCHANGED <<ev_mask, irq_on, reg, sockets>>

\* Take the change set; nothing to do leaves the interrupt as it is.
SwitchTake ==
  /\ AtWork("idle") /\ queued /\ LockFree
  /\ queued' = FALSE /\ change_set' = {}
  /\ work' = IF change_set = {} THEN IdleWork
             ELSE [at |-> "slot", set |-> change_set, todo |-> change_set, media |-> NONE]
  /\ WorkFrame /\ UNCHANGED <<ev_mask, irq_on, reg, sockets>>

SwitchSlotLate ==
  /\ AtWork("slot") /\ work.todo # {} /\ LockFree
  /\ work' = [work EXCEPT !.at = IF sockets[Cnt] # NONE THEN "unregister" ELSE "power"]
  /\ WorkFrame /\ UNCHANGED <<sockets, ev_mask, irq_on, reg, change_set, queued>>

\* Under the lock: the slot is emptied before its device goes.
SwitchSlot ==
  /\ AtWork("slot") /\ work.todo # {} /\ LockFree
  /\ sockets' = [sockets EXCEPT ![Cnt] = NONE]
  /\ work' = [work EXCEPT !.at = IF sockets[Cnt] # NONE THEN "unregister" ELSE "power"]
  /\ WorkFrame /\ UNCHANGED <<ev_mask, irq_on, reg, change_set, queued>>

\* device_unregister(), then the power of the socket is cut
SwitchUnregister ==
  /\ AtWork("unregister")
  /\ reg' = [reg EXCEPT ![Cnt] = NONE]
  /\ work' = [work EXCEPT !.at = "power"]
  /\ WorkFrame /\ UNCHANGED <<ev_mask, irq_on, sockets, change_set, queued>>

\* tifm_7xx1_toggle_sock_power() looks for a card first, and reads the type of
\* what is there when the power is stable.
SwitchPower ==
  /\ AtWork("power")
  /\ work' = [work EXCEPT !.at = IF card[Cnt] = NONE THEN "next" ELSE "type"]
  /\ WorkFrame /\ UNCHANGED <<ev_mask, irq_on, reg, sockets, change_set, queued>>

SwitchType ==
  /\ AtWork("type")
  /\ work' = [work EXCEPT !.at = IF card[Cnt] = NONE THEN "next" ELSE "register",
                          !.media = card[Cnt]]
  /\ WorkFrame /\ UNCHANGED <<ev_mask, irq_on, reg, sockets, change_set, queued>>

\* tifm_alloc_device() and device_register(), which probes the card
SwitchRegister ==
  /\ AtWork("register")
  /\ \/ /\ reg' = [reg EXCEPT ![Cnt] = work.media]
        /\ work' = [work EXCEPT !.at = "store"]
     \/ RegisterFails /\ reg' = reg /\ work' = [work EXCEPT !.at = "next"]
  /\ WorkFrame /\ UNCHANGED <<ev_mask, irq_on, sockets, change_set, queued>>

\* The slot is still empty, unless someone else has filled it: then the new
\* device is freed.
SwitchStore ==
  /\ AtWork("store") /\ LockFree
  /\ \/ /\ sockets[Cnt] = NONE
        /\ sockets' = [sockets EXCEPT ![Cnt] = work.media] /\ reg' = reg
     \/ /\ sockets[Cnt] # NONE
        /\ reg' = [reg EXCEPT ![Cnt] = NONE] /\ sockets' = sockets
  /\ work' = [work EXCEPT !.at = "next"]
  /\ WorkFrame /\ UNCHANGED <<ev_mask, irq_on, change_set, queued>>

SwitchNextUntested ==
  /\ AtWork("next")
  /\ work' = [work EXCEPT !.at = "power", !.todo = @ \ {Cnt}, !.media = NONE]
  /\ WorkFrame /\ UNCHANGED <<ev_mask, irq_on, reg, sockets, change_set, queued>>

SwitchNext ==
  /\ AtWork("next")
  /\ work' = [work EXCEPT !.at = "slot", !.todo = @ \ {Cnt}, !.media = NONE]
  /\ WorkFrame /\ UNCHANGED <<ev_mask, irq_on, reg, sockets, change_set, queued>>

SwitchEndSilent ==
  /\ AtWork("slot") /\ work.todo = {} /\ LockFree
  /\ ev_mask' = ev_mask \cup work.set
  /\ irq_on' = irq_on
  /\ work' = IdleWork
  /\ WorkFrame /\ UNCHANGED <<reg, sockets, change_set, queued>>

\* The sockets' events may interrupt from now on, and all interrupts are on.
SwitchEnd ==
  /\ AtWork("slot") /\ work.todo = {} /\ LockFree
  /\ ev_mask' = ev_mask \cup work.set
  /\ irq_on' = TRUE
  /\ work' = IdleWork
  /\ WorkFrame /\ UNCHANGED <<reg, sockets, change_set, queued>>

Switch == SwitchTake \/ SwitchSlot \/ SwitchUnregister \/ SwitchPower \/ SwitchType
            \/ SwitchRegister \/ SwitchStore \/ SwitchNext \/ SwitchEnd

-----------------------------------------------------------------------------
(* tifm_eject(): from a card driver's timer, so at any moment its device is *)
(* registered.  The function pointer is fetched before the lock is taken.   *)

EjectCall ==
  /\ used.ejects < MaxEjects /\ ejecting = NONE /\ ~ Frozen
  /\ rm = "no" \/ (EjectOnRemove /\ Exists)
  /\ \E s \in Sockets : /\ reg[s] # NONE
                        /\ ejecting' = IF eject = "tifm_7xx1_eject" THEN s ELSE NONE
  /\ used' = [used EXCEPT !.ejects = @ + 1]
  /\ UNCHANGED <<card, hw, reg, fm, isr, queued, work, pm, done, rm>>

EjectRunUnqueued ==
  /\ ejecting # NONE /\ LockFree
  /\ change_set' = change_set \cup {ejecting}
  /\ queued' = queued /\ ejecting' = NONE
  /\ UNCHANGED <<card, hw, reg, sockets, finish_me, eject, isr, work, pm, done, rm, used>>

\* tifm_7xx1_eject()
EjectRun ==
  /\ ejecting # NONE /\ LockFree
  /\ change_set' = change_set \cup {ejecting}
  /\ queued' = TRUE /\ ejecting' = NONE
  /\ UNCHANGED <<card, hw, reg, sockets, finish_me, eject, isr, work, pm, done, rm, used>>

-----------------------------------------------------------------------------
(* tifm_7xx1_suspend() and tifm_7xx1_resume()                              *)

PmFrame == UNCHANGED <<card, reg, sockets, eject, isr, work, rm, ejecting>>

\* The work queue is frozen between two works and the cards' drivers, suspended
\* before the adapter, have no command left to time out; the chip loses its state.
Suspend ==
  /\ pm.at = "awake" /\ used.sleeps < MaxSleeps /\ rm = "no"
  /\ work.at = "idle" /\ LockFree /\ ejecting = NONE
  /\ pm' = [Awake EXCEPT !.at = "asleep"]
  /\ pend' = {} /\ ev' = {} /\ ev_mask' = {} /\ irq_on' = FALSE /\ powering' = {}
  /\ used' = [used EXCEPT !.sleeps = @ + 1]
  /\ PmFrame /\ UNCHANGED <<change_set, finish_me, queued, done>>

\* Every socket is powered up and its card's type read; a device whose card is
\* of another type now is bad.
ResumePower ==
  /\ pm.at = "asleep"
  /\ pm' = [at   |-> "lock",
            good |-> {s \in Sockets : sockets[s] # NONE /\ card[s] = sockets[s]},
            bad  |-> {s \in Sockets : sockets[s] # NONE /\ card[s] # sockets[s]}]
  /\ powering' = {s \in Sockets : card[s] # NONE}
  /\ PmFrame /\ UNCHANGED <<pend, ev, ev_mask, irq_on, change_set, finish_me, queued,
                            done, used>>

\* Under the lock: interrupts on, changes known so far forgotten.
ResumeLock ==
  /\ pm.at = "lock" /\ LockFree
  /\ irq_on' = TRUE /\ change_set' = {} /\ done' = FALSE
  /\ \/ /\ pm.good # {}
        /\ finish_me' = TRUE /\ pm' = [pm EXCEPT !.at = "wait"] /\ queued' = queued
     \/ /\ pm.good = {}
        /\ finish_me' = finish_me /\ pm' = [pm EXCEPT !.at = "enable"]
        /\ change_set' = pm.bad /\ queued' = (queued \/ pm.bad # {})
  /\ PmFrame /\ UNCHANGED <<pend, ev, ev_mask, powering, used>>

\* wait_for_completion_timeout(), then the good sockets' events are enabled.  The
\* wait of a second outlasts the power-up and its interrupt, unless SlowPowerUp.
ResumeWait ==
  /\ pm.at = "wait"
  /\ \/ done
     \/ powering = {} /\ pend = {} /\ LockFree
     \/ SlowPowerUp
  /\ ev_mask' = ev_mask \cup pm.good
  /\ pm' = [pm EXCEPT !.at = "finish"]
  /\ PmFrame /\ UNCHANGED <<pend, ev, irq_on, powering, change_set, finish_me, queued,
                            done, used>>

ResumeFinishKeep ==
  /\ pm.at = "finish" /\ LockFree
  /\ finish_me' = FALSE
  /\ change_set' = change_set \cup pm.bad
  /\ queued' = (queued \/ change_set' # {})
  /\ pm' = [pm EXCEPT !.at = "enable"]
  /\ PmFrame /\ UNCHANGED <<hw, done, used>>

ResumeFinishDangling ==
  /\ pm.at = "finish" /\ LockFree
  /\ finish_me' = finish_me
  /\ change_set' = (change_set \ pm.good) \cup pm.bad
  /\ queued' = (queued \/ change_set' # {})
  /\ pm' = [pm EXCEPT !.at = "enable"]
  /\ PmFrame /\ UNCHANGED <<hw, done, used>>

\* Under the lock: what was reported of the good sockets was their power-up.
ResumeFinish ==
  /\ pm.at = "finish" /\ LockFree
  /\ finish_me' = FALSE
  /\ change_set' = (change_set \ pm.good) \cup pm.bad
  /\ queued' = (queued \/ change_set' # {})
  /\ pm' = [pm EXCEPT !.at = "enable"]
  /\ PmFrame /\ UNCHANGED <<hw, done, used>>

ResumeEnable ==
  /\ pm.at = "enable"
  /\ irq_on' = TRUE /\ pm' = Awake
  /\ PmFrame /\ UNCHANGED <<pend, ev, ev_mask, powering, change_set, finish_me, queued,
                            done, used>>

Resume == ResumePower \/ ResumeLock \/ ResumeWait \/ ResumeFinish \/ ResumeEnable

-----------------------------------------------------------------------------
(* tifm_7xx1_remove()                                                      *)

RmFrame == UNCHANGED <<card, sockets, change_set, finish_me, isr, queued, work, pm, done,
                       ejecting, used>>

RemoveDummies == /\ CanRemove /\ rm = "no" /\ pm.at = "awake"
                 /\ ejecting = NONE \/ EjectOnRemove
                 /\ eject' = "tifm_7xx1_dummy_eject" /\ rm' = "mask"
                 /\ RmFrame /\ UNCHANGED <<hw, reg>>

RemoveMask == /\ rm = "mask" /\ rm' = "free_irq"
              /\ irq_on' = FALSE /\ ev_mask' = {}
              /\ RmFrame /\ UNCHANGED <<pend, ev, powering, reg, eject>>

\* free_irq() waits for the handler to return.
RemoveIrq == /\ rm = "free_irq" /\ LockFree /\ rm' = "flush"
             /\ RmFrame /\ UNCHANGED <<hw, reg, eject>>

RemoveFlushNot == /\ rm = "flush"
                  /\ rm' = "unregister"
                  /\ RmFrame /\ UNCHANGED <<hw, reg, eject>>

\* flush_workqueue() in tifm_remove_adapter()
RemoveFlush == /\ rm = "flush" /\ ~ queued /\ work.at = "idle"
               /\ rm' = "unregister"
               /\ RmFrame /\ UNCHANGED <<hw, reg, eject>>

RemoveDevices == /\ rm = "unregister" /\ rm' = "freed"
                 /\ reg' = [s \in Sockets |-> IF sockets[s] # NONE THEN NONE ELSE reg[s]]
                 /\ RmFrame /\ UNCHANGED <<hw, eject>>

Remove == RemoveDummies \/ RemoveMask \/ RemoveIrq \/ RemoveFlush \/ RemoveDevices

-----------------------------------------------------------------------------

Next == CardChange \/ CardEvent \/ PowerUp \/ IsrRead \/ IsrRun \/ Switch
          \/ EjectCall \/ EjectRun \/ Suspend \/ Resume \/ Remove

Spec == Init /\ [][Next]_vars

\* Interrupts are served, the work queue runs, calls return; cards, sleeps and
\* removals need not happen, but what has begun is carried on.
FairSpec == Spec /\ WF_vars(IsrRead) /\ WF_vars(IsrRun) /\ WF_vars(Switch)
                 /\ WF_vars(EjectRun) /\ WF_vars(Resume) /\ WF_vars(PowerUp)
                 /\ WF_vars(Remove /\ rm # "no")

-----------------------------------------------------------------------------
(* Properties.                                                             *)

IsrType  == [at : {"idle", "read"}, sock : SUBSET Sockets, ev : SUBSET Sockets,
             line : BOOLEAN]
WorkType == [at : {"idle", "slot", "unregister", "power", "type", "register", "store",
                   "next"},
             set : SUBSET Sockets, todo : SUBSET Sockets, media : Types \cup {NONE}]
PmType   == [at : {"awake", "asleep", "lock", "wait", "finish", "enable"},
             good : SUBSET Sockets, bad : SUBSET Sockets]

\* The variables hold values of their types; past the head of its loop the work
\* item has a socket to work on.
TypeOK ==
  /\ card \in [Sockets -> Types \cup {NONE}]
  /\ pend \subseteq Sockets /\ ev \subseteq Sockets /\ ev_mask \subseteq Sockets
  /\ powering \subseteq Sockets /\ irq_on \in BOOLEAN
  /\ reg \in [Sockets -> Types \cup {NONE}]
  /\ sockets \in [Sockets -> Types \cup {NONE}]
  /\ change_set \subseteq Sockets /\ finish_me \in BOOLEAN
  /\ eject \in {"tifm_7xx1_eject", "tifm_7xx1_dummy_eject"}
  /\ isr \in IsrType /\ queued \in BOOLEAN
  /\ work \in WorkType /\ (work.at \notin {"idle", "slot"} => work.todo # {})
  /\ pm \in PmType /\ done \in BOOLEAN
  /\ rm \in {"no", "mask", "free_irq", "flush", "unregister", "freed"}
  /\ ejecting \in Sockets \cup {NONE}
  /\ used \in [changes : Nat, ejects : Nat, sleeps : Nat, events : Nat]

\* While the interrupt handler is installed a slot never points to a device that
\* has been unregistered, so that no event is passed to one.
SlotRegistered == Handled => \A s \in Sockets : sockets[s] # NONE => reg[s] = sockets[s]

\* Interrupts are off only for as long as someone is going to turn them on.
IrqComesBack == rm = "no" /\ ~ irq_on =>
                  queued \/ work.at # "idle" \/ Frozen

\* A recorded change is going to be acted upon.
ChangeQueued == rm = "no" /\ change_set # {} => queued \/ pm.at \in {"asleep", "lock", "wait", "finish"}

\* The completion on resume's stack is not used after resume has returned.
CompletionLives == finish_me => pm.at \in {"wait", "finish"}

\* When cards are left alone, each card gets a device and no empty socket has one.
Matched  == \A s \in Sockets : sockets[s] = card[s] /\ reg[s] = card[s]
CardSeen == []<>(rm # "no" \/ Frozen \/ Matched)

\* When the wait of resume ends, all it waits for has come: the chip has reported the
\* power-up of each good socket, and the handler has seen it.  The code does not see to
\* that: one interrupt completes the wait, of whichever socket or, on a shared line, of
\* another device, and so does the time.
PowerUpsSeen == pm.at = "finish" => pm.good \cap (powering \cup pend) = {}

\* A card that stays in its socket keeps its device over a sleep.
KeepsDevice ==
  [][\A s \in Sockets :
       used.changes = 0 /\ used.ejects = 0 /\ rm' = "no" /\ reg[s] # NONE
         => reg'[s] = reg[s]]_vars

\* Removal ends, and leaves no device and no work behind.
RemoveEnds  == rm # "no" ~> rm = "freed"
NothingLeft == rm = "freed" => /\ \A s \in Sockets : reg[s] = NONE
                               /\ ~ queued /\ work.at = "idle"

=============================================================================
