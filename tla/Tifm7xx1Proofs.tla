---------------------------- MODULE Tifm7xx1Proofs ----------------------------
(***************************************************************************)
(* The safety of the adapter for any sockets, any number of card changes,  *)
(* events, ejects and sleeps, on a shared line or not, with registrations  *)
(* that fail and resumes that time out; and, under conditions, that a card *)
(* keeps its device over a sleep.                                          *)
(***************************************************************************)
EXTENDS Tifm7xx1, WellFoundedInduction, TLAPS

\* Where the work item holds the number of a socket it has emptied.
Emptied == {"unregister", "power", "type", "register", "store"}

\* A slot points to the device registered for its socket until the adapter goes.
SlotsTrue == rm # "freed" => \A s \in Sockets : sockets[s] # NONE => reg[s] = sockets[s]

\* The work item has emptied the slot it works on.
SlotEmptied == /\ work.at \in Emptied => sockets[Cnt] = NONE
               /\ work.at = "store" => reg[Cnt] = work.media

\* A device is in no slot only while the work item is about to unregister it, or
\* has just registered it.
DeviceHasSlot ==
  \A s \in Sockets : reg[s] # NONE /\ sockets[s] = NONE =>
                       work.at \in {"unregister", "store"} /\ s = Cnt

\* Whoever finds the interrupts off with nobody at work has left a change for
\* the work item, so that it will not return at once.
IrqHeld == rm = "no" /\ ~ irq_on /\ work.at = "idle" /\ ~ Frozen
             => queued /\ change_set # {}

\* Removal shuts down the others one after the other.
ShutDown ==
  /\ rm # "no" => pm.at = "awake"
  /\ rm \in {"flush", "unregister", "freed"} => isr.at = "idle"
  /\ rm # "no" /\ ~ EjectOnRemove => ejecting = NONE
  /\ rm \in {"unregister", "freed"} /\ ~ EjectOnRemove => ~ queued /\ work.at = "idle"
  /\ rm = "freed" /\ ~ EjectOnRemove => \A s \in Sockets : reg[s] = NONE

\* The invariant that is preserved by every step.
IInv == /\ TypeOK /\ SlotsTrue /\ SlotEmptied /\ DeviceHasSlot
        /\ IrqHeld /\ ChangeQueued /\ CompletionLives /\ ShutDown

-----------------------------------------------------------------------------
(* The loop of the work item goes through existing sockets.                *)

Less == {p \in Nat \X Nat : p[1] < p[2]}

LEMMA LessWellFounded == IsWellFoundedOn(Less, Nat)
BY NatLessThanWellFounded DEF OpToRel, Less

LEMMA MinExists ==
  ASSUME NEW S \in SUBSET Nat, S # {}
  PROVE  Min(S) \in S
<1>1. PICK s \in S : \A t \in S : <<t, s>> \notin Less
  BY LessWellFounded, WFMin
<1>2. \A t \in S : ~ (t < s)
  BY <1>1 DEF Less
<1>3. \A t \in S : s <= t
  BY <1>2
<1> QED BY <1>3 DEF Min

LEMMA CntIsSocket ==
  ASSUME TypeOK, work.todo # {}
  PROVE  Cnt \in Sockets
BY MinExists, SocketAssumption DEF Cnt, TypeOK, WorkType

-----------------------------------------------------------------------------

LEMMA InitInv == Init => IInv
<1> SUFFICES ASSUME Init PROVE IInv
  OBVIOUS
<1>1. TypeOK
  BY DEF Init, TypeOK, IdleIsr, IdleWork, Awake, IsrType, WorkType, PmType
<1>2. IInv
  BY <1>1 DEF Init, IInv, SlotsTrue, SlotEmptied, DeviceHasSlot, IrqHeld,
     ChangeQueued, CompletionLives, ShutDown, IdleIsr, IdleWork, Awake, Emptied, Frozen
<1> QED BY <1>2

\* The chip changes nothing the invariant is about, but for its own bits.
LEMMA ChipInv == IInv /\ (CardChange \/ CardEvent \/ PowerUp) => IInv'
<1> SUFFICES ASSUME IInv, CardChange \/ CardEvent \/ PowerUp PROVE IInv'
  OBVIOUS
<1>1. TypeOK'
  BY DEF IInv, TypeOK, CardChange, CardEvent, PowerUp, fm
<1>2. /\ UNCHANGED <<reg, sockets, change_set, finish_me, isr, queued, work, pm, rm,
                     ejecting, irq_on>>
  BY DEF CardChange, CardEvent, PowerUp, fm
<1> QED
  BY <1>1, <1>2 DEF IInv, SlotsTrue, SlotEmptied, DeviceHasSlot, IrqHeld, ChangeQueued,
     CompletionLives, ShutDown, Cnt, Frozen

LEMMA IsrKeepsTypes == IInv /\ (IsrRead \/ IsrRun) => TypeOK'
<1> SUFFICES ASSUME IInv, IsrRead \/ IsrRun PROVE TypeOK'
  OBVIOUS
<1>1. CASE IsrRead
  BY <1>1 DEF IInv, TypeOK, IsrRead, IsrType, Asserted, hw, fm
<1>2. CASE IsrRun
  <2>1. isr' \in IsrType
    BY <1>2 DEF IsrRun, IdleIsr, IsrType
  <2>2. change_set' \subseteq Sockets
    BY <1>2 DEF IInv, TypeOK, IsrRun, IsrType
  <2>3. irq_on' \in BOOLEAN /\ done' \in BOOLEAN /\ queued' \in BOOLEAN
    BY <1>2 DEF IInv, TypeOK, IsrRun
  <2> QED BY <1>2, <2>1, <2>2, <2>3 DEF IInv, TypeOK, IsrRun
<1> QED BY <1>1, <1>2

LEMMA IsrInv == IInv /\ (IsrRead \/ IsrRun) => IInv'
<1> SUFFICES ASSUME IInv, IsrRead \/ IsrRun PROVE IInv'
  OBVIOUS
<1>1. UNCHANGED <<reg, sockets, finish_me, work, pm, rm, ejecting>>
  BY DEF IsrRead, IsrRun, fm
<1>2. (SlotsTrue /\ SlotEmptied /\ DeviceHasSlot /\ CompletionLives)'
  BY <1>1 DEF IInv, SlotsTrue, SlotEmptied, DeviceHasSlot, CompletionLives, Cnt
<1>3. (IrqHeld /\ ChangeQueued)'
  <2>1. CASE IsrRead
    BY <2>1 DEF IInv, IrqHeld, ChangeQueued, IsrRead, hw, fm, Frozen
  <2>2. CASE IsrRun
    BY <2>2 DEF IInv, IrqHeld, ChangeQueued, CompletionLives, IsrRun, Frozen
  <2> QED BY <2>1, <2>2
<1>4. ShutDown'
  BY DEF IInv, ShutDown, IsrRead, IsrRun, IdleIsr, Handled, hw, fm
<1> QED BY IsrKeepsTypes, <1>2, <1>3, <1>4 DEF IInv

-----------------------------------------------------------------------------
(* The work item.                                                          *)

\* While a socket is in work, the loop's cnt stays, and is a socket.
LEMMA SwitchCnt ==
  ASSUME IInv,
         SwitchSlot \/ SwitchUnregister \/ SwitchPower \/ SwitchType \/ SwitchRegister
           \/ SwitchStore
  PROVE  /\ work.todo # {} /\ Cnt' = Cnt /\ Cnt \in Sockets
         /\ work'.todo = work.todo /\ work'.set = work.set
<1>1. work.todo # {} /\ work'.todo = work.todo /\ work'.set = work.set
  BY DEF IInv, TypeOK, WorkType, SwitchSlot, SwitchUnregister, SwitchPower, SwitchType,
     SwitchRegister, SwitchStore, AtWork
<1> QED BY <1>1, CntIsSocket DEF Cnt, IInv

LEMMA SwitchKeepsWork == IInv /\ Switch => work' \in WorkType
<1> SUFFICES ASSUME IInv, Switch PROVE work' \in WorkType
  OBVIOUS
<1>1. CASE SwitchTake
  BY <1>1 DEF IInv, TypeOK, WorkType, SwitchTake, IdleWork
<1>2. CASE SwitchEnd
  BY <1>2 DEF IInv, TypeOK, WorkType, SwitchEnd, IdleWork
<1>3. CASE SwitchNext
  BY <1>3 DEF IInv, TypeOK, WorkType, SwitchNext
<1>4. CASE SwitchType
  <2>1. card[Cnt] \in Types \cup {NONE}
    BY <1>4, SwitchCnt DEF IInv, TypeOK
  <2> QED BY <1>4, <2>1 DEF IInv, TypeOK, WorkType, SwitchType
<1>5. CASE SwitchSlot \/ SwitchUnregister \/ SwitchPower \/ SwitchRegister \/ SwitchStore
  BY <1>5 DEF IInv, TypeOK, WorkType, SwitchSlot, SwitchUnregister, SwitchPower,
     SwitchRegister, SwitchStore
<1> QED BY <1>1, <1>2, <1>3, <1>4, <1>5 DEF Switch

LEMMA SwitchKeepsTypes == IInv /\ Switch => TypeOK'
<1> SUFFICES ASSUME IInv, Switch PROVE TypeOK'
  OBVIOUS
<1>1. work'.at \notin {"idle", "slot"} => work'.todo # {}
  <2>1. CASE SwitchTake
    BY <2>1 DEF SwitchTake, IdleWork
  <2>2. CASE SwitchEnd
    BY <2>2 DEF SwitchEnd, IdleWork
  <2>3. CASE SwitchNext
    BY <2>3 DEF IInv, TypeOK, WorkType, SwitchNext
  <2> QED BY <2>1, <2>2, <2>3, SwitchCnt DEF Switch
<1>2. reg' \in [Sockets -> Types \cup {NONE}] /\ sockets' \in [Sockets -> Types \cup {NONE}]
  BY DEF IInv, TypeOK, WorkType, Switch, SwitchTake, SwitchSlot, SwitchUnregister,
     SwitchPower, SwitchType, SwitchRegister, SwitchStore, SwitchNext, SwitchEnd
<1>3. /\ ev_mask' \subseteq Sockets /\ irq_on' \in BOOLEAN
      /\ change_set' \subseteq Sockets /\ queued' \in BOOLEAN
  BY DEF IInv, TypeOK, WorkType, Switch, SwitchTake, SwitchSlot, SwitchUnregister,
     SwitchPower, SwitchType, SwitchRegister, SwitchStore, SwitchNext, SwitchEnd
<1>4. WorkFrame
  BY DEF Switch, SwitchTake, SwitchSlot, SwitchUnregister, SwitchPower, SwitchType,
     SwitchRegister, SwitchStore, SwitchNext, SwitchEnd
<1> QED BY SwitchKeepsWork, <1>1, <1>2, <1>3, <1>4 DEF IInv, TypeOK, WorkFrame

LEMMA SwitchSlots == IInv /\ Switch => (SlotsTrue /\ SlotEmptied /\ DeviceHasSlot)'
<1> SUFFICES ASSUME IInv, Switch PROVE (SlotsTrue /\ SlotEmptied /\ DeviceHasSlot)'
  OBVIOUS
<1> USE DEF IInv, SlotsTrue, SlotEmptied, DeviceHasSlot, Emptied, AtWork, WorkFrame
<1>1. CASE SwitchTake \/ SwitchEnd
  BY <1>1 DEF SwitchTake, SwitchEnd, IdleWork
<1>2. CASE SwitchNext
  BY <1>2 DEF SwitchNext, TypeOK, WorkType
<1>3. CASE SwitchSlot
  BY <1>3, SwitchCnt DEF SwitchSlot, TypeOK, WorkType
<1>4. CASE SwitchUnregister
  BY <1>4, SwitchCnt DEF SwitchUnregister, TypeOK, WorkType
<1>5. CASE SwitchPower \/ SwitchType
  BY <1>5, SwitchCnt DEF SwitchPower, SwitchType, TypeOK, WorkType
<1>6. CASE SwitchRegister
  BY <1>6, SwitchCnt DEF SwitchRegister, TypeOK, WorkType
<1>7. CASE SwitchStore
  BY <1>7, SwitchCnt DEF SwitchStore, TypeOK, WorkType
<1> QED BY <1>1, <1>2, <1>3, <1>4, <1>5, <1>6, <1>7 DEF Switch
LEMMA SwitchInv == IInv /\ Switch => IInv'
<1> SUFFICES ASSUME IInv, Switch PROVE IInv'
  OBVIOUS
<1>1. UNCHANGED <<pm, rm, isr, finish_me, ejecting>>
  BY DEF Switch, SwitchTake, SwitchSlot, SwitchUnregister, SwitchPower, SwitchType,
     SwitchRegister, SwitchStore, SwitchNext, SwitchEnd, WorkFrame
<1>2. (IrqHeld /\ ChangeQueued)'
  <2>1. CASE SwitchTake
    BY <1>1, <2>1 DEF IInv, IrqHeld, ChangeQueued, SwitchTake, IdleWork, Frozen, AtWork
  <2>2. CASE SwitchEnd
    BY <1>1, <2>2 DEF IInv, IrqHeld, ChangeQueued, SwitchEnd
  <2>3. CASE ~ SwitchTake /\ ~ SwitchEnd
    <3>1. work'.at # "idle" /\ UNCHANGED <<queued, change_set>>
      BY <2>3 DEF IInv, TypeOK, WorkType, Switch, SwitchSlot, SwitchUnregister,
         SwitchPower, SwitchType, SwitchRegister, SwitchStore, SwitchNext
    <3> QED BY <1>1, <3>1 DEF IInv, IrqHeld, ChangeQueued
  <2> QED BY <2>1, <2>2, <2>3
<1>3. CompletionLives'
  BY <1>1 DEF IInv, CompletionLives
<1>4. rm \in {"unregister", "freed"} => EjectOnRemove
  BY DEF IInv, ShutDown, Switch, SwitchTake, SwitchSlot, SwitchUnregister, SwitchPower,
     SwitchType, SwitchRegister, SwitchStore, SwitchNext, SwitchEnd, AtWork
<1>5. ShutDown'
  BY <1>1, <1>4 DEF IInv, ShutDown
<1> QED BY SwitchKeepsTypes, SwitchSlots, <1>2, <1>3, <1>5 DEF IInv

-----------------------------------------------------------------------------
(* A card driver that ejects its card, suspend and resume.                 *)

LEMMA EjectInv == IInv /\ (EjectCall \/ EjectRun) => IInv'
<1> SUFFICES ASSUME IInv, EjectCall \/ EjectRun PROVE IInv'
  OBVIOUS
<1>1. UNCHANGED <<card, hw, reg, sockets, finish_me, eject, isr, work, pm, done, rm>>
  BY DEF EjectCall, EjectRun, fm
<1>2. TypeOK'
  <2>1. CASE EjectCall
    BY <1>1, <2>1 DEF IInv, TypeOK, EjectCall, hw, fm
  <2>2. CASE EjectRun
    BY <1>1, <2>2, SocketAssumption DEF IInv, TypeOK, EjectRun, hw
  <2> QED BY <2>1, <2>2
<1>3. (SlotsTrue /\ SlotEmptied /\ DeviceHasSlot /\ CompletionLives)'
  BY <1>1 DEF IInv, SlotsTrue, SlotEmptied, DeviceHasSlot, CompletionLives, Cnt
<1>4. (IrqHeld /\ ChangeQueued /\ ShutDown)'
  <2>1. CASE EjectCall
    BY <1>1, <2>1 DEF IInv, TypeOK, IrqHeld, ChangeQueued, ShutDown, EjectCall, hw, fm, Frozen
  <2>2. CASE EjectRun
    BY <1>1, <2>2, SocketAssumption
       DEF IInv, TypeOK, IrqHeld, ChangeQueued, ShutDown, EjectRun, hw, Frozen
  <2> QED BY <2>1, <2>2
<1> QED BY <1>2, <1>3, <1>4 DEF IInv

LEMMA PmInv == IInv /\ (Suspend \/ Resume) => IInv'
<1> SUFFICES ASSUME IInv, Suspend \/ Resume PROVE IInv'
  OBVIOUS
<1> USE DEF Resume
<1>1. UNCHANGED <<card, reg, sockets, eject, isr, work, rm, ejecting>>
  BY DEF Suspend, ResumePower, ResumeLock, ResumeWait, ResumeFinish, ResumeEnable, PmFrame
<1>2. rm = "no"
  BY DEF IInv, ShutDown, Suspend, ResumePower, ResumeLock, ResumeWait, ResumeFinish,
     ResumeEnable
<1>3. pm' \in PmType
  BY DEF IInv, TypeOK, PmType, Awake, Suspend, ResumePower, ResumeLock, ResumeWait,
     ResumeFinish, ResumeEnable
<1>4. TypeOK'
  <2>1. CASE Suspend
    <3>1. used' \in [changes : Nat, ejects : Nat, sleeps : Nat, events : Nat]
      BY <2>1 DEF IInv, TypeOK, Suspend
    <3>2. UNCHANGED <<change_set, finish_me, queued, done>>
      BY <2>1 DEF Suspend
    <3>3. /\ pend' = {} /\ ev' = {} /\ ev_mask' = {} /\ irq_on' = FALSE
          /\ powering' = {}
      BY <2>1 DEF Suspend
    <3> QED BY <1>1, <1>3, <3>1, <3>2, <3>3 DEF IInv, TypeOK
  <2>2. CASE ResumePower
    BY <1>1, <1>3, <2>2 DEF IInv, TypeOK, ResumePower
  <2>3. CASE ResumeLock
    BY <1>1, <1>3, <2>3 DEF IInv, TypeOK, PmType, ResumeLock
  <2>4. CASE ResumeWait
    BY <1>1, <1>3, <2>4 DEF IInv, TypeOK, PmType, ResumeWait
  <2>5. CASE ResumeFinish \/ ResumeEnable
    BY <1>1, <1>3, <2>5 DEF IInv, TypeOK, PmType, ResumeFinish, ResumeEnable, hw
  <2> QED BY <2>1, <2>2, <2>3, <2>4, <2>5
<1>5. (SlotsTrue /\ SlotEmptied /\ DeviceHasSlot)'
  BY <1>1 DEF IInv, SlotsTrue, SlotEmptied, DeviceHasSlot, Cnt
<1>6. (IrqHeld /\ ChangeQueued /\ CompletionLives)'
  <2> USE DEF IInv, TypeOK, PmType, IrqHeld, ChangeQueued, CompletionLives, Frozen
  <2>1. CASE Suspend
    BY <1>1, <2>1 DEF Suspend, Awake
  <2>2. CASE ResumePower
    BY <1>1, <2>2 DEF ResumePower
  <2>3. CASE ResumeLock
    BY <1>1, <2>3 DEF ResumeLock
  <2>4. CASE ResumeWait
    BY <1>1, <2>4 DEF ResumeWait
  <2>5. CASE ResumeFinish
    BY <1>1, <2>5 DEF ResumeFinish, hw
  <2>6. CASE ResumeEnable
    BY <1>1, <2>6 DEF ResumeEnable, Awake
  <2> QED BY <2>1, <2>2, <2>3, <2>4, <2>5, <2>6
<1>7. ShutDown'
  BY <1>1, <1>2 DEF ShutDown
<1> QED BY <1>4, <1>5, <1>6, <1>7 DEF IInv

-----------------------------------------------------------------------------
(* Removal.                                                                *)

LEMMA RemoveInv == IInv /\ Remove => IInv'
<1> SUFFICES ASSUME IInv, Remove PROVE IInv'
  OBVIOUS
<1> USE DEF Remove, RmFrame
<1>1. /\ UNCHANGED <<card, sockets, change_set, finish_me, isr, queued, work, pm, done,
                     ejecting>>
      /\ rm' # "no"
  BY DEF RemoveDummies, RemoveMask, RemoveIrq, RemoveFlush, RemoveDevices
<1>2. TypeOK'
  <2>1. reg' \in [Sockets -> Types \cup {NONE}]
    BY DEF IInv, TypeOK, RemoveDummies, RemoveMask, RemoveIrq, RemoveFlush, RemoveDevices
  <2> QED
    BY <1>1, <2>1 DEF IInv, TypeOK, RemoveDummies, RemoveMask, RemoveIrq, RemoveFlush,
       RemoveDevices, hw
<1>3. (IrqHeld /\ ChangeQueued /\ CompletionLives)'
  BY <1>1 DEF IInv, IrqHeld, ChangeQueued, CompletionLives
<1>4. CASE ~ RemoveDevices
  <2>1. reg' = reg /\ rm' \notin {"no", "freed"} /\ rm # "freed"
    BY <1>4 DEF RemoveDummies, RemoveMask, RemoveIrq, RemoveFlush
  <2>2. (SlotsTrue /\ SlotEmptied /\ DeviceHasSlot)'
    BY <1>1, <2>1 DEF IInv, SlotsTrue, SlotEmptied, DeviceHasSlot, Cnt
  <2>3. ShutDown'
    BY <1>1, <1>4, <2>1 DEF IInv, ShutDown, RemoveDummies, RemoveMask, RemoveIrq,
       RemoveFlush, LockFree
  <2> QED BY <1>2, <1>3, <2>2, <2>3 DEF IInv
<1>5. CASE RemoveDevices
  <2>1. rm = "unregister" /\ rm' = "freed"
    BY <1>5 DEF RemoveDevices
  <2>2. \A s \in Sockets : reg'[s] = IF sockets[s] # NONE THEN NONE ELSE reg[s]
    BY <1>5 DEF RemoveDevices
  <2>3. (SlotsTrue /\ DeviceHasSlot)'
    BY <1>1, <2>1, <2>2 DEF IInv, SlotsTrue, DeviceHasSlot, Cnt
  <2>4. SlotEmptied'
    <3>1. CASE work.at = "store"
      <4>1. Cnt \in Sockets /\ sockets[Cnt] = NONE /\ Cnt' = Cnt
        BY <1>1, <3>1, CntIsSocket DEF IInv, TypeOK, WorkType, SlotEmptied, Emptied, Cnt
      <4> QED BY <1>1, <2>2, <4>1 DEF IInv, SlotEmptied
    <3>2. CASE work.at # "store"
      BY <1>1, <3>2 DEF IInv, SlotEmptied, Cnt
    <3> QED BY <3>1, <3>2
  <2>5. ShutDown'
    BY <1>1, <2>1, <2>2 DEF IInv, ShutDown, DeviceHasSlot
  <2> QED BY <1>2, <1>3, <2>3, <2>4, <2>5 DEF IInv
<1> QED BY <1>4, <1>5

-----------------------------------------------------------------------------

LEMMA StutterInv == IInv /\ UNCHANGED vars => IInv'
BY DEF IInv, vars, TypeOK, SlotsTrue, SlotEmptied, DeviceHasSlot, IrqHeld, ChangeQueued,
   CompletionLives, ShutDown, Cnt, Frozen

\* IInv holds in every reachable state.
THEOREM Invariant == Spec => []IInv
<1>1. IInv /\ [Next]_vars => IInv'
  BY ChipInv, IsrInv, SwitchInv, EjectInv, PmInv, RemoveInv, StutterInv DEF Next
<1> QED BY InitInv, <1>1, PTL DEF Spec

\* The types, whatever the sockets and the bounds.
THEOREM AdapterTypeOK == Spec => []TypeOK
<1>1. IInv => TypeOK
  BY DEF IInv
<1> QED BY Invariant, <1>1, PTL

\* tifm_7xx1_isr() passes events to registered devices only.
THEOREM AdapterSlotRegistered == Spec => []SlotRegistered
<1>1. IInv => SlotRegistered
  BY DEF IInv, SlotsTrue, SlotRegistered, Handled
<1> QED BY Invariant, <1>1, PTL

\* The interrupt that tifm_7xx1_isr() masks is always going to be unmasked.
THEOREM AdapterIrqComesBack == Spec => []IrqComesBack
<1>1. IInv => IrqComesBack
  BY DEF IInv, IrqHeld, IrqComesBack
<1> QED BY Invariant, <1>1, PTL

\* No change that the adapter has recorded is forgotten.
THEOREM AdapterChangeQueued == Spec => []ChangeQueued
<1>1. IInv => ChangeQueued
  BY DEF IInv
<1> QED BY Invariant, <1>1, PTL

\* finish_me never points to the stack of a resume that has returned.
THEOREM AdapterCompletionLives == Spec => []CompletionLives
<1>1. IInv => CompletionLives
  BY DEF IInv
<1> QED BY Invariant, <1>1, PTL

\* If no card driver ejects its card once removal has begun, removal leaves no
\* device registered and no work queued on an adapter that is freed.
THEOREM AdapterNothingLeft ==
  ASSUME ~ EjectOnRemove
  PROVE  Spec => []NothingLeft
<1>1. IInv => NothingLeft
  BY DEF IInv, ShutDown, NothingLeft
<1> QED BY Invariant, <1>1, PTL

-----------------------------------------------------------------------------
(* A card that stays in its socket keeps its device over a sleep, if no    *)
(* socket's power-up is later than the end of the wait of resume.          *)

\* Nobody has touched a card or given one up.
Untouched == used.changes = 0 /\ used.ejects = 0

\* What is in a slot is the card, and so is what is about to be; no work is done while
\* the work queue is frozen.
SlotIsCard ==
  /\ \A s \in Sockets : sockets[s] \in {NONE, card[s]}
  /\ work.at \in {"register", "store"} => work.media = card[Cnt]
  /\ work.at = "idle" => work.todo = {}
  /\ Frozen => work.at = "idle"
  /\ ejecting = NONE

\* What is known of a socket is in one place: it is to be powered up, the chip has latched
\* it, the driver has recorded it, or the work item has it.  What was recorded before a sleep
\* is forgotten after it.
KnownOnce ==
  /\ powering \cap pend = {} /\ isr.sock \subseteq pend
  /\ isr.at = "idle" => isr.sock = {}
  /\ (powering \cup pend \cup change_set) \cap work.todo = {}
  /\ pm.at \notin {"asleep", "lock"} => change_set \cap (powering \cup pend) = {}

\* While the chip has no state it does not interrupt.
ChipAsleep == pm.at = "asleep" => powering = {} /\ pend = {} /\ isr.at = "idle"

\* Nothing new is known of a socket whose card has its device, but for the power-up after
\* a sleep; the work item, which has just given it one, goes on to the next.
SettledKnown ==
  \A s \in Sockets : sockets[s] # NONE =>
    /\ s \in work.todo => work.at = "next" /\ s = Cnt
    /\ pm.at \in {"awake", "asleep", "enable"} => s \notin powering \cup pend \cup change_set
    /\ pm.at \in {"lock", "wait", "finish"} => s \in pm.good
    /\ pm.at = "finish" => s \notin powering \cup pend

Settled == /\ work.at # "unregister" /\ pm.bad = {}
           /\ SlotIsCard /\ KnownOnce /\ ChipAsleep /\ SettledKnown

\* The invariant of a sleep.
Kept == Untouched => Settled

\* tifm_7xx1_probe() has found nothing, and the chip reports what there is.
LEMMA KeptInit == Init => Kept
BY DEF Init, Kept, Settled, SlotIsCard, KnownOnce, ChipAsleep, SettledKnown, IdleIsr,
   IdleWork, Awake

\* Card changes and ejects are counted and never forgotten.
LEMMA StillUntouched ==
  ASSUME IInv, [Next]_vars, Untouched' PROVE Untouched
<1> USE DEF IInv, TypeOK, Untouched
<1>2. CASE used' = used \/ used' = [used EXCEPT !.sleeps = @ + 1]
            \/ used' = [used EXCEPT !.events = @ + 1]
  BY <1>2
<1>3. CASE used' = [used EXCEPT !.changes = @ + 1] \/ used' = [used EXCEPT !.ejects = @ + 1]
  BY <1>3
<1> QED
  BY <1>2, <1>3 DEF Next, CardChange, CardEvent, PowerUp, IsrRead, IsrRun, Switch, SwitchTake,
     SwitchSlot, SwitchUnregister, SwitchPower, SwitchType, SwitchRegister, SwitchStore,
     SwitchNext, SwitchEnd, WorkFrame, EjectCall, EjectRun, Suspend, Resume, ResumePower,
     ResumeLock, ResumeWait, ResumeFinish, ResumeEnable, Remove, RemoveDummies, RemoveMask,
     RemoveIrq, RemoveFlush, RemoveDevices, RmFrame, vars

\* A power-up that was awaited becomes a latched change.
LEMMA ChipKept ==
  ASSUME IInv, Settled, Untouched', CardChange \/ CardEvent \/ PowerUp PROVE Settled'
<1> USE DEF IInv, TypeOK, Untouched
<1>1. ~ CardChange
  BY DEF CardChange
<1>2. CASE CardEvent
  BY <1>2 DEF CardEvent, fm, Settled, SlotIsCard, KnownOnce, ChipAsleep, SettledKnown, Cnt, Frozen
<1>3. CASE PowerUp
  <2>1. PICK s \in powering : powering' = powering \ {s} /\ pend' = pend \cup {s}
    BY <1>3 DEF PowerUp
  <2>2. UNCHANGED <<card, ev_mask, irq_on, sockets, change_set, isr, work, pm, done, ejecting>>
    BY <1>3 DEF PowerUp, fm
  <2> QED BY <2>1, <2>2 DEF Settled, SlotIsCard, KnownOnce, ChipAsleep, SettledKnown, Cnt, Frozen
<1> QED BY <1>1, <1>2, <1>3

\* The handler moves what the chip has latched to change_set, or forgets it.
LEMMA IsrKept ==
  ASSUME IInv, Settled, IsrRead \/ IsrRun PROVE Settled'
<1> USE DEF IInv, TypeOK
<1>1. CASE IsrRead
  <2>1. UNCHANGED <<card, pend, powering, sockets, change_set, work, pm, ejecting>>
    BY <1>1 DEF IsrRead, hw, fm
  <2>2. isr'.at = "read" /\ isr'.sock = pend /\ pm.at # "asleep"
    BY <1>1 DEF IsrRead
  <2> QED
    BY <2>1, <2>2 DEF Settled, SlotIsCard, KnownOnce, ChipAsleep, SettledKnown, Cnt, Frozen
<1>2. CASE IsrRun
  <2>1. /\ isr.at = "read" /\ isr'.at = "idle" /\ isr'.sock = {}
        /\ pend' = pend \ isr.sock
        /\ change_set' \subseteq change_set \cup isr.sock
        /\ UNCHANGED <<card, powering, sockets, work, pm, ejecting>>
    BY <1>2 DEF IsrRun, IdleIsr
  <2> QED
    BY <2>1 DEF Settled, SlotIsCard, KnownOnce, ChipAsleep, SettledKnown, Cnt, Frozen
<1> QED BY <1>1, <1>2

\* The work item is never given a socket that has a device.
LEMMA SwitchKept ==
  ASSUME IInv, Settled, Switch PROVE Settled'
<1> USE DEF WorkFrame, AtWork, Frozen
<1>1. /\ pm.at = "awake"
      /\ UNCHANGED <<card, pend, powering, isr, pm, ejecting, done>>
  BY DEF Switch, SwitchTake, SwitchSlot, SwitchUnregister, SwitchPower, SwitchType,
     SwitchRegister, SwitchStore, SwitchNext, SwitchEnd
<1>2. ChipAsleep'
  BY <1>1 DEF Settled, ChipAsleep
<1>3. CASE SwitchTake
  BY <1>1, <1>2, <1>3 DEF SwitchTake, IdleWork, Settled, SlotIsCard, KnownOnce, SettledKnown
<1>4. CASE SwitchSlot \/ SwitchUnregister \/ SwitchPower \/ SwitchType \/ SwitchRegister
             \/ SwitchStore
  <2>1. /\ work.todo # {} /\ Cnt' = Cnt /\ Cnt \in Sockets /\ Cnt \in work.todo
        /\ work'.todo = work.todo
    BY <1>4, SwitchCnt, MinExists, SocketAssumption DEF IInv, TypeOK, WorkType, Cnt
  <2>2. KnownOnce' /\ work'.at # "idle" /\ work.at # "idle"
    BY <1>1, <1>4, <2>1 DEF SwitchSlot, SwitchUnregister, SwitchPower, SwitchType, SwitchRegister,
       SwitchStore, Settled, KnownOnce, IInv, TypeOK, WorkType
  <2>3. ~ SwitchUnregister
    BY DEF SwitchUnregister, Settled
  <2>4. CASE SwitchStore
    <3>1. sockets[Cnt] = NONE /\ work.at = "store" /\ work.media = card[Cnt]
      BY <2>4 DEF SwitchStore, IInv, SlotEmptied, Emptied, Settled, SlotIsCard
    <3>2. sockets' = [sockets EXCEPT ![Cnt] = card[Cnt]] /\ work'.at = "next" /\ change_set' = change_set
      BY <2>4, <3>1 DEF SwitchStore, IInv, TypeOK, WorkType
    <3>3. SettledKnown'
      BY <1>1, <2>1, <3>1, <3>2 DEF Settled, SettledKnown, KnownOnce, IInv, TypeOK
    <3>4. SlotIsCard'
      BY <1>1, <2>1, <3>1, <3>2 DEF Settled, SlotIsCard, IInv, TypeOK
    <3> QED BY <1>1, <1>2, <2>2, <3>2, <3>3, <3>4 DEF Settled
  <2>5. CASE SwitchSlot
    <3>1. work.at = "slot" /\ sockets[Cnt] = NONE
      BY <2>1, <2>5 DEF SwitchSlot, Settled, SettledKnown
    <3>2. sockets' = sockets /\ work'.at = "power" /\ change_set' = change_set
      BY <2>5, <3>1 DEF SwitchSlot, IInv, TypeOK, WorkType
    <3> QED
      BY <1>1, <1>2, <2>1, <2>2, <3>1, <3>2 DEF Settled, SlotIsCard, SettledKnown
  <2>6. CASE SwitchPower \/ SwitchType \/ SwitchRegister
    <3>1. /\ sockets' = sockets /\ change_set' = change_set /\ work.at # "next"
          /\ work'.at \in {"type", "register", "store", "next"}
          /\ work'.at \in {"register", "store"} => work'.media = card[Cnt]
      BY <2>6 DEF SwitchPower, SwitchType, SwitchRegister, IInv, TypeOK, WorkType, Settled, SlotIsCard
    <3> QED
      BY <1>1, <1>2, <2>1, <2>2, <3>1 DEF Settled, SlotIsCard, SettledKnown
  <2> QED BY <1>4, <2>3, <2>4, <2>5, <2>6
<1>5. CASE SwitchNext
  <2>1. /\ work.at = "next" /\ work'.at = "slot" /\ work'.todo = work.todo \ {Cnt}
        /\ UNCHANGED <<sockets, change_set>>
    BY <1>5 DEF SwitchNext, IInv, TypeOK, WorkType
  <2> QED BY <1>1, <1>2, <2>1 DEF Settled, SlotIsCard, KnownOnce, SettledKnown
<1>6. CASE SwitchEnd
  <2>1. work.todo = {} /\ work' = IdleWork /\ UNCHANGED <<sockets, change_set>>
    BY <1>6 DEF SwitchEnd
  <2> QED BY <1>1, <1>2, <2>1 DEF IdleWork, Settled, SlotIsCard, KnownOnce, SettledKnown
<1> QED BY <1>3, <1>4, <1>5, <1>6 DEF Switch

\* tifm_eject() is a card driver's way to give up its card.
LEMMA EjectKept ==
  ASSUME IInv, Settled, Untouched', EjectCall \/ EjectRun PROVE FALSE
BY DEF EjectCall, EjectRun, Settled, SlotIsCard, IInv, TypeOK, Untouched

\* tifm_7xx1_resume() finds each card of the type it had, waits for its power-up and drops it.
LEMMA PmKept ==
  ASSUME IInv, Settled, PowerUpsSeen', Suspend \/ Resume PROVE Settled'
<1> USE DEF PmFrame, IInv, TypeOK, PmType
<1>1. UNCHANGED <<card, sockets, isr, work, ejecting>>
  BY DEF Suspend, Resume, ResumePower, ResumeLock, ResumeWait, ResumeFinish, ResumeEnable
<1>2. work.at = "idle" /\ work.todo = {}
  BY DEF Suspend, Resume, ResumePower, ResumeLock, ResumeWait, ResumeFinish, ResumeEnable,
     Settled, SlotIsCard, Frozen
<1>3. SlotIsCard'
  BY <1>1, <1>2 DEF Settled, SlotIsCard
<1> USE DEF Settled, KnownOnce, ChipAsleep, SettledKnown
<1>4. CASE Suspend
  <2>1. /\ pm'.at = "asleep" /\ pm'.bad = {} /\ pm.at = "awake" /\ isr.at = "idle"
        /\ isr.sock = {}
        /\ pend' = {} /\ powering' = {}
        /\ change_set' = change_set
    BY <1>4 DEF Suspend, Awake, LockFree
  <2> QED BY <1>1, <1>2, <1>3, <2>1
<1>5. CASE ResumePower
  <2>1. /\ pm'.at = "lock" /\ pm.at = "asleep"
        /\ pm'.bad = {s \in Sockets : sockets[s] # NONE /\ card[s] # sockets[s]}
        /\ pm'.good = {s \in Sockets : sockets[s] # NONE /\ card[s] = sockets[s]}
        /\ UNCHANGED <<pend, change_set>>
        /\ powering' \subseteq Sockets
    BY <1>5 DEF ResumePower
  <2>2. \A s \in Sockets : sockets[s] # NONE => card[s] = sockets[s]
    BY DEF SlotIsCard
  <2>3. pm'.bad = {} /\ \A s \in Sockets : sockets[s] # NONE => s \in pm'.good
    BY <2>1, <2>2
  <2> QED BY <1>1, <1>2, <1>3, <2>1, <2>3
<1>6. CASE ResumeLock
  <2>1. /\ pm.at = "lock" /\ change_set' = {}
        /\ pm'.at \in {"wait", "enable"} /\ pm'.good = pm.good /\ pm'.bad = {}
        /\ pm'.at = "enable" => pm.good = {}
        /\ isr.at = "idle" /\ UNCHANGED <<pend, powering>>
    BY <1>6 DEF ResumeLock, LockFree
  <2> QED BY <1>1, <1>2, <1>3, <2>1
<1>7. CASE ResumeWait
  <2>1. /\ pm.at = "wait" /\ pm'.at = "finish" /\ pm'.good = pm.good /\ pm'.bad = {}
        /\ UNCHANGED <<pend, powering, change_set>>
    BY <1>7 DEF ResumeWait
  <2>2. pm'.good \cap (powering' \cup pend') = {}
    BY <2>1 DEF PowerUpsSeen
  <2> QED BY <1>1, <1>2, <1>3, <2>1, <2>2
<1>8. CASE ResumeFinish
  <2>1. /\ pm.at = "finish" /\ pm'.at = "enable" /\ pm'.bad = {}
        /\ change_set' = change_set \ pm.good
        /\ UNCHANGED <<pend, powering>>
    BY <1>8 DEF ResumeFinish, hw
  <2> QED BY <1>1, <1>2, <1>3, <2>1
<1>9. CASE ResumeEnable
  <2>1. /\ pm.at = "enable" /\ pm'.at = "awake" /\ pm'.bad = {}
        /\ UNCHANGED <<pend, powering, change_set>>
    BY <1>9 DEF ResumeEnable, Awake
  <2> QED BY <1>1, <1>2, <1>3, <2>1
<1> QED BY <1>4, <1>5, <1>6, <1>7, <1>8, <1>9 DEF Resume

\* Removal changes nothing that is known of a socket.
LEMMA RemoveKept ==
  ASSUME IInv, Settled, Remove PROVE Settled'
<1>1. UNCHANGED <<card, pend, powering, sockets, change_set, isr, work, pm, ejecting>>
  BY DEF Remove, RemoveDummies, RemoveMask, RemoveIrq, RemoveFlush, RemoveDevices, RmFrame, hw
<1> QED
  BY <1>1 DEF Settled, SlotIsCard, KnownOnce, ChipAsleep, SettledKnown, Cnt, Frozen

\* The invariant is preserved by every step.
LEMMA KeptStep ==
  ASSUME IInv, Kept, PowerUpsSeen', [Next]_vars PROVE Kept'
<1> SUFFICES ASSUME Untouched' PROVE Settled'
  BY DEF Kept
<1>1. Settled
  BY StillUntouched DEF Kept
<1>2. CASE UNCHANGED vars
  BY <1>1, <1>2 DEF vars, Settled, SlotIsCard, KnownOnce, ChipAsleep, SettledKnown, Cnt, Frozen
<1> QED
  BY <1>1, <1>2, ChipKept, IsrKept, SwitchKept, EjectKept, PmKept, RemoveKept DEF Next

\* A device that is registered stays so: the work item unregisters none, and registers one
\* only where there is none.
LEMMA DeviceKept ==
  ASSUME IInv, Kept, Next, Untouched, rm' = "no", NEW s \in Sockets, reg[s] # NONE
  PROVE  reg'[s] = reg[s]
<1> USE DEF IInv, TypeOK
<1>1. Settled
  BY DEF Kept
<1>2. CASE reg' = reg
  BY <1>2
<1>3. ~ SwitchUnregister
  BY <1>1 DEF SwitchUnregister, AtWork, Settled
<1>4. CASE SwitchRegister
  <2>1. work.at = "register" /\ (reg' = [reg EXCEPT ![Cnt] = work.media] \/ reg' = reg)
    BY <1>4 DEF SwitchRegister, AtWork
  <2>2. s # Cnt
    BY <2>1 DEF SlotEmptied, Emptied, DeviceHasSlot
  <2> QED BY <2>1, <2>2
<1>5. CASE SwitchStore
  BY <1>2, <1>5 DEF SwitchStore, AtWork, SlotEmptied, Emptied
<1>6. ~ RemoveDevices
  BY DEF RemoveDevices
<1> QED
  BY <1>2, <1>3, <1>4, <1>5, <1>6 DEF Next, CardChange, CardEvent, PowerUp, IsrRead, IsrRun,
     Switch, SwitchTake, SwitchSlot, SwitchPower, SwitchType, SwitchNext, SwitchEnd, EjectCall,
     EjectRun, Suspend, Resume, ResumePower, ResumeLock, ResumeWait, ResumeFinish,
     ResumeEnable, PmFrame, Remove, RemoveDummies, RemoveMask, RemoveIrq, RemoveFlush

\* tifm_7xx1_suspend(), tifm_7xx1_resume(): for any sockets, on a shared line or not, a card
\* that nobody has touched or given up keeps its device over any number of sleeps,
\* registrations that fail, events, and interrupts of others, until the adapter is removed: if
\* none of the power-ups resume waits for comes after its wait has ended.  Nothing else is
\* assumed of the sleeps, and of the times at all: what the code leaves to chance is this.
THEOREM AdapterKeepsDevice == Spec /\ []PowerUpsSeen => KeepsDevice
<1>1. IInv /\ Kept /\ PowerUpsSeen' /\ [Next]_vars => Kept'
  BY KeptStep
<1>2. IInv /\ Kept /\ [Next]_vars =>
        [\A s \in Sockets : used.changes = 0 /\ used.ejects = 0 /\ rm' = "no" /\ reg[s] # NONE
           => reg'[s] = reg[s]]_vars
  BY DeviceKept DEF Untouched
<1> QED BY <1>1, <1>2, KeptInit, Invariant, PTL DEF Spec, KeepsDevice
=============================================================================
